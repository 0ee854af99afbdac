# A verification project for Linux-C- (an nginx-like communication server)

This directory holds TLA+ models of the server in `src/`, TLC configurations that
check them on small instances, and TLAPS proofs of their main properties for every
instance. `PROJECT.json` lists, for a machine, what this text explains: the
components, the runs, the source lines each definition models (`map`), the hazards and
the theorems.

    tlc -config RecvPacket.cfg  MCRecvPacket        # check one run
    tlapm ThreadPoolProofs.tla                      # check the proofs of one module

## 1. The system

A master process reads the configuration, opens the listening sockets, becomes a
daemon, forks the workers and then waits for signals. Every worker starts a pool of
threads, a send thread and a recycle thread, builds a pool of connections, and then
loops over `epoll_wait`. The thread of that loop accepts connections and receives
packets; the pool's threads handle the packets; answers go to a send queue; closed
connections go to a recycle list and, after a delay, back to the pool.

| component (source) | state | operations | interacts with |
|---|---|---|---|
| start, daemon (`app/nginx.cxx`, `proc/ngx_daemon.cxx`, `net/ngx_c_socket.cxx:101-198`) | process ids, exit code, descriptors, listening sockets | `main`, `ngx_open_listening_sockets`, `ngx_daemon` | configuration, log, kernel, master |
| master (`proc/ngx_process_cycle.cxx`, `signal/ngx_signal.cxx`) | signal mask, pending signals, `errno`, `ngx_reap`, the children | start of the workers, `sigsuspend` loop, signal handler, reaping | kernel, workers |
| start of a worker (`ngx_worker_process_init`, `CThreadPool::Create`, `CSocket::Initialize_subproc`, `ngx_epoll_init`) | threads, their `ThreadItem`s and the local `shared_ptr`s that lead to them | one sequence | thread pool, sockets |
| receiving machine of a connection (`net/ngx_c_socket_request.cxx`) | `curStat`, `precvbuf`, `irecvlen`, `precvMemPointer`, `iCurrsequence` | read event, header complete, packet complete, end of file, error | thread pool, recycle list, client |
| receive thread pool (`misc/ngx_c_threadpool.cxx`) | message list, mutex, condition variable, counters, shutdown flag | post, notify, thread loop, stop | receiving machine, dispatch |
| dispatch and business handlers (`logic/ngx_c_slogic.cxx`) | none of its own | CRC check, staleness check, handler table, answer | connections, send queue |
| connection pool and recycling (`net/ngx_c_socket_conn.cxx`) | list of all, free list, recycle list, two mutexes, counters | get, free, close, recycle later | epoll loop, recycle thread |
| accept and epoll loop (`net/ngx_c_socket_accept.cxx`, `net/ngx_c_socket.cxx`) | epoll set, events, handlers of a connection | accept, dispatch of events | connection pool, receiving machine |
| send queue (`net/ngx_c_socket.cxx`) | list, semaphore, counter | `msgSend`; the thread is a stub | dispatch |
| formatting and log (`app/ngx_printf.cxx`, `app/ngx_log.cxx`) | a buffer per call, the log's descriptor and level | expand a format, end the record, write it to the console or the file | everyone |
| configuration, CRC, memory, title | tables, buffers | pure algorithms and I/O | everyone |

**The state of the repository.** At this commit the program is unfinished. It does not
compile (`emplaec_back` at `net/ngx_c_socket.cxx:221`, undeclared names at 394-405), and
if those spellings are read as they are meant, no worker reaches its event loop:
`CThreadPool::Create` dies with two threads or more, although its comment (line 43) says that
it returns true if all threads were made, and `ngx_get_connection` dereferences a moved-from
pointer for the first listening socket. `WorkerStart` models exactly that. The other
components are therefore modelled at their own interface: what
each does in the states its callers are written to put it in, every crash its own lines
can cause included. `ConnPool` has four statements both ways, as they are written and as they
are meant, under the constant `Meant`: the run `conn_pool_written` shows that the process does
not survive its first event, and `conn_pool` checks what lies behind these statements.

### What is hard here

* Concurrency: the event loop's thread, the pool's threads, the recycle thread and
  signal handlers share lists, counters and connections, some of them without a lock.
* Ordering: bytes arrive cut anywhere; signals coalesce; the staleness of a packet is
  decided by comparing numbers that change concurrently.
* Lifetime: `shared_ptr`s are moved and then used, references outlive their variable,
  objects are deleted that were never allocated.
* Failure: clients close or reset at any byte, `fork` fails, workers die.

The hazards, each at its line and with the properties that watch it, are in
`PROJECT.json`.

### What makes each component correct

* receiving machine: writes only inside its buffers; one owner for each buffer; stale
  packets are recognisable; a client that left is noticed; a packet with a body is
  handed over when the body is complete.
* thread pool: no message lost or handled twice; no lost wake-up; stop reaches everyone.
* master: the start is not disturbed; every exit of a worker is noticed; the handler
  terminates; nothing stays a zombie (which is not so: `master_zombies`).
* start of the program: it goes on with all its ports or not at all; descriptors survive
  `fork`, `dup2` and `close`; a failure leaves nothing open.
* start of a worker: everything is in place before the first event; the start ends.
* connection pool: a connection is in use, waiting or free, never two of them; a freed
  connection gets no message of its former client; the event loop survives its events and no
  thread waits for itself (which is not so: `conn_pool_written`).
* dispatch: a message is handled at most once, for the client that sent it.
* formatting and log: no write past the buffer; a line says what its format means, is cut only
  where it must be, and reaches the log whatever the log is.

## 2. The modules

| module | models | proofs |
|---|---|---|
| `RecvPacket` (+ `MCRecvPacket`) | one connection's receiving machine | `RecvPacketProofs` |
| `ThreadPool`, implementing `JobQueue` | the pool of threads | `ThreadPoolProofs` |
| `Master` | the master and its signal handlers | `MasterProofs` |
| `WorkerStart` | the start of one worker | `WorkerStartProofs` |
| `Startup` (+ `MCStartup`) | `main`, the listening sockets, the daemon | `StartupProofs` |
| `Dispatch` (+ `MCDispatch`), composed with `JobQueue` | what a pool thread does with a packet | `DispatchProofs` |
| `ConnPool`, implementing `AtomicPool` | the connection pool, the epoll loop, accepting, the recycle thread | `ConnPoolProofs` |
| `Format`, and `Log` that extends it (+ `MCLog`) | expansion of formats; the two log functions | `LogProofs` |

`ThreadPool` implements `JobQueue`, and `Dispatch` runs on `JobQueue`: what the pool promises is
proved once and used where packets are handled. `ConnPool` implements `AtomicPool`, the connection
pool without threads, mutexes and counters, in which every operation happens at once.

Definitions named `..._Something` with the comment "Mutant" are not part of a model: each
is a plausible bug, and putting it in the place of the original makes one property fail.

### RecvPacket

State: the fields of `ngx_connection_poll` under their own names; `window` is
`precvbuf`, a memory and an offset. Buffers are numbered in the order of allocation;
`heap` records for each the length of its packet and the sequence number its message
header got. A read event is one step (`ReadData`, `ReadEOF`, `ReadError`): the fields
belong to the event loop's thread. `ReadFirst` and `ReadMore` are the branches of
`ngx_read_request_handler` as compiled: the condition at line 41 assigns, so there are
two branches, not four. `proc_p1`, `proc_plast` and `inRecyConnectQueue` keep their names.
Bytes have no value except the decoded length of a complete header, any of `Lens`. The
client sends a byte at a time, so `recv` may see any cut; it closes or resets at any
time. Assigning `pConn` in uninitialised memory is a choice between nothing and a crash
(`AcceptCrashes`).

Run `recv_packet`: header of 3 bytes, array of 4, packets of at most 5, lengths 2 to 6
(below, at and above every limit), 14 bytes sent, 2 entries in the recycle list. 14 bytes are
enough for an illegal header, a packet without a body and two bodies, with the windows full
and partly full. Fairness: the read event, because epoll is level-triggered and reports a
readable socket until it is read. The client, and the pool's threads, owe nothing.

* `WindowInBounds`: the window ends where its memory ends and is never empty.
* `OneOwner`: connection, queue, pool thread, allocator exclude each other.
* `StaleIsVisible`: sequence numbers differ exactly for connections up for recycling.
* `GoneIsRecycled`: a client that leaves is noticed.

`recv_body_to_header` shows what the code does against its own comment (line 41: no packet with
a body is ever handed over). After an orderly close the socket stays open (`ReadEOF`); what
comes of that is in `ConnPool`.

### ThreadPool and JobQueue

State: the list, its counter, `m_RunningThreadNum`, `m_shutdown`, the holder of the mutex,
the set of threads in the condition variable, and where each thread is. A step is what
happens between two points another thread can see: a locked section is split only where
it releases the lock; `Start` and `Done` are apart because the counter changes outside
the mutex; the post is three steps under one lock (append, notify, report). A notified
thread must relock (`Relock`), and may be overtaken. `SpuriousWake` is a wake-up without
notification. `EnterCrashes` is the undefined read of a dangling reference at line 72. Every
thread has its own `ThreadItem`, as `Create` means it; `WorkerStart` has the one it hands over.
`StopAll` is modelled although the endless loop in
`ngx_worker_process_cycle` keeps the program from calling it at this commit.

Run `thread_pool`: 3 threads and 4 messages (more messages than threads, and more threads
than messages; one of each kind of waiting). Fairness: every thread that can run runs.
Posting, stopping and spurious wake-ups are not fair. Deadlock is checked: with no message
the pool waits, but a client may post or someone may stop it, and a dead process stutters.

* `OnePlace`: each message is once in the list, in one thread's hands, or freed.
* `EnoughAwake`: as long as a thread sleeps, at least as many are awake as messages wait.
* `ReportIsTrue`: when "no idle thread" is reported, all threads are busy.
* `Handled`, `StopEndsAll`: liveness.
* `ImplementsJobQueue`: refinement of `JobQueue`, where a message is handed out in one step,
  in order, to one worker, and none after a stop.

`thread_pool_stop`: releasing the `ThreadItem`s deletes the global pool (each holds a
`shared_ptr` to it), although the header says that they may be released once started.

### Master

State: the children as the kernel knows them, the pending signals (one instance of each),
`errno`, `ngx_reap`, whether `sigprocmask` has blocked the ten signals (it may fail, which is
logged, and the start goes on), and the handler that has ended the wait of `sigsuspend`. What is
blocked at a moment follows from these (`Mask`): the ten signals, the empty set of `sigsuspend`
and the signal it has returned for, and in the handler's loop its own signal. A handler may
interrupt the main flow wherever the mask allows, and other handlers too. The ten signals fall into
three kinds (child, only logged, fatal because without handler). A handler is one step, because
what another signal could change during it (`errno`) is covered by `AfterLog`; its loop is not
(`Spin`). In `ngx_process_get_status` the result of `waitpid` is not assigned, so `pid` is
uninitialised: the model takes -1 or another value. `shared` is a history variable: how many
workers ended while a SIGCHLD was pending already, so that two of them share one.

Run `master`: 3 workers, so that exits coalesce in twos and threes. There is no bound: the state
is finite. Fairness: handlers run when they can, the handler's loop goes on, and the main flow is
strongly fair, because signals interrupt it and each handler returns: only signals that come faster
than they are handled, for ever, could hold it up, and nothing sends such a stream. Nothing makes a
worker end or a signal come.

* `SpawnUndisturbed`: if `sigprocmask` succeeded, no handler and no death while workers are
  started. If it failed there is no such promise.
* `LeftoverShared`: each SIGCHLD reaps a worker if one is there. The zombies no pending SIGCHLD
  announces are no more than the workers whose end shared the SIGCHLD of another; a handler that
  returns without reaping, once, breaks it.
* `FirstReaped`: an exit is noticed, whenever it happens.
* `SpinEnds`: the handler's busy loop ends with the last worker.

`master_zombies`: the handler reaps one child per signal, whatever its comment says.

### WorkerStart

State: the slot (local `shared_ptr`) of each of the three functions' threads: an item,
null after the move, dead after the return; each thread's progress; the main thread's place.
A thread may read its slot at any time; null crashes, a dead slot may crash or not. The slot is
read again at each turn of `ThreadFunc`'s loop, but a thread that has set `ifrunning` in its first turn
then waits for a message, and none is posted before the event loop runs, which no worker reaches. The
thread is made before `thread_item->_Handle` is evaluated (C++17 order of assignment; the
makefiles ask for C++20). Every path ends the process: by `exit`, by an exception that
nobody catches, or by a crash, at the latest in `ngx_get_connection`.

Run `worker_start`: 0 to 3 threads; deadlock is not checked because the process ends.
Fairness: the main thread and the pool's threads run.

* `PoolFirst`: the pool is complete before anything else starts.
* `StartEnds`: `Create` does not wait forever.

That past `Create` there is at most one pool thread, so that with the 200 of `nginx.conf` no worker
gets there, is a defect and not something the code promises; it needs no run, since it is proved for
every number of threads (`NoSecondThread`).

### Startup

State: the two processes of a start (the second exists after `fork`), each with its place in
`main` and its table of descriptors; an entry of a table is the object it leads to (stderr,
the log, the configuration file, /dev/null, a socket with its port), so a descriptor copied
by `fork`, overwritten by `dup2` or closed is just that. `Install` takes the lowest free number. A
configuration is one record: the kind of file, of Log item, of numbers, and the list of
ports. Every call that can fail may fail; what throws and is caught by nobody ends the process
(`Terminate`). The `FileReader` is a static object, so the configuration file stays open
(`Conf`). The port is an `int` cut to 16 bits.

Run `startup`: 4608 configurations, up to two ports (the second may fail, or meet the first), 8
descriptors, which is more than a start opens, and the numbers 80 and
65616, which are one port after the cut. Fairness: both processes
run. Deadlock is not checked because the start ends.

* `StartedWhole`: whoever goes on as master, or reports success, listens on all ports.
* `LogReachesLog`: what is written to the log arrives in the log or on stderr.
* `NothingStray`: a process that returned or became the master has no descriptor open that it does
  not know of, except the configuration file's. Sockets it knows of are left to the kernel.
* `StartEnds`: the start ends, except on a file that cannot be read (a loop of `Load`).

A configuration without a Log item is not given the default file that `ngx_log.cxx:245` speaks
of: the name is used before it is tested (line 240), and the process ends by an exception
(`BadLogConf`).

### Dispatch

State: of each connection its sequence number, whether it serves a client, how often it is in the
recycle list and in the free list, whether a descriptor whose client has closed is still bound to it,
whether a header or a body comes next and the message header of the packet whose body is due
(`curStat`, `precvMemPointer`), and, known to the model only, which client has it; the messages with the
header `proc_p1` gave them; the pool, as in `JobQueue`; where each thread is in
`threadRecvProcFunc`; the connections' `logicPorcMutex`; the send queue with its counter and
semaphore. A message header takes the sequence number when the packet's own header is complete
(`ReceiveHeader`), and goes to the pool when the body is (`ReceiveBody`): the connection may be
recycled in between. Every test of `threadRecvProcFunc` is a step, because the event loop and the recycle
thread may act between any two. A packet is what these tests see: the kind of its body, the
verdict on its checksum, its code. `sem_post` may fail, which is only logged: the answer stays queued
and counted.

Taken as meant: `ngx_get_connection` and the recycle thread, whose literal lines crash (they are
listed under hazards, and in `ConnPool` under `Meant`), and the receiving machine, which would not hand over bodies
(`recv_body_to_header`). After an orderly close the events of the descriptor go on, so a connection
may enter the recycle list repeatedly, as `RecvPacket` and `ConnPool` show; it is then freed as often,
while it serves the next client too, and may be given to two. The properties hold nevertheless,
because each of these steps changes the number. Freed under a client whose body is awaited, it
loses its buffer: `precvMemPointer` is null, `curStat` still waits for the body, and at its end a
null pointer goes to the pool, whose thread dies of it (`NullCrashes`, `over`). That `recv` writes
into the freed memory meanwhile is not modelled. A read of `iCurrsequence` is atomic: it is a
64-bit number read while another thread may increment it, a data race that the builds for 64-bit
processors turn into the old or the new value. The `shared_ptr` in a header is copied with `memcpy` and not counted; the model has
no reference counts.

Run `dispatch`: 7 packets (a good one of each code and one for each flaw), of which 2 arrive; 2
threads, 1 connection, sequence numbers to 6: the connection serves a client, is recycled once or
twice, freed, serves another, and is freed again under that one's feet, with every step of the threads
in between. Fairness: the pool's threads run as long as the process lives; with finitely many packets no thread can wait for a mutex forever because of
others that overtake it. Deadlock is not checked because packets and numbers end.

* `OnlyForPresent`: who passes the check of the number has the connection at that moment.
* `AnswersTraceable`: the answer's header tells whether the client that asked is still there.
* `AnswersAreDue`: an answer is deserved, addressed to who asked, and the only one.
* `EveryPacketEnds`: every packet's memory comes back to the allocator, unless a null pointer has
  ended the process.

### ConnPool

State: the place of the event loop's thread and its local variables; the place of the recycle
thread; the two mutexes; the three lists and their counters, `connfd` and `iCurrsequence` of each
connection under their own names; of the kernel, the state of each descriptor and the connection
registered for it. `m_connectionList` is a set, since only its members matter. `++iCurrsequence` is
a read and a write: it happens under `m_connectionMutex` in two functions and under
`m_recyconnqueueMutex` in a third. A locked section is otherwise split only where the other thread
could see it: `LockToFree` and `FreeEntry` are the inner lock of `ngx_free_connection`, taken while
the recycle list is locked; `LookAtCount` is the test and the clock read before the lock.
`time(NULL) - inRecyTime` is an age up to `WaitTime`, and `due` holds the entries that are past it
at the `currtime` of the pass. Data on a socket is not looked at here (`RecvMore`): that is
`RecvPacket`.

As they are written, four statements end the worker, or stop it, the first time they run. `Meant`
names those that are read as they are meant, in the model:

| in `Meant` | line | as written | as meant |
|---|---|---|---|
| `"get"` | `ngx_c_socket_conn.cxx:91` | uses a pointer moved from at 89: the process dies | binds the new connection |
| `"event"` | `ngx_c_socket.cxx:370-371` | deletes the connection of the event: the process dies | handles it |
| `"close"` | `ngx_c_socket_conn.cxx:125, 128, 103` | locks `m_connectionMutex` a second time: the loop stops | holds it once |
| `"erase"` | `ngx_c_socket_conn.cxx:154-155` | frees a null pointer: the process dies; then increments an erased iterator | frees the erased connection and looks at the next |

Run `conn_pool_written` has none of them in `Meant`. Its property is what the comment at
`ngx_c_socket.cxx:333` asks for, that the process goes on whether a turn of the loop ends well or not
(`LoopGoesOn`), and the trace is: a client connects, its event is taken, the process is dead. With
other values of `Meant` in that configuration the same property shows the other statements:

| `Meant` | the trace of `LoopGoesOn` ends with |
|---|---|
| none | the death at the first event (`died = "event"`) |
| event | the death when the first client is bound (`died = "get"`) |
| event, get, erase | `ngx_close_connection` waiting for the mutex it holds (`pc = "free"`) |
| event, get, close | a death, at the write event below in the shortest trace, or of a null pointer freed (`died = "erase"`) |
| all four | the death at a write event of a client that has reset (`died = "write"`) |

Everything else is as written, what follows from it included:

* An orderly close leaves the descriptor open and registered, so its event comes back at once and
  the connection enters the recycle list again and again, with a new time each time
  (`EnterRecycleList`): as long as the loop turns, such a connection is never old enough to be freed,
  and nothing is promised of it. If the loop is held up for the waiting time, the connection is freed while
  it is bound to the descriptor, may be freed twice, and serves two clients.
* A reset that `epoll_wait` reports with `EPOLLERR` or `EPOLLHUP` counts as a write event; by then
  the read handler has moved the pointer away, and line 385 kills the worker (`died = "write"`).
* `ngx_get_connection` never returns null, so `ngx_c_socket_accept.cxx:77-83` is never
  taken; `g_stopEvent` is never set, so neither is `ngx_c_socket_conn.cxx:161-178`;
  `initConnection` runs its loop up to the counter it sets afterwards, so it makes nothing.
* The waiting time is what the configuration says, 0 and negative numbers included (a negative one
  behaves as 0). With 0, a connection that enters the list after the thread has read the time may be due
  at once (`DueAfterEntry`).

Run `conn_pool` has all four in `Meant`, and the listener and 2 connections, 3 clients, 2
descriptors, the two lists together up to 3 entries, a waiting time of 1, sequence numbers modulo 2.
That is enough for a connection to be freed and used again while the other is being recycled, for a
full table of descriptors with a client that waits, for a connection that is twice in the recycle list, and
for a lost increment to show. It states safety only. Deadlock checking is on, but says nothing here,
since the clock (`Tick`) can always act. `conn_pool_written` needs fairness for its
counterexample to count: the loop and the recycle thread run, and time passes; the recycle thread is
strongly fair, because a mutex that is free again and again is not refused to the same thread for ever.
Clients owe nothing.

* `PoolAccounts`: whatever fails, counters are the lengths of their lists and every open
  descriptor is watched.
* `ImplementsPool`: every step is one of `AtomicPool`, or none. No connection is made while one is
  free, the one freed last is used first, none is freed before its waiting time is over (a second entry
  into the list begins it anew, even between the look at the clock and the lock), and every
  change of hands counts once. The mapping says when an operation has happened: one of the loop when
  the loop has its mutex and the number it is going to write back, one of the recycle thread when
  the connection is in the free list. What that thread has erased from its list and not yet
  freed waits, for the abstract pool, at the place it had (`PoolRecycling`). No increment is lost because
  the recycle thread increments under both mutexes, and so excludes the functions of the loop
  that hold either.
* `PlacedOnce`: as long as no client closes in good order, a connection is in use, waiting
  or free, and once.
### Format and Log

State of `Format`: a format, how far it is read, and the buffer, as the sequence of what has been
written to it. A format is a sequence of items: an ordinary character, or a directive with its
letter, flags, width, precision and argument, which is what the loops at `ngx_printf.cxx:70-122`
make of its characters. One turn of the loop of `ngx_vslprintf` is one step (`Turn`), because every
branch looks at the end of the buffer in its own way: a character, `%%` and the sign are written on
the strength of the loop's test, a string, the padding and the digits each with their own.
Floating-point arguments are given in 32nds, which a double holds exactly, so that rounding and the
carry of line 184 are exact too. The factor of a fraction is a product in 64 bits (line 175, whose
comment says that it may overflow): `Scale` takes it modulo `ScaleModulus`, so with a precision of 20
and more the digits are those the code computes, which are not those of the number.

`Log` has one call of `ngx_log_stderr` or `ngx_log_error_core`: the prefix, the text, the error's
number and name (all or nothing), the newline (in the last place but one if it must), and the
writes. `ngx_log_stderr` hands its line to `ngx_log_error_core` as the format (line 90): a `%` in it
starts a directive nobody wrote, which reads arguments from wherever they are. The model calls that
`astray` and claims nothing of such a record. The log is none, stderr or a file; the file takes the
line, takes a part of it (line 198 looks for -1 only), is full, or is broken.

`Text` and `Texts` say what an item and a format mean without a buffer. `MCLog` says it again for an
item, in another way (`Meaning`: by recursion on the number, with the width and the fraction as
numbers), and its `ASSUME TextsMean` compares the two for about 10000 items, those whose precision the factor has
room for. Run `log`: a buffer of 12 characters (2048 in the code), unsigned numbers
modulo 256, a factor modulo 128 (so that precisions of 3 and 7 wrap), every format of up to two items of
16 kinds and 64 formats of three items, with and without
an error. 12 is short enough for every kind of item to meet the end of the buffer at each of its
characters, and long enough for lines that fit. Deadlock is not checked because a call returns. A
call is sequential, so there is no fairness and nothing live.

* `TypeOK`: nothing is written beyond the end of a buffer.
* `RecordWhole`: a line is what the call means, or a beginning of it that fills the buffer;
  the newline is there; the error is whole or absent, except for its last blank. A short write
  leaves a part of it in the file.
* `CopyReachesLog`: what `ngx_log_stderr` puts on the console is in the log too, or again on the console
  if the log is broken, unfiltered and unchanged unless it contains a `%`, except for a full disk or a
  short write. Two texts of the repository disagree here: the comment at `ngx_log.cxx:88-89` says, at
  the call that makes the copy, that with a valid log file the message is to be written there, while
  the one at `ngx_macro.h:19` says that what has the level `NGX_LOG_STDERR` is no longer written to the
  log but goes to stderr only. The code follows the first, the property says what the code does, and the
  second is out of date.

The comment at `ngx_log.cxx:50` shows `68E` for `%xd` of 1678; the code prints `68e`.

## 3. The proofs

TLAPS proves, for every value of the constants allowed by the `ASSUME`s of the modules:

* `RecvPacketProofs`: `TypeOK`, `WindowInBounds`, `OneOwner`, `StaleIsVisible`. The
  properties are not inductive alone. `IInv` adds `PacketInv` (the window
  is in the connection's own memory, which has the length of its packet),
  `AllocatedInv` (whatever is in the queue, in a thread's hands or freed has a number up to
  `Len(heap)`, so the next buffer has no owner yet) and `SequenceInv` (once the connection is
  up for recycling it receives nothing more: its descriptor is closed, or nothing is left to
  read and the peer has closed).
* `ThreadPoolProofs`: `TypeOK`, `OnePlace`, `EnoughAwake`, `ReportIsTrue`,
  `ImplementsJobQueue`. The invariant ties each thread's place to the mutex (who is inside
  holds it), to the wait set, to its message, and to the running count, which is the number of
  threads between `Start` and `Done`. `ReportIsTrue` follows because the count is the
  whole set; the refinement maps each step to a step of `JobQueue` or a stutter.
* `MasterProofs`: `TypeOK`, `LeftoverShared`, `SpawnUndisturbed`. `LeftoverShared` is kept because
  each end of a worker either makes a SIGCHLD pending or is counted in `shared`, and each handler
  takes one zombie with its SIGCHLD, if there is one; the invariant adds what is blocked at each place
  of the start, and that workers not started are unknown to the kernel.
* `WorkerStartProofs`: `TypeOK`, `PoolFirst`, and `NoSecondThread`: past `Create` a worker was asked
  for one thread at most. The last is a defect proved, not a promise kept. The invariant says that the one item
  is gone after the first turn of the loop, that marks and thread states agree, and that only
  threads already made move.
* `StartupProofs`: `TypeOK`, `StartedWhole`, `LogReachesLog`, `NothingStray`, for every set of configurations,
  number of ports and limit of descriptors. The invariant adds `GoodTables` (the log and stderr are
  where the program believes), `Listening` (the sockets made so far are those of the list, under
  their numbers), and for each process what its place in `main` implies (`MainInv`,
  `DaemonInv`). `NothingStray` needs the converse, what a table does not hold: `Tidy` says that the
  log is at `ngx_log.fd` only, sockets only at the numbers of the list and the one being prepared
  (`MaySock`), /dev/null only where `ngx_daemon` puts it (`MayNull`); it exempts a process that an exception
  ended, which may leave the socket being prepared.
* `DispatchProofs`: `TypeOK`, `OnlyForPresent`, `AnswersTraceable`, `AnswersAreDue`, for every set
  of threads, connections and packets and every number of reuses. The invariant says how the pool
  numbers its messages (`FlowInv`: what waits came last, and nobody has what another has), what
  a thread has found out at each place (`StageInv`), that a header's number never exceeds its
  connection's and equals it only while its client has the connection (`TraceInv`, for
  messages and answers), and that a request with an answer is with a thread that is done, or with
  none (`DueInv`).

* `ConnPoolProofs`: `TypeOK`, `PoolAccounts`, `ImplementsPool`, `PlacedOnce`, for all numbers of
  connections, descriptors and clients, every waiting time and any part of `Meant`. `TypeOK` has the
  recycle thread's iterator at an entry of the list or right behind the last: only that thread takes entries
  out, and whatever the loop puts in front it puts in while the thread does not hold the list. The invariant adds which places hold which mutex
  (`Locks`), that the pointers and list entries a thread is about to use are known
  connections (`Known`), that a number read and not yet written back is still the number of its
  connection (`Reads`: the step that makes increments safe), the counters of the lists at every place of
  the two threads, not only at rest (`Counts`), and that an open descriptor is
  registered, or just accepted and about to be registered or closed (`Descriptors`). `PlacedOnce` needs a
  second invariant on top, `Ordered`, kept while no client has closed in good order: the lists, the
  connections in use and those in the hands of the two threads are disjoint (`Apart`), hold no connection
  twice (`Once`) and together hold every one (`Covered`); a registered descriptor is open and its
  connection is bound to it (`Bound`); and an event that waits, or has its turn, is still about the
  connection of its descriptor (`Fresh`, `AtTurn`), which is what lets the read handler recycle it.
  The refinement (`PoolImplementsAtomicPool`) takes one lemma for each step the abstract pool has
  (`LockToGetMaps`, `FreeAndCloseMaps`, `LockToRecycleMaps`, `FreeEntryMaps`, `TickMaps`) and says of
  the others that they change nothing (`PoolStutters`). It needs `Locks` (while the recycle thread has
  a connection in hand, the loop enters none, so its place in the list stays where it was), `Reads`,
  `Known`, and the invariant `Ages`: what the thread takes for due is due, and what it has erased was, at
  a place that still exists. What `erase()` takes out goes back by two lemmas on
  sequences (`InsertRemoved`, `RemoveInserted`).
* `LogProofs`: `TypeOK`, `RecordWhole`, `CopyReachesLog`, for every format, argument, prefix, error and
  size of the buffer. `TypeOK` (no write goes beyond a buffer) follows from a lemma for each operator
  of `Format` that writes (`CopyTo`, `Padding`, `SprintfNum`, `Integer`, `Float`): what fits before fits
  after. `RecordWhole` needs what such an operator writes: if the buffer is the text so far, cut
  at its end (`IsCut`), it is the longer text so cut afterwards (`CutCopy` to `CutTurn`), although each
  branch compares with the end in its own way. `LineInv` carries that through the call: what is
  expanded so far is the text so far, and what is written is a whole line (`LineWhole`). `CopyInv` follows
  the line of `ngx_log_stderr` into the second call: it is one item after the other of plain characters
  there. That a recursive function gives a text for every length of a format is shown by the
  least length for which it does not (`LeastNumber`).

The assumptions are the named `ASSUME`s of the modules; TLC evaluates them in the runs.

Only model-checked: the liveness properties (`GoneIsRecycled`, `Handled`, `StopEndsAll`,
`FirstReaped`, `SpinEnds`, both `StartEnds`, `EveryPacketEnds`), since
fairness and `ENABLED` are outside what the prover handles; and that the digits of a numeral are those of
its number (`TextsMean`): the proofs about `Log` take `Numeral`, and the factor of a fraction, as the code
computes them. `EveryLineWhole` therefore says that a line is the computed text of its items, whole or
cut where it must be, not that a fraction of 20 digits and more is right.

## 4. What is not modelled, and what is left

Not modelled, and why:

* the checksum's value (`CCRC32`): shifts and exclusive ors on 32 bits, without state; TLC's integers
  have 31 bits and a sign, and a model bit by bit would be longer than the code;
* the process title: the layout of `argv` and the environment in memory;
* the line parser of the configuration: the state it leaves, names with contents, is an input of
  `Startup`; the characters of a line are not;
* `ServerSendQueueThread`, a stub without a loop that does not compile; so the send
  queue only grows (`Dispatch`);
* `ngx_close_listening_sockets` and `clearConnection`, which nothing that runs calls.

Left to do: `Server`, the composition of `RecvPacket`'s queue with the pool through
`inMsgRecvQueueAndSignal`, so that a buffer is followed from the socket to `FreeMemory`; and what a
stream of bytes should become, as an abstract specification that `RecvPacket` implements where no packet
has a body.
