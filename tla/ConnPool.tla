------------------------------ MODULE ConnPool ------------------------------
(***************************************************************************)
(* The connection pool of a worker: ngx_get_connection,                    *)
(* ngx_free_connection, ngx_close_connection, inRecyConnectQueue and       *)
(* ServerRecyConnectionThread of net/ngx_c_socket_conn.cxx, as they are    *)
(* used by the event loop (ngx_epoll_process_events, ngx_event_accept and  *)
(* recvproc) and by the recycle thread.                                    *)
(*                                                                         *)
(* Two threads, two mutexes, three lists and their counters.  A socket is  *)
(* a descriptor, a connection the object bound to it.  What is received on *)
(* a socket is in RecvPacket; here a read event matters if the client has  *)
(* gone.  time(NULL) - inRecyTime is kept as the age of a connection.      *)
(*                                                                         *)
(* Four statements kill the process, or hang it, the first time they run.  *)
(* Meant names those that are read as they are meant, so that what comes   *)
(* after them can be looked at; what is not in Meant does what is written: *)
(*  "get"   ngx_get_connection uses a pointer it has moved from;           *)
(*  "event" the loop deletes the connection of the event it handles;       *)
(*  "close" ngx_close_connection locks m_connectionMutex twice;            *)
(*  "erase" the recycle thread frees a null pointer for the one it erased. *)
(***************************************************************************)
EXTENDS Integers, FiniteSets, Sequences, SequencesExt

CONSTANTS
  Conns,        \* the connection objects that new can make
  Listener,     \* the one that ngx_epoll_init binds to the listening socket
  NoConn,       \* a null pointer
  MaxFd,        \* bound: descriptors for clients
  MaxClients,   \* bound: the clients that connect
  MaxEntries,   \* bound: length of the free list and the recycle list together
  WaitTime,     \* Sock_RecyConnectionWaitTime; a negative one counts as 0
  Modulus,      \* modulus of iCurrsequence, 2^64 in the code
  Meant         \* see above

ASSUME PoolAssumption ==
  /\ IsFiniteSet(Conns) /\ Listener \in Conns /\ NoConn \notin Conns
  /\ MaxFd \in Nat /\ MaxClients \in Nat /\ MaxEntries \in Nat
  /\ WaitTime \in Nat /\ Modulus \in Nat \ {0, 1}
  /\ Meant \subseteq {"get", "event", "close", "erase"}

VARIABLES
  pc,                         \* event loop: its place
  events,                     \* event loop: what is left of m_events
  hup,                        \* event loop: the event has EPOLLERR or EPOLLHUP
  conn,                       \* event loop: its pointer to a connection
  newfd,                      \* event loop: the descriptor accept returned
  use_accept4,
  rpc,                        \* recycle thread: its place
  iter,                       \* recycle thread: position in the list
  victim,                     \* recycle thread: the connection to free
  due,                        \* recycle thread: past the wait at its currtime
  seen,                       \* what a thread has read in ++iCurrsequence
  connMutex, recyMutex,       \* m_connectionMutex, m_recyconnqueueMutex
  m_connectionList, m_freeconnectionList, m_recyconnectionList,
  m_total_connection_n, m_free_connection_n, m_totol_recyconnection_n,
  connfd, iCurrsequence, age, \* fields of each connection
  sock,                       \* the kernel: state of each descriptor
  epoll,                      \* the kernel: the connection of each descriptor
  hasAccept4,                 \* the kernel: it implements accept4
  backlog,                    \* clients that wait to be accepted
  arrived,                    \* clients so far
  died,                       \* the place where the process died, or "no"
  eofSeen                     \* history: some recv() has returned 0

loopVars   == <<pc, events, hup, conn, newfd, use_accept4>>
recyVars   == <<rpc, iter, victim, due>>
lockVars   == <<connMutex, recyMutex, seen>>
freeVars   == <<m_freeconnectionList, m_free_connection_n>>
totalVars  == <<m_connectionList, m_total_connection_n>>
listVars   == <<m_recyconnectionList, m_totol_recyconnection_n, eofSeen>>
poolVars   == <<freeVars, totalVars, listVars, iCurrsequence, connfd>>
fdVars     == <<sock, epoll>>
clientVars == <<hasAccept4, backlog, arrived>>
vars == <<loopVars, recyVars, lockVars, poolVars, age, fdVars, clientVars, died>>

Fds      == 1..MaxFd
ListenFd == 0
Loop     == "loop"
Recycler == "recycler"
Nobody   == "nobody"

-----------------------------------------------------------------------------
\* The worker after ngx_epoll_init: initConnection has made no connection, its
\* bound being the counter it is going to set, and ngx_get_connection one.
Init ==
  /\ pc = "wait" /\ events = {} /\ hup = FALSE
  /\ conn = NoConn /\ newfd = ListenFd /\ use_accept4 = TRUE
  /\ rpc = "sleep" /\ iter = 1 /\ victim = NoConn /\ due = {}
  /\ seen = [t \in {Loop, Recycler} |-> 0]
  /\ connMutex = Nobody /\ recyMutex = Nobody
  /\ m_connectionList = {Listener} /\ m_total_connection_n = 1
  /\ m_freeconnectionList = <<>> /\ m_free_connection_n = 0
  /\ m_recyconnectionList = <<>> /\ m_totol_recyconnection_n = 0
  /\ connfd = [c \in Conns |-> ListenFd]
  /\ iCurrsequence = [c \in Conns |-> IF c = Listener THEN 1 ELSE 0]
  /\ age = [c \in Conns |-> 0]
  /\ sock = [f \in Fds |-> "closed"] /\ epoll = [f \in Fds |-> NoConn]
  /\ hasAccept4 \in BOOLEAN
  /\ backlog = 0 /\ arrived = 0
  /\ died = "no" /\ eofSeen = FALSE

\* ++conn->iCurrsequence, a read and a write of a plain integer.
ReadSequence(t, c) == seen' = [seen EXCEPT ![t] = iCurrsequence[c]]

WriteSequence(t, c) ==
  /\ iCurrsequence' = [iCurrsequence EXCEPT ![c] = (seen[t] + 1) % Modulus]
  /\ seen' = [seen EXCEPT ![t] = 0]

\* A null or dangling pointer is used: the process dies, at the named place.
Alive == died = "no"
Dies(cond, where) == died' = IF cond THEN where ELSE "no"

\* close(fd): the kernel forgets the registration; a closed descriptor is an error
\* that is only logged.
CloseFd(fd) ==
  /\ sock' = [f \in Fds |-> IF f = fd THEN "closed" ELSE sock[f]]
  /\ epoll' = [f \in Fds |-> IF f = fd THEN NoConn ELSE epoll[f]]

\* ngx_free_connection after its lock and the read in ++iCurrsequence.
PutOneToFree(t, c) ==
  /\ WriteSequence(t, c)
  /\ m_freeconnectionList' = <<c>> \o m_freeconnectionList
  /\ m_free_connection_n' = m_free_connection_n + 1

-----------------------------------------------------------------------------
(* The event loop: ngx_epoll_process_events *)

Watching(states) == {f \in Fds : epoll[f] # NoConn /\ sock[f] \in states}

\* The event of a descriptor: EPOLLIN for data, EPOLLIN | EPOLLRDHUP when the client
\* has closed, EPOLLERR | EPOLLHUP as well when it has reset.
EventOf(f) == [fd |-> f, conn |-> epoll[f], hup |-> sock[f] = "reset"]
ListenEvent == [fd |-> ListenFd, conn |-> Listener, hup |-> FALSE]

\* epoll_wait reports the clients that have gone, those that have sent something, and
\* the waiting ones.  Each event may put a connection on the recycle list.
EpollWait ==
  /\ pc = "wait"
  /\ \E senders \in SUBSET Watching({"open"}) :
       LET ready == senders \cup Watching({"eof", "reset"}) IN
       /\ Len(m_freeconnectionList \o m_recyconnectionList) + Cardinality(ready)
            <= MaxEntries
       /\ events' = {EventOf(f) : f \in ready} \cup {e \in {ListenEvent} : backlog > 0}
  /\ events' # {}
  /\ pc' = "event"
  /\ UNCHANGED <<hup, conn, newfd, died>>

\* The next event.  The read_handler of its connection is ngx_event_accept or
\* ngx_read_request_handler.
TakeEvent ==
  /\ pc = "event"
  /\ \E e \in events :
       /\ events' = events \ {e}
       /\ conn' = e.conn /\ hup' = e.hup
       /\ pc' = IF e.conn = Listener THEN "accept" ELSE "recv"
  /\ Dies("event" \notin Meant, "event")
  /\ UNCHANGED newfd

NoMoreEvents ==
  /\ pc = "event" /\ events = {}
  /\ pc' = "wait"
  /\ UNCHANGED <<events, hup, conn, newfd, died>>

\* EPOLLERR and EPOLLHUP count as EPOLLOUT too: the send counter of the connection
\* is decremented, through a pointer that the read handler may have moved into
\* the recycle list.
WriteEvent ==
  /\ pc = "write"
  /\ Dies(hup /\ conn = NoConn, "write")
  /\ pc' = "event"
  /\ conn' = NoConn /\ hup' = FALSE /\ newfd' = ListenFd
  /\ UNCHANGED events

ProcessEvents ==
  /\ EpollWait \/ TakeEvent \/ NoMoreEvents \/ WriteEvent
  /\ UNCHANGED <<use_accept4, lockVars, poolVars, age, fdVars, clientVars>>

-----------------------------------------------------------------------------
(* The event loop: ngx_event_accept *)

\* accept4 is not implemented: accept is used from now on, and at once.
NoAccept4 ==
  /\ use_accept4 /\ ~hasAccept4
  /\ use_accept4' = FALSE
  /\ UNCHANGED <<pc, newfd, sock, backlog>>

\* Any other error ends the handler: EAGAIN, EMFILE, or ECONNABORTED, which takes
\* a client away.
AcceptFails ==
  /\ use_accept4 => hasAccept4
  /\ backlog' \in {backlog, backlog - 1} \cap Nat
  /\ pc' = "write"
  /\ UNCHANGED <<newfd, use_accept4, sock>>

\* The kernel gives the lowest descriptor that is closed.
IsNewFd(f) == sock[f] = "closed" /\ \A g \in 1..(f - 1) : sock[g] # "closed"

AcceptClient ==
  /\ use_accept4 => hasAccept4
  /\ backlog > 0
  /\ \E f \in Fds : /\ IsNewFd(f)
                   /\ newfd' = f
                   /\ sock' = [sock EXCEPT ![f] = "open"]
  /\ backlog' = backlog - 1
  /\ pc' = "get"
  /\ UNCHANGED use_accept4

Accept ==
  /\ pc = "accept"
  /\ NoAccept4 \/ AcceptFails \/ AcceptClient
  /\ UNCHANGED <<conn, lockVars, poolVars, epoll, hasAccept4, arrived, died>>

\* ngx_get_connection takes the lock and the front of the free list, or makes a
\* connection, ...
LockToGet ==
  /\ pc = "get" /\ connMutex = Nobody
  /\ connMutex' = Loop
  /\ \/ /\ m_freeconnectionList # <<>>
        /\ conn' = Head(m_freeconnectionList)
        /\ m_freeconnectionList' = Tail(m_freeconnectionList)
     \/ /\ m_freeconnectionList = <<>> /\ m_connectionList # Conns
        /\ conn' = CHOOSE c \in Conns : c \notin m_connectionList
        /\ UNCHANGED m_freeconnectionList
  /\ ReadSequence(Loop, conn')
  /\ pc' = "use"
  /\ UNCHANGED <<m_free_connection_n, totalVars, iCurrsequence, connfd, died>>

\* ... binds it to the descriptor, and unlocks.
GetOneToUse ==
  /\ pc = "use"
  /\ WriteSequence(Loop, conn)
  /\ \/ /\ conn \in m_connectionList
        /\ m_free_connection_n' = m_free_connection_n - 1
        /\ UNCHANGED <<totalVars, died>>
     \/ /\ conn \notin m_connectionList
        /\ m_connectionList' = m_connectionList \cup {conn}
        /\ m_total_connection_n' = m_total_connection_n + 1
        /\ Dies("get" \notin Meant, "get")
        /\ UNCHANGED m_free_connection_n
  /\ connfd' = [connfd EXCEPT ![conn] = newfd]
  /\ connMutex' = Nobody
  /\ pc' = "setup"
  /\ UNCHANGED <<conn, m_freeconnectionList>>

GetConnection ==
  /\ LockToGet \/ GetOneToUse
  /\ UNCHANGED <<newfd, use_accept4, fdVars, clientVars>>

\* ngx_epoll_oper_event: the descriptor is registered with its connection.
Register ==
  /\ epoll' = [epoll EXCEPT ![newfd] = conn]
  /\ pc' = "write"

\* Mutant: the handler just returns.
SetupFails_Returns == pc' = "write" /\ UNCHANGED epoll

\* setnonblocking (needed after accept) or epoll_ctl fails.
SetupFails == pc' = "close" /\ UNCHANGED epoll

Setup ==
  /\ pc = "setup"
  /\ Register \/ SetupFails
  /\ UNCHANGED <<conn, newfd, use_accept4, lockVars, poolVars, sock, clientVars, died>>

\* ngx_close_connection takes the lock, ...
LockToClose ==
  /\ pc = "close" /\ connMutex = Nobody
  /\ connMutex' = Loop
  /\ newfd' = connfd[conn]
  /\ pc' = "free"
  /\ UNCHANGED <<conn, seen, freeVars, iCurrsequence, fdVars>>

\* ... ngx_free_connection takes it again, ...
RelocksToFree == "close" \in Meant \/ connMutex = Nobody

BeginFree ==
  /\ pc = "free" /\ RelocksToFree
  /\ ReadSequence(Loop, conn)
  /\ pc' = "put"
  /\ UNCHANGED <<conn, newfd, connMutex, freeVars, iCurrsequence, fdVars>>

\* ... and the connection is free and its descriptor closed.
FreeAndClose ==
  /\ pc = "put"
  /\ PutOneToFree(Loop, conn)
  /\ CloseFd(newfd)
  /\ connMutex' = Nobody
  /\ pc' = "write"
  /\ conn' = NoConn
  /\ UNCHANGED newfd

CloseConnection ==
  /\ LockToClose \/ BeginFree \/ FreeAndClose
  /\ UNCHANGED <<use_accept4, totalVars, connfd, clientVars, died>>

EventAccept ==
  /\ Accept \/ GetConnection \/ Setup \/ CloseConnection
  /\ UNCHANGED <<events, hup, recyMutex, listVars, age>>

-----------------------------------------------------------------------------
(* The event loop: recvproc, as far as the pool is concerned *)

SockOf(c) == IF connfd[c] \in Fds THEN sock[connfd[c]] ELSE "closed"

\* Data, or EAGAIN.  What is done with data is in RecvPacket.
RecvMore ==
  /\ SockOf(conn) = "open"
  /\ pc' = "write"
  /\ UNCHANGED <<eofSeen, fdVars>>

\* recv() returns 0; the descriptor stays open.
RecvEOF ==
  /\ SockOf(conn) = "eof"
  /\ eofSeen' = TRUE
  /\ pc' = "recycle"
  /\ UNCHANGED fdVars

\* Mutant: as for EOF, the descriptor stays open.
RecvError_LeavesOpen ==
  /\ SockOf(conn) \in {"reset", "closed"}
  /\ pc' = "recycle"
  /\ UNCHANGED <<eofSeen, fdVars>>

\* ECONNRESET, or EBADF: the descriptor is closed.
RecvError ==
  /\ SockOf(conn) \in {"reset", "closed"}
  /\ CloseFd(connfd[conn])
  /\ pc' = "recycle"
  /\ UNCHANGED eofSeen

Recv ==
  /\ pc = "recv"
  /\ RecvMore \/ RecvEOF \/ RecvError
  /\ UNCHANGED <<conn, recyMutex, seen, iCurrsequence, m_recyconnectionList,
                 m_totol_recyconnection_n, age>>

\* inRecyConnectQueue: the time of its entry is now ...
LockToRecycle ==
  /\ pc = "recycle" /\ recyMutex = Nobody
  /\ recyMutex' = Loop
  /\ age' = [age EXCEPT ![conn] = 0]
  /\ ReadSequence(Loop, conn)
  /\ pc' = "enter"
  /\ UNCHANGED <<conn, iCurrsequence, listVars, fdVars>>

\* ... and the connection is moved into the list.
EnterRecycleList ==
  /\ pc = "enter"
  /\ WriteSequence(Loop, conn)
  /\ m_recyconnectionList' = <<conn>> \o m_recyconnectionList
  /\ m_totol_recyconnection_n' = m_totol_recyconnection_n + 1
  /\ recyMutex' = Nobody
  /\ conn' = NoConn
  /\ pc' = "write"
  /\ UNCHANGED <<eofSeen, age, fdVars>>

RecvProc ==
  /\ Recv \/ LockToRecycle \/ EnterRecycleList
  /\ UNCHANGED <<events, hup, newfd, use_accept4, connMutex, freeVars, totalVars,
                 connfd, clientVars, died>>

\* A connection that enters the list after the recycle thread has read the time is
\* not due by that time, unless there is no waiting time: then it may be.
DueAfterEntry ==
  {due \ {conn}} \cup {d \in {due \cup {conn}} : WaitTime = 0 /\ rpc = "lock"}

EventLoop ==
  /\ ProcessEvents \/ EventAccept \/ RecvProc
  /\ due' \in IF pc = "recycle" /\ pc' = "enter" THEN DueAfterEntry ELSE {due}
  /\ UNCHANGED <<rpc, iter, victim>>

-----------------------------------------------------------------------------
(* ServerRecyConnectionThread.  g_stopEvent is never set: it never ends. *)

ListIsFilled == m_totol_recyconnection_n > 0

\* The thread looks at the counter and reads the time before it takes the lock.
LookAtCount ==
  /\ rpc = "sleep" /\ ListIsFilled
  /\ due' = {c \in ToSet(m_recyconnectionList) : age[c] >= WaitTime}
  /\ rpc' = "lock"
  /\ UNCHANGED <<iter, victim, lockVars, listVars, freeVars, iCurrsequence, died>>

\* Mutant: counts from zero.
LockToScan_FromZero ==
  /\ rpc = "lock" /\ recyMutex = Nobody
  /\ recyMutex' = Recycler
  /\ iter' = 0
  /\ rpc' = "scan"
  /\ UNCHANGED <<victim, due, connMutex, seen, listVars, freeVars, iCurrsequence, died>>

LockToScan ==
  /\ rpc = "lock" /\ recyMutex = Nobody
  /\ recyMutex' = Recycler
  /\ iter' = 1
  /\ rpc' = "scan"
  /\ UNCHANGED <<victim, due, connMutex, seen, listVars, freeVars, iCurrsequence, died>>

SkipEntry ==
  /\ rpc = "scan" /\ iter <= Len(m_recyconnectionList)
  /\ m_recyconnectionList[iter] \notin due
  /\ iter' = iter + 1
  /\ UNCHANGED <<rpc, victim, due, lockVars, listVars, freeVars, iCurrsequence, died>>

\* erase(iter), after which iter is at the next element.
EraseEntry ==
  /\ rpc = "scan" /\ iter <= Len(m_recyconnectionList)
  /\ m_recyconnectionList[iter] \in due
  /\ m_totol_recyconnection_n' = m_totol_recyconnection_n - 1
  /\ victim' = m_recyconnectionList[iter]
  /\ m_recyconnectionList' = RemoveAt(m_recyconnectionList, iter)
  /\ Dies("erase" \notin Meant, "erase")
  /\ rpc' = "free"
  /\ UNCHANGED <<iter, due, lockVars, eofSeen, freeVars, iCurrsequence>>

\* Mutant: the list is unlocked first.
LockToFree_UnlocksList ==
  /\ rpc = "free" /\ connMutex = Nobody
  /\ connMutex' = Recycler
  /\ recyMutex' = Nobody
  /\ ReadSequence(Recycler, victim)
  /\ rpc' = "put"
  /\ UNCHANGED <<iter, victim, due, listVars, freeVars, iCurrsequence, died>>

\* ngx_free_connection, with the lock of the list still held.
LockToFree ==
  /\ rpc = "free" /\ connMutex = Nobody
  /\ connMutex' = Recycler
  /\ ReadSequence(Recycler, victim)
  /\ rpc' = "put"
  /\ UNCHANGED <<iter, victim, due, recyMutex, listVars, freeVars, iCurrsequence, died>>

FreeEntry ==
  /\ rpc = "put"
  /\ PutOneToFree(Recycler, victim)
  /\ connMutex' = Nobody
  /\ victim' = NoConn
  /\ rpc' = "scan"
  /\ UNCHANGED <<iter, due, recyMutex, listVars, died>>

EndScan ==
  /\ rpc = "scan" /\ iter > Len(m_recyconnectionList)
  /\ recyMutex' = Nobody
  /\ due' = {} /\ iter' = 1
  /\ rpc' = "sleep"
  /\ UNCHANGED <<victim, connMutex, seen, listVars, freeVars, iCurrsequence, died>>

RecycleThread ==
  /\ \/ LookAtCount \/ LockToScan \/ SkipEntry \/ EraseEntry
     \/ LockToFree \/ FreeEntry \/ EndScan
  /\ UNCHANGED <<loopVars, totalVars, connfd, age, fdVars, clientVars>>

-----------------------------------------------------------------------------
(* The clients and the time *)

Connect ==
  /\ arrived < MaxClients
  /\ arrived' = arrived + 1
  /\ backlog' = backlog + 1
  /\ UNCHANGED <<loopVars, recyVars, lockVars, poolVars, age, fdVars, hasAccept4,
                 died>>

Leave(f) ==
  /\ sock[f] = "open"
  /\ \E s \in {"eof", "reset"} : sock' = [sock EXCEPT ![f] = s]
  /\ UNCHANGED <<loopVars, recyVars, lockVars, poolVars, age, epoll, clientVars,
                 died>>

\* The connections that have got their time of entry and wait.
Stamped == ToSet(m_recyconnectionList) \cup {c \in {conn} : pc = "enter"}

\* A second passes.  Beyond WaitTime the age makes no difference.
Tick ==
  /\ age' = [c \in Conns |-> IF c \in Stamped /\ age[c] < WaitTime THEN age[c] + 1 ELSE age[c]]
  /\ UNCHANGED <<loopVars, recyVars, lockVars, poolVars, fdVars, clientVars, died>>

Dead == ~Alive /\ UNCHANGED vars

Next ==
  \/ Alive /\ (EventLoop \/ RecycleThread \/ Tick \/ Connect \/ \E f \in Fds : Leave(f))
  \/ Dead

Spec == Init /\ [][Next]_vars

\* The threads run and the time passes.  The recycle thread gets a mutex that is
\* free again and again, although the event loop competes for it.
FairSpec ==
  /\ Spec
  /\ WF_vars(Alive /\ EventLoop)
  /\ SF_vars(Alive /\ RecycleThread)
  /\ WF_vars(Alive /\ Tick)

-----------------------------------------------------------------------------
Events == [fd : 0..MaxFd, conn : Conns, hup : BOOLEAN]

\* The type invariant: the loop, the recycle thread, the pool, the kernel.
LoopType ==
  /\ pc \in {"wait", "event", "write", "accept", "get", "use", "setup", "close",
             "free", "put", "recv", "recycle", "enter"}
  /\ events \subseteq Events /\ hup \in BOOLEAN /\ use_accept4 \in BOOLEAN
  /\ conn \in Conns \cup {NoConn} /\ newfd \in 0..MaxFd
RecyclerType ==
  /\ rpc \in {"sleep", "lock", "scan", "free", "put"}
  /\ victim \in Conns \cup {NoConn} /\ due \subseteq Conns
  /\ iter \in 1..(Len(m_recyconnectionList) + 1)
ListType ==
  /\ connMutex \in {Nobody, Loop, Recycler} /\ recyMutex \in {Nobody, Loop, Recycler}
  /\ m_connectionList \subseteq Conns
  /\ m_freeconnectionList \in Seq(Conns) /\ m_recyconnectionList \in Seq(Conns)
  /\ {m_total_connection_n, m_free_connection_n, m_totol_recyconnection_n} \subseteq Int
FieldType ==
  /\ connfd \in [Conns -> 0..MaxFd] /\ age \in [Conns -> 0..WaitTime]
  /\ iCurrsequence \in [Conns -> 0..(Modulus - 1)]
  /\ seen \in [{Loop, Recycler} -> 0..(Modulus - 1)]
KernelType ==
  /\ sock \in [Fds -> {"closed", "open", "eof", "reset"}]
  /\ epoll \in [Fds -> Conns \cup {NoConn}]
  /\ backlog \in Nat /\ arrived \in 0..MaxClients /\ hasAccept4 \in BOOLEAN
  /\ eofSeen \in BOOLEAN /\ died \in {"no", "get", "event", "erase", "write"}
TypeOK == LoopType /\ RecyclerType /\ ListType /\ FieldType /\ KernelType

InUse == {epoll[f] : f \in Fds} \ {NoConn}
AtRest == Alive /\ pc = "wait" /\ rpc \in {"sleep", "lock"}

CountersAgree ==
  /\ m_total_connection_n = Cardinality(m_connectionList)
  /\ m_free_connection_n = Len(m_freeconnectionList)
  /\ m_totol_recyconnection_n = Len(m_recyconnectionList)

Watched == \A f \in Fds : sock[f] # "closed" => epoll[f] # NoConn

\* Whatever fails while a client is accepted, and however clients leave: when no
\* handler runs, the counters, which are compared and changed outside the lists, are
\* the lengths of the lists, and every open descriptor is watched.
PoolAccounts == AtRest => CountersAgree /\ Watched

\* The pool whose operations happen at once.  An operation of the event loop has happened
\* there when the loop has taken the mutex and the number it will write back; what
\* the recycle thread has erased still waits there, until it is free.
Reading == pc \in {"use", "enter"}

PoolKnown == m_connectionList \cup {c \in {conn} : pc = "use"}
PoolRecycling ==
  IF pc = "enter" THEN <<conn>> \o m_recyconnectionList
  ELSE IF rpc \in {"free", "put"} THEN InsertAt(m_recyconnectionList, iter, victim)
  ELSE m_recyconnectionList
PoolNumber ==
  [c \in Conns |-> IF Reading /\ c = conn THEN (seen[Loop] + 1) % Modulus
                   ELSE iCurrsequence[c]]

Pool == INSTANCE AtomicPool WITH
  First <- Listener, known <- PoolKnown, free <- m_freeconnectionList,
  recycling <- PoolRecycling, waited <- age, number <- PoolNumber

\* The two threads, two mutexes and three lists do nothing that such a pool does not do,
\* whatever else happens to the connections: no connection is made as long as one is
\* free, none is freed before its time, which a second entry begins anew, and no
\* increment is lost, although it is made under one mutex in two functions and under the
\* other one in a third.
ImplementsPool == Pool!Spec

\* As long as no client closes in good order (which leaves the descriptor open), each
\* connection is at one place: it serves one descriptor, or is once in the free
\* list, or once in the recycle list, however resets, failures, waiting times and
\* reuse interleave.
PlacedOnce ==
  LET idle == m_freeconnectionList \o m_recyconnectionList IN
  (AtRest /\ ~eofSeen) =>
    /\ \A f, g \in Fds : epoll[f] = epoll[g] /\ epoll[f] # NoConn => f = g
    /\ IsInjective(idle)
    /\ InUse \cap ToSet(idle) = {}
    /\ m_connectionList = {Listener} \cup InUse \cup ToSet(idle)

\* The comment at ngx_epoll_process_events: whether it returns normally or with a problem,
\* the process should be kept running.  So the event loop comes back to epoll_wait
\* from whatever it does.
LoopGoesOn == (pc # "wait") ~> (pc = "wait")
=============================================================================
