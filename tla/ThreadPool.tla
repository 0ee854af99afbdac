------------------------------ MODULE ThreadPool ------------------------------
(***************************************************************************)
(* CThreadPool of misc/ngx_c_threadpool.cxx: the list of received messages *)
(* under one mutex, the condition variable the idle threads wait on, the   *)
(* threads themselves (ThreadFunc), the event loop's thread that posts     *)
(* (inMsgRecvQueueAndSignal, Call) and stops the pool (StopAll).           *)
(*                                                                         *)
(* A step is what a thread does between two points at which another thread *)
(* can see it: taking the mutex, the work under it up to its release, and  *)
(* each access to the atomic m_RunningThreadNum, which is made outside it. *)
(*                                                                         *)
(* Every thread has a ThreadItem of its own here, as Create means it;      *)
(* WorkerStart is about the one it really hands over.                      *)
(***************************************************************************)
EXTENDS Integers, Sequences, FiniteSets, Functions

CONSTANTS
  Workers,   \* the threads of the pool
  Main,      \* the thread of the event loop, the only one that posts and stops
  Nobody,    \* the holder of a free mutex
  MaxMsgs    \* bound: the messages posted

ASSUME ThreadsAssumption ==
  /\ IsFiniteSet(Workers) /\ Workers # {}
  /\ Main \notin Workers /\ Nobody \notin Workers /\ Main # Nobody
  /\ MaxMsgs \in Nat

VARIABLES
  queue,     \* m_MsgRecvQueue: the numbers of the messages, in order of arrival
  count,     \* m_iRecvMsgQueueCount
  running,   \* m_RunningThreadNum
  shutdown,  \* m_shutdown
  holder,    \* who holds m_pthreadMutex
  waitSet,   \* the threads blocked on m_pthreadCond
  pc,        \* where each pool thread is
  job,       \* jobbuf of each pool thread, 0 for none
  ifrunning, \* the threads whose ThreadItem says ifrunning
  mainpc,    \* where the event loop's thread is
  posted,    \* messages posted so far; message n is the n-th
  freed,     \* messages given to FreeMemory
  noticed,   \* Call has reported that no thread is idle (m_iLastEmgTime # 0)
  crashed    \* the process has died

vars == <<queue, count, running, shutdown, holder, waitSet, pc, job, ifrunning,
          mainpc, posted, freed, noticed, crashed>>

ThreadNum == Cardinality(Workers)     \* m_iThreadNum

Init ==
  /\ queue = <<>> /\ count = 0 /\ running = 0
  /\ shutdown = FALSE
  /\ holder = Nobody /\ waitSet = {}
  /\ pc = [w \in Workers |-> "lock"]
  /\ job = [w \in Workers |-> 0]
  /\ ifrunning = {}
  /\ mainpc = "create"
  /\ posted = 0 /\ freed = {}
  /\ noticed = FALSE
  /\ crashed = FALSE

Goto(w, label) == pc' = [pc EXCEPT ![w] = label]

-----------------------------------------------------------------------------
(* ThreadFunc *)

\* The top of the loop: lock, and mark the thread as running.
EnterLoop(w) ==
  /\ pc[w] = "lock" /\ holder = Nobody
  /\ holder' = w
  /\ ifrunning' = ifrunning \cup {w}
  /\ Goto(w, "check")
  /\ UNCHANGED <<queue, count, running, shutdown, waitSet, job, mainpc, posted,
                 freed, noticed, crashed>>

\* threadData refers to a local variable of Create, moved from and then gone:
\* every pass through the loop may crash on it.
EnterCrashes(w) ==
  /\ pc[w] = "lock" /\ holder = Nobody
  /\ crashed' = TRUE
  /\ UNCHANGED <<queue, count, running, shutdown, holder, waitSet, pc, job,
                 ifrunning, mainpc, posted, freed, noticed>>

\* The predicate of the wait does not hold: wait, which releases the mutex.
Wait(w) ==
  /\ pc[w] = "check"
  /\ ~shutdown /\ queue = <<>>
  /\ waitSet' = waitSet \cup {w}
  /\ holder' = Nobody
  /\ Goto(w, "wait")
  /\ UNCHANGED <<queue, count, running, shutdown, job, ifrunning, mainpc, posted,
                 freed, noticed, crashed>>

\* A woken thread must have the mutex again before it evaluates the predicate.
Relock(w) ==
  /\ pc[w] = "wake" /\ holder = Nobody
  /\ holder' = w
  /\ Goto(w, "check")
  /\ UNCHANGED <<queue, count, running, shutdown, waitSet, job, ifrunning, mainpc,
                 posted, freed, noticed, crashed>>

\* A condition variable may wake a thread that nobody notified.
SpuriousWake(w) ==
  /\ w \in waitSet
  /\ waitSet' = waitSet \ {w}
  /\ Goto(w, "wake")
  /\ UNCHANGED <<queue, count, running, shutdown, holder, job, ifrunning, mainpc,
                 posted, freed, noticed, crashed>>

\* Shutting down comes first: the thread leaves the queue as it is.
Exit(w) ==
  /\ pc[w] = "check"
  /\ shutdown
  /\ holder' = Nobody
  /\ Goto(w, "exited")
  /\ UNCHANGED <<queue, count, running, shutdown, waitSet, job, ifrunning, mainpc,
                 posted, freed, noticed, crashed>>

\* Mutant: the message stays in the list.
Take_Peek(w) ==
  /\ pc[w] = "check"
  /\ ~shutdown /\ queue # <<>>
  /\ job' = [job EXCEPT ![w] = Head(queue)]
  /\ queue' = queue
  /\ count' = count - 1
  /\ holder' = Nobody
  /\ Goto(w, "start")
  /\ UNCHANGED <<running, shutdown, waitSet, ifrunning, mainpc, posted, freed,
                 noticed, crashed>>

\* Mutant: the newest message first.
Take_Newest(w) ==
  /\ pc[w] = "check"
  /\ ~shutdown /\ queue # <<>>
  /\ job' = [job EXCEPT ![w] = queue[Len(queue)]]
  /\ queue' = SubSeq(queue, 1, Len(queue) - 1)
  /\ count' = count - 1
  /\ holder' = Nobody
  /\ Goto(w, "start")
  /\ UNCHANGED <<running, shutdown, waitSet, ifrunning, mainpc, posted, freed,
                 noticed, crashed>>

Take(w) ==
  /\ pc[w] = "check"
  /\ ~shutdown /\ queue # <<>>
  /\ job' = [job EXCEPT ![w] = Head(queue)]
  /\ queue' = Tail(queue)
  /\ count' = count - 1
  /\ holder' = Nobody
  /\ Goto(w, "start")
  /\ UNCHANGED <<running, shutdown, waitSet, ifrunning, mainpc, posted, freed,
                 noticed, crashed>>

\* Mutant: the thread is not counted.
Start_Uncounted(w) ==
  /\ pc[w] = "start"
  /\ Goto(w, "work")
  /\ UNCHANGED <<queue, count, running, shutdown, holder, waitSet, job, ifrunning,
                 mainpc, posted, freed, noticed, crashed>>

\* m_RunningThreadNum++, some time after the message was taken.
Start(w) ==
  /\ pc[w] = "start"
  /\ running' = running + 1
  /\ Goto(w, "work")
  /\ UNCHANGED <<queue, count, shutdown, holder, waitSet, job, ifrunning, mainpc,
                 posted, freed, noticed, crashed>>

\* threadRecvProcFunc has returned: the message is freed.
Handle(w) ==
  /\ pc[w] = "work"
  /\ freed' = freed \cup {job[w]}
  /\ job' = [job EXCEPT ![w] = 0]
  /\ Goto(w, "done")
  /\ UNCHANGED <<queue, count, running, shutdown, holder, waitSet, ifrunning,
                 mainpc, posted, noticed, crashed>>

Done(w) ==
  /\ pc[w] = "done"
  /\ running' = running - 1
  /\ Goto(w, "lock")
  /\ UNCHANGED <<queue, count, shutdown, holder, waitSet, job, ifrunning, mainpc,
                 posted, freed, noticed, crashed>>

ThreadFunc(w) ==
  \/ EnterLoop(w) \/ EnterCrashes(w)
  \/ Wait(w) \/ Relock(w) \/ Exit(w)
  \/ Take(w) \/ Start(w) \/ Handle(w) \/ Done(w)

-----------------------------------------------------------------------------
(* The event loop's thread *)

\* Create returns when every thread has said that it runs.
Created ==
  /\ mainpc = "create"
  /\ ifrunning = Workers
  /\ mainpc' = "idle"
  /\ UNCHANGED <<queue, count, running, shutdown, holder, waitSet, pc, job,
                 ifrunning, posted, freed, noticed, crashed>>

\* inMsgRecvQueueAndSignal: lock and append.
Post ==
  /\ mainpc = "idle" /\ holder = Nobody
  /\ posted < MaxMsgs
  /\ holder' = Main
  /\ posted' = posted + 1
  /\ queue' = Append(queue, posted + 1)
  /\ count' = count + 1
  /\ mainpc' = "notify"
  /\ UNCHANGED <<running, shutdown, waitSet, pc, job, ifrunning, freed, noticed,
                 crashed>>

\* Mutant: only the first message of a batch wakes a thread.
notify_one_OnlyIfFirst ==
  IF waitSet = {} \/ Len(queue) > 1
    THEN UNCHANGED <<waitSet, pc>>
    ELSE \E w \in waitSet : waitSet' = waitSet \ {w} /\ Goto(w, "wake")

\* Mutant: nobody is notified.
notify_one_Forgotten == UNCHANGED <<waitSet, pc>>

notify_one ==
  IF waitSet = {}
    THEN UNCHANGED <<waitSet, pc>>
    ELSE \E w \in waitSet : waitSet' = waitSet \ {w} /\ Goto(w, "wake")

\* Call: notify, still under the mutex of inMsgRecvQueueAndSignal.
Notify ==
  /\ mainpc = "notify"
  /\ notify_one
  /\ mainpc' = "report"
  /\ UNCHANGED <<queue, count, running, shutdown, holder, job, ifrunning, posted,
                 freed, noticed, crashed>>

\* Mutant: off by one.
AllBusy_OffByOne == running + 1 >= ThreadNum

\* Call's test for a pool without idle threads.
AllBusy == running = ThreadNum

\* Call: report, at most once in 10 seconds; then unlock.
Report ==
  /\ mainpc = "report"
  /\ noticed' = (noticed \/ AllBusy)
  /\ holder' = Nobody
  /\ mainpc' = "idle"
  /\ UNCHANGED <<queue, count, running, shutdown, waitSet, pc, job, ifrunning,
                 posted, freed, crashed>>

\* Mutant: one waiting thread is told to stop.
notify_all_One == notify_one

notify_all ==
  /\ waitSet' = {}
  /\ pc' = [w \in Workers |-> IF w \in waitSet THEN "wake" ELSE pc[w]]

\* StopAll: all of it that is done under the mutex.
Stop ==
  /\ mainpc = "idle" /\ holder = Nobody
  /\ ~shutdown
  /\ shutdown' = TRUE
  /\ notify_all
  /\ mainpc' = "join"
  /\ UNCHANGED <<queue, count, running, holder, job, ifrunning, posted, freed,
                 noticed, crashed>>

\* StopAll: all threads are joined, then m_threadVector.clear() destroys the
\* ThreadItems.  Their _pThis is the last shared_ptr to the global g_threadpool, so
\* this runs ~CThreadPool, which frees the messages left, and hands the global to
\* operator delete, which aborts the process.
Clear ==
  /\ mainpc = "join"
  /\ \A w \in Workers : pc[w] = "exited"
  /\ freed' = freed \cup Range(queue)
  /\ queue' = <<>>
  /\ mainpc' = "cleared"
  /\ crashed' = TRUE
  /\ UNCHANGED <<count, running, shutdown, holder, waitSet, pc, job, ifrunning,
                 posted, noticed>>

MainSteps == Created \/ Notify \/ Report \/ Clear

Dead == crashed /\ UNCHANGED vars

Next ==
  \/ /\ ~crashed
     /\ \/ \E w \in Workers : ThreadFunc(w) \/ SpuriousWake(w)
        \/ MainSteps \/ Post \/ Stop
  \/ Dead

Spec == Init /\ [][Next]_vars

\* The scheduler runs every thread that can run; posting and stopping are up to
\* the clients and the operator, and nothing makes a spurious wake-up happen.
FairSpec ==
  /\ Spec
  /\ \A w \in Workers : WF_vars(~crashed /\ ThreadFunc(w))
  /\ WF_vars(~crashed /\ MainSteps)

-----------------------------------------------------------------------------
\* The type invariant.
TypeOK ==
  /\ queue \in Seq(1..MaxMsgs)
  /\ count \in Int
  /\ running \in 0..ThreadNum
  /\ shutdown \in BOOLEAN
  /\ holder \in Workers \cup {Main, Nobody}
  /\ waitSet \subseteq Workers
  /\ pc \in [Workers -> {"lock", "check", "wait", "wake", "start", "work", "done",
                         "exited"}]
  /\ job \in [Workers -> 0..MaxMsgs]
  /\ ifrunning \subseteq Workers
  /\ mainpc \in {"create", "idle", "notify", "report", "join", "cleared"}
  /\ posted \in 0..MaxMsgs
  /\ freed \subseteq 1..MaxMsgs
  /\ noticed \in BOOLEAN
  /\ crashed \in BOOLEAN

Jobs == {job[w] : w \in Workers} \ {0}

\* Every message posted is in exactly one place: once in the list, in the hands of
\* one thread, or freed.  None is lost, handled by two threads or freed twice, and
\* m_iRecvMsgQueueCount is the length of the list while the pool exists.
OnePlace ==
  /\ Range(queue) \cup Jobs \cup freed = 1..posted
  /\ Range(queue) \cap (Jobs \cup freed) = {}
  /\ Jobs \cap freed = {}
  /\ \A i, j \in DOMAIN queue : queue[i] = queue[j] => i = j
  /\ \A v, w \in Workers : job[v] = job[w] /\ job[v] # 0 => v = w
  /\ mainpc # "cleared" => count = Len(queue)

\* No wake-up is lost and none comes too few: while a thread sleeps, there are at
\* least as many threads awake as messages in the list (each thread that is awake
\* looks at the list before it sleeps).  Between appending and notifying one
\* thread may be missing.
EnoughAwake ==
  waitSet # {} =>
    Len(queue) <= Cardinality(Workers \ waitSet) + (IF mainpc = "notify" THEN 1 ELSE 0)

\* When Call reports that the pool has no idle thread, it is so: the count is taken
\* outside the mutex, but every thread counted is between taking a message and
\* coming back for the next.
ReportIsTrue ==
  [][noticed' # noticed => \A w \in Workers : pc[w] \in {"work", "done"}]_vars

\* Every message posted is handled, unless the pool is told to stop or the process
\* dies.
Handled ==
  \A m \in 1..MaxMsgs : posted = m ~> m \in freed \/ shutdown \/ crashed

\* StopAll gets every thread, wherever it is, to end.
StopEndsAll ==
  shutdown ~> crashed \/ \A w \in Workers : pc[w] = "exited"

JQ == INSTANCE JobQueue WITH
  pending <- queue, hand <- job, released <- freed, arrived <- posted,
  stopped <- shutdown, over <- crashed

\* The pool implements its abstract specification.
ImplementsJobQueue == JQ!Spec

\* ngx_c_threadpool.h says of a ThreadItem that once its thread runs, StopAll may be
\* called to release it: StopAll releases the ThreadItems and returns.
StopAllReturns == mainpc = "cleared" => ~crashed
=============================================================================
