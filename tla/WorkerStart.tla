------------------------------ MODULE WorkerStart ------------------------------
(***************************************************************************)
(* How a worker process starts its threads: ngx_worker_process_init of     *)
(* proc/ngx_process_cycle.cxx, with CThreadPool::Create, the first lines   *)
(* of the thread functions, CSocket::Initialize_subproc and ngx_epoll_init.*)
(*                                                                         *)
(* A thread gets its ThreadItem as a reference to a local shared_ptr of    *)
(* the function that starts it, the "slot".  That function then moves the  *)
(* slot into m_threadVector, which leaves it null, and returns, which ends *)
(* its life, without waiting for the thread to have read it.               *)
(***************************************************************************)
EXTENDS Integers, FiniteSets

CONSTANT ThreadNums    \* values of ProcMsgRecvWorkThreadCount

ASSUME ThreadNumsAssumption == ThreadNums \subseteq Nat /\ ThreadNums # {}

VARIABLES
  threadNum,  \* m_iThreadNum
  created,    \* how many pool threads the loop of Create has started
  thr,        \* where each thread is
  slot,       \* the slots of the pool threads, the send and the recycle thread
  ifrunning,  \* pool threads whose ThreadItem says ifrunning
  mpc,        \* where the main thread of the worker is
  fate        \* "alive", or how the process ended

vars == <<threadNum, created, thr, slot, ifrunning, mpc, fate>>

Slots == {"pool", "send", "recy"}

\* A thread is named by its slot and its number.
Pool == {"pool"} \X (1..threadNum)
Others == {"send", "recy"} \X {1}
Threads == Pool \cup Others
SlotOf(t) == t[1]

\* null once moved, dead once the function that declared it has returned.
SlotStates == {"none", "item", "null", "dead"}

Init ==
  /\ threadNum \in ThreadNums
  /\ created = 0
  /\ thr = [t \in Threads |-> "none"]
  /\ slot = [s \in Slots |-> IF s = "pool" THEN "item" ELSE "none"]
  /\ ifrunning = {}
  /\ mpc = "create"
  /\ fate = "alive"

Dies(how) ==
  /\ fate' = how
  /\ UNCHANGED <<threadNum, created, thr, slot, ifrunning, mpc>>

\* std::thread's constructor throws when no thread can be made; nobody catches it.
NoThread == Dies("terminated")

-----------------------------------------------------------------------------
(* CThreadPool::Create *)

\* Mutant: one thread too many.
MoreThreads_OneTooMany == created <= threadNum

MoreThreads == created < threadNum

\* One turn of the loop, "thread_item->_Handle = std::thread(...)": the thread is
\* made first, then thread_item is dereferenced.
CreateThread ==
  /\ mpc = "create" /\ MoreThreads
  /\ \/ /\ created' = created + 1
        /\ thr' = [thr EXCEPT ![<<"pool", created + 1>>] = "born"]
        /\ mpc' = "handle"
        /\ UNCHANGED <<threadNum, slot, ifrunning, fate>>
     \/ NoThread

AssignHandle ==
  /\ mpc = "handle"
  /\ slot["pool"] = "item"
  /\ mpc' = "push"
  /\ UNCHANGED <<threadNum, created, thr, slot, ifrunning, fate>>

AssignHandleCrashes ==
  /\ mpc = "handle"
  /\ slot["pool"] = "null"
  /\ Dies("crashed")

\* emplace_back(std::move(slot)).
MoveItem(s) == slot' = [slot EXCEPT ![s] = "null"]

PushItem ==
  /\ mpc = "push"
  /\ MoveItem("pool")
  /\ mpc' = "create"
  /\ UNCHANGED <<threadNum, created, thr, ifrunning, fate>>

\* Mutant: Create does not wait for its threads.
AllRunning_NotAwaited == TRUE

\* What Create waits for.
AllRunning == Pool \subseteq ifrunning

\* The wait, and the return that ends the life of thread_item.
CreateReturns ==
  /\ mpc = "create" /\ ~MoreThreads
  /\ AllRunning
  /\ slot' = [slot EXCEPT !["pool"] = "dead"]
  /\ mpc' = "subproc"
  /\ UNCHANGED <<threadNum, created, thr, ifrunning, fate>>

-----------------------------------------------------------------------------
(* CSocket::Initialize_subproc *)

\* sem_init; when it fails the process exits.
SemInit ==
  /\ mpc = "subproc"
  /\ \/ mpc' = "send" /\ UNCHANGED <<threadNum, created, thr, slot, ifrunning, fate>>
     \/ Dies("exit")

\* A thread with a slot of its own: new item, thread, handle.
StartThread(t) ==
  /\ mpc = SlotOf(t)
  /\ \/ /\ slot' = [slot EXCEPT ![SlotOf(t)] = "item"]
        /\ thr' = [thr EXCEPT ![t] = "born"]
        /\ mpc' = IF mpc = "send" THEN "pushSend" ELSE "pushRecy"
        /\ UNCHANGED <<threadNum, created, ifrunning, fate>>
     \/ NoThread

PushSend ==
  /\ mpc = "pushSend"
  /\ MoveItem("send")
  /\ mpc' = "recy"
  /\ UNCHANGED <<threadNum, created, thr, ifrunning, fate>>

PushRecy ==
  /\ mpc = "pushRecy"
  /\ MoveItem("recy")
  /\ mpc' = "return"
  /\ UNCHANGED <<threadNum, created, thr, ifrunning, fate>>

SubprocReturns ==
  /\ mpc = "return"
  /\ slot' = [s \in Slots |-> "dead"]
  /\ mpc' = "epoll"
  /\ UNCHANGED <<threadNum, created, thr, ifrunning, fate>>

\* ngx_epoll_init: exit(2) if epoll_create fails.  Otherwise initConnection makes
\* as many connections as there are already, none.  ngx_get_connection finds the pool
\* empty, makes a connection, moves it into the list of connections, and stores
\* the descriptor of the first listening socket through the null that is left.
EpollInit ==
  /\ mpc = "epoll"
  /\ Dies("exit") \/ Dies("crashed")

Main ==
  \/ CreateThread \/ AssignHandle \/ AssignHandleCrashes \/ PushItem
  \/ CreateReturns
  \/ SemInit \/ \E t \in Others : StartThread(t)
  \/ PushSend \/ PushRecy \/ SubprocReturns \/ EpollInit

-----------------------------------------------------------------------------
(* The threads *)

\* The item is read through the slot: out of a dead one comes anything, which may
\* look like an item.
Readable(t) == slot[SlotOf(t)] \in {"item", "dead"}

ReadCrashes(t) ==
  /\ thr[t] \in {"born", "loop"}
  /\ slot[SlotOf(t)] \in {"null", "dead"}
  /\ Dies("crashed")

\* threadData->_pThis: the first line of each of the three thread functions.
ReadThis(t) ==
  /\ thr[t] = "born"
  /\ Readable(t)
  /\ thr' = [thr EXCEPT ![t] = IF t \in Others THEN "running" ELSE "loop"]
  /\ UNCHANGED <<threadNum, created, slot, ifrunning, mpc, fate>>

\* Mutant: the thread does not mark its item.
MarkRunning_Forgotten(t) ==
  /\ thr[t] = "loop"
  /\ Readable(t)
  /\ ifrunning' = ifrunning
  /\ thr' = [thr EXCEPT ![t] = "running"]
  /\ UNCHANGED <<threadNum, created, slot, mpc, fate>>

\* threadData->ifrunning = true, in the first turn of the loop of ThreadFunc.  Each later
\* turn reads the slot again, dead by then, but there is none without a message, and no
\* message before the event loop: ThreadPool has that read (EnterCrashes).
MarkRunning(t) ==
  /\ thr[t] = "loop"
  /\ Readable(t)
  /\ ifrunning' = ifrunning \cup {t}
  /\ thr' = [thr EXCEPT ![t] = "running"]
  /\ UNCHANGED <<threadNum, created, slot, mpc, fate>>

ThreadSteps(t) == ReadThis(t) \/ MarkRunning(t) \/ ReadCrashes(t)

Next ==
  /\ fate = "alive"
  /\ \/ Main
     \/ \E t \in Threads : ThreadSteps(t)

Spec == Init /\ [][Next]_vars

\* Every thread that exists runs.
FairSpec ==
  /\ Spec
  /\ WF_vars(fate = "alive" /\ Main)
  /\ WF_vars(fate = "alive" /\ \E t \in Pool : ThreadSteps(t))

-----------------------------------------------------------------------------
\* The type invariant.
TypeOK ==
  /\ threadNum \in ThreadNums
  /\ created \in 0..threadNum
  /\ thr \in [Threads -> {"none", "born", "loop", "running"}]
  /\ slot \in [Slots -> SlotStates]
  /\ ifrunning \subseteq Pool
  /\ mpc \in {"create", "handle", "push", "subproc", "send", "pushSend", "recy",
              "pushRecy", "return", "epoll"}
  /\ fate \in {"alive", "terminated", "exit", "crashed"}

InCreate == mpc \in {"create", "handle", "push"}

\* The pool comes before anything of the sockets, as ngx_worker_process_init asks:
\* once Create has returned, every thread of the pool has its item and is at the
\* point where it waits for messages.
PoolFirst == ~InCreate => \A t \in Pool : thr[t] = "running"

\* The start comes to an end: Create does not wait forever.
StartEnds == <>(fate # "alive")
=============================================================================
