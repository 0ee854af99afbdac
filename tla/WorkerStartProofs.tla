--------------------------- MODULE WorkerStartProofs ---------------------------
(***************************************************************************)
(* Proofs about WorkerStart, for every configured number of pool threads.  *)
(***************************************************************************)
EXTENDS WorkerStart, TLAPS

\* A pool thread is past its first turn exactly when its item says so.
Marks == \A t \in Pool : t \in ifrunning <=> thr[t] = "running"

\* A thread that Create has not made yet does nothing.
Unborn == \A k \in 1..threadNum : k > created => thr[<<"pool", k>>] = "none"

\* Only threads of the pool have a loop with a mark.
OnlyPoolLoops == \A t \in Others : thr[t] # "loop"

\* The one item of Create goes with the first turn of its loop: a second turn gets
\* as far as "handle" and finds null.
OneItem ==
  InCreate =>
    /\ slot["pool"] \in {"item", "null"}
    /\ slot["pool"] = "item" => created = IF mpc = "create" THEN 0 ELSE 1
    /\ mpc = "push" => slot["pool"] = "item"
    /\ mpc = "create" => created <= 1

\* After Create.
AfterCreate == ~InCreate => threadNum <= 1 /\ Pool \subseteq ifrunning

Inv == TypeOK /\ Marks /\ OnlyPoolLoops /\ Unborn /\ OneItem /\ AfterCreate

-----------------------------------------------------------------------------
\* A pool thread is not one of the two others.
LEMMA PoolApart == \A t \in Pool, u \in Others : t # u
  BY DEF Pool, Others

\* A value in range at one thread keeps the type of thr.
LEMMA ThrType ==
  ASSUME TypeOK, NEW t \in Threads, NEW v \in {"none", "born", "loop", "running"},
         thr' = [thr EXCEPT ![t] = v], threadNum' = threadNum
  PROVE  thr' \in [Threads' -> {"none", "born", "loop", "running"}]
<1>1. Threads' = Threads
  BY DEF Threads, Pool, Others
<1>2. QED
  BY <1>1 DEF TypeOK

\* The initial state satisfies the invariant.
LEMMA InitInv == Init => Inv
<1> SUFFICES ASSUME Init PROVE Inv
  OBVIOUS
<1>1. threadNum \in Nat
  BY ThreadNumsAssumption DEF Init
<1>2. thr \in [Threads -> {"none", "born", "loop", "running"}]
  BY DEF Init
<1>3. slot \in [Slots -> SlotStates] /\ slot["pool"] = "item"
  BY DEF Init, Slots, SlotStates
<1>4. TypeOK
  BY <1>1, <1>2, <1>3 DEF Init, TypeOK
<1>5. Marks /\ OnlyPoolLoops /\ Unborn
  BY DEF Init, Marks, OnlyPoolLoops, Unborn, Threads, Pool
<1>6. OneItem /\ AfterCreate
  BY <1>3 DEF Init, OneItem, AfterCreate, InCreate
<1>7. QED
  BY <1>4, <1>5, <1>6 DEF Inv

-----------------------------------------------------------------------------
\* What ends the process changes nothing else.
LEMMA DiesInv ==
  ASSUME Inv, NEW how \in {"terminated", "exit", "crashed"}, Dies(how)
  PROVE  Inv'
<1>1. Pool' = Pool /\ Threads' = Threads
  BY DEF Dies, Pool, Threads, Others
<1>2. QED
  BY <1>1 DEF Dies, Inv, TypeOK, Marks, OnlyPoolLoops, Unborn, OneItem, AfterCreate, InCreate

\* A step of the main thread that starts no pool thread, within or after Create.
LEMMA MainInv ==
  ASSUME Inv, UNCHANGED <<threadNum, created, ifrunning, fate>>,
         slot' \in [Slots -> SlotStates],
         thr' \in [Threads -> {"none", "born", "loop", "running"}],
         \A t \in Pool : thr'[t] = thr[t],
         \A t \in Others : thr'[t] \in {thr[t], "born"},
         mpc' \in {"create", "handle", "push", "subproc", "send", "pushSend", "recy",
                   "pushRecy", "return", "epoll"},
         OneItem', AfterCreate'
  PROVE  Inv'
<1>1. Pool' = Pool /\ Threads' = Threads
  BY DEF Pool, Threads, Others
<1>2. TypeOK' /\ Marks'
  BY <1>1 DEF Inv, TypeOK, Marks
<1>3. Unborn' /\ OnlyPoolLoops'
  BY DEF Inv, Unborn, OnlyPoolLoops, Pool, Others
<1>4. QED
  BY <1>2, <1>3 DEF Inv

\* The steps of Create preserve the invariant.
LEMMA CreateInv ==
  ASSUME Inv, fate = "alive", CreateThread \/ AssignHandle \/ PushItem \/ CreateReturns
  PROVE  Inv'
<1> USE DEF Inv
<1>1. threadNum \in Nat /\ created \in 0..threadNum
  BY ThreadNumsAssumption DEF TypeOK
<1>2. CASE CreateThread /\ fate' = "alive"
  <2> DEFINE t == <<"pool", created + 1>>
  <2>1. /\ mpc = "create" /\ mpc' = "handle" /\ created < threadNum
        /\ created' = created + 1 /\ thr' = [thr EXCEPT ![t] = "born"]
        /\ UNCHANGED <<threadNum, slot, ifrunning, fate>>
    BY <1>2 DEF CreateThread, MoreThreads, NoThread, Dies
  <2>2. t \in Pool /\ t \in Threads /\ Pool' = Pool /\ Threads' = Threads
    BY <2>1, <1>1 DEF Pool, Threads, Others
  <2>3. thr[t] = "none"
    BY <2>1, <1>1 DEF Unborn
  <2>4. TypeOK'
    BY <2>1, <2>2, <1>1 DEF TypeOK
  <2>5. Marks' /\ OnlyPoolLoops'
    BY <2>1, <2>2, <2>3, PoolApart DEF Marks, OnlyPoolLoops, TypeOK, Others
  <2>6. Unborn'
    BY <2>1, <2>2, <1>1 DEF Unborn, TypeOK
  <2>7. OneItem' /\ AfterCreate'
    BY <2>1, <1>1 DEF OneItem, AfterCreate, InCreate
  <2>8. QED
    BY <2>4, <2>5, <2>6, <2>7
<1>3. CASE CreateThread /\ fate' # "alive"
  BY <1>3, DiesInv DEF CreateThread, NoThread
<1>4. CASE AssignHandle
  <2>1. OneItem' /\ AfterCreate'
    BY <1>4 DEF AssignHandle, OneItem, AfterCreate, InCreate
  <2>2. QED
    BY <1>4, <2>1, MainInv DEF AssignHandle, TypeOK
<1>5. CASE PushItem
  <2>1. slot' \in [Slots -> SlotStates] /\ slot'["pool"] = "null"
    BY <1>5 DEF PushItem, MoveItem, TypeOK, Slots, SlotStates
  <2>2. OneItem' /\ AfterCreate'
    BY <1>5, <2>1 DEF PushItem, OneItem, AfterCreate, InCreate
  <2>3. QED
    BY <1>5, <2>1, <2>2, MainInv DEF PushItem, TypeOK
<1>6. CASE CreateReturns
  <2>1. slot' \in [Slots -> SlotStates]
    BY <1>6 DEF CreateReturns, TypeOK, Slots, SlotStates
  <2>2. threadNum <= 1
    BY <1>6, <1>1 DEF CreateReturns, MoreThreads, OneItem, InCreate
  <2>3. OneItem' /\ AfterCreate'
    BY <1>6, <2>2 DEF CreateReturns, AllRunning, OneItem, AfterCreate, InCreate, Pool
  <2>4. QED
    BY <1>6, <2>1, <2>3, MainInv DEF CreateReturns, TypeOK
<1>7. QED
  BY <1>2, <1>3, <1>4, <1>5, <1>6

\* So do the steps after Create.
LEMMA SubprocInv ==
  ASSUME Inv, \/ SemInit \/ \E t \in Others : StartThread(t)
              \/ PushSend \/ PushRecy \/ SubprocReturns \/ EpollInit
  PROVE  Inv'
<1> USE DEF Inv
<1>1. CASE SemInit
  <2>1. CASE Dies("exit")
    BY <2>1, DiesInv
  <2>2. CASE mpc' = "send" /\ UNCHANGED <<threadNum, created, thr, slot, ifrunning, fate>>
    <3>1. OneItem' /\ AfterCreate'
      BY <1>1, <2>2 DEF SemInit, OneItem, AfterCreate, InCreate, Pool
    <3>2. QED
      BY <2>2, <3>1, MainInv DEF TypeOK
  <2>3. QED
    BY <1>1, <2>1, <2>2 DEF SemInit
<1>2. ASSUME NEW t \in Others, StartThread(t) PROVE Inv'
  <2>1. CASE NoThread
    BY <2>1, DiesInv DEF NoThread
  <2>2. CASE ~NoThread
    <3>1. /\ mpc = SlotOf(t) /\ SlotOf(t) \in {"send", "recy"}
          /\ slot' = [slot EXCEPT ![SlotOf(t)] = "item"]
          /\ thr' = [thr EXCEPT ![t] = "born"]
          /\ mpc' \in {"pushSend", "pushRecy"}
          /\ UNCHANGED <<threadNum, created, ifrunning, fate>>
      BY <1>2, <2>2 DEF StartThread, Others, SlotOf
    <3>2. slot' \in [Slots -> SlotStates]
      BY <3>1 DEF TypeOK, Slots, SlotStates
    <3>3. /\ thr' \in [Threads -> {"none", "born", "loop", "running"}]
          /\ \A u \in Pool : thr'[u] = thr[u]
          /\ \A u \in Others : thr'[u] \in {thr[u], "born"}
      BY <3>1, PoolApart DEF TypeOK, Threads
    <3>4. OneItem' /\ AfterCreate'
      BY <3>1 DEF OneItem, AfterCreate, InCreate, Pool
    <3>5. QED
      BY <3>1, <3>2, <3>3, <3>4, MainInv
  <2>3. QED
    BY <2>1, <2>2
<1>3. CASE PushSend
  <2>1. slot' \in [Slots -> SlotStates]
    BY <1>3 DEF PushSend, MoveItem, TypeOK, Slots, SlotStates
  <2>2. OneItem' /\ AfterCreate'
    BY <1>3 DEF PushSend, OneItem, AfterCreate, InCreate, Pool
  <2>3. QED
    BY <1>3, <2>1, <2>2, MainInv DEF PushSend, TypeOK
<1>4. CASE PushRecy
  <2>1. slot' \in [Slots -> SlotStates]
    BY <1>4 DEF PushRecy, MoveItem, TypeOK, Slots, SlotStates
  <2>2. OneItem' /\ AfterCreate'
    BY <1>4 DEF PushRecy, OneItem, AfterCreate, InCreate, Pool
  <2>3. QED
    BY <1>4, <2>1, <2>2, MainInv DEF PushRecy, TypeOK
<1>5. CASE SubprocReturns
  <2>1. slot' \in [Slots -> SlotStates]
    BY <1>5 DEF SubprocReturns, SlotStates
  <2>2. OneItem' /\ AfterCreate'
    BY <1>5 DEF SubprocReturns, OneItem, AfterCreate, InCreate, Pool
  <2>3. QED
    BY <1>5, <2>1, <2>2, MainInv DEF SubprocReturns, TypeOK
<1>6. CASE EpollInit
  BY <1>6, DiesInv DEF EpollInit
<1>7. QED
  BY <1>1, <1>2, <1>3, <1>4, <1>5, <1>6

\* And the steps of the threads.
LEMMA ThreadInv ==
  ASSUME Inv, NEW t \in Threads, ThreadSteps(t)
  PROVE  Inv'
<1> USE DEF Inv
<1>1. CASE ReadCrashes(t)
  BY <1>1, DiesInv DEF ReadCrashes
<1>2. CASE ReadThis(t)
  <2> DEFINE v == IF t \in Others THEN "running" ELSE "loop"
  <2>1. /\ thr[t] = "born" /\ thr' = [thr EXCEPT ![t] = v]
        /\ UNCHANGED <<threadNum, created, slot, ifrunning, mpc, fate>>
        /\ Pool' = Pool /\ Threads' = Threads
    BY <1>2 DEF ReadThis, Pool, Threads, Others
  <2>2. TypeOK'
    BY <2>1 DEF TypeOK
  <2>3. Marks' /\ OnlyPoolLoops'
    BY <2>1, PoolApart DEF Marks, OnlyPoolLoops, TypeOK, Threads
  <2>4. Unborn'
    BY <2>1 DEF Unborn, TypeOK, Threads, Pool
  <2>5. QED
    BY <2>1, <2>2, <2>3, <2>4 DEF OneItem, AfterCreate, InCreate
<1>3. CASE MarkRunning(t)
  <2>1. /\ thr[t] = "loop" /\ thr' = [thr EXCEPT ![t] = "running"]
        /\ ifrunning' = ifrunning \cup {t}
        /\ UNCHANGED <<threadNum, created, slot, mpc, fate>>
        /\ Pool' = Pool /\ Threads' = Threads
    BY <1>3 DEF MarkRunning, Pool, Threads, Others
  <2>2. t \in Pool
    BY <2>1 DEF OnlyPoolLoops, Threads
  <2>3. TypeOK' /\ Marks' /\ OnlyPoolLoops'
    BY <2>1, <2>2, PoolApart DEF TypeOK, Marks, OnlyPoolLoops, Threads
  <2>4. Unborn'
    BY <2>1 DEF Unborn, TypeOK, Threads, Pool
  <2>5. OneItem' /\ AfterCreate'
    BY <2>1 DEF OneItem, AfterCreate, InCreate
  <2>6. QED
    BY <2>3, <2>4, <2>5
<1>4. QED
  BY <1>1, <1>2, <1>3 DEF ThreadSteps

\* Every step preserves the invariant.
LEMMA StepInv == Inv /\ [Next]_vars => Inv'
<1> SUFFICES ASSUME Inv, [Next]_vars PROVE Inv'
  OBVIOUS
<1>1. CASE UNCHANGED vars
  <2>1. Pool' = Pool /\ Threads' = Threads
    BY <1>1 DEF vars, Pool, Threads, Others
  <2>2. QED
    BY <1>1, <2>1 DEF vars, Inv, TypeOK, Marks, OnlyPoolLoops, Unborn, OneItem,
                      AfterCreate, InCreate
<1>2. CASE fate = "alive" /\ AssignHandleCrashes
  BY <1>2, DiesInv DEF AssignHandleCrashes
<1>3. CASE fate = "alive" /\ Main /\ ~AssignHandleCrashes
  BY <1>3, CreateInv, SubprocInv DEF Main
<1>4. CASE \E t \in Threads : ThreadSteps(t)
  BY <1>4, ThreadInv
<1>5. QED
  BY <1>1, <1>2, <1>3, <1>4 DEF Next

\* The invariant holds in every reachable state.
THEOREM Invariance == Spec => []Inv
  BY InitInv, StepInv, PTL DEF Spec

\* The variables of the start of a worker keep their types: Create counts the threads
\* it was asked for and no more.
THEOREM TypeCorrect == Spec => []TypeOK
<1>1. Inv => TypeOK
  BY DEF Inv
<1>2. QED
  BY <1>1, Invariance, PTL

\* The pool is complete before the first socket is touched.
THEOREM PoolComesFirst == Spec => []PoolFirst
<1>1. Inv => PoolFirst
  BY DEF Inv, PoolFirst, AfterCreate, Marks
<1>2. QED
  BY <1>1, Invariance, PTL

\* With two pool threads or more, no worker gets past CThreadPool::Create, whatever the
\* scheduler does: the first turn of its loop moves the only item away.  The comment of
\* Create says that it returns true when all threads are made, and nginx.conf asks for
\* 200 of them.
THEOREM NoSecondThread == Spec => [](~InCreate => threadNum <= 1)
<1>1. Inv => (~InCreate => threadNum <= 1)
  BY DEF Inv, AfterCreate
<1>2. QED
  BY <1>1, Invariance, PTL
=============================================================================
