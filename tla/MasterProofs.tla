----------------------------- MODULE MasterProofs -----------------------------
(***************************************************************************)
(* Proofs about Master, for every number of workers.                       *)
(***************************************************************************)
EXTENDS Master, FiniteSetTheorems, TLAPS

ChildType == [Workers -> {"none", "running", "failed", "zombie", "reaped"}]
Errnos == {"EINTR", "ECHILD", "other"}

\* The workers not started yet are unknown to the kernel.
Unborn == \A w \in Workers : w >= i => child[w] = "none"

\* With the signals blocked, the start is not in a handler's loop.
StartQuiet == mpc = "spawn" /\ blocked => ~spin

Inv == TypeOK /\ Unborn /\ StartQuiet /\ LeftoverShared

-----------------------------------------------------------------------------
\* The zombies are finitely many.
LEMMA ZombiesFinite ==
  IsFiniteSet(Zombies) /\ Cardinality(Zombies) \in Nat
<1>1. IsFiniteSet(Workers)
  <2>1. 0 \in Int /\ ProcessNums - 1 \in Int
    BY ProcessNumsAssumption
  <2>2. QED
    BY <2>1, FS_Interval DEF Workers
<1>2. Zombies \subseteq Workers
  BY DEF Zombies
<1>3. IsFiniteSet(Zombies)
  BY <1>1, <1>2, FS_Subset
<1>4. QED
  BY <1>3, FS_CardinalityType

\* A pending SIGCHLD announces one zombie.
LEMMA Announced ==
  Cardinality(pending \cap {"CHLD"}) = IF "CHLD" \in pending THEN 1 ELSE 0
<1>1. CASE "CHLD" \in pending
  <2>1. pending \cap {"CHLD"} = {"CHLD"}
    BY <1>1
  <2>2. QED
    BY <1>1, <2>1, FS_Singleton
<1>2. CASE "CHLD" \notin pending
  <2>1. pending \cap {"CHLD"} = {}
    BY <1>2
  <2>2. QED
    BY <1>2, <2>1, FS_EmptySet
<1>3. QED
  BY <1>1, <1>2

\* What one call of waitpid does: nothing if there is no zombie, or one is reaped.
LEMMA WaitPidEffect ==
  ASSUME TypeOK, Unborn, NEW e \in Errnos, WaitPid(e), i' = i
  PROVE  /\ child' \in ChildType /\ errno' \in Errnos /\ Unborn'
         /\ \/ Zombies = {} /\ Zombies' = {}
            \/ Zombies # {} /\ Cardinality(Zombies') = Cardinality(Zombies) - 1
<1>1. errno' \in Errnos
  BY DEF WaitPid, Errnos
<1>2. CASE Zombies = {}
  <2>1. child' = child
    BY <1>2 DEF WaitPid
  <2>2. QED
    BY <1>1, <1>2, <2>1 DEF TypeOK, ChildType, Unborn, Zombies
<1>3. CASE Zombies # {}
  <2>1. PICK w \in Zombies : child' = [child EXCEPT ![w] = "reaped"]
    BY <1>3 DEF WaitPid
  <2>2. w \in Workers /\ child[w] = "zombie"
    BY DEF Zombies
  <2>3. child' \in ChildType
    BY <2>1, <2>2 DEF TypeOK, ChildType
  <2>4. Unborn'
    BY <2>1, <2>2 DEF TypeOK, Unborn
  <2>5. Zombies' = Zombies \ {w}
    BY <2>1, <2>2 DEF TypeOK, Zombies
  <2>6. Cardinality(Zombies') = Cardinality(Zombies) - 1
    BY <2>5, ZombiesFinite, FS_RemoveElement
  <2>7. QED
    BY <1>1, <1>3, <2>3, <2>4, <2>6
<1>4. QED
  BY <1>2, <1>3

-----------------------------------------------------------------------------
\* The initial state satisfies the invariant.
LEMMA InitInv == Init => Inv
<1> SUFFICES ASSUME Init PROVE Inv
  OBVIOUS
<1>1. TypeOK
  <2>1. i \in 0..ProcessNums
    BY ProcessNumsAssumption DEF Init
  <2>2. child \in ChildType
    BY DEF Init, ChildType
  <2>3. QED
    BY <2>1, <2>2 DEF Init, TypeOK, ChildType
<1>2. Unborn /\ StartQuiet
  BY DEF Init, Unborn, StartQuiet
<1>3. LeftoverShared
  <2>1. Zombies = {} /\ shared = 0 /\ "CHLD" \notin pending
    BY DEF Init, Zombies
  <2>2. Cardinality(Zombies) = 0
    BY <2>1, FS_EmptySet
  <2>3. QED
    BY <2>1, <2>2, Announced DEF LeftoverShared
<1>4. QED
  BY <1>1, <1>2, <1>3 DEF Inv

\* A step of the main flow reaps nobody and takes no signal.
LEMMA MainFlowInv == Inv /\ MainFlow => Inv' /\ Zombies' = Zombies /\ Reaped' = Reaped
<1> SUFFICES ASSUME Inv, MainFlow PROVE Inv' /\ Zombies' = Zombies /\ Reaped' = Reaped
  OBVIOUS
<1> USE DEF Inv
<1>1. ~spin /\ spin' = spin /\ pending' = pending /\ ngx_reap' = ngx_reap /\ shared' = shared
  BY DEF MainFlow
<1>2. StartQuiet'
  BY <1>1 DEF StartQuiet
<1> SUFFICES TypeOK' /\ Unborn' /\ Zombies' = Zombies /\ Reaped' = Reaped
  BY <1>1, <1>2 DEF LeftoverShared
<1>3. CASE BlockSignals
  BY <1>1, <1>3 DEF BlockSignals, AfterLog, TypeOK, Unborn, Zombies, Reaped
<1>4. CASE Fork
  <2>1. i \in Workers /\ i' = i + 1 /\ i' \in 0..ProcessNums /\ child[i] = "none"
    BY <1>4, ProcessNumsAssumption DEF Fork, MoreToSpawn, TypeOK, Workers, Unborn
  <2>2. PICK r \in {"running", "failed"} : child' = [child EXCEPT ![i] = r]
    BY <1>4 DEF Fork
  <2>3. child' \in ChildType
    BY <2>1, <2>2 DEF TypeOK, ChildType
  <2>4. Unborn'
    BY <2>1, <2>2 DEF TypeOK, Unborn, Workers
  <2>5. Zombies' = Zombies /\ Reaped' = Reaped
    BY <2>1, <2>2 DEF TypeOK, Zombies, Reaped
  <2>6. TypeOK'
    BY <1>1, <1>4, <2>1, <2>3 DEF Fork, TypeOK, ChildType
  <2>7. QED
    BY <2>4, <2>5, <2>6
<1>5. CASE Suspend
  BY <1>1, <1>5 DEF Suspend, TypeOK, Unborn, Zombies, Reaped
<1>6. CASE Resume
  BY <1>1, <1>6 DEF Resume, TypeOK, Unborn, Zombies, Reaped
<1>7. QED
  BY <1>3, <1>4, <1>5, <1>6 DEF MainFlow

\* What the delivery of a signal does to the types.
LEMMA DeliverTypes ==
  ASSUME TypeOK, NEW s \in Signals, Deliver(s)
  PROVE  /\ pending' \subseteq Signals /\ outer' \in Signals \cup {"none"}
         /\ i' \in 0..ProcessNums /\ blocked' \in BOOLEAN /\ shared' \in Nat
         /\ mpc' \in {"start", "spawn", "suspend", "awake", "sleep", "dead"}
  BY DEF Deliver, TypeOK

\* While the master starts its workers, blocked signals are not delivered.
LEMMA StartMasked ==
  TypeOK /\ mpc = "spawn" /\ blocked => pending \ Mask = {}
  BY DEF TypeOK, Mask, BlockedSet

\* A handled SIGCHLD reaps one zombie, or there is none.
LEMMA ReapChildInv == Inv /\ ReapChild => Inv'
<1> SUFFICES ASSUME Inv, ReapChild PROVE Inv'
  OBVIOUS
<1> USE DEF Inv
<1>1. PICK e \in AfterLog : WaitPid(e)
  BY DEF ReapChild
<1>2. e \in Errnos /\ i' = i /\ shared' = shared
  BY DEF ReapChild, Deliver, AfterLog, TypeOK, Errnos
<1>3. /\ child' \in ChildType /\ errno' \in Errnos /\ Unborn'
      /\ \/ Zombies = {} /\ Zombies' = {}
         \/ Zombies # {} /\ Cardinality(Zombies') = Cardinality(Zombies) - 1
  BY <1>1, <1>2, WaitPidEffect
<1>4. Deliver("CHLD") /\ ngx_reap' \in BOOLEAN /\ spin' \in BOOLEAN
  BY DEF ReapChild
<1>5. TypeOK'
  BY <1>3, <1>4, DeliverTypes DEF TypeOK, ChildType, Errnos, Signals
<1>6. StartQuiet'
  <2>1. ~(mpc = "spawn" /\ blocked)
    BY <1>4, StartMasked DEF Deliver
  <2>2. mpc' = "spawn" => mpc = "spawn" /\ blocked' = blocked
    BY <1>4 DEF Deliver
  <2>3. QED
    BY <2>1, <2>2 DEF StartQuiet
<1>7. LeftoverShared'
  <2>1. "CHLD" \in pending /\ "CHLD" \notin pending'
    BY <1>4 DEF Deliver
  <2>2. Cardinality(Zombies) <= shared + 1 /\ shared \in Nat
    BY <2>1, Announced DEF LeftoverShared, TypeOK
  <2>3. Cardinality((pending \cap {"CHLD"})') = 0
    <3>1. (pending \cap {"CHLD"})' = {}
      BY <2>1
    <3>2. QED
      BY <3>1, FS_EmptySet
  <2>4. Cardinality(Zombies') <= shared
    <3>1. CASE Zombies' = {}
      <4>1. Cardinality(Zombies') = 0
        BY <3>1, FS_EmptySet
      <4>2. QED
        BY <2>2, <4>1
    <3>2. CASE Cardinality(Zombies') = Cardinality(Zombies) - 1
      BY <2>2, <3>2, ZombiesFinite
    <3>3. QED
      BY <1>3, <3>1, <3>2
  <2>5. QED
    BY <1>2, <2>2, <2>3, <2>4 DEF LeftoverShared
<1>8. QED
  BY <1>3, <1>5, <1>6, <1>7

\* The end of a worker is announced, or shares the signal of another.
LEMMA ExitInv == ASSUME Inv, NEW w \in Workers, Exit(w) PROVE Inv'
<1> USE DEF Inv
<1>1. child[w] = "running" /\ child' = [child EXCEPT ![w] = "zombie"]
  BY DEF Exit
<1>2. shared \in Nat /\ shared' \in Nat
  BY DEF Exit, TypeOK
<1>3. TypeOK'
  <2>1. child' \in ChildType
    BY <1>1 DEF TypeOK, ChildType
  <2>2. QED
    BY <1>2, <2>1 DEF Exit, TypeOK, ChildType, Signals
<1>4. Unborn' /\ StartQuiet'
  BY <1>1 DEF Exit, TypeOK, Unborn, StartQuiet
<1>5. LeftoverShared'
  <2>1. Zombies' = Zombies \cup {w} /\ w \notin Zombies
    BY <1>1 DEF TypeOK, Zombies
  <2>2. Cardinality(Zombies') = Cardinality(Zombies) + 1
    BY <2>1, ZombiesFinite, FS_AddElement
  <2>3. Cardinality((pending \cap {"CHLD"})') = 1
    <3>1. (pending \cap {"CHLD"})' = {"CHLD"}
      BY DEF Exit
    <3>2. QED
      BY <3>1, FS_Singleton
  <2>4. Cardinality(Zombies) <= shared'
    BY <1>2, Announced DEF Exit, LeftoverShared
  <2>5. QED
    BY <1>2, <2>2, <2>3, <2>4, ZombiesFinite DEF LeftoverShared
<1>6. QED
  BY <1>3, <1>4, <1>5

\* Every step preserves the invariant.
LEMMA StepInv == Inv /\ [Next]_vars => Inv'
<1> SUFFICES ASSUME Inv, [Next]_vars PROVE Inv'
  OBVIOUS
<1> USE DEF Inv
<1>1. CASE MainFlow
  BY <1>1, MainFlowInv
<1>2. CASE LogSignal
  <2>1. Deliver("TERM") /\ child' = child /\ spin' = spin /\ ngx_reap' = ngx_reap
    BY <1>2 DEF LogSignal
  <2>2. TypeOK'
    BY <1>2, <2>1, DeliverTypes DEF LogSignal, AfterLog, TypeOK, Signals
  <2>3. Unborn' /\ StartQuiet'
    BY <2>1 DEF Deliver, Unborn, StartQuiet
  <2>4. (pending \cap {"CHLD"})' = pending \cap {"CHLD"} /\ Zombies' = Zombies
    BY <2>1 DEF Deliver, Zombies
  <2>5. QED
    BY <2>1, <2>2, <2>3, <2>4 DEF Deliver, LeftoverShared
<1>3. CASE Killed
  <2>1. TypeOK' /\ Unborn' /\ StartQuiet'
    BY <1>3 DEF Killed, TypeOK, Unborn, StartQuiet
  <2>2. (pending \cap {"CHLD"})' = pending \cap {"CHLD"} /\ Zombies' = Zombies
    BY <1>3 DEF Killed, Zombies
  <2>3. QED
    BY <1>3, <2>1, <2>2 DEF Killed, LeftoverShared
<1>4. CASE ReapChild
  BY <1>4, ReapChildInv
<1>5. CASE Spin
  <2>1. /\ errno \in Errnos /\ WaitPid(errno) /\ i' = i
        /\ pending' = pending /\ shared' = shared
    BY <1>5 DEF Spin, TypeOK, Errnos
  <2>2. /\ child' \in ChildType /\ errno' \in Errnos /\ Unborn'
        /\ \/ Zombies = {} /\ Zombies' = {}
           \/ Zombies # {} /\ Cardinality(Zombies') = Cardinality(Zombies) - 1
    BY <2>1, WaitPidEffect
  <2>3. TypeOK'
    BY <1>5, <2>2 DEF Spin, TypeOK, ChildType, Errnos
  <2>4. StartQuiet'
    BY <1>5 DEF Spin, StartQuiet
  <2>5. Cardinality(Zombies') <= Cardinality(Zombies) /\ Cardinality(Zombies) \in Nat
    BY <2>2, ZombiesFinite
  <2>6. shared + Cardinality(pending \cap {"CHLD"}) \in Nat
    BY Announced DEF TypeOK
  <2>7. Cardinality(Zombies') \in Int
    BY <2>2, ZombiesFinite
  <2>8. LeftoverShared'
    BY <2>1, <2>5, <2>6, <2>7 DEF LeftoverShared
  <2>9. QED
    BY <2>2, <2>3, <2>4, <2>8
<1>6. ASSUME NEW w \in Workers, Exit(w) PROVE Inv'
  BY <1>6, ExitInv
<1>7. ASSUME NEW s \in Signals, Kill(s) PROVE Inv'
  <2>1. TypeOK' /\ Unborn' /\ StartQuiet' /\ Zombies' = Zombies
    BY <1>7 DEF Kill, TypeOK, Unborn, StartQuiet, Zombies
  <2>2. Cardinality((pending \cap {"CHLD"})') >= Cardinality(pending \cap {"CHLD"})
    <3>1. CASE s = "CHLD"
      <4>1. (pending \cap {"CHLD"})' = {"CHLD"}
        BY <1>7, <3>1 DEF Kill
      <4>2. QED
        BY <4>1, FS_Singleton, Announced
    <3>2. CASE s # "CHLD"
      <4>1. (pending \cap {"CHLD"})' = pending \cap {"CHLD"}
        BY <1>7, <3>2 DEF Kill
      <4>2. QED
        BY <4>1, Announced
    <3>3. QED
      BY <3>1, <3>2
  <2>3. Cardinality((pending \cap {"CHLD"})') \in {0, 1}
    <3>1. (pending \cap {"CHLD"})' \in {{}, {"CHLD"}}
      OBVIOUS
    <3>2. QED
      BY <3>1, FS_EmptySet, FS_Singleton
  <2>4. LeftoverShared'
    BY <1>7, <2>1, <2>2, <2>3, ZombiesFinite, Announced DEF Kill, LeftoverShared, TypeOK
  <2>5. QED
    BY <2>1, <2>4
<1>8. CASE UNCHANGED vars
  BY <1>8 DEF vars, sigVars, TypeOK, Unborn, StartQuiet, LeftoverShared, Zombies
<1>9. QED
  BY <1>1, <1>2, <1>3, <1>4, <1>5, <1>6, <1>7, <1>8 DEF Next, MasterSteps, Dead

\* The invariant holds in every reachable state.
THEOREM Invariance == Spec => []Inv
  BY InitInv, StepInv, PTL DEF Spec

\* Every variable keeps its type, the loop counter of the start included.
THEOREM TypeCorrect == Spec => []TypeOK
  BY Invariance, PTL DEF Inv

\* Each SIGCHLD that the handler takes reaps a zombie if there is one: what stays is no
\* more than the ends that shared the signal of another.
THEOREM NoSignalWasted == Spec => []LeftoverShared
  BY Invariance, PTL DEF Inv

-----------------------------------------------------------------------------
\* With the signals blocked, a step taken during the start is no handler's.
LEMMA SpawnStep ==
  Inv /\ [Next]_vars =>
    [mpc = "spawn" /\ blocked =>
       /\ mpc' \in {"spawn", "suspend"}
       /\ ngx_reap' = ngx_reap /\ ~spin'
       /\ Reaped' = Reaped]_vars
<1> SUFFICES ASSUME Inv, Next, mpc = "spawn", blocked
             PROVE  /\ mpc' \in {"spawn", "suspend"}
                    /\ ngx_reap' = ngx_reap /\ ~spin'
                    /\ Reaped' = Reaped
  BY DEF vars
<1>1. pending \ Mask = {} /\ ~spin
  BY StartMasked DEF Inv, StartQuiet
<1>2. ~LogSignal /\ ~Killed /\ ~ReapChild /\ ~Spin /\ ~Dead
  BY <1>1 DEF LogSignal, Killed, ReapChild, Deliver, Spin, Dead
<1>3. CASE MainFlow
  <2>1. Reaped' = Reaped
    BY <1>3, MainFlowInv
  <2>2. QED
    BY <1>3, <2>1 DEF MainFlow, BlockSignals, Fork, Suspend, Resume
<1>4. ASSUME NEW w \in Workers, Exit(w)
      PROVE  /\ mpc' = "spawn" /\ ngx_reap' = ngx_reap /\ spin' = spin
             /\ Reaped' = Reaped
  BY <1>4 DEF Exit, Inv, TypeOK, Reaped
<1>5. ASSUME NEW s \in Signals, Kill(s)
      PROVE  /\ mpc' = "spawn" /\ ngx_reap' = ngx_reap /\ spin' = spin
             /\ Reaped' = Reaped
  BY <1>5 DEF Kill, Reaped
<1>6. QED
  BY <1>1, <1>2, <1>3, <1>4, <1>5 DEF Next, MasterSteps

\* When it could block the signals, the master starts all its workers without a handler
\* in between.
THEOREM StartUndisturbed == Spec => SpawnUndisturbed
  BY Invariance, SpawnStep, PTL DEF Spec, SpawnUndisturbed
=============================================================================
