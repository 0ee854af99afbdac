--------------------------- MODULE ThreadPoolProofs ---------------------------
(***************************************************************************)
(* Proofs about ThreadPool, for every finite set of threads and every      *)
(* number of messages.                                                     *)
(***************************************************************************)
EXTENDS ThreadPool, FiniteSetTheorems, TLAPS

\* Who holds the mutex, who waits and who has a message, read off the program
\* counters.
ControlInv ==
  /\ \A w \in Workers : holder = w <=> pc[w] = "check"
  /\ holder = Main <=> mainpc \in {"notify", "report"}
  /\ waitSet = {w \in Workers : pc[w] = "wait"}
  /\ shutdown <=> mainpc \in {"join", "cleared"}
  /\ shutdown => waitSet = {}
  /\ mainpc = "cleared" => crashed
  /\ \A w \in Workers : job[w] # 0 <=> pc[w] \in {"start", "work"}

\* The list holds the messages that arrived last, in order; all the others are
\* with one thread or freed.
QueueInv ==
  /\ Len(queue) <= posted
  /\ \A i \in 1..Len(queue) : queue[i] = (posted - Len(queue)) + i
  /\ Jobs \cup freed = 1..(posted - Len(queue))
  /\ Jobs \cap freed = {}
  /\ \A v, w \in Workers : job[v] = job[w] /\ job[v] # 0 => v = w
  /\ mainpc # "cleared" => count = Len(queue)

\* The threads m_RunningThreadNum counts.
Busy == {w \in Workers : pc[w] \in {"work", "done"}}

RunningInv == running = Cardinality(Busy)

IInv == TypeOK /\ ControlInv /\ QueueInv /\ RunningInv /\ EnoughAwake

\* The steps of the pool while the process lives.
PoolStep ==
  \/ \E w \in Workers : ThreadFunc(w) \/ SpuriousWake(w)
  \/ MainSteps \/ Post \/ Stop

-----------------------------------------------------------------------------
LEMMA InitInv == Init => IInv
<1> SUFFICES ASSUME Init PROVE IInv
  OBVIOUS
<1>1. Len(queue) = 0 /\ queue \in Seq(1..MaxMsgs) /\ Range(queue) = {}
  BY DEF Init, Range
<1>2. Jobs = {} /\ Busy = {} /\ waitSet = {}
  BY DEF Init, Jobs, Busy
<1>3. Cardinality(Busy) = 0 /\ ThreadNum \in Nat
  BY <1>2, FS_EmptySet, FS_CardinalityType, ThreadsAssumption DEF ThreadNum
<1>4. TypeOK
  <2>1. /\ job \in [Workers -> 0..MaxMsgs] /\ posted \in 0..MaxMsgs
        /\ running \in 0..ThreadNum
    BY <1>3, ThreadsAssumption DEF Init
  <2>2. /\ count \in Int
        /\ pc \in [Workers -> {"lock", "check", "wait", "wake", "start", "work",
                               "done", "exited"}]
    BY DEF Init
  <2> QED
    BY <1>1, <2>1, <2>2 DEF Init, TypeOK
<1>5. ControlInv
  BY ThreadsAssumption DEF Init, ControlInv
<1>6. QueueInv /\ RunningInv /\ EnoughAwake
  BY <1>1, <1>2, <1>3 DEF Init, QueueInv, RunningInv, EnoughAwake
<1> QED
  BY <1>4, <1>5, <1>6 DEF IInv

\* Steps that leave the messages alone.
LEMMA QueueQuiet ==
  ASSUME QueueInv, mainpc = "cleared" => mainpc' = "cleared",
         UNCHANGED <<queue, count, job, freed, posted>>
  PROVE  QueueInv'
<1>1. Jobs' = Jobs
  BY DEF Jobs
<1>2. /\ Len(queue') <= posted'
      /\ \A i \in 1..Len(queue') : queue'[i] = (posted' - Len(queue')) + i
      /\ Jobs' \cup freed' = 1..(posted' - Len(queue'))
      /\ Jobs' \cap freed' = {}
  BY <1>1 DEF QueueInv
<1>3. \A v, w \in Workers : job'[v] = job'[w] /\ job'[v] # 0 => v = w
  BY DEF QueueInv
<1>4. mainpc # "cleared" => count = Len(queue)
  BY DEF QueueInv
<1>5. mainpc' # "cleared" => count' = Len(queue')
  <2>1. count' = count /\ queue' = queue
    OBVIOUS
  <2> QED
    BY <1>4, <2>1
<1> QED
  BY <1>2, <1>3, <1>5 DEF QueueInv

-----------------------------------------------------------------------------
\* Each step keeps the types, but for the range of the running count, which
\* RunningInv gives.
LEMMA TypeStep ==
  ASSUME TypeOK, ControlInv, QueueInv, PoolStep, running' \in 0..ThreadNum
  PROVE  TypeOK'
<1> USE ThreadsAssumption DEF TypeOK
<1>1. ASSUME NEW w \in Workers, ThreadFunc(w)
      PROVE  TypeOK'
  <2>1. CASE EnterLoop(w) \/ EnterCrashes(w) \/ Wait(w) \/ Relock(w) \/ Exit(w)
             \/ Start(w) \/ Done(w)
    BY <2>1 DEF EnterLoop, EnterCrashes, Wait, Relock, Exit, Start, Done, Goto
  <2>2. CASE Take(w)
    <3>1. /\ Head(queue) \in 1..MaxMsgs /\ Tail(queue) \in Seq(1..MaxMsgs)
          /\ Head(queue) \in 0..MaxMsgs
      BY <2>2 DEF Take
    <3>2. queue' \in Seq(1..MaxMsgs) /\ job' \in [Workers -> 0..MaxMsgs]
      BY <2>2, <3>1 DEF Take
    <3> QED
      BY <2>2, <3>2 DEF Take, Goto
  <2>3. CASE Handle(w)
    <3>1. job[w] \in 1..MaxMsgs
      BY <2>3 DEF Handle, ControlInv
    <3>2. freed' \subseteq 1..MaxMsgs
      BY <2>3, <3>1 DEF Handle
    <3>3. job' \in [Workers -> 0..MaxMsgs]
      BY <2>3 DEF Handle
    <3> QED
      BY <2>3, <3>2, <3>3 DEF Handle, Goto
  <2> QED
    BY <1>1, <2>1, <2>2, <2>3 DEF ThreadFunc
<1>2. ASSUME NEW w \in Workers, SpuriousWake(w)
      PROVE  TypeOK'
  BY <1>2 DEF SpuriousWake, Goto
<1>3. CASE Created \/ Report
  BY <1>3 DEF Created, Report
<1>4. CASE Notify
  BY <1>4 DEF Notify, notify_one, Goto
<1>5. CASE Clear
  <2>1. Range(queue) \subseteq 1..MaxMsgs
    BY DEF Range
  <2>2. queue' \in Seq(1..MaxMsgs)
    BY <1>5 DEF Clear
  <2>3. freed' \subseteq 1..MaxMsgs
    BY <1>5, <2>1 DEF Clear
  <2> QED
    BY <1>5, <2>2, <2>3 DEF Clear
<1>6. CASE Post
  <2>1. posted + 1 \in 1..MaxMsgs
    BY <1>6 DEF Post
  <2>2. Append(queue, posted + 1) \in Seq(1..MaxMsgs)
    BY <2>1
  <2>3. /\ queue' \in Seq(1..MaxMsgs) /\ posted' \in 0..MaxMsgs
        /\ count' \in Int /\ holder' = Main /\ mainpc' = "notify"
    BY <1>6, <2>1, <2>2 DEF Post
  <2> QED
    BY <1>6, <2>3 DEF Post
<1>7. CASE Stop
  BY <1>7 DEF Stop, notify_all
<1> QED
  BY <1>1, <1>2, <1>3, <1>4, <1>5, <1>6, <1>7 DEF PoolStep, MainSteps

LEMMA ControlStep ==
  ASSUME TypeOK, ControlInv, ~crashed, PoolStep
  PROVE  ControlInv'
<1> USE ThreadsAssumption DEF TypeOK, ControlInv
<1>1. ASSUME NEW w \in Workers, ThreadFunc(w)
      PROVE  ControlInv'
  <2>1. CASE EnterLoop(w)
    BY <2>1 DEF EnterLoop, Goto
  <2>2. CASE EnterCrashes(w)
    BY <2>2 DEF EnterCrashes
  <2>3. CASE Wait(w)
    BY <2>3 DEF Wait, Goto
  <2>4. CASE Relock(w)
    BY <2>4 DEF Relock, Goto
  <2>5. CASE Exit(w)
    BY <2>5 DEF Exit, Goto
  <2>6. CASE Take(w)
    <3>1. Head(queue) # 0
      BY <2>6 DEF Take
    <3> QED
      BY <2>6, <3>1 DEF Take, Goto
  <2>7. CASE Start(w)
    BY <2>7 DEF Start, Goto
  <2>8. CASE Handle(w)
    BY <2>8 DEF Handle, Goto
  <2>9. CASE Done(w)
    BY <2>9 DEF Done, Goto
  <2> QED
    BY <1>1, <2>1, <2>2, <2>3, <2>4, <2>5, <2>6, <2>7, <2>8, <2>9 DEF ThreadFunc
<1>2. ASSUME NEW w \in Workers, SpuriousWake(w)
      PROVE  ControlInv'
  BY <1>2 DEF SpuriousWake, Goto
<1>3. CASE Created
  BY <1>3 DEF Created
<1>4. CASE Notify
  BY <1>4, ZenonT(30) DEF Notify, notify_one, Goto
<1>5. CASE Report
  BY <1>5 DEF Report
<1>6. CASE Clear
  BY <1>6 DEF Clear
<1>7. CASE Post
  BY <1>7 DEF Post
<1>8. CASE Stop
  BY <1>8 DEF Stop, notify_all
<1> QED
  BY <1>1, <1>2, <1>3, <1>4, <1>5, <1>6, <1>7, <1>8 DEF PoolStep, MainSteps

-----------------------------------------------------------------------------
\* What a thread takes is the oldest message: the one after all those that are
\* with a thread or freed.
LEMMA TakeQueue ==
  ASSUME TypeOK, ControlInv, QueueInv, NEW w \in Workers, Take(w)
  PROVE  QueueInv'
<1> DEFINE n == posted - Len(queue)
<1>1. /\ queue \in Seq(1..MaxMsgs) /\ queue # <<>> /\ queue' = Tail(queue)
      /\ job' = [job EXCEPT ![w] = Head(queue)] /\ job[w] = 0
      /\ job \in [Workers -> 0..MaxMsgs]
      /\ UNCHANGED <<freed, posted, mainpc>> /\ posted \in Nat
      /\ count' = count - 1
  <2>1. /\ queue # <<>> /\ queue' = Tail(queue)
        /\ job' = [job EXCEPT ![w] = Head(queue)] /\ pc[w] = "check"
        /\ UNCHANGED <<freed, posted, mainpc>> /\ count' = count - 1
    BY DEF Take
  <2>2. /\ queue \in Seq(1..MaxMsgs) /\ job \in [Workers -> 0..MaxMsgs]
        /\ posted \in Nat
    BY ThreadsAssumption DEF TypeOK
  <2>3. job[w] = 0
    BY <2>1 DEF ControlInv
  <2> QED
    BY <2>1, <2>2, <2>3
<1>2. /\ Len(queue) \in Nat \ {0} /\ Head(queue) = queue[1]
      /\ Len(queue') = Len(queue) - 1
      /\ \A i \in 1..Len(queue') : queue'[i] = queue[i + 1]
  BY <1>1
<1>3. Head(queue) = n + 1 /\ n \in Nat
  BY <1>1, <1>2 DEF QueueInv
<1>4. \A i \in 1..Len(queue') : queue'[i] = (posted' - Len(queue')) + i
  BY <1>1, <1>2 DEF QueueInv
<1>5. Jobs' = Jobs \cup {n + 1}
  <2>1. \A v \in Workers : job'[v] = IF v = w THEN n + 1 ELSE job[v]
    BY <1>1, <1>3
  <2> QED
    BY <1>1, <1>3, <2>1 DEF Jobs
<1>6. Jobs \cup freed = 1..n /\ Jobs \cap freed = {}
  BY DEF QueueInv
<1>7. posted' - Len(queue') = n + 1 /\ Len(queue') <= posted'
  BY <1>1, <1>2, <1>3
<1>8. Jobs' \cup freed' = 1..(n + 1) /\ Jobs' \cap freed' = {}
  <2>1. 1..(n + 1) = (1..n) \cup {n + 1} /\ n + 1 \notin 1..n
    BY <1>3
  <2> QED
    BY <1>1, <1>5, <1>6, <2>1
<1>9. \A u, v \in Workers : job'[u] = job'[v] /\ job'[u] # 0 => u = v
  <2>1. \A v \in Workers : job[v] # n + 1
    <3>1. \A v \in Workers : job[v] # 0 => job[v] \in 1..n
      BY <1>6 DEF Jobs
    <3> QED
      BY <1>3, <3>1
  <2> QED
    BY <1>1, <1>3, <2>1 DEF QueueInv
<1>10. mainpc' # "cleared" => count' = Len(queue')
  BY <1>1, <1>2 DEF QueueInv, TypeOK
<1> QED
  BY <1>4, <1>7, <1>8, <1>9, <1>10 DEF QueueInv

LEMMA HandleQueue ==
  ASSUME TypeOK, ControlInv, QueueInv, NEW w \in Workers, Handle(w)
  PROVE  QueueInv'
<1>1. /\ job' = [job EXCEPT ![w] = 0] /\ job[w] # 0
      /\ job \in [Workers -> 0..MaxMsgs]
      /\ freed' = freed \cup {job[w]}
      /\ UNCHANGED <<queue, count, posted, mainpc>>
  BY DEF Handle, TypeOK, ControlInv
<1>2. Jobs = Jobs' \cup {job[w]} /\ job[w] \notin Jobs'
  <2>1. \A v \in Workers : job'[v] = IF v = w THEN 0 ELSE job[v]
    BY <1>1
  <2>2. \A v \in Workers : v # w /\ job[v] # 0 => job[v] # job[w]
    BY DEF QueueInv
  <2> QED
    BY <1>1, <2>1, <2>2 DEF Jobs
<1>3. \A u, v \in Workers : job'[u] = job'[v] /\ job'[u] # 0 => u = v
  BY <1>1 DEF QueueInv
<1> QED
  BY <1>1, <1>2, <1>3 DEF QueueInv

LEMMA PostQueue ==
  ASSUME TypeOK, QueueInv, Post
  PROVE  QueueInv'
<1>1. /\ queue \in Seq(1..MaxMsgs) /\ queue' = Append(queue, posted + 1)
      /\ posted \in Nat /\ posted' = posted + 1
      /\ UNCHANGED <<freed, job>> /\ count' = count + 1
      /\ mainpc = "idle"
  BY ThreadsAssumption DEF Post, TypeOK
<1>2. /\ Len(queue) \in Nat /\ Len(queue') = Len(queue) + 1
      /\ \A i \in 1..Len(queue) : queue'[i] = queue[i]
      /\ queue'[Len(queue) + 1] = posted + 1
  BY <1>1
<1>3. \A i \in 1..Len(queue') : queue'[i] = (posted' - Len(queue')) + i
  BY <1>1, <1>2, SMTT(20) DEF QueueInv
<1>4. posted' - Len(queue') = posted - Len(queue) /\ Len(queue') <= posted'
  BY <1>1, <1>2 DEF QueueInv
<1>5. Jobs' = Jobs
  BY <1>1 DEF Jobs
<1>6. count' = Len(queue')
  BY <1>1, <1>2 DEF QueueInv
<1> QED
  BY <1>1, <1>3, <1>4, <1>5, <1>6 DEF QueueInv

\* The list as a set.
LEMMA QueueRange ==
  ASSUME TypeOK, QueueInv
  PROVE  /\ posted - Len(queue) \in Nat /\ posted \in Nat
         /\ Range(queue) = (posted - Len(queue) + 1)..posted
<1> DEFINE n == posted - Len(queue)
<1>1. /\ DOMAIN queue = 1..Len(queue) /\ Len(queue) \in Nat /\ posted \in Nat
      /\ n \in Nat
  BY ThreadsAssumption DEF TypeOK, QueueInv
<1>2. \A i \in 1..Len(queue) : queue[i] = n + i
  BY DEF QueueInv
<1>3. ASSUME NEW x \in (n + 1)..posted PROVE x \in Range(queue)
  <2>1. x - n \in 1..Len(queue) /\ x = n + (x - n)
    BY <1>1
  <2> QED
    BY <1>1, <1>2, <2>1 DEF Range
<1>4. ASSUME NEW x \in Range(queue) PROVE x \in (n + 1)..posted
  <2>1. PICK i \in 1..Len(queue) : x = n + i
    BY <1>1, <1>2 DEF Range
  <2> QED
    BY <1>1, <2>1
<1> QED
  BY <1>1, <1>3, <1>4

\* Destroying the pool frees the rest of the list.
LEMMA ClearQueue ==
  ASSUME TypeOK, ControlInv, QueueInv, Clear
  PROVE  QueueInv'
<1> DEFINE n == posted - Len(queue)
<1>1. /\ queue \in Seq(1..MaxMsgs) /\ queue' = <<>> /\ posted \in Nat
      /\ UNCHANGED <<job, posted>> /\ mainpc' = "cleared"
      /\ freed' = freed \cup Range(queue)
  BY ThreadsAssumption DEF Clear, TypeOK
<1>2. Jobs = {} /\ Jobs' = {}
  BY <1>1 DEF Clear, ControlInv, Jobs
<1>3. Len(queue) \in Nat /\ Len(queue') = 0 /\ n \in Nat
  BY <1>1 DEF QueueInv
<1>4. Range(queue) = (n + 1)..posted
  BY QueueRange
<1>5. freed' = 1..posted
  <2>1. freed = 1..n
    BY <1>2 DEF QueueInv
  <2>2. (1..n) \cup ((n + 1)..posted) = 1..posted
    BY <1>1, <1>3
  <2> QED
    BY <1>1, <1>4, <2>1, <2>2
<1>6. \A i \in 1..Len(queue') : queue'[i] = (posted' - Len(queue')) + i
  BY <1>3
<1>7. \A u, v \in Workers : job'[u] = job'[v] /\ job'[u] # 0 => u = v
  BY <1>1 DEF QueueInv
<1> QED
  BY <1>1, <1>2, <1>3, <1>5, <1>6, <1>7 DEF QueueInv

LEMMA QueueStep ==
  ASSUME TypeOK, ControlInv, QueueInv, PoolStep
  PROVE  QueueInv'
<1>1. ASSUME NEW w \in Workers, ThreadFunc(w)
      PROVE  QueueInv'
  <2>1. CASE Take(w)
    BY <2>1, TakeQueue
  <2>2. CASE Handle(w)
    BY <2>2, HandleQueue
  <2>3. CASE EnterLoop(w) \/ EnterCrashes(w) \/ Wait(w) \/ Relock(w) \/ Exit(w)
             \/ Start(w) \/ Done(w)
    BY <2>3, QueueQuiet
    DEF EnterLoop, EnterCrashes, Wait, Relock, Exit, Start, Done
  <2> QED
    BY <1>1, <2>1, <2>2, <2>3 DEF ThreadFunc
<1>2. ASSUME NEW w \in Workers, SpuriousWake(w)
      PROVE  QueueInv'
  BY <1>2, QueueQuiet DEF SpuriousWake
<1>3. CASE Created \/ Notify \/ Report \/ Stop
  BY <1>3, QueueQuiet DEF Created, Notify, Report, Stop
<1>4. CASE Post
  BY <1>4, PostQueue
<1>5. CASE Clear
  BY <1>5, ClearQueue
<1> QED
  BY <1>1, <1>2, <1>3, <1>4, <1>5 DEF PoolStep, MainSteps

-----------------------------------------------------------------------------
\* Facts about the sizes of the sets of threads.
LEMMA ThreadSets ==
  ASSUME NEW S \in SUBSET Workers
  PROVE  /\ IsFiniteSet(S) /\ Cardinality(S) \in Nat
         /\ Cardinality(S) <= ThreadNum /\ ThreadNum \in Nat
         /\ Cardinality(S) = ThreadNum => S = Workers
         /\ \A w \in Workers \ S : Cardinality(S \cup {w}) = Cardinality(S) + 1
         /\ \A w \in S : Cardinality(S \ {w}) = Cardinality(S) - 1
<1>1. IsFiniteSet(Workers)
  BY ThreadsAssumption
<1>2. /\ IsFiniteSet(S) /\ Cardinality(S) <= Cardinality(Workers)
      /\ Cardinality(S) = Cardinality(Workers) => S = Workers
  BY <1>1, FS_Subset
<1>3. Cardinality(S) \in Nat /\ Cardinality(Workers) \in Nat
  BY <1>1, <1>2, FS_CardinalityType
<1>4. \A w \in Workers \ S : Cardinality(S \cup {w}) = Cardinality(S) + 1
  BY <1>2, FS_AddElement
<1>5. \A w \in S : Cardinality(S \ {w}) = Cardinality(S) - 1
  BY <1>2, FS_RemoveElement
<1> QED
  BY <1>2, <1>3, <1>4, <1>5 DEF ThreadNum

\* A thread enters Busy with its increment and leaves it with its decrement.
LEMMA RunningStep ==
  ASSUME TypeOK, ControlInv, RunningInv, PoolStep
  PROVE  RunningInv' /\ running' \in 0..ThreadNum
<1> USE DEF TypeOK, RunningInv, Busy
<1>1. Busy \in SUBSET Workers /\ Busy' \in SUBSET Workers
  OBVIOUS
<1>2. ASSUME running' = running, Busy' = Busy
      PROVE  RunningInv'
  BY <1>2
<1>3. ASSUME NEW w \in Workers, ThreadFunc(w)
      PROVE  RunningInv'
  <2>1. CASE EnterLoop(w) \/ EnterCrashes(w) \/ Wait(w) \/ Relock(w) \/ Exit(w)
             \/ Take(w) \/ Handle(w)
    <3>1. running' = running /\ Busy' = Busy
      BY <2>1 DEF EnterLoop, EnterCrashes, Wait, Relock, Exit, Take, Handle, Goto
    <3> QED
      BY <1>2, <3>1
  <2>2. CASE Start(w)
    <3>1. running' = running + 1 /\ w \in Workers \ Busy /\ Busy' = Busy \cup {w}
      BY <2>2 DEF Start, Goto
    <3> QED
      BY <1>1, <3>1, ThreadSets
  <2>3. CASE Done(w)
    <3>1. running' = running - 1 /\ w \in Busy /\ Busy' = Busy \ {w}
      BY <2>3 DEF Done, Goto
    <3> QED
      BY <1>1, <3>1, ThreadSets
  <2> QED
    BY <1>3, <2>1, <2>2, <2>3 DEF ThreadFunc
<1>4. ASSUME NEW w \in Workers, SpuriousWake(w)
      PROVE  RunningInv'
  <2>1. pc[w] = "wait"
    BY <1>4 DEF SpuriousWake, ControlInv
  <2>2. running' = running /\ Busy' = Busy
    BY <1>4, <2>1 DEF SpuriousWake, Goto
  <2> QED
    BY <1>2, <2>2
<1>5. CASE Created \/ Report \/ Clear \/ Post
  BY <1>5 DEF Created, Report, Clear, Post
<1>6. CASE Notify
  <2>1. running' = running
    BY <1>6 DEF Notify
  <2>2. CASE waitSet = {}
    BY <1>6, <2>1, <2>2 DEF Notify, notify_one
  <2>3. CASE waitSet # {}
    <3>1. PICK w \in waitSet : Goto(w, "wake")
      BY <1>6, <2>3 DEF Notify, notify_one
    <3>2. pc[w] = "wait" /\ w \in Workers
      BY <3>1 DEF ControlInv
    <3>3. Busy' = Busy
      BY <3>1, <3>2 DEF Goto
    <3> QED
      BY <1>2, <2>1, <3>3
  <2> QED
    BY <2>2, <2>3
<1>7. CASE Stop
  <2>1. running' = running /\ Busy' = Busy
    BY <1>7 DEF Stop, notify_all, ControlInv
  <2> QED
    BY <1>2, <2>1
<1>8. RunningInv'
  BY <1>3, <1>4, <1>5, <1>6, <1>7 DEF PoolStep, MainSteps
<1>9. running' \in 0..ThreadNum
  BY <1>1, <1>8, ThreadSets
<1> QED
  BY <1>8, <1>9

-----------------------------------------------------------------------------
\* The number of threads that are not asleep.
Awake == Cardinality(Workers \ waitSet)

\* A step that lengthens nothing and puts nobody to sleep keeps the balance.
LEMMA AwakeQuiet ==
  ASSUME TypeOK, EnoughAwake,
         waitSet' \subseteq waitSet, Len(queue') <= Len(queue), Len(queue') \in Nat,
         mainpc = "notify" => mainpc' = "notify"
  PROVE  EnoughAwake'
<1>1. waitSet \subseteq Workers /\ Len(queue) \in Nat
  BY DEF TypeOK
<1>2. Workers \ waitSet \subseteq Workers \ waitSet' /\ IsFiniteSet(Workers \ waitSet')
  BY <1>1, ThreadSets
<1>3. /\ Cardinality(Workers \ waitSet) <= Cardinality(Workers \ waitSet')
      /\ Cardinality(Workers \ waitSet) \in Nat
      /\ Cardinality(Workers \ waitSet') \in Nat
  BY <1>2, FS_Subset, ThreadSets
<1> QED
  BY <1>1, <1>3 DEF EnoughAwake

LEMMA AwakeStep ==
  ASSUME TypeOK, ControlInv, EnoughAwake, PoolStep, TypeOK'
  PROVE  EnoughAwake'
<1>1. /\ waitSet \subseteq Workers /\ Len(queue) \in Nat /\ Len(queue') \in Nat
      /\ waitSet' \subseteq Workers
  BY DEF TypeOK
<1>2. ASSUME NEW w \in Workers, ThreadFunc(w)
      PROVE  EnoughAwake'
  <2>1. CASE EnterLoop(w) \/ EnterCrashes(w) \/ Relock(w) \/ Exit(w)
             \/ Start(w) \/ Handle(w) \/ Done(w)
    BY <1>1, <2>1, AwakeQuiet
    DEF EnterLoop, EnterCrashes, Relock, Exit, Start, Handle, Done
  <2>2. CASE Wait(w)
    <3>1. Len(queue') = 0
      BY <2>2 DEF Wait
    <3>2. Cardinality(Workers \ waitSet') \in Nat
      BY ThreadSets
    <3> QED
      BY <3>1, <3>2 DEF EnoughAwake
  <2>3. CASE Take(w)
    <3>1. /\ waitSet' = waitSet /\ mainpc' = mainpc
          /\ queue # <<>> /\ queue' = Tail(queue) /\ queue \in Seq(1..MaxMsgs)
      BY <2>3 DEF Take, TypeOK
    <3>2. Len(queue') <= Len(queue)
      BY <3>1
    <3> QED
      BY <1>1, <3>1, <3>2, AwakeQuiet
  <2> QED
    BY <1>2, <2>1, <2>2, <2>3 DEF ThreadFunc
<1>3. ASSUME NEW w \in Workers, SpuriousWake(w)
      PROVE  EnoughAwake'
  BY <1>1, <1>3, AwakeQuiet DEF SpuriousWake
<1>4. CASE Created \/ Report
  BY <1>1, <1>4, AwakeQuiet DEF Created, Report
<1>5. CASE Clear \/ Stop
  <2>1. waitSet' = {}
    BY <1>5 DEF Clear, Stop, notify_all, ControlInv
  <2> QED
    BY <2>1 DEF EnoughAwake
<1>6. CASE Post
  <2>1. /\ queue \in Seq(1..MaxMsgs) /\ queue' = Append(queue, posted + 1)
        /\ waitSet' = waitSet /\ mainpc = "idle" /\ mainpc' = "notify"
    BY <1>6 DEF Post, TypeOK
  <2>2. Len(queue') = Len(queue) + 1
    BY <2>1
  <2>3. Cardinality(Workers \ waitSet) \in Nat
    BY ThreadSets
  <2> QED
    BY <1>1, <2>1, <2>2, <2>3 DEF EnoughAwake
<1>7. CASE Notify
  <2>1. queue' = queue /\ mainpc = "notify" /\ mainpc' = "report"
    BY <1>7 DEF Notify
  <2>2. CASE waitSet = {}
    BY <1>7, <2>2 DEF Notify, notify_one, EnoughAwake
  <2>3. CASE waitSet # {}
    <3>1. PICK w \in waitSet : waitSet' = waitSet \ {w}
      BY <1>7, <2>3 DEF Notify, notify_one
    <3>2. /\ Workers \ waitSet' = (Workers \ waitSet) \cup {w}
          /\ w \in Workers \ (Workers \ waitSet)
      BY <1>1, <3>1
    <3>3. /\ Cardinality(Workers \ waitSet') = Cardinality(Workers \ waitSet) + 1
          /\ Cardinality(Workers \ waitSet) \in Nat
      BY <3>2, ThreadSets
    <3> QED
      BY <1>1, <2>1, <2>3, <3>3 DEF EnoughAwake
  <2> QED
    BY <2>2, <2>3
<1> QED
  BY <1>2, <1>3, <1>4, <1>5, <1>6, <1>7 DEF PoolStep, MainSteps

-----------------------------------------------------------------------------
THEOREM StepInv == IInv /\ [Next]_vars => IInv'
<1> SUFFICES ASSUME IInv, [Next]_vars PROVE IInv'
  OBVIOUS
<1>1. CASE ~crashed /\ PoolStep
  BY <1>1, RunningStep, TypeStep, ControlStep, QueueStep, AwakeStep DEF IInv
<1>2. CASE UNCHANGED vars
  BY <1>2 DEF vars, IInv, TypeOK, ControlInv, QueueInv, Jobs, RunningInv, Busy,
              EnoughAwake
<1> QED
  BY <1>1, <1>2 DEF Next, PoolStep, Dead

THEOREM Invariance == Spec => []IInv
  BY InitInv, StepInv, PTL DEF Spec

\* Type correctness of the pool; among other things m_RunningThreadNum is never
\* negative nor above the number of threads.
THEOREM TypeCorrect == Spec => []TypeOK
<1>1. IInv => TypeOK
  BY DEF IInv
<1> QED
  BY <1>1, Invariance, PTL

\* No message is lost, handled by two threads or freed twice.
THEOREM MessagesKept == Spec => []OnePlace
<1>1. IInv => OnePlace
  <2> SUFFICES ASSUME IInv PROVE OnePlace
    OBVIOUS
  <2> DEFINE n == posted - Len(queue)
  <2>1. /\ DOMAIN queue = 1..Len(queue) /\ Len(queue) \in Nat /\ posted \in Nat
        /\ n \in Nat /\ posted = n + Len(queue)
    BY ThreadsAssumption DEF IInv, TypeOK, QueueInv
  <2>2. \A i \in 1..Len(queue) : queue[i] = n + i
    BY DEF IInv, QueueInv
  <2>3. Range(queue) = (n + 1)..posted
    BY QueueRange DEF IInv
  <2>4. Jobs \cup freed = 1..n /\ Jobs \cap freed = {}
    BY DEF IInv, QueueInv
  <2>5. /\ ((n + 1)..posted) \cup (1..n) = 1..posted
        /\ ((n + 1)..posted) \cap (1..n) = {}
    BY <2>1
  <2>6. \A i, j \in DOMAIN queue : queue[i] = queue[j] => i = j
    BY <2>1, <2>2
  <2> QED
    BY <2>3, <2>4, <2>5, <2>6 DEF OnePlace, IInv, QueueInv
<1> QED
  BY <1>1, Invariance, PTL

\* No wake-up is lost, whatever the number of threads and messages.
THEOREM WakeUpsSuffice == Spec => []EnoughAwake
<1>1. IInv => EnoughAwake
  BY DEF IInv
<1> QED
  BY <1>1, Invariance, PTL

\* Call reports a pool without idle threads only when there is none.
THEOREM ReportsTrue == Spec => ReportIsTrue
<1> DEFINE Working == \A w \in Workers : pc[w] \in {"work", "done"}
<1>1. IInv /\ [Next]_vars => (noticed' # noticed => Working)
  <2> SUFFICES ASSUME IInv, [Next]_vars, noticed' # noticed PROVE Working
    OBVIOUS
  <2>1. Report
    BY DEF vars, Next, ThreadFunc, MainSteps, EnterLoop, EnterCrashes, Wait, Relock,
           SpuriousWake, Exit, Take, Start, Handle, Done, Created, Post, Notify,
           Stop, Clear, Dead
  <2>2. running = ThreadNum
    BY <2>1 DEF Report, AllBusy, IInv, TypeOK
  <2>3. Busy \in SUBSET Workers /\ Cardinality(Busy) = ThreadNum
    BY <2>2 DEF Busy, IInv, RunningInv
  <2>4. Busy = Workers
    BY <2>3, ThreadSets
  <2> QED
    BY <2>4 DEF Busy
<1>2. IInv /\ [Next]_vars => [noticed' # noticed => Working]_vars
  BY <1>1
<1> QED
  BY <1>2, Invariance, PTL DEF Spec, ReportIsTrue

-----------------------------------------------------------------------------
(* The pool implements JobQueue *)

LEMMA InitRefines == Init => JQ!Init
  BY DEF Init, JQ!Init

LEMMA StepRefines ==
  ASSUME IInv, ~crashed, PoolStep
  PROVE  JQ!Next \/ UNCHANGED JQ!vars
<1> USE DEF IInv, JQ!vars
<1>1. ASSUME NEW w \in Workers, ThreadFunc(w)
      PROVE  JQ!Next \/ UNCHANGED JQ!vars
  <2>1. CASE EnterLoop(w) \/ Wait(w) \/ Relock(w) \/ Exit(w) \/ Start(w) \/ Done(w)
    BY <2>1 DEF EnterLoop, Wait, Relock, Exit, Start, Done
  <2>2. CASE EnterCrashes(w)
    <3>1. JQ!End
      BY <2>2 DEF EnterCrashes, JQ!End
    <3> QED
      BY <3>1 DEF JQ!Next
  <2>3. CASE Take(w)
    <3>1. job[w] = 0
      BY <2>3 DEF Take, ControlInv
    <3>2. JQ!Take(w)
      BY <2>3, <3>1 DEF Take, JQ!Take
    <3> QED
      BY <3>2 DEF JQ!Next
  <2>4. CASE Handle(w)
    <3>1. job[w] # 0
      BY <2>4 DEF Handle, ControlInv
    <3>2. JQ!Release(w)
      BY <2>4, <3>1 DEF Handle, JQ!Release
    <3> QED
      BY <3>2 DEF JQ!Next
  <2> QED
    BY <1>1, <2>1, <2>2, <2>3, <2>4 DEF ThreadFunc
<1>2. CASE (\E w \in Workers : SpuriousWake(w)) \/ Created \/ Notify \/ Report
  BY <1>2 DEF SpuriousWake, Created, Notify, Report
<1>3. CASE Post
  <2>1. ~shutdown
    BY <1>3 DEF Post, ControlInv
  <2>2. JQ!Arrive
    BY <1>3, <2>1 DEF Post, JQ!Arrive
  <2> QED
    BY <2>2 DEF JQ!Next
<1>4. CASE Stop
  <2>1. JQ!Stop
    BY <1>4 DEF Stop, JQ!Stop
  <2> QED
    BY <2>1 DEF JQ!Next
<1>5. CASE Clear
  <2>1. shutdown /\ \A w \in Workers : job[w] = 0
    BY <1>5 DEF Clear, ControlInv
  <2>2. JQ!End
    BY <1>5, <2>1 DEF Clear, JQ!End, Range, JQ!Range
  <2> QED
    BY <2>2 DEF JQ!Next
<1> QED
  BY <1>1, <1>2, <1>3, <1>4, <1>5 DEF PoolStep, MainSteps

\* Every behaviour of the pool is one of the abstract job queue: messages are taken
\* in the order of their arrival, each by one thread, none after StopAll.
THEOREM PoolImplementsJobQueue == Spec => ImplementsJobQueue
<1>1. IInv /\ [Next]_vars => [JQ!Next]_JQ!vars
  <2> SUFFICES ASSUME IInv, [Next]_vars PROVE JQ!Next \/ UNCHANGED JQ!vars
    OBVIOUS
  <2>1. CASE ~crashed /\ PoolStep
    BY <2>1, StepRefines
  <2>2. CASE UNCHANGED vars
    BY <2>2 DEF vars, JQ!vars
  <2> QED
    BY <2>1, <2>2 DEF Next, PoolStep, Dead
<1> QED
  BY <1>1, InitRefines, Invariance, PTL DEF Spec, JQ!Spec, ImplementsJobQueue
=============================================================================
