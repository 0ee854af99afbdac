--------------------------- MODULE ConnPoolProofs ---------------------------
(***************************************************************************)
(* Proofs about ConnPool, for any number of connections, descriptors and   *)
(* clients, any waiting time and any reading of the four statements.       *)
(***************************************************************************)
EXTENDS ConnPool, FiniteSetTheorems, SequenceTheorems, TLAPS

\* Who holds which mutex, told from the places of the threads.
Locks ==
  /\ connMutex = Loop <=> pc \in {"use", "free", "put"}
  /\ connMutex = Recycler <=> rpc = "put"
  /\ recyMutex = Loop <=> pc = "enter"
  /\ recyMutex = Recycler <=> rpc \in {"scan", "free", "put"}

\* The connections that anything refers to are in m_connectionList, but for the one
\* that ngx_get_connection is making.
Known ==
  /\ Listener \in m_connectionList
  /\ \A e \in events : e.conn \in m_connectionList
  /\ \A f \in Fds : epoll[f] \in m_connectionList \cup {NoConn}
  /\ pc \in {"setup", "close", "free", "put", "recv", "recycle", "enter"}
       => conn \in m_connectionList
  /\ pc = "use" => conn \in Conns
  /\ rpc \in {"free", "put"} => victim \in m_connectionList
  /\ m_freeconnectionList \in Seq(m_connectionList)
  /\ m_recyconnectionList \in Seq(m_connectionList)

\* What a thread has read in ++iCurrsequence is still what it will increment.
Reads ==
  /\ pc \in {"use", "put", "enter"} => seen[Loop] = iCurrsequence[conn]
  /\ rpc = "put" => seen[Recycler] = iCurrsequence[victim]

\* A connection taken from the free list is still counted until it is bound.
Counts ==
  /\ m_total_connection_n = Cardinality(m_connectionList)
  /\ m_totol_recyconnection_n = Len(m_recyconnectionList)
  /\ m_free_connection_n = Len(m_freeconnectionList) +
                             IF pc = "use" /\ conn \in m_connectionList THEN 1 ELSE 0

\* An open descriptor is watched, or it is the one being accepted.
Accepting == pc \in {"get", "use", "setup", "close", "free", "put"}
Descriptors ==
  /\ Accepting => newfd \in Fds
  /\ pc \in {"setup", "close"} => connfd[conn] = newfd
  /\ \A f \in Fds : sock[f] # "closed" => epoll[f] # NoConn \/ (Accepting /\ f = newfd)

Inv == TypeOK /\ Locks /\ Known /\ Reads /\ Counts /\ Descriptors

-----------------------------------------------------------------------------
\* erase() keeps the other elements in the list.
LEMMA RemoveAtType ==
  ASSUME NEW S, NEW s \in Seq(S), NEW i \in 1..Len(s)
  PROVE  RemoveAt(s, i) \in Seq(S) /\ Len(RemoveAt(s, i)) = Len(s) - 1
<1> DEFINE front == SubSeq(s, 1, i - 1)
           back  == SubSeq(s, i + 1, Len(s))
<1>1. front \in Seq(S) /\ Len(front) = i - 1
  OBVIOUS
<1>2. back \in Seq(S) /\ Len(back) = Len(s) - i
  OBVIOUS
<1>3. RemoveAt(s, i) = front \o back
  BY DEF RemoveAt
<1>4. i \in Nat /\ Len(s) \in Nat
  OBVIOUS
<1> HIDE DEF front, back
<1>5. front \o back \in Seq(S) /\ Len(front \o back) = Len(front) + Len(back)
  BY <1>1, <1>2, ConcatProperties
<1>6. QED
  BY <1>1, <1>2, <1>3, <1>4, <1>5

\* What is put at the front of a list is one more element.
LEMMA PushType ==
  ASSUME NEW S, NEW s \in Seq(S), NEW e \in S
  PROVE  <<e>> \o s \in Seq(S) /\ Len(<<e>> \o s) = Len(s) + 1
OBVIOUS

\* A list of some of the connections is one of more of them.
LEMMA SeqGrows ==
  ASSUME NEW S, NEW T, S \subseteq T, NEW s \in Seq(S)
  PROVE  s \in Seq(T)
OBVIOUS

\* The type of the connection list and of what refers to it.
LEMMA KnownConns ==
  ASSUME Inv
  PROVE  /\ IsFiniteSet(m_connectionList)
         /\ m_connectionList \subseteq Conns
         /\ NoConn \notin m_connectionList
<1>1. m_connectionList \subseteq Conns
  BY DEF Inv, TypeOK, ListType
<1>2. QED
  BY <1>1, FS_Subset, PoolAssumption

\* An increment of iCurrsequence that writes what it has read plus one.
LEMMA Increment ==
  ASSUME TypeOK, NEW t \in {Loop, Recycler}, NEW c \in Conns, WriteSequence(t, c),
         seen[t] = iCurrsequence[c]
  PROVE  /\ iCurrsequence' \in [Conns -> 0..(Modulus - 1)]
         /\ seen' \in [{Loop, Recycler} -> 0..(Modulus - 1)]
         /\ \A u \in {Loop, Recycler} : u # t => seen'[u] = seen[u]
         /\ \A d \in Conns : d # c => iCurrsequence'[d] = iCurrsequence[d]
<1>1. Modulus \in Nat \ {0, 1}
  BY PoolAssumption
<1>2. \A x \in 0..(Modulus - 1) : (x + 1) % Modulus \in 0..(Modulus - 1)
  BY <1>1
<1>3. QED
  BY <1>1, <1>2 DEF TypeOK, FieldType, WriteSequence

\* The invariant holds at the start of the worker ...
LEMMA InitInv == Init => Inv
<1> SUFFICES ASSUME Init PROVE Inv
  OBVIOUS
<1>1. MaxFd \in Nat /\ MaxClients \in Nat /\ Modulus \in Nat /\ Modulus > 1 /\ WaitTime \in Nat
  BY PoolAssumption
<1>2. TypeOK
  <2> hup \in BOOLEAN /\ use_accept4 \in BOOLEAN /\ eofSeen \in BOOLEAN
    BY Zenon DEF Init
  <2>1. LoopType
    BY <1>1 DEF Init, LoopType, ListenFd
  <2>2. RecyclerType
    BY DEF Init, RecyclerType
  <2>3. ListType
    BY PoolAssumption DEF Init, ListType
  <2>4. FieldType
    BY <1>1 DEF Init, FieldType, ListenFd
  <2>5. KernelType
    BY <1>1 DEF Init, KernelType
  <2>6. QED
    BY <2>1, <2>2, <2>3, <2>4, <2>5 DEF TypeOK
<1>3. Locks
  BY DEF Init, Locks, Loop, Recycler, Nobody
<1>4. Known
  BY DEF Init, Known
<1>5. Reads
  BY DEF Init, Reads
<1>6. Counts
  <2>1. Cardinality(m_connectionList) = 1
    BY FS_Singleton DEF Init
  <2>2. Len(m_freeconnectionList) = 0 /\ Len(m_recyconnectionList) = 0
    BY DEF Init
  <2>3. QED
    BY <2>1, <2>2 DEF Init, Counts
<1>7. Descriptors
  BY DEF Init, Descriptors, Accepting
<1>8. QED
  BY <1>2, <1>3, <1>4, <1>5, <1>6, <1>7 DEF Inv
\* What the event loop leaves to the recycle thread.
LoopFrame ==
  /\ due' \subseteq due \cup {c \in Conns : WaitTime = 0}
  /\ UNCHANGED <<rpc, iter, victim>>
AcceptFrame == LoopFrame /\ UNCHANGED <<events, hup, recyMutex, listVars, age>>
ProcessFrame ==
  UNCHANGED <<use_accept4, lockVars, poolVars, age, fdVars, clientVars>>
RecvFrame ==
  /\ LoopFrame
  /\ UNCHANGED <<events, hup, newfd, use_accept4, connMutex, freeVars, totalVars,
                 connfd, clientVars, died>>
RecyclerFrame == UNCHANGED <<loopVars, totalVars, connfd, age, fdVars, clientVars>>

USE DEF loopVars, recyVars, lockVars, freeVars, totalVars, listVars, poolVars,
        fdVars, clientVars, Loop, Recycler, Nobody

\* Only the entry of a connection changes what is due, and it adds to it only when there
\* is no waiting time.
LEMMA EntryDue ==
  ASSUME Inv, EventLoop
  PROVE  /\ LoopFrame
         /\ ~(pc = "recycle" /\ pc' = "enter") => due' = due
<1>1. CASE pc = "recycle" /\ pc' = "enter"
  <2>1. conn \in Conns
    BY <1>1, PoolAssumption DEF Inv, Known, TypeOK, ListType
  <2>2. due' \in DueAfterEntry
    BY <1>1 DEF EventLoop
  <2>3. due' \subseteq due \cup {c \in Conns : WaitTime = 0}
    BY <2>1, <2>2 DEF DueAfterEntry
  <2>4. QED
    BY <1>1, <2>3 DEF EventLoop, LoopFrame
<1>2. CASE ~(pc = "recycle" /\ pc' = "enter")
  BY <1>2 DEF EventLoop, LoopFrame
<1>3. QED
  BY <1>1, <1>2

\* epoll_wait: each event has the connection its descriptor is registered with.
LEMMA EpollWaitInv ==
  ASSUME Inv, EpollWait, ProcessFrame, LoopFrame
  PROVE  Inv'
<1> USE DEF Inv, TypeOK
<1>a. \A e \in events' : e \in Events /\ e.conn \in m_connectionList
  <2>1. ListenEvent \in Events /\ ListenEvent.conn = Listener
    <3>1. 0 \in 0..MaxFd
      BY PoolAssumption
    <3>2. QED
      BY <3>1, PoolAssumption, Zenon DEF ListenEvent, Events, ListenFd
  <2>2. ASSUME NEW f \in Fds, epoll[f] # NoConn
        PROVE  EventOf(f) \in Events /\ EventOf(f).conn \in m_connectionList
    BY <2>2, PoolAssumption DEF EventOf, Events, KernelType, Known, Fds
  <2>3. QED
    BY <2>1, <2>2 DEF EpollWait, Watching, Known
<1>1. LoopType'
  BY <1>a DEF EpollWait, ProcessFrame, LoopFrame, LoopType
<1>2. RecyclerType'
  BY DEF EpollWait, ProcessFrame, LoopFrame, RecyclerType
<1>3. ListType'
  BY DEF EpollWait, ProcessFrame, LoopFrame, ListType
<1>4. FieldType'
  BY DEF EpollWait, ProcessFrame, LoopFrame, FieldType
<1>5. KernelType'
  BY DEF EpollWait, ProcessFrame, LoopFrame, KernelType
<1>6. Locks'
  BY DEF EpollWait, ProcessFrame, LoopFrame, Locks
<1>7. Known'
  BY <1>a DEF EpollWait, ProcessFrame, LoopFrame, Known
<1>8. Reads'
  BY DEF EpollWait, ProcessFrame, LoopFrame, Reads
<1>9. Counts'
  BY DEF EpollWait, ProcessFrame, LoopFrame, Counts
<1>10. Descriptors'
  BY DEF EpollWait, ProcessFrame, LoopFrame, Descriptors, Accepting
<1>11. QED
  BY <1>1, <1>2, <1>3, <1>4, <1>5, <1>6, <1>7, <1>8, <1>9, <1>10

\* The next event; its connection is known.
LEMMA TakeEventInv ==
  ASSUME Inv, TakeEvent, ProcessFrame, LoopFrame
  PROVE  Inv'
<1> USE DEF Inv, TypeOK
<1>1. LoopType'
  BY DEF TakeEvent, ProcessFrame, LoopFrame, Dies, LoopType, Events
<1>2. RecyclerType'
  BY DEF TakeEvent, ProcessFrame, LoopFrame, Dies, RecyclerType
<1>3. ListType'
  BY DEF TakeEvent, ProcessFrame, LoopFrame, Dies, ListType
<1>4. FieldType'
  BY DEF TakeEvent, ProcessFrame, LoopFrame, Dies, FieldType
<1>5. KernelType'
  BY DEF TakeEvent, ProcessFrame, LoopFrame, Dies, KernelType
<1>6. Locks'
  BY DEF TakeEvent, ProcessFrame, LoopFrame, Dies, Locks
<1>7. Known'
  BY DEF TakeEvent, ProcessFrame, LoopFrame, Dies, Known
<1>8. Reads'
  BY DEF TakeEvent, ProcessFrame, LoopFrame, Dies, Reads
<1>9. Counts'
  BY DEF TakeEvent, ProcessFrame, LoopFrame, Dies, Counts
<1>10. Descriptors'
  BY DEF TakeEvent, ProcessFrame, LoopFrame, Dies, Descriptors, Accepting
<1>11. QED
  BY <1>1, <1>2, <1>3, <1>4, <1>5, <1>6, <1>7, <1>8, <1>9, <1>10

\* The end of the events.
LEMMA NoMoreEventsInv ==
  ASSUME Inv, NoMoreEvents, ProcessFrame, LoopFrame
  PROVE  Inv'
<1> USE DEF Inv, TypeOK
<1>1. LoopType'
  BY DEF NoMoreEvents, ProcessFrame, LoopFrame, LoopType
<1>2. RecyclerType'
  BY DEF NoMoreEvents, ProcessFrame, LoopFrame, RecyclerType
<1>3. ListType'
  BY DEF NoMoreEvents, ProcessFrame, LoopFrame, ListType
<1>4. FieldType'
  BY DEF NoMoreEvents, ProcessFrame, LoopFrame, FieldType
<1>5. KernelType'
  BY DEF NoMoreEvents, ProcessFrame, LoopFrame, KernelType
<1>6. Locks'
  BY DEF NoMoreEvents, ProcessFrame, LoopFrame, Locks
<1>7. Known'
  BY DEF NoMoreEvents, ProcessFrame, LoopFrame, Known
<1>8. Reads'
  BY DEF NoMoreEvents, ProcessFrame, LoopFrame, Reads
<1>9. Counts'
  BY DEF NoMoreEvents, ProcessFrame, LoopFrame, Counts
<1>10. Descriptors'
  BY DEF NoMoreEvents, ProcessFrame, LoopFrame, Descriptors, Accepting
<1>11. QED
  BY <1>1, <1>2, <1>3, <1>4, <1>5, <1>6, <1>7, <1>8, <1>9, <1>10

\* The second half of an event.
LEMMA WriteEventInv ==
  ASSUME Inv, WriteEvent, ProcessFrame, LoopFrame
  PROVE  Inv'
<1> USE DEF Inv, TypeOK
<1>1. LoopType'
  <2>1. hup' \in BOOLEAN
    BY Zenon DEF WriteEvent
  <2>2. 0 \in 0..MaxFd
    BY PoolAssumption
  <2>3. QED
    BY <2>1, <2>2 DEF WriteEvent, ProcessFrame, LoopType, ListenFd
<1>2. RecyclerType'
  BY DEF WriteEvent, ProcessFrame, LoopFrame, Dies, RecyclerType
<1>3. ListType'
  BY DEF WriteEvent, ProcessFrame, LoopFrame, Dies, ListType
<1>4. FieldType'
  BY DEF WriteEvent, ProcessFrame, LoopFrame, Dies, FieldType
<1>5. KernelType'
  BY DEF WriteEvent, ProcessFrame, LoopFrame, Dies, KernelType
<1>6. Locks'
  BY DEF WriteEvent, ProcessFrame, LoopFrame, Dies, Locks
<1>7. Known'
  BY DEF WriteEvent, ProcessFrame, LoopFrame, Dies, Known
<1>8. Reads'
  BY DEF WriteEvent, ProcessFrame, LoopFrame, Dies, Reads
<1>9. Counts'
  BY DEF WriteEvent, ProcessFrame, LoopFrame, Dies, Counts
<1>10. Descriptors'
  BY DEF WriteEvent, ProcessFrame, LoopFrame, Dies, Descriptors, Accepting
<1>11. QED
  BY <1>1, <1>2, <1>3, <1>4, <1>5, <1>6, <1>7, <1>8, <1>9, <1>10

\* accept4, accept, and their failures.
LEMMA AcceptInv ==
  ASSUME Inv, Accept, AcceptFrame
  PROVE  Inv'
<1> USE DEF Inv, TypeOK
<1>1. LoopType'
  <2>1. use_accept4' \in BOOLEAN
    BY Zenon DEF Accept, NoAccept4, AcceptFails, AcceptClient, LoopType
  <2>2. Fds \subseteq 0..MaxFd
    BY PoolAssumption DEF Fds
  <2>3. QED
    BY <2>1, <2>2 DEF Accept, NoAccept4, AcceptFails, AcceptClient, IsNewFd,
           AcceptFrame, LoopFrame, LoopType
<1>2. RecyclerType'
  BY DEF Accept, NoAccept4, AcceptFails, AcceptClient, IsNewFd, AcceptFrame,
         LoopFrame, RecyclerType
<1>3. ListType'
  BY DEF Accept, NoAccept4, AcceptFails, AcceptClient, IsNewFd, AcceptFrame,
         LoopFrame, ListType
<1>4. FieldType'
  BY DEF Accept, NoAccept4, AcceptFails, AcceptClient, IsNewFd, AcceptFrame,
         LoopFrame, FieldType
<1>5. KernelType'
  BY DEF Accept, NoAccept4, AcceptFails, AcceptClient, IsNewFd, AcceptFrame,
         LoopFrame, KernelType
<1>6. Locks'
  BY DEF Accept, NoAccept4, AcceptFails, AcceptClient, IsNewFd, AcceptFrame,
         LoopFrame, Locks
<1>7. Known'
  BY DEF Accept, NoAccept4, AcceptFails, AcceptClient, IsNewFd, AcceptFrame,
         LoopFrame, Known
<1>8. Reads'
  BY DEF Accept, NoAccept4, AcceptFails, AcceptClient, IsNewFd, AcceptFrame,
         LoopFrame, Reads
<1>9. Counts'
  BY DEF Accept, NoAccept4, AcceptFails, AcceptClient, IsNewFd, AcceptFrame,
         LoopFrame, Counts
<1>10. Descriptors'
  BY DEF Accept, NoAccept4, AcceptFails, AcceptClient, IsNewFd, AcceptFrame,
         LoopFrame, Descriptors, Accepting, KernelType
<1>11. QED
  BY <1>1, <1>2, <1>3, <1>4, <1>5, <1>6, <1>7, <1>8, <1>9, <1>10

\* The registration of an accepted descriptor, or its failure.
LEMMA SetupInv ==
  ASSUME Inv, Setup, AcceptFrame
  PROVE  Inv'
<1> USE DEF Inv, TypeOK
<1>1. LoopType'
  BY DEF Setup, Register, SetupFails, AcceptFrame, LoopFrame, LoopType
<1>2. RecyclerType'
  BY DEF Setup, Register, SetupFails, AcceptFrame, LoopFrame, RecyclerType
<1>3. ListType'
  BY DEF Setup, Register, SetupFails, AcceptFrame, LoopFrame, ListType
<1>4. FieldType'
  BY DEF Setup, Register, SetupFails, AcceptFrame, LoopFrame, FieldType
<1>5. KernelType'
  BY DEF Setup, Register, SetupFails, AcceptFrame, LoopFrame, KernelType, Known,
         ListType
<1>6. Locks'
  BY DEF Setup, Register, SetupFails, AcceptFrame, LoopFrame, Locks
<1>7. Known'
  BY DEF Setup, Register, SetupFails, AcceptFrame, LoopFrame, Known, KernelType
<1>8. Reads'
  BY DEF Setup, Register, SetupFails, AcceptFrame, LoopFrame, Reads
<1>9. Counts'
  BY DEF Setup, Register, SetupFails, AcceptFrame, LoopFrame, Counts
<1>10. Descriptors'
  BY PoolAssumption DEF Setup, Register, SetupFails, AcceptFrame, LoopFrame,
         Descriptors, Accepting, KernelType, Known, ListType
<1>11. QED
  BY <1>1, <1>2, <1>3, <1>4, <1>5, <1>6, <1>7, <1>8, <1>9, <1>10

\* The lock of ngx_get_connection, and the connection it takes or makes.
LEMMA LockToGetInv ==
  ASSUME Inv, LockToGet, GetConnection, AcceptFrame
  PROVE  Inv'
<1> USE DEF Inv, TypeOK
<1>a. /\ conn' \in Conns
      /\ m_freeconnectionList' \in Seq(m_connectionList)
      /\ \/ /\ conn' \in m_connectionList
            /\ Len(m_freeconnectionList') = Len(m_freeconnectionList) - 1
         \/ /\ conn' \notin m_connectionList
            /\ m_freeconnectionList' = m_freeconnectionList
  <2>1. CASE m_freeconnectionList # <<>>
    BY <2>1, HeadTailProperties DEF LockToGet, Known, ListType
  <2>2. CASE m_freeconnectionList = <<>>
    BY <2>2 DEF LockToGet, Known, ListType
  <2>3. QED
    BY <2>1, <2>2
<1>1. LoopType'
  BY <1>a DEF LockToGet, GetConnection, ReadSequence, AcceptFrame, LoopFrame, LoopType
<1>2. RecyclerType'
  BY DEF LockToGet, GetConnection, ReadSequence, AcceptFrame, LoopFrame, RecyclerType
<1>3. ListType'
  BY <1>a, SeqGrows DEF LockToGet, GetConnection, ReadSequence, AcceptFrame,
         LoopFrame, ListType
<1>4. FieldType'
  BY <1>a DEF LockToGet, GetConnection, ReadSequence, AcceptFrame, LoopFrame, FieldType
<1>5. KernelType'
  BY DEF LockToGet, GetConnection, ReadSequence, AcceptFrame, LoopFrame, KernelType
<1>6. Locks'
  BY DEF LockToGet, GetConnection, ReadSequence, AcceptFrame, LoopFrame, Locks
<1>7. Known'
  BY <1>a DEF LockToGet, GetConnection, ReadSequence, AcceptFrame, LoopFrame, Known
<1>8. Reads'
  BY <1>a DEF LockToGet, GetConnection, ReadSequence, AcceptFrame, LoopFrame, Reads,
         FieldType, Locks
<1>9. Counts'
  BY <1>a DEF LockToGet, GetConnection, ReadSequence, AcceptFrame, LoopFrame, Counts
<1>10. Descriptors'
  BY <1>a DEF LockToGet, GetConnection, ReadSequence, AcceptFrame, LoopFrame,
         Descriptors, Accepting
<1>11. QED
  BY <1>1, <1>2, <1>3, <1>4, <1>5, <1>6, <1>7, <1>8, <1>9, <1>10

\* GetOneToUse, and a connection made enters the pool.
LEMMA GetOneToUseInv ==
  ASSUME Inv, GetOneToUse, GetConnection, AcceptFrame
  PROVE  Inv'
<1> USE DEF Inv, TypeOK
<1>a. /\ conn \in Conns /\ WriteSequence(Loop, conn)
      /\ seen[Loop] = iCurrsequence[conn]
  BY DEF GetOneToUse, Known, Reads
<1>b. /\ iCurrsequence' \in [Conns -> 0..(Modulus - 1)]
      /\ seen' \in [{Loop, Recycler} -> 0..(Modulus - 1)]
      /\ \A u \in {Loop, Recycler} : u # Loop => seen'[u] = seen[u]
      /\ \A d \in Conns : d # conn => iCurrsequence'[d] = iCurrsequence[d]
  BY <1>a, Increment
<1>c. /\ conn \in m_connectionList' /\ m_connectionList \subseteq m_connectionList'
      /\ m_connectionList' \subseteq Conns
  BY <1>a DEF GetOneToUse, ListType
<1>1. LoopType'
  BY DEF GetOneToUse, GetConnection, Dies, AcceptFrame, LoopFrame, LoopType
<1>2. RecyclerType'
  BY DEF GetOneToUse, GetConnection, Dies, AcceptFrame, LoopFrame, RecyclerType
<1>3. ListType'
  BY <1>c DEF GetOneToUse, GetConnection, Dies, AcceptFrame, LoopFrame, ListType
<1>4. FieldType'
  BY <1>b DEF GetOneToUse, GetConnection, Dies, AcceptFrame, LoopFrame, FieldType,
         LoopType
<1>5. KernelType'
  BY DEF GetOneToUse, GetConnection, Dies, AcceptFrame, LoopFrame, KernelType
<1>6. Locks'
  BY DEF GetOneToUse, GetConnection, Dies, AcceptFrame, LoopFrame, Locks
<1>7. Known'
  BY <1>c, SeqGrows DEF GetOneToUse, GetConnection, Dies, AcceptFrame, LoopFrame,
         Known, ListType
<1>8. Reads'
  BY <1>b DEF GetOneToUse, GetConnection, Dies, AcceptFrame, LoopFrame, Reads, Locks
<1>9. Counts'
  <2>1. conn \notin m_connectionList =>
          Cardinality(m_connectionList \cup {conn}) = Cardinality(m_connectionList) + 1
    BY KnownConns, FS_AddElement
  <2>2. /\ pc = "use" /\ pc' = "setup"
        /\ m_freeconnectionList' = m_freeconnectionList
        /\ m_recyconnectionList' = m_recyconnectionList
        /\ m_totol_recyconnection_n' = m_totol_recyconnection_n
    BY DEF GetOneToUse, AcceptFrame
  <2>3. Len(m_freeconnectionList) \in Nat /\ Cardinality(m_connectionList) \in Nat
    BY KnownConns, FS_CardinalityType DEF ListType
  <2>4. CASE conn \in m_connectionList
    BY <2>2, <2>3, <2>4 DEF GetOneToUse, Counts
  <2>5. CASE conn \notin m_connectionList
    BY <2>1, <2>2, <2>3, <2>5 DEF GetOneToUse, Counts
  <2>6. QED
    BY <2>4, <2>5
<1>10. Descriptors'
  BY <1>c DEF GetOneToUse, GetConnection, Dies, AcceptFrame, LoopFrame, Descriptors,
         Accepting, FieldType, KernelType, Known
<1>11. QED
  BY <1>1, <1>2, <1>3, <1>4, <1>5, <1>6, <1>7, <1>8, <1>9, <1>10

\* The lock of ngx_close_connection.
LEMMA LockToCloseInv ==
  ASSUME Inv, LockToClose, CloseConnection, AcceptFrame
  PROVE  Inv'
<1> USE DEF Inv, TypeOK
<1>1. LoopType'
  BY DEF LockToClose, CloseConnection, AcceptFrame, LoopFrame, LoopType, FieldType,
         Known, ListType
<1>2. RecyclerType'
  BY DEF LockToClose, CloseConnection, AcceptFrame, LoopFrame, RecyclerType
<1>3. ListType'
  BY DEF LockToClose, CloseConnection, AcceptFrame, LoopFrame, ListType
<1>4. FieldType'
  BY DEF LockToClose, CloseConnection, AcceptFrame, LoopFrame, FieldType
<1>5. KernelType'
  BY DEF LockToClose, CloseConnection, AcceptFrame, LoopFrame, KernelType
<1>6. Locks'
  BY DEF LockToClose, CloseConnection, AcceptFrame, LoopFrame, Locks
<1>7. Known'
  BY DEF LockToClose, CloseConnection, AcceptFrame, LoopFrame, Known
<1>8. Reads'
  BY DEF LockToClose, CloseConnection, AcceptFrame, LoopFrame, Reads
<1>9. Counts'
  BY DEF LockToClose, CloseConnection, AcceptFrame, LoopFrame, Counts
<1>10. Descriptors'
  BY DEF LockToClose, CloseConnection, AcceptFrame, LoopFrame, Descriptors, Accepting
<1>11. QED
  BY <1>1, <1>2, <1>3, <1>4, <1>5, <1>6, <1>7, <1>8, <1>9, <1>10

\* The lock and the first read of ngx_free_connection.
LEMMA BeginFreeInv ==
  ASSUME Inv, BeginFree, CloseConnection, AcceptFrame
  PROVE  Inv'
<1> USE DEF Inv, TypeOK
<1>1. LoopType'
  BY DEF BeginFree, ReadSequence, CloseConnection, AcceptFrame, LoopFrame, LoopType
<1>2. RecyclerType'
  BY DEF BeginFree, ReadSequence, CloseConnection, AcceptFrame, LoopFrame, RecyclerType
<1>3. ListType'
  BY DEF BeginFree, ReadSequence, CloseConnection, AcceptFrame, LoopFrame, ListType
<1>4. FieldType'
  BY DEF BeginFree, ReadSequence, CloseConnection, AcceptFrame, LoopFrame, FieldType,
         Known, ListType
<1>5. KernelType'
  BY DEF BeginFree, ReadSequence, CloseConnection, AcceptFrame, LoopFrame, KernelType
<1>6. Locks'
  BY DEF BeginFree, ReadSequence, CloseConnection, AcceptFrame, LoopFrame, Locks
<1>7. Known'
  BY DEF BeginFree, ReadSequence, CloseConnection, AcceptFrame, LoopFrame, Known
<1>8. Reads'
  BY DEF BeginFree, ReadSequence, CloseConnection, AcceptFrame, LoopFrame, Reads,
         FieldType, Locks
<1>9. Counts'
  BY DEF BeginFree, ReadSequence, CloseConnection, AcceptFrame, LoopFrame, Counts
<1>10. Descriptors'
  BY DEF BeginFree, ReadSequence, CloseConnection, AcceptFrame, LoopFrame,
         Descriptors, Accepting
<1>11. QED
  BY <1>1, <1>2, <1>3, <1>4, <1>5, <1>6, <1>7, <1>8, <1>9, <1>10

\* PutOneToFree and close() in ngx_close_connection.
LEMMA FreeAndCloseInv ==
  ASSUME Inv, FreeAndClose, CloseConnection, AcceptFrame
  PROVE  Inv'
<1> USE DEF Inv, TypeOK
<1>a. /\ conn \in Conns /\ conn \in m_connectionList /\ WriteSequence(Loop, conn)
      /\ seen[Loop] = iCurrsequence[conn]
  BY DEF FreeAndClose, PutOneToFree, Known, Reads, ListType
<1>b. /\ iCurrsequence' \in [Conns -> 0..(Modulus - 1)]
      /\ seen' \in [{Loop, Recycler} -> 0..(Modulus - 1)]
      /\ \A u \in {Loop, Recycler} : u # Loop => seen'[u] = seen[u]
      /\ \A d \in Conns : d # conn => iCurrsequence'[d] = iCurrsequence[d]
  BY <1>a, Increment
<1>c. /\ m_freeconnectionList' \in Seq(m_connectionList)
      /\ Len(m_freeconnectionList') = Len(m_freeconnectionList) + 1
  BY <1>a, PushType DEF FreeAndClose, PutOneToFree, Known
<1>1. LoopType'
  BY DEF FreeAndClose, PutOneToFree, CloseFd, CloseConnection, AcceptFrame, LoopFrame,
         LoopType
<1>2. RecyclerType'
  BY DEF FreeAndClose, PutOneToFree, CloseFd, CloseConnection, AcceptFrame, LoopFrame,
         RecyclerType
<1>3. ListType'
  BY <1>c, SeqGrows DEF FreeAndClose, PutOneToFree, CloseFd, CloseConnection,
         AcceptFrame, LoopFrame, ListType
<1>4. FieldType'
  BY <1>b DEF FreeAndClose, PutOneToFree, CloseFd, CloseConnection, AcceptFrame,
         LoopFrame, FieldType
<1>5. KernelType'
  BY DEF FreeAndClose, PutOneToFree, CloseFd, CloseConnection, AcceptFrame, LoopFrame,
         KernelType
<1>6. Locks'
  BY DEF FreeAndClose, PutOneToFree, CloseFd, CloseConnection, AcceptFrame, LoopFrame,
         Locks
<1>7. Known'
  BY <1>c DEF FreeAndClose, PutOneToFree, CloseFd, CloseConnection, AcceptFrame,
         LoopFrame, Known
<1>8. Reads'
  BY <1>b DEF FreeAndClose, PutOneToFree, CloseFd, CloseConnection, AcceptFrame,
         LoopFrame, Reads, Locks
<1>9. Counts'
  BY <1>c DEF FreeAndClose, PutOneToFree, CloseFd, CloseConnection, AcceptFrame,
         LoopFrame, Counts, ListType
<1>10. Descriptors'
  BY DEF FreeAndClose, PutOneToFree, CloseFd, CloseConnection, AcceptFrame, LoopFrame,
         Descriptors, Accepting, KernelType
<1>11. QED
  BY <1>1, <1>2, <1>3, <1>4, <1>5, <1>6, <1>7, <1>8, <1>9, <1>10

\* recv() and what is done about its failures.
LEMMA RecvInv ==
  ASSUME Inv, Recv, RecvFrame
  PROVE  Inv'
<1> USE DEF Inv, TypeOK
<1>1. LoopType'
  BY DEF Recv, RecvMore, RecvEOF, RecvError, CloseFd, RecvFrame, LoopFrame, LoopType
<1>2. RecyclerType'
  BY DEF Recv, RecvMore, RecvEOF, RecvError, CloseFd, RecvFrame, LoopFrame, RecyclerType
<1>3. ListType'
  BY DEF Recv, RecvMore, RecvEOF, RecvError, CloseFd, RecvFrame, LoopFrame, ListType
<1>4. FieldType'
  BY DEF Recv, RecvMore, RecvEOF, RecvError, CloseFd, RecvFrame, LoopFrame, FieldType
<1>5. KernelType'
  <2>1. eofSeen' \in BOOLEAN
    BY Zenon DEF Recv, RecvMore, RecvEOF, RecvError, KernelType
  <2>2. QED
    BY <2>1 DEF Recv, RecvMore, RecvEOF, RecvError, CloseFd, RecvFrame, KernelType
<1>6. Locks'
  BY DEF Recv, RecvMore, RecvEOF, RecvError, CloseFd, RecvFrame, LoopFrame, Locks
<1>7. Known'
  BY DEF Recv, RecvMore, RecvEOF, RecvError, CloseFd, RecvFrame, LoopFrame, Known
<1>8. Reads'
  BY DEF Recv, RecvMore, RecvEOF, RecvError, CloseFd, RecvFrame, LoopFrame, Reads
<1>9. Counts'
  BY DEF Recv, RecvMore, RecvEOF, RecvError, CloseFd, RecvFrame, LoopFrame, Counts
<1>10. Descriptors'
  BY DEF Recv, RecvMore, RecvEOF, RecvError, CloseFd, RecvFrame, LoopFrame,
         Descriptors, Accepting, KernelType
<1>11. QED
  BY <1>1, <1>2, <1>3, <1>4, <1>5, <1>6, <1>7, <1>8, <1>9, <1>10

\* The lock of inRecyConnectQueue.
LEMMA LockToRecycleInv ==
  ASSUME Inv, LockToRecycle, RecvFrame
  PROVE  Inv'
<1> USE DEF Inv, TypeOK
<1>1. LoopType'
  BY DEF LockToRecycle, ReadSequence, RecvFrame, LoopFrame, LoopType
<1>2. RecyclerType'
  BY DEF LockToRecycle, ReadSequence, RecvFrame, LoopFrame, RecyclerType
<1>3. ListType'
  BY DEF LockToRecycle, ReadSequence, RecvFrame, LoopFrame, ListType
<1>4. FieldType'
  <2>1. age' \in [Conns -> 0..WaitTime]
    <3>1. 0 \in 0..WaitTime
      BY PoolAssumption
    <3>2. QED
      BY <3>1 DEF LockToRecycle, FieldType
  <2>2. iCurrsequence[conn] \in 0..(Modulus - 1)
    BY DEF LockToRecycle, FieldType, Known, ListType
  <2>3. seen' \in [{Loop, Recycler} -> 0..(Modulus - 1)]
    BY <2>2 DEF LockToRecycle, ReadSequence, FieldType
  <2>4. QED
    BY <2>1, <2>3 DEF LockToRecycle, RecvFrame, FieldType
<1>5. KernelType'
  BY DEF LockToRecycle, ReadSequence, RecvFrame, LoopFrame, KernelType
<1>6. Locks'
  BY DEF LockToRecycle, ReadSequence, RecvFrame, LoopFrame, Locks
<1>7. Known'
  BY DEF LockToRecycle, ReadSequence, RecvFrame, LoopFrame, Known
<1>8. Reads'
  BY DEF LockToRecycle, ReadSequence, RecvFrame, LoopFrame, Reads, FieldType, Locks
<1>9. Counts'
  BY DEF LockToRecycle, ReadSequence, RecvFrame, LoopFrame, Counts
<1>10. Descriptors'
  BY DEF LockToRecycle, ReadSequence, RecvFrame, LoopFrame, Descriptors, Accepting
<1>11. QED
  BY <1>1, <1>2, <1>3, <1>4, <1>5, <1>6, <1>7, <1>8, <1>9, <1>10

\* The connection enters the recycle list.
LEMMA EnterRecycleListInv ==
  ASSUME Inv, EnterRecycleList, RecvFrame
  PROVE  Inv'
<1> USE DEF Inv, TypeOK
<1>a. /\ conn \in Conns /\ conn \in m_connectionList /\ WriteSequence(Loop, conn)
      /\ seen[Loop] = iCurrsequence[conn]
  BY DEF EnterRecycleList, Known, Reads, ListType
<1>b. /\ iCurrsequence' \in [Conns -> 0..(Modulus - 1)]
      /\ seen' \in [{Loop, Recycler} -> 0..(Modulus - 1)]
      /\ \A u \in {Loop, Recycler} : u # Loop => seen'[u] = seen[u]
      /\ \A d \in Conns : d # conn => iCurrsequence'[d] = iCurrsequence[d]
  BY <1>a, Increment
<1>c. /\ m_recyconnectionList' \in Seq(m_connectionList)
      /\ Len(m_recyconnectionList') = Len(m_recyconnectionList) + 1
  BY <1>a, PushType DEF EnterRecycleList, Known
<1>1. LoopType'
  BY DEF EnterRecycleList, RecvFrame, LoopFrame, LoopType
<1>2. RecyclerType'
  BY DEF EnterRecycleList, RecvFrame, LoopFrame, RecyclerType
<1>3. ListType'
  BY <1>c, SeqGrows DEF EnterRecycleList, RecvFrame, LoopFrame, ListType
<1>4. FieldType'
  BY <1>b DEF EnterRecycleList, RecvFrame, LoopFrame, FieldType
<1>5. KernelType'
  BY DEF EnterRecycleList, RecvFrame, LoopFrame, KernelType
<1>6. Locks'
  BY DEF EnterRecycleList, RecvFrame, LoopFrame, Locks
<1>7. Known'
  BY <1>c DEF EnterRecycleList, RecvFrame, LoopFrame, Known
<1>8. Reads'
  BY <1>b DEF EnterRecycleList, RecvFrame, LoopFrame, Reads, Locks
<1>9. Counts'
  BY <1>c DEF EnterRecycleList, RecvFrame, LoopFrame, Counts, ListType
<1>10. Descriptors'
  BY DEF EnterRecycleList, RecvFrame, LoopFrame, Descriptors, Accepting
<1>11. QED
  BY <1>1, <1>2, <1>3, <1>4, <1>5, <1>6, <1>7, <1>8, <1>9, <1>10

\* The recycle thread reads the counter and the time.
LEMMA LookAtCountInv ==
  ASSUME Inv, LookAtCount, RecyclerFrame
  PROVE  Inv'
<1> USE DEF Inv, TypeOK
<1>1. LoopType'
  BY DEF LookAtCount, RecyclerFrame, LoopType
<1>2. RecyclerType'
  <2>1. ToSet(m_recyconnectionList) \subseteq Conns
    BY DEF ListType, ToSet
  <2>2. QED
    BY <2>1 DEF LookAtCount, RecyclerType
<1>3. ListType'
  BY DEF LookAtCount, RecyclerFrame, ListType
<1>4. FieldType'
  BY DEF LookAtCount, RecyclerFrame, FieldType
<1>5. KernelType'
  BY DEF LookAtCount, RecyclerFrame, KernelType
<1>6. Locks'
  BY DEF LookAtCount, RecyclerFrame, Locks
<1>7. Known'
  BY DEF LookAtCount, RecyclerFrame, Known
<1>8. Reads'
  BY DEF LookAtCount, RecyclerFrame, Reads
<1>9. Counts'
  BY DEF LookAtCount, RecyclerFrame, Counts
<1>10. Descriptors'
  BY DEF LookAtCount, RecyclerFrame, Descriptors, Accepting
<1>11. QED
  BY <1>1, <1>2, <1>3, <1>4, <1>5, <1>6, <1>7, <1>8, <1>9, <1>10

\* The lock of the recycle list.
LEMMA LockToScanInv ==
  ASSUME Inv, LockToScan, RecyclerFrame
  PROVE  Inv'
<1> USE DEF Inv, TypeOK
<1>1. LoopType'
  BY DEF LockToScan, RecyclerFrame, LoopType
<1>2. RecyclerType'
  BY DEF LockToScan, RecyclerFrame, RecyclerType
<1>3. ListType'
  BY DEF LockToScan, RecyclerFrame, ListType
<1>4. FieldType'
  BY DEF LockToScan, RecyclerFrame, FieldType
<1>5. KernelType'
  BY DEF LockToScan, RecyclerFrame, KernelType
<1>6. Locks'
  BY DEF LockToScan, RecyclerFrame, Locks
<1>7. Known'
  BY DEF LockToScan, RecyclerFrame, Known
<1>8. Reads'
  BY DEF LockToScan, RecyclerFrame, Reads
<1>9. Counts'
  BY DEF LockToScan, RecyclerFrame, Counts
<1>10. Descriptors'
  BY DEF LockToScan, RecyclerFrame, Descriptors, Accepting
<1>11. QED
  BY <1>1, <1>2, <1>3, <1>4, <1>5, <1>6, <1>7, <1>8, <1>9, <1>10

\* An entry that is not due.
LEMMA SkipEntryInv ==
  ASSUME Inv, SkipEntry, RecyclerFrame
  PROVE  Inv'
<1> USE DEF Inv, TypeOK
<1>1. LoopType'
  BY DEF SkipEntry, RecyclerFrame, LoopType
<1>2. RecyclerType'
  BY DEF SkipEntry, RecyclerFrame, RecyclerType
<1>3. ListType'
  BY DEF SkipEntry, RecyclerFrame, ListType
<1>4. FieldType'
  BY DEF SkipEntry, RecyclerFrame, FieldType
<1>5. KernelType'
  BY DEF SkipEntry, RecyclerFrame, KernelType
<1>6. Locks'
  BY DEF SkipEntry, RecyclerFrame, Locks
<1>7. Known'
  BY DEF SkipEntry, RecyclerFrame, Known
<1>8. Reads'
  BY DEF SkipEntry, RecyclerFrame, Reads
<1>9. Counts'
  BY DEF SkipEntry, RecyclerFrame, Counts
<1>10. Descriptors'
  BY DEF SkipEntry, RecyclerFrame, Descriptors, Accepting
<1>11. QED
  BY <1>1, <1>2, <1>3, <1>4, <1>5, <1>6, <1>7, <1>8, <1>9, <1>10

\* The lock of ngx_free_connection, under the lock of the list.
LEMMA LockToFreeInv ==
  ASSUME Inv, LockToFree, RecyclerFrame
  PROVE  Inv'
<1> USE DEF Inv, TypeOK
<1>1. LoopType'
  BY DEF LockToFree, ReadSequence, RecyclerFrame, LoopType
<1>2. RecyclerType'
  BY DEF LockToFree, ReadSequence, RecyclerFrame, RecyclerType
<1>3. ListType'
  BY DEF LockToFree, ReadSequence, RecyclerFrame, ListType
<1>4. FieldType'
  BY DEF LockToFree, ReadSequence, RecyclerFrame, FieldType, Known, ListType
<1>5. KernelType'
  BY DEF LockToFree, ReadSequence, RecyclerFrame, KernelType
<1>6. Locks'
  BY DEF LockToFree, ReadSequence, RecyclerFrame, Locks
<1>7. Known'
  BY DEF LockToFree, ReadSequence, RecyclerFrame, Known
<1>8. Reads'
  BY DEF LockToFree, ReadSequence, RecyclerFrame, Reads, FieldType,
         Locks
<1>9. Counts'
  BY DEF LockToFree, ReadSequence, RecyclerFrame, Counts
<1>10. Descriptors'
  BY DEF LockToFree, ReadSequence, RecyclerFrame, Descriptors, Accepting
<1>11. QED
  BY <1>1, <1>2, <1>3, <1>4, <1>5, <1>6, <1>7, <1>8, <1>9, <1>10

\* The end of the list.
LEMMA EndScanInv ==
  ASSUME Inv, EndScan, RecyclerFrame
  PROVE  Inv'
<1> USE DEF Inv, TypeOK
<1>1. LoopType'
  BY DEF EndScan, RecyclerFrame, LoopType
<1>2. RecyclerType'
  BY DEF EndScan, RecyclerFrame, RecyclerType
<1>3. ListType'
  BY DEF EndScan, RecyclerFrame, ListType
<1>4. FieldType'
  BY DEF EndScan, RecyclerFrame, FieldType
<1>5. KernelType'
  BY DEF EndScan, RecyclerFrame, KernelType
<1>6. Locks'
  BY DEF EndScan, RecyclerFrame, Locks
<1>7. Known'
  BY DEF EndScan, RecyclerFrame, Known
<1>8. Reads'
  BY DEF EndScan, RecyclerFrame, Reads
<1>9. Counts'
  BY DEF EndScan, RecyclerFrame, Counts
<1>10. Descriptors'
  BY DEF EndScan, RecyclerFrame, Descriptors, Accepting
<1>11. QED
  BY <1>1, <1>2, <1>3, <1>4, <1>5, <1>6, <1>7, <1>8, <1>9, <1>10

\* An entry that is due is erased.
LEMMA EraseEntryInv ==
  ASSUME Inv, EraseEntry, RecyclerFrame
  PROVE  Inv'
<1> USE DEF Inv, TypeOK
<1>a. /\ iter \in 1..Len(m_recyconnectionList)
      /\ m_recyconnectionList \in Seq(m_connectionList)
  BY DEF EraseEntry, RecyclerType, ListType, Known
<1>b. /\ m_recyconnectionList' \in Seq(m_connectionList)
      /\ Len(m_recyconnectionList') = Len(m_recyconnectionList) - 1
  BY <1>a, RemoveAtType DEF EraseEntry
<1>c. victim' \in m_connectionList
  BY <1>a, ElementOfSeq DEF EraseEntry
<1>1. LoopType'
  BY DEF EraseEntry, Dies, RecyclerFrame, LoopType
<1>2. RecyclerType'
  <2>1. iter' \in 1..(Len(m_recyconnectionList') + 1)
    BY <1>a, <1>b DEF EraseEntry
  <2>2. victim' \in Conns
    BY <1>c DEF ListType
  <2>3. QED
    BY <2>1, <2>2 DEF EraseEntry, RecyclerType
<1>3. ListType'
  BY <1>b, SeqGrows DEF EraseEntry, Dies, RecyclerFrame, ListType
<1>4. FieldType'
  BY DEF EraseEntry, Dies, RecyclerFrame, FieldType
<1>5. KernelType'
  BY DEF EraseEntry, Dies, RecyclerFrame, KernelType
<1>6. Locks'
  BY DEF EraseEntry, Dies, RecyclerFrame, Locks
<1>7. Known'
  BY <1>b, <1>c DEF EraseEntry, Dies, RecyclerFrame, Known
<1>8. Reads'
  BY DEF EraseEntry, Dies, RecyclerFrame, Reads
<1>9. Counts'
  BY <1>b DEF EraseEntry, Dies, RecyclerFrame, Counts, ListType
<1>10. Descriptors'
  BY DEF EraseEntry, Dies, RecyclerFrame, Descriptors, Accepting
<1>11. QED
  BY <1>1, <1>2, <1>3, <1>4, <1>5, <1>6, <1>7, <1>8, <1>9, <1>10

\* The entry is put into the free list.
LEMMA FreeEntryInv ==
  ASSUME Inv, FreeEntry, RecyclerFrame
  PROVE  Inv'
<1> USE DEF Inv, TypeOK
<1>a. /\ victim \in Conns /\ victim \in m_connectionList /\ WriteSequence(Recycler, victim)
      /\ seen[Recycler] = iCurrsequence[victim]
  BY DEF FreeEntry, PutOneToFree, Known, Reads, ListType
<1>b. /\ iCurrsequence' \in [Conns -> 0..(Modulus - 1)]
      /\ seen' \in [{Loop, Recycler} -> 0..(Modulus - 1)]
      /\ \A u \in {Loop, Recycler} : u # Recycler => seen'[u] = seen[u]
      /\ \A d \in Conns : d # victim => iCurrsequence'[d] = iCurrsequence[d]
  BY <1>a, Increment
<1>c. /\ m_freeconnectionList' \in Seq(m_connectionList)
      /\ Len(m_freeconnectionList') = Len(m_freeconnectionList) + 1
  BY <1>a, PushType DEF FreeEntry, PutOneToFree, Known
<1>1. LoopType'
  BY DEF FreeEntry, PutOneToFree, RecyclerFrame, LoopType
<1>2. RecyclerType'
  BY DEF FreeEntry, PutOneToFree, RecyclerFrame, RecyclerType
<1>3. ListType'
  BY <1>c, SeqGrows DEF FreeEntry, PutOneToFree, RecyclerFrame, ListType
<1>4. FieldType'
  BY <1>b DEF FreeEntry, PutOneToFree, RecyclerFrame, FieldType
<1>5. KernelType'
  BY DEF FreeEntry, PutOneToFree, RecyclerFrame, KernelType
<1>6. Locks'
  BY DEF FreeEntry, PutOneToFree, RecyclerFrame, Locks
<1>7. Known'
  BY <1>c DEF FreeEntry, PutOneToFree, RecyclerFrame, Known
<1>8. Reads'
  BY <1>b DEF FreeEntry, PutOneToFree, RecyclerFrame, Reads, Locks
<1>9. Counts'
  BY <1>c DEF FreeEntry, PutOneToFree, RecyclerFrame, Counts, ListType
<1>10. Descriptors'
  BY DEF FreeEntry, PutOneToFree, RecyclerFrame, Descriptors, Accepting
<1>11. QED
  BY <1>1, <1>2, <1>3, <1>4, <1>5, <1>6, <1>7, <1>8, <1>9, <1>10

\* A client connects.
LEMMA ConnectInv ==
  ASSUME Inv, Connect
  PROVE  Inv'
<1> USE DEF Inv, TypeOK
<1>1. LoopType'
  BY DEF Connect, LoopType
<1>2. RecyclerType'
  BY DEF Connect, RecyclerType
<1>3. ListType'
  BY DEF Connect, ListType
<1>4. FieldType'
  BY DEF Connect, FieldType
<1>5. KernelType'
  BY PoolAssumption DEF Connect, KernelType
<1>6. Locks'
  BY DEF Connect, Locks
<1>7. Known'
  BY DEF Connect, Known
<1>8. Reads'
  BY DEF Connect, Reads
<1>9. Counts'
  BY DEF Connect, Counts
<1>10. Descriptors'
  BY DEF Connect, Descriptors, Accepting
<1>11. QED
  BY <1>1, <1>2, <1>3, <1>4, <1>5, <1>6, <1>7, <1>8, <1>9, <1>10

\* A client leaves.
LEMMA LeaveInv ==
  ASSUME Inv, NEW f \in Fds, Leave(f)
  PROVE  Inv'
<1> USE DEF Inv, TypeOK
<1>1. LoopType'
  BY DEF Leave, LoopType
<1>2. RecyclerType'
  BY DEF Leave, RecyclerType
<1>3. ListType'
  BY DEF Leave, ListType
<1>4. FieldType'
  BY DEF Leave, FieldType
<1>5. KernelType'
  BY DEF Leave, KernelType
<1>6. Locks'
  BY DEF Leave, Locks
<1>7. Known'
  BY DEF Leave, Known
<1>8. Reads'
  BY DEF Leave, Reads
<1>9. Counts'
  BY DEF Leave, Counts
<1>10. Descriptors'
  BY DEF Leave, Descriptors, Accepting, KernelType
<1>11. QED
  BY <1>1, <1>2, <1>3, <1>4, <1>5, <1>6, <1>7, <1>8, <1>9, <1>10

\* A second passes.
LEMMA TickInv ==
  ASSUME Inv, Tick
  PROVE  Inv'
<1> USE DEF Inv, TypeOK
<1>1. LoopType'
  BY DEF Tick, LoopType
<1>2. RecyclerType'
  BY DEF Tick, RecyclerType
<1>3. ListType'
  BY DEF Tick, ListType
<1>4. FieldType'
  BY PoolAssumption DEF Tick, FieldType
<1>5. KernelType'
  BY DEF Tick, KernelType
<1>6. Locks'
  BY DEF Tick, Locks
<1>7. Known'
  BY DEF Tick, Known
<1>8. Reads'
  BY DEF Tick, Reads
<1>9. Counts'
  BY DEF Tick, Counts
<1>10. Descriptors'
  BY DEF Tick, Descriptors, Accepting
<1>11. QED
  BY <1>1, <1>2, <1>3, <1>4, <1>5, <1>6, <1>7, <1>8, <1>9, <1>10

\* Nothing happens.
LEMMA StutterInv ==
  ASSUME Inv, UNCHANGED vars
  PROVE  Inv'
<1> USE DEF Inv, TypeOK
<1>1. LoopType'
  BY DEF vars, LoopType
<1>2. RecyclerType'
  BY DEF vars, RecyclerType
<1>3. ListType'
  BY DEF vars, ListType
<1>4. FieldType'
  BY DEF vars, FieldType
<1>5. KernelType'
  BY DEF vars, KernelType
<1>6. Locks'
  BY DEF vars, Locks
<1>7. Known'
  BY DEF vars, Known
<1>8. Reads'
  BY DEF vars, Reads
<1>9. Counts'
  BY DEF vars, Counts
<1>10. Descriptors'
  BY DEF vars, Descriptors, Accepting
<1>11. QED
  BY <1>1, <1>2, <1>3, <1>4, <1>5, <1>6, <1>7, <1>8, <1>9, <1>10

\* Every step preserves the invariant, one step of the proof per action.
LEMMA StepInv == Inv /\ [Next]_vars => Inv'
<1> SUFFICES ASSUME Inv, [Next]_vars PROVE Inv'
  OBVIOUS
<1>1. CASE EventLoop
  <2>1. LoopFrame
    BY <1>1, EntryDue
  <2>2. CASE ProcessEvents
    <3>1. ProcessFrame
      BY <2>2 DEF ProcessEvents, ProcessFrame
    <3>2. QED
      BY <2>1, <2>2, <3>1, EpollWaitInv, TakeEventInv, NoMoreEventsInv, WriteEventInv
      DEF ProcessEvents
  <2>3. CASE EventAccept
    <3>1. AcceptFrame
      BY <2>1, <2>3 DEF EventAccept, AcceptFrame
    <3>2. CASE Accept
      BY <3>1, <3>2, AcceptInv
    <3>3. CASE GetConnection
      BY <3>1, <3>3, LockToGetInv, GetOneToUseInv DEF GetConnection
    <3>4. CASE Setup
      BY <3>1, <3>4, SetupInv
    <3>5. CASE CloseConnection
      BY <3>1, <3>5, LockToCloseInv, BeginFreeInv, FreeAndCloseInv DEF CloseConnection
    <3>6. QED
      BY <2>3, <3>2, <3>3, <3>4, <3>5 DEF EventAccept
  <2>4. CASE RecvProc
    <3>1. RecvFrame
      BY <2>1, <2>4 DEF RecvProc, RecvFrame
    <3>2. QED
      BY <2>4, <3>1, RecvInv, LockToRecycleInv, EnterRecycleListInv DEF RecvProc
  <2>5. QED
    BY <1>1, <2>2, <2>3, <2>4 DEF EventLoop
<1>2. CASE RecycleThread
  <2>1. RecyclerFrame
    BY <1>2 DEF RecycleThread, RecyclerFrame
  <2>2. QED
    BY <1>2, <2>1, LookAtCountInv, LockToScanInv, SkipEntryInv, EraseEntryInv,
       LockToFreeInv, FreeEntryInv, EndScanInv DEF RecycleThread
<1>3. CASE Tick
  BY <1>3, TickInv
<1>4. CASE Connect
  BY <1>4, ConnectInv
<1>5. CASE \E f \in Fds : Leave(f)
  BY <1>5, LeaveInv
<1>6. CASE UNCHANGED vars
  BY <1>6, StutterInv
<1>7. QED
  BY <1>1, <1>2, <1>3, <1>4, <1>5, <1>6 DEF Next, Dead

\* ... and in every state.
THEOREM InvHolds == Spec => []Inv
BY InitInv, StepInv, PTL DEF Spec

-----------------------------------------------------------------------------
\* The variables of the pool, the two threads and the kernel keep their types.
THEOREM TypeCorrect == Spec => []TypeOK
BY InvHolds, PTL DEF Inv

\* When no handler runs, the three counters are the lengths of the three lists, and every
\* open descriptor is watched: whatever failed before, whichever statements are read
\* as meant.  Who holds which lock (Locks) makes it inductive.
THEOREM AccountsKept == Spec => []PoolAccounts
<1>1. Inv => PoolAccounts
  BY DEF Inv, PoolAccounts, AtRest, CountersAgree, Watched, Counts, Descriptors,
         Accepting, TypeOK, ListType
<1>2. QED
  BY <1>1, InvHolds, PTL

-----------------------------------------------------------------------------
(* PlacedOnce, as long as no client has closed in good order *)

\* The places a connection can be in, besides serving a descriptor: the two lists, and the
\* hands of the two threads.
Free    == ToSet(m_freeconnectionList)
Waiting == ToSet(m_recyconnectionList)
InLoop  ==
  IF pc \in {"use", "setup", "close", "free", "put", "recycle", "enter"} THEN {conn} ELSE {}
InRecycler == IF rpc \in {"free", "put"} THEN {victim} ELSE {}

\* No connection is in two places, ...
Apart ==
  /\ Listener \notin InUse \cup Free \cup Waiting \cup InLoop \cup InRecycler
  /\ InUse \cap (Free \cup Waiting \cup InLoop \cup InRecycler) = {}
  /\ Free \cap (Waiting \cup InLoop \cup InRecycler) = {}
  /\ Waiting \cap (InLoop \cup InRecycler) = {}
  /\ InLoop \cap InRecycler = {}

\* ... or twice in one list, or in none.
Once == IsInjective(m_freeconnectionList) /\ IsInjective(m_recyconnectionList)
Covered ==
  m_connectionList
    \subseteq {Listener} \cup InUse \cup Free \cup Waiting \cup InLoop \cup InRecycler

\* A registered descriptor is open, and its connection is bound to it.
Bound == \A f \in Fds : epoll[f] # NoConn => connfd[epoll[f]] = f /\ sock[f] # "closed"

\* An event that waits for its turn is still about the connection of its descriptor, and
\* no other event is.
Fresh ==
  /\ \A e \in events : e.conn = Listener \/ (e.fd \in Fds /\ epoll[e.fd] = e.conn)
  /\ \A e1, e2 \in events : e1.conn = e2.conn => e1 = e2

\* So is the event that has its turn; an accepted descriptor is not registered yet.
AtTurn ==
  /\ pc = "recv" => conn \in InUse /\ \A e \in events : e.conn # conn
  /\ Accepting => epoll[newfd] = NoConn /\ sock[newfd] # "closed"

Ordered == Apart /\ Once /\ Covered /\ Bound /\ Fresh /\ AtTurn

\* The element at the front of a list leaves it.
LEMMA TailOnce ==
  ASSUME NEW S, NEW s \in Seq(S), s # <<>>, IsInjective(s)
  PROVE  /\ Head(s) \in ToSet(s) /\ IsInjective(Tail(s))
         /\ ToSet(Tail(s)) = ToSet(s) \ {Head(s)}
<1>1. /\ Len(s) \in Nat \ {0} /\ Head(s) = s[1] /\ DOMAIN s = 1..Len(s)
      /\ DOMAIN Tail(s) = 1..(Len(s) - 1)
      /\ \A i \in 1..(Len(s) - 1) : Tail(s)[i] = s[i + 1]
  OBVIOUS
<1>2. \A i, j \in 1..Len(s) : s[i] = s[j] => i = j
  BY <1>1 DEF IsInjective
<1>3. IsInjective(Tail(s))
  BY <1>1, <1>2 DEF IsInjective
<1>4. \A i \in 1..(Len(s) - 1) : Tail(s)[i] \in ToSet(s) /\ Tail(s)[i] # Head(s)
  BY <1>1, <1>2 DEF ToSet
<1>5. \A i \in 1..Len(s) : s[i] # Head(s) => i - 1 \in 1..(Len(s) - 1)
                                             /\ Tail(s)[i - 1] = s[i]
  BY <1>1
<1>6. \A x \in ToSet(s) : x # Head(s) => x \in ToSet(Tail(s))
  <2>1. SUFFICES ASSUME NEW i \in 1..Len(s), s[i] # Head(s)
                 PROVE  s[i] \in ToSet(Tail(s))
    BY <1>1 DEF ToSet
  <2>2. QED
    BY <2>1, <1>1, <1>5 DEF ToSet
<1>7. Head(s) \in ToSet(s)
  BY <1>1 DEF ToSet
<1>8. \A x \in ToSet(Tail(s)) : x \in ToSet(s) /\ x # Head(s)
  BY <1>1, <1>4 DEF ToSet
<1>9. QED
  BY <1>3, <1>6, <1>7, <1>8

\* An element that is not in a list is put in front of it.
LEMMA PushOnce ==
  ASSUME NEW S, NEW s \in Seq(S), NEW e \in S
  PROVE  /\ ToSet(<<e>> \o s) = {e} \cup ToSet(s)
         /\ IsInjective(s) /\ e \notin ToSet(s) => IsInjective(<<e>> \o s)
<1> DEFINE t == <<e>> \o s
<1>1. /\ Len(s) \in Nat /\ DOMAIN s = 1..Len(s) /\ DOMAIN t = 1..(Len(s) + 1)
      /\ t[1] = e /\ \A i \in 1..Len(s) : t[i + 1] = s[i]
  OBVIOUS
<1>2. \A i \in 1..(Len(s) + 1) : i = 1 \/ (i - 1 \in 1..Len(s) /\ t[i] = s[i - 1])
  BY <1>1
<1> HIDE DEF t
<1>3. ToSet(t) = {e} \cup ToSet(s)
  <2>1. 1 \in 1..(Len(s) + 1) /\ \A i \in 1..Len(s) : i + 1 \in 1..(Len(s) + 1)
    BY <1>1
  <2>2. e \in ToSet(t)
    BY <2>1, <1>1 DEF ToSet
  <2>3. ASSUME NEW i \in 1..Len(s) PROVE s[i] \in ToSet(t)
    BY <2>1, <1>1 DEF ToSet
  <2>4. ASSUME NEW i \in 1..(Len(s) + 1) PROVE t[i] \in {e} \cup ToSet(s)
    BY <1>1, <1>2 DEF ToSet
  <2>5. ToSet(t) \subseteq {e} \cup ToSet(s)
    BY <2>4, <1>1 DEF ToSet
  <2>6. ToSet(s) \subseteq ToSet(t)
    BY <2>3, <1>1 DEF ToSet
  <2>7. QED
    BY <2>2, <2>5, <2>6
<1>4. ASSUME IsInjective(s), e \notin ToSet(s)
      PROVE  IsInjective(t)
  <2>1. \A i \in 1..Len(s) : s[i] # e
    BY <1>1, <1>4 DEF ToSet
  <2>2. \A i, j \in 1..Len(s) : s[i] = s[j] => i = j
    BY <1>1, <1>4 DEF IsInjective
  <2>3. SUFFICES ASSUME NEW i \in 1..(Len(s) + 1), NEW j \in 1..(Len(s) + 1), t[i] = t[j]
                 PROVE  i = j
    BY <1>1 DEF IsInjective
  <2>4. QED
    BY <2>1, <2>2, <2>3, <1>1, <1>2
<1>5. QED
  BY <1>3, <1>4 DEF t

\* erase() moves the elements behind the one it takes.
LEMMA RemoveAtElements ==
  ASSUME NEW S, NEW s \in Seq(S), NEW i \in 1..Len(s)
  PROVE  /\ DOMAIN RemoveAt(s, i) = 1..(Len(s) - 1)
         /\ \A k \in 1..(Len(s) - 1) : RemoveAt(s, i)[k] = IF k < i THEN s[k] ELSE s[k + 1]
<1> DEFINE t == RemoveAt(s, i)
<1>0. Len(s) \in Nat /\ DOMAIN s = 1..Len(s) /\ i \in Int /\ 1 <= i /\ i <= Len(s)
  OBVIOUS
<1> DEFINE front == SubSeq(s, 1, i - 1)
           back  == SubSeq(s, i + 1, Len(s))
<1>1. /\ front \in Seq(S) /\ Len(front) = i - 1 /\ \A k \in 1..(i - 1) : front[k] = s[k]
  BY <1>0
<1>2. /\ back \in Seq(S) /\ Len(back) = Len(s) - i
      /\ \A k \in 1..(Len(s) - i) : back[k] = s[k + i]
  <2>1. i + 1 \in 1..(Len(s) + 1)
    BY <1>0
  <2>2. back \in Seq(S)
    BY <2>1, <1>0, SubSeqProperties
  <2>3. Len(back) = IF i + 1 <= Len(s) THEN Len(s) - (i + 1) + 1 ELSE 0
    BY <2>1, <1>0, SubSeqProperties
  <2>4. \A k \in 1..(Len(s) - (i + 1) + 1) : back[k] = s[(i + 1) + k - 1]
    BY <2>1, <1>0, SubSeqProperties
  <2> HIDE DEF back
  <2>5. Len(s) - (i + 1) + 1 = Len(s) - i
    BY <1>0
  <2>6. \A k \in 1..(Len(s) - i) : (i + 1) + k - 1 = k + i
    BY <1>0
  <2>7. \A k \in 1..(Len(s) - i) : back[k] = s[k + i]
    BY <2>4, <2>5, <2>6
  <2>8. Len(back) = Len(s) - i
    <3>1. CASE i + 1 <= Len(s)
      BY <3>1, <2>3, <2>5
    <3>2. CASE ~(i + 1 <= Len(s))
      <4>1. \A n \in Nat, j \in Int : j <= n /\ ~(j + 1 <= n) => n - j = 0
        OBVIOUS
      <4>2. QED
        BY <3>2, <4>1, <1>0, <2>3
    <3>3. QED
      BY <3>1, <3>2
  <2>9. QED
    BY <2>2, <2>7, <2>8
<1> HIDE DEF front, back
<1>3. /\ DOMAIN (front \o back) = 1..(Len(front) + Len(back))
      /\ \A k \in 1..(Len(front) + Len(back)) :
           (front \o back)[k] = IF k <= Len(front) THEN front[k] ELSE back[k - Len(front)]
  <2>1. /\ front \o back \in Seq(S) /\ Len(front \o back) = Len(front) + Len(back)
        /\ \A k \in 1..(Len(front) + Len(back)) :
             (front \o back)[k] = IF k <= Len(front) THEN front[k] ELSE back[k - Len(front)]
    BY <1>1, <1>2, ConcatProperties
  <2>2. DOMAIN (front \o back) = 1..Len(front \o back)
    BY <2>1
  <2>3. QED
    BY <2>1, <2>2
<1>4. t = front \o back
  BY DEF front, back, RemoveAt
<1>5. \A k \in 1..(Len(s) - 1) : k >= i => k - (i - 1) \in 1..(Len(s) - i)
                                          /\ k - (i - 1) + i = k + 1
  BY <1>0
<1>6. QED
  <2>1. DOMAIN t = 1..(Len(s) - 1)
    <3>1. Len(front) + Len(back) = Len(s) - 1
      BY <1>0, <1>1, <1>2
    <3>2. QED
      BY <3>1, <1>3, <1>4
  <2>2. ASSUME NEW k \in 1..(Len(s) - 1), k < i
        PROVE  t[k] = s[k]
    BY <2>2, <1>0, <1>1, <1>2, <1>3, <1>4
  <2>3. ASSUME NEW k \in 1..(Len(s) - 1), k >= i
        PROVE  t[k] = s[k + 1]
    <3>1. t[k] = back[k - (i - 1)]
      BY <2>3, <1>0, <1>1, <1>2, <1>3, <1>4
    <3>2. QED
      BY <2>3, <3>1, <1>2, <1>5
  <2>4. QED
    BY <2>1, <2>2, <2>3, <1>0

\* erase() takes one element out of the list.
LEMMA RemoveOnce ==
  ASSUME NEW S, NEW s \in Seq(S), NEW i \in 1..Len(s), IsInjective(s)
  PROVE  /\ s[i] \in ToSet(s) /\ IsInjective(RemoveAt(s, i))
         /\ ToSet(RemoveAt(s, i)) = ToSet(s) \ {s[i]}
<1> DEFINE t == RemoveAt(s, i)
<1>1. Len(s) \in Nat /\ DOMAIN s = 1..Len(s) /\ i \in Int /\ 1 <= i /\ i <= Len(s)
  OBVIOUS
<1>2. \A a, b \in 1..Len(s) : s[a] = s[b] => a = b
  BY <1>1 DEF IsInjective
<1>3. /\ DOMAIN t = 1..(Len(s) - 1)
      /\ \A k \in 1..(Len(s) - 1) : t[k] = IF k < i THEN s[k] ELSE s[k + 1]
  BY RemoveAtElements
<1> HIDE DEF t
<1>4. IsInjective(t)
  BY <1>1, <1>2, <1>3 DEF IsInjective
<1>5. \A k \in 1..(Len(s) - 1) : t[k] \in ToSet(s) /\ t[k] # s[i]
  BY <1>1, <1>2, <1>3 DEF ToSet
<1>6. \A x \in ToSet(s) : x # s[i] => x \in ToSet(t)
  <2>1. SUFFICES ASSUME NEW k \in 1..Len(s), s[k] # s[i]
                 PROVE  s[k] \in ToSet(t)
    BY <1>1 DEF ToSet
  <2>2. CASE k < i
    BY <2>1, <2>2, <1>1, <1>3 DEF ToSet
  <2>3. CASE k > i
    <3>1. k - 1 \in 1..(Len(s) - 1) /\ t[k - 1] = s[k]
      BY <2>3, <1>1, <1>3
    <3>2. QED
      BY <3>1, <1>3 DEF ToSet
  <2>4. QED
    BY <2>1, <2>2, <2>3, <1>1
<1>7. QED
  <2>1. s[i] \in ToSet(s)
    BY <1>1 DEF ToSet
  <2>2. ToSet(t) = ToSet(s) \ {s[i]}
    BY <1>3, <1>5, <1>6 DEF ToSet
  <2>3. QED
    BY <1>4, <2>1, <2>2 DEF t

\* Two lists in one.
LEMMA JoinOnce ==
  ASSUME NEW S, NEW s \in Seq(S), NEW t \in Seq(S)
  PROVE  /\ ToSet(s \o t) = ToSet(s) \cup ToSet(t)
         /\ IsInjective(s) /\ IsInjective(t) /\ ToSet(s) \cap ToSet(t) = {}
              => IsInjective(s \o t)
<1> DEFINE u == s \o t
           m == Len(s)
           n == Len(t)
<1>1. m \in Nat /\ n \in Nat /\ DOMAIN s = 1..m /\ DOMAIN t = 1..n
  OBVIOUS
<1>2. /\ DOMAIN u = 1..(m + n)
      /\ \A k \in 1..(m + n) : u[k] = IF k <= m THEN s[k] ELSE t[k - m]
  OBVIOUS
<1> HIDE DEF u, m, n
<1>3. \A k \in 1..(m + n) : k \in 1..m \/ k - m \in 1..n
  BY <1>1
<1>4. (\A k \in 1..m : k \in 1..(m + n) /\ u[k] = s[k])
      /\ (\A k \in 1..n : k + m \in 1..(m + n) /\ u[k + m] = t[k])
  BY <1>1, <1>2
<1>5. ToSet(u) = ToSet(s) \cup ToSet(t)
  <2>1. ASSUME NEW k \in 1..(m + n) PROVE u[k] \in ToSet(s) \cup ToSet(t)
    <3>1. /\ \A j \in 1..m : s[j] \in ToSet(s)
          /\ \A j \in 1..n : t[j] \in ToSet(t)
      BY <1>1 DEF ToSet
    <3>2. CASE k <= m
      BY <3>1, <3>2, <1>1, <1>2
    <3>3. CASE k > m
      BY <3>1, <3>3, <1>1, <1>2
    <3>4. QED
      BY <3>2, <3>3, <1>1
  <2>2. (\A k \in 1..m : s[k] \in ToSet(u)) /\ \A k \in 1..n : t[k] \in ToSet(u)
    BY <1>1, <1>2, <1>4 DEF ToSet
  <2>3. ToSet(u) \subseteq ToSet(s) \cup ToSet(t)
    BY <2>1, <1>2 DEF ToSet
  <2>4. ToSet(s) \subseteq ToSet(u) /\ ToSet(t) \subseteq ToSet(u)
    BY <2>2, <1>1 DEF ToSet
  <2>5. QED
    BY <2>3, <2>4
<1>6. ASSUME IsInjective(s), IsInjective(t), ToSet(s) \cap ToSet(t) = {}
      PROVE  IsInjective(u)
  <2>1. \A a \in 1..m, b \in 1..n : s[a] # t[b]
    BY <1>1, <1>6 DEF ToSet
  <2>2. (\A a, b \in 1..m : s[a] = s[b] => a = b) /\ (\A a, b \in 1..n : t[a] = t[b] => a = b)
    BY <1>1, <1>6 DEF IsInjective
  <2>3. SUFFICES ASSUME NEW a \in 1..(m + n), NEW b \in 1..(m + n), u[a] = u[b]
                 PROVE  a = b
    BY <1>2 DEF IsInjective
  <2>4. /\ a <= m => a \in 1..m /\ u[a] = s[a]
        /\ a > m  => a - m \in 1..n /\ u[a] = t[a - m]
    BY <1>1, <1>2
  <2>5. /\ b <= m => b \in 1..m /\ u[b] = s[b]
        /\ b > m  => b - m \in 1..n /\ u[b] = t[b - m]
    BY <1>1, <1>2
  <2>6. a - m = b - m => a = b
    BY <1>1
  <2>7. a <= m \/ a > m
    BY <1>1
  <2>8. b <= m \/ b > m
    BY <1>1
  <2>9. u[a] = u[b]
    BY <2>3
  <2>10. QED
    BY <2>1, <2>2, <2>4, <2>5, <2>6, <2>7, <2>8, <2>9
<1>7. QED
  BY <1>5, <1>6 DEF u

\* A step that moves no connection.
LEMMA NoMove ==
  ASSUME Ordered, InLoop' = InLoop, InRecycler' = InRecycler,
         UNCHANGED <<m_freeconnectionList, m_recyconnectionList, m_connectionList, epoll>>
  PROVE  Apart' /\ Once' /\ Covered'
BY DEF Ordered, Apart, Once, Covered, Free, Waiting, InUse

\* A step of the event loop that moves no connection and leaves the descriptors alone.
LEMMA LoopOnly ==
  ASSUME Ordered, InLoop' = InLoop, rpc' = rpc, victim' = victim,
         UNCHANGED <<m_freeconnectionList, m_recyconnectionList, m_connectionList, epoll,
                     connfd, sock>>
  PROVE  Apart' /\ Once' /\ Covered' /\ Bound'
<1>1. InRecycler' = InRecycler
  BY DEF InRecycler
<1>2. QED
  BY <1>1, NoMove DEF Ordered, Bound

\* A step of the recycle thread does not disturb what the event loop has.
LEMMA RecyclerOnly ==
  ASSUME Ordered, RecyclerFrame
  PROVE  Bound' /\ Fresh' /\ AtTurn' /\ InLoop' = InLoop /\ InUse' = InUse
BY DEF Ordered, RecyclerFrame, Bound, Fresh, AtTurn, Accepting, InLoop, InUse

\* Only the listener has a registered descriptor when the program starts.
LEMMA InitOrdered == Init => Ordered
<1> SUFFICES ASSUME Init PROVE Ordered
  OBVIOUS
<1>1. InUse = {} /\ Free = {} /\ Waiting = {} /\ InLoop = {} /\ InRecycler = {}
  BY DEF Init, InUse, Free, Waiting, InLoop, InRecycler, ToSet
<1>2. QED
  BY <1>1 DEF Init, Ordered, Apart, Once, Covered, Bound, Fresh, AtTurn, Accepting, IsInjective

\* The events of epoll_wait are about different connections, because the registered
\* descriptors are.
LEMMA EpollWaitOrdered ==
  ASSUME Inv, Ordered, EpollWait, ProcessFrame, LoopFrame
  PROVE  Ordered'
<1>1. InLoop' = InLoop
  BY DEF EpollWait, InLoop
<1>2. Apart' /\ Once' /\ Covered' /\ Bound'
  BY <1>1, LoopOnly DEF ProcessFrame, LoopFrame
<1>3. Fresh'
  <2>1. \A e \in events' : e = ListenEvent \/ \E f \in Fds : epoll[f] # NoConn /\ e = EventOf(f)
    BY DEF EpollWait, Watching
  <2>2. \A f \in Fds : EventOf(f).fd = f /\ EventOf(f).conn = epoll[f]
    BY DEF EventOf
  <2>3. ListenEvent.conn = Listener
    BY DEF ListenEvent
  <2>4. \A f \in Fds : epoll[f] # NoConn => epoll[f] # Listener
    BY DEF Ordered, Apart, InUse
  <2>5. \A f, g \in Fds : epoll[f] # NoConn /\ epoll[f] = epoll[g] => f = g
    BY DEF Ordered, Bound
  <2>6. epoll' = epoll
    BY DEF ProcessFrame
  <2>7. QED
    BY <2>1, <2>2, <2>3, <2>4, <2>5, <2>6 DEF Fresh
<1>4. AtTurn'
  BY DEF EpollWait, AtTurn, Accepting
<1>5. QED
  BY <1>2, <1>3, <1>4 DEF Ordered

\* The event that gets its turn is one of those that waited, and no other is about it.
LEMMA TakeEventOrdered ==
  ASSUME Inv, Ordered, TakeEvent, ProcessFrame, LoopFrame
  PROVE  Ordered'
<1>1. InLoop' = InLoop
  BY DEF TakeEvent, InLoop
<1>2. Apart' /\ Once' /\ Covered' /\ Bound'
  BY <1>1, LoopOnly DEF ProcessFrame, LoopFrame
<1>3. PICK e \in events : /\ events' = events \ {e} /\ conn' = e.conn
                          /\ pc' = IF e.conn = Listener THEN "accept" ELSE "recv"
  BY DEF TakeEvent
<1>4. Fresh'
  BY <1>3 DEF Ordered, Fresh, ProcessFrame
<1>5. AtTurn'
  <2>1. \A d \in events' : d.conn # conn'
    BY <1>3 DEF Ordered, Fresh
  <2>2. pc' = "recv" => conn' \in InUse'
    <3>1. e.conn \in Conns /\ NoConn \notin Conns
      BY <1>3, KnownConns, PoolAssumption DEF Inv, Known
    <3>2. QED
      BY <1>3, <3>1 DEF Ordered, Fresh, InUse, ProcessFrame
  <2>3. QED
    BY <1>3, <2>1, <2>2 DEF AtTurn, Accepting
<1>6. QED
  BY <1>2, <1>4, <1>5 DEF Ordered

\* The turn of the loop ends.
LEMMA NoMoreEventsOrdered ==
  ASSUME Inv, Ordered, NoMoreEvents, ProcessFrame, LoopFrame
  PROVE  Ordered'
<1>1. InLoop' = InLoop
  BY DEF NoMoreEvents, InLoop
<1>2. Apart' /\ Once' /\ Covered' /\ Bound'
  BY <1>1, LoopOnly DEF ProcessFrame, LoopFrame
<1>3. Fresh' /\ AtTurn'
  BY DEF NoMoreEvents, ProcessFrame, Ordered, Fresh, AtTurn, Accepting
<1>4. QED
  BY <1>2, <1>3 DEF Ordered

\* The write side of an event moves no connection; the loop has let go of its own.
LEMMA WriteEventOrdered ==
  ASSUME Inv, Ordered, WriteEvent, ProcessFrame, LoopFrame
  PROVE  Ordered'
<1>1. InLoop' = InLoop
  BY DEF WriteEvent, InLoop
<1>2. Apart' /\ Once' /\ Covered' /\ Bound'
  BY <1>1, LoopOnly DEF ProcessFrame, LoopFrame
<1>3. Fresh' /\ AtTurn'
  BY DEF WriteEvent, ProcessFrame, Ordered, Fresh, AtTurn, Accepting
<1>4. QED
  BY <1>2, <1>3 DEF Ordered

\* An accepted descriptor was closed, so it is not registered.
LEMMA AcceptOrdered ==
  ASSUME Inv, Ordered, Accept, AcceptFrame
  PROVE  Ordered'
<1>1. InLoop' = InLoop /\ InRecycler' = InRecycler
  BY DEF Accept, NoAccept4, AcceptFails, AcceptClient, AcceptFrame, LoopFrame, InLoop,
         InRecycler
<1>2. Apart' /\ Once' /\ Covered'
  BY <1>1, NoMove DEF Accept, AcceptFrame
<1>3. sock \in [Fds -> {"closed", "open", "eof", "reset"}]
  BY DEF Inv, TypeOK, KernelType
<1>4. Bound'
  BY <1>3 DEF Accept, NoAccept4, AcceptFails, AcceptClient, IsNewFd, Ordered, Bound
<1>5. Fresh'
  BY DEF Accept, AcceptFrame, Ordered, Fresh
<1>6. AtTurn'
  BY <1>3 DEF Accept, NoAccept4, AcceptFails, AcceptClient, IsNewFd, Ordered, Bound, AtTurn,
              Accepting
<1>7. QED
  BY <1>2, <1>4, <1>5, <1>6 DEF Ordered

\* ngx_get_connection takes the front of the free list, or one that is nowhere yet.
LEMMA LockToGetOrdered ==
  ASSUME Inv, Ordered, LockToGet, GetConnection, AcceptFrame
  PROVE  Ordered'
<1>1. /\ pc = "get" /\ pc' = "use"
      /\ UNCHANGED <<m_recyconnectionList, m_connectionList, epoll, connfd, sock, newfd, events,
                     rpc, victim>>
  BY DEF LockToGet, GetConnection, AcceptFrame, LoopFrame
<1>2. InLoop = {} /\ InLoop' = {conn'} /\ InRecycler' = InRecycler /\ InUse' = InUse
      /\ Waiting' = Waiting
  BY <1>1 DEF InLoop, InRecycler, InUse, Waiting
<1>3. /\ Once' /\ Free' = Free \ {conn'}
      /\ conn' \notin {Listener} \cup InUse \cup Waiting \cup InRecycler
  <2>1. CASE m_freeconnectionList # <<>>
    <3>1. m_freeconnectionList \in Seq(Conns)
      BY DEF Inv, TypeOK, ListType
    <3>2. conn' = Head(m_freeconnectionList) /\ m_freeconnectionList' = Tail(m_freeconnectionList)
      BY <2>1 DEF LockToGet
    <3>3. conn' \in Free /\ Free' = Free \ {conn'} /\ IsInjective(m_freeconnectionList')
      BY <2>1, <3>1, <3>2, TailOnce DEF Free, Ordered, Once
    <3>4. QED
      BY <1>1, <3>3 DEF Ordered, Once, Apart
  <2>2. CASE m_freeconnectionList = <<>>
    <3>1. conn' \notin m_connectionList /\ m_freeconnectionList' = m_freeconnectionList
      BY <2>2 DEF LockToGet, Inv, TypeOK, ListType
    <3>2. Waiting \subseteq m_connectionList
      BY DEF Inv, Known, Waiting, ToSet
    <3>3. InUse \subseteq m_connectionList /\ InRecycler \subseteq m_connectionList
      BY DEF Inv, Known, InUse, InRecycler
    <3>4. Free = {} /\ Free' = {}
      BY <2>2, <3>1 DEF Free, ToSet
    <3>5. QED
      BY <1>1, <3>1, <3>2, <3>3, <3>4 DEF Inv, Known, Ordered, Once
  <2>3. QED
    BY <2>1, <2>2
<1>4. Apart'
  BY <1>2, <1>3 DEF Ordered, Apart
<1>5. Covered'
  BY <1>1, <1>2, <1>3 DEF Ordered, Covered
<1>6. Bound' /\ Fresh'
  BY <1>1 DEF Ordered, Bound, Fresh
<1>7. AtTurn'
  BY <1>1 DEF Ordered, AtTurn, Accepting
<1>8. QED
  BY <1>3, <1>4, <1>5, <1>6, <1>7 DEF Ordered

\* The connection that is bound serves no descriptor.
LEMMA GetOneToUseOrdered ==
  ASSUME Inv, Ordered, GetOneToUse, GetConnection, AcceptFrame
  PROVE  Ordered'
<1>1. /\ pc = "use" /\ pc' = "setup" /\ conn' = conn
      /\ m_connectionList' = m_connectionList \cup {conn}
      /\ connfd' = [connfd EXCEPT ![conn] = newfd]
      /\ UNCHANGED <<m_freeconnectionList, m_recyconnectionList, epoll, sock, newfd, events, rpc,
                     victim>>
  BY DEF GetOneToUse, GetConnection, AcceptFrame, LoopFrame
<1>2. /\ InLoop = {conn} /\ InLoop' = InLoop /\ InRecycler' = InRecycler /\ InUse' = InUse
      /\ Waiting' = Waiting /\ Free' = Free
  BY <1>1 DEF InLoop, InRecycler, InUse, Waiting, Free
<1>3. Apart' /\ Covered'
  BY <1>1, <1>2 DEF Ordered, Apart, Covered
<1>4. Bound'
  <2>1. \A f \in Fds : epoll[f] # NoConn => epoll[f] # conn /\ epoll[f] \in Conns
    BY <1>2 DEF Ordered, Apart, InUse, Inv, TypeOK, KernelType
  <2>2. connfd \in [Conns -> 0..MaxFd]
    BY DEF Inv, TypeOK, FieldType
  <2>3. QED
    BY <1>1, <2>1, <2>2 DEF Ordered, Bound
<1>5. Once' /\ Fresh' /\ AtTurn'
  BY <1>1 DEF Ordered, Once, Fresh, AtTurn, Accepting
<1>6. QED
  BY <1>3, <1>4, <1>5 DEF Ordered

\* The registration of a descriptor puts its connection to use.
LEMMA SetupOrdered ==
  ASSUME Inv, Ordered, Setup, AcceptFrame
  PROVE  Ordered'
<1>1. /\ pc = "setup" /\ conn' = conn
      /\ UNCHANGED <<m_freeconnectionList, m_recyconnectionList, m_connectionList, connfd, sock,
                     newfd, events, rpc, victim>>
  BY DEF Setup, AcceptFrame, LoopFrame
<1>2. InLoop = {conn} /\ InRecycler' = InRecycler /\ Waiting' = Waiting /\ Free' = Free
  BY <1>1 DEF InLoop, InRecycler, Waiting, Free
<1>3. CASE SetupFails
  <2>1. InLoop' = InLoop
    BY <1>1, <1>3 DEF SetupFails, InLoop
  <2>2. Apart' /\ Once' /\ Covered' /\ Bound'
    BY <1>1, <1>3, <2>1, LoopOnly DEF SetupFails
  <2>3. Fresh' /\ AtTurn'
    BY <1>1, <1>3 DEF SetupFails, Ordered, Fresh, AtTurn, Accepting
  <2>4. QED
    BY <2>2, <2>3 DEF Ordered
<1>4. CASE Register
  <2>1. /\ newfd \in Fds /\ conn \in Conns /\ conn # NoConn /\ connfd[conn] = newfd
        /\ epoll[newfd] = NoConn /\ sock[newfd] # "closed"
    BY <1>1, KnownConns DEF Inv, Known, Descriptors, Accepting, Ordered, AtTurn
  <2>2. epoll \in [Fds -> Conns \cup {NoConn}] /\ epoll' = [epoll EXCEPT ![newfd] = conn]
    BY <1>4 DEF Register, Inv, TypeOK, KernelType
  <2>3. InLoop' = {}
    BY <1>4 DEF Register, InLoop
  <2>4. InUse' = InUse \cup {conn}
    BY <2>1, <2>2 DEF InUse
  <2>5. Apart' /\ Covered'
    BY <1>1, <1>2, <2>3, <2>4 DEF Ordered, Apart, Covered
  <2>6. Bound'
    BY <1>1, <2>1, <2>2 DEF Ordered, Bound
  <2>7. Fresh'
    <3>1. \A e \in events : e.conn # NoConn
      BY KnownConns DEF Inv, Known
    <3>2. QED
      BY <1>1, <2>1, <2>2, <3>1 DEF Ordered, Fresh
  <2>8. Once' /\ AtTurn'
    BY <1>1, <1>4 DEF Register, Ordered, Once, AtTurn, Accepting
  <2>9. QED
    BY <2>5, <2>6, <2>7, <2>8 DEF Ordered
<1>5. QED
  BY <1>3, <1>4 DEF Setup

\* ngx_close_connection asks for its lock: its connection stays in the hands of the loop.
LEMMA LockToCloseOrdered ==
  ASSUME Inv, Ordered, LockToClose, CloseConnection, AcceptFrame
  PROVE  Ordered'
<1>1. /\ pc = "close" /\ pc' = "free" /\ conn' = conn
      /\ UNCHANGED <<m_freeconnectionList, m_recyconnectionList, m_connectionList, epoll, connfd,
                     sock, events, rpc, victim>>
  BY DEF LockToClose, CloseConnection, AcceptFrame, LoopFrame
<1>2. newfd' = newfd
  BY DEF LockToClose, Inv, Descriptors
<1>3. InLoop' = InLoop
  BY <1>1 DEF InLoop
<1>4. Apart' /\ Once' /\ Covered' /\ Bound'
  BY <1>1, <1>3, LoopOnly
<1>5. Fresh' /\ AtTurn'
  BY <1>1, <1>2 DEF Ordered, Fresh, AtTurn, Accepting
<1>6. QED
  BY <1>4, <1>5 DEF Ordered

\* ngx_free_connection starts on the connection in hand.
LEMMA BeginFreeOrdered ==
  ASSUME Inv, Ordered, BeginFree, CloseConnection, AcceptFrame
  PROVE  Ordered'
<1>1. /\ pc = "free" /\ pc' = "put" /\ conn' = conn /\ newfd' = newfd
      /\ UNCHANGED <<m_freeconnectionList, m_recyconnectionList, m_connectionList, epoll, connfd,
                     sock, events, rpc, victim>>
  BY DEF BeginFree, CloseConnection, AcceptFrame, LoopFrame
<1>2. InLoop' = InLoop
  BY <1>1 DEF InLoop
<1>3. Apart' /\ Once' /\ Covered' /\ Bound'
  BY <1>1, <1>2, LoopOnly
<1>4. Fresh' /\ AtTurn'
  BY <1>1 DEF Ordered, Fresh, AtTurn, Accepting
<1>5. QED
  BY <1>3, <1>4 DEF Ordered

\* The descriptor that is closed was never registered.
LEMMA FreeAndCloseOrdered ==
  ASSUME Inv, Ordered, FreeAndClose, CloseConnection, AcceptFrame
  PROVE  Ordered'
<1>1. /\ pc = "put" /\ pc' = "write"
      /\ m_freeconnectionList' = <<conn>> \o m_freeconnectionList
      /\ CloseFd(newfd)
      /\ UNCHANGED <<m_recyconnectionList, m_connectionList, connfd, events, rpc, victim>>
  BY DEF FreeAndClose, PutOneToFree, CloseConnection, AcceptFrame, LoopFrame
<1>2. /\ InLoop = {conn} /\ InLoop' = {} /\ InRecycler' = InRecycler /\ Waiting' = Waiting
  BY <1>1 DEF InLoop, InRecycler, Waiting
<1>3. conn \notin Free /\ epoll[newfd] = NoConn
  BY <1>1, <1>2 DEF Ordered, Apart, AtTurn, Accepting
<1>4. Free' = {conn} \cup Free /\ IsInjective(m_freeconnectionList')
  <2>1. conn \in Conns /\ m_freeconnectionList \in Seq(Conns)
    BY <1>1, KnownConns DEF Inv, Known, TypeOK, ListType
  <2>2. QED
    BY <1>1, <1>3, <2>1, PushOnce DEF Free, Ordered, Once
<1>5. epoll' = epoll
  BY <1>1, <1>3 DEF CloseFd, Inv, TypeOK, KernelType
<1>6. InUse' = InUse
  BY <1>5 DEF InUse
<1>7. Apart' /\ Covered'
  BY <1>1, <1>2, <1>4, <1>6 DEF Ordered, Apart, Covered
<1>8. Bound'
  BY <1>1, <1>3, <1>5 DEF Ordered, Bound, CloseFd
<1>9. Once' /\ Fresh' /\ AtTurn'
  BY <1>1, <1>4, <1>5 DEF Ordered, Once, Fresh, AtTurn, Accepting
<1>10. QED
  BY <1>7, <1>8, <1>9 DEF Ordered

\* What recv() finds: the connection of an event that has its turn serves the descriptor
\* that is closed, and no other.
LEMMA RecvOrdered ==
  ASSUME Inv, Ordered, Recv, ~eofSeen', RecvFrame
  PROVE  Ordered'
<1>1. /\ pc = "recv" /\ conn' = conn
      /\ UNCHANGED <<m_freeconnectionList, m_recyconnectionList, m_connectionList, connfd, events,
                     newfd, rpc, victim>>
  BY DEF Recv, RecvFrame, LoopFrame
<1>2. InLoop = {} /\ InRecycler' = InRecycler /\ Waiting' = Waiting /\ Free' = Free
  BY <1>1 DEF InLoop, InRecycler, Waiting, Free
<1>3. CASE RecvMore
  <2>1. InLoop' = InLoop
    BY <1>1, <1>3 DEF RecvMore, InLoop
  <2>2. Apart' /\ Once' /\ Covered' /\ Bound'
    BY <1>1, <1>3, <2>1, LoopOnly DEF RecvMore
  <2>3. Fresh' /\ AtTurn'
    BY <1>1, <1>3 DEF RecvMore, Ordered, Fresh, AtTurn, Accepting
  <2>4. QED
    BY <2>2, <2>3 DEF Ordered
<1>4. CASE RecvError
  <2> DEFINE fd == connfd[conn]
  <2>1. /\ pc' = "recycle"
        /\ sock' = [f \in Fds |-> IF f = fd THEN "closed" ELSE sock[f]]
        /\ epoll' = [f \in Fds |-> IF f = fd THEN NoConn ELSE epoll[f]]
    BY <1>4 DEF RecvError, CloseFd
  <2>2. conn \in InUse /\ \A e \in events : e.conn # conn
    BY <1>1 DEF Ordered, AtTurn
  <2>3. fd \in Fds /\ epoll[fd] = conn /\ \A f \in Fds : epoll[f] = conn => f = fd
    BY <2>2 DEF Ordered, Bound, InUse
  <2> HIDE DEF fd
  <2>4. InUse' = InUse \ {conn}
    BY <2>1, <2>3 DEF InUse
  <2>5. InLoop' = {conn}
    BY <1>1, <2>1 DEF InLoop
  <2>6. Apart' /\ Covered'
    BY <1>1, <1>2, <2>2, <2>4, <2>5 DEF Ordered, Apart, Covered
  <2>7. Bound'
    BY <1>1, <2>1 DEF Ordered, Bound
  <2>8. Fresh'
    BY <1>1, <2>1, <2>2, <2>3 DEF Ordered, Fresh
  <2>9. Once' /\ AtTurn'
    BY <1>1, <2>1 DEF Ordered, Once, AtTurn, Accepting
  <2>10. QED
    BY <2>6, <2>7, <2>8, <2>9 DEF Ordered
<1>5. CASE RecvEOF
  BY <1>5 DEF RecvEOF
<1>6. QED
  BY <1>3, <1>4, <1>5 DEF Recv

\* inRecyConnectQueue asks for its lock: its connection stays in the hands of the loop.
LEMMA LockToRecycleOrdered ==
  ASSUME Inv, Ordered, LockToRecycle, RecvFrame
  PROVE  Ordered'
<1>1. /\ pc = "recycle" /\ pc' = "enter" /\ conn' = conn /\ newfd' = newfd
      /\ UNCHANGED <<m_freeconnectionList, m_recyconnectionList, m_connectionList, epoll, connfd,
                     sock, events, rpc, victim>>
  BY DEF LockToRecycle, RecvFrame, LoopFrame
<1>2. InLoop' = InLoop
  BY <1>1 DEF InLoop
<1>3. Apart' /\ Once' /\ Covered' /\ Bound'
  BY <1>1, <1>2, LoopOnly
<1>4. Fresh' /\ AtTurn'
  BY <1>1 DEF Ordered, Fresh, AtTurn, Accepting
<1>5. QED
  BY <1>3, <1>4 DEF Ordered

\* The connection passes from the hands of the loop into the recycle list.
LEMMA EnterRecycleListOrdered ==
  ASSUME Inv, Ordered, EnterRecycleList, RecvFrame
  PROVE  Ordered'
<1>1. /\ pc = "enter" /\ pc' = "write" /\ newfd' = newfd
      /\ m_recyconnectionList' = <<conn>> \o m_recyconnectionList
      /\ UNCHANGED <<m_freeconnectionList, m_connectionList, epoll, connfd, sock, events, rpc,
                     victim>>
  BY DEF EnterRecycleList, RecvFrame, LoopFrame
<1>2. /\ InLoop = {conn} /\ InLoop' = {} /\ InRecycler' = InRecycler /\ Free' = Free
      /\ InUse' = InUse
  BY <1>1 DEF InLoop, InRecycler, Free, InUse
<1>3. Waiting' = {conn} \cup Waiting /\ IsInjective(m_recyconnectionList')
  <2>1. conn \in Conns /\ m_recyconnectionList \in Seq(Conns) /\ conn \notin Waiting
    BY <1>1, <1>2, KnownConns DEF Inv, Known, TypeOK, ListType, Ordered, Apart
  <2>2. QED
    BY <1>1, <2>1, PushOnce DEF Waiting, Ordered, Once
<1>4. Apart' /\ Covered'
  BY <1>1, <1>2, <1>3 DEF Ordered, Apart, Covered
<1>5. Once' /\ Bound' /\ Fresh' /\ AtTurn'
  BY <1>1, <1>3 DEF Ordered, Once, Bound, Fresh, AtTurn, Accepting
<1>6. QED
  BY <1>4, <1>5 DEF Ordered

\* The steps of the recycle thread that only look.
LEMMA RecyclerLooksOrdered ==
  ASSUME Inv, Ordered, RecyclerFrame,
         LookAtCount \/ LockToScan \/ SkipEntry \/ LockToFree \/ EndScan
  PROVE  Ordered'
<1>1. /\ UNCHANGED <<m_freeconnectionList, m_recyconnectionList, m_connectionList, epoll>>
      /\ InRecycler' = InRecycler
  BY DEF RecyclerFrame, LookAtCount, LockToScan, SkipEntry, LockToFree, EndScan, InRecycler
<1>2. QED
  BY <1>1, RecyclerOnly, NoMove DEF Ordered

\* A connection leaves the recycle list for the hands of the recycle thread.
LEMMA EraseEntryOrdered ==
  ASSUME Inv, Ordered, EraseEntry, RecyclerFrame
  PROVE  Ordered'
<1>1. /\ rpc = "scan" /\ rpc' = "free" /\ victim' = m_recyconnectionList[iter]
      /\ m_recyconnectionList' = RemoveAt(m_recyconnectionList, iter)
      /\ UNCHANGED <<m_freeconnectionList, m_connectionList>>
  BY DEF EraseEntry, RecyclerFrame
<1>2. InRecycler = {} /\ InRecycler' = {victim'} /\ Free' = Free
  BY <1>1 DEF InRecycler, Free
<1>3. /\ victim' \in Waiting /\ Waiting' = Waiting \ {victim'}
      /\ IsInjective(m_recyconnectionList')
  <2>1. m_recyconnectionList \in Seq(Conns) /\ iter \in 1..Len(m_recyconnectionList)
    BY DEF EraseEntry, Inv, TypeOK, ListType, RecyclerType
  <2>2. QED
    BY <1>1, <2>1, RemoveOnce DEF Waiting, Ordered, Once
<1>4. Apart' /\ Covered'
  BY <1>1, <1>2, <1>3, RecyclerOnly DEF Ordered, Apart, Covered
<1>5. Once'
  BY <1>1, <1>3 DEF Ordered, Once
<1>6. QED
  BY <1>4, <1>5, RecyclerOnly DEF Ordered

\* And from there into the free list.
LEMMA FreeEntryOrdered ==
  ASSUME Inv, Ordered, FreeEntry, RecyclerFrame
  PROVE  Ordered'
<1>1. /\ rpc = "put" /\ rpc' = "scan"
      /\ m_freeconnectionList' = <<victim>> \o m_freeconnectionList
      /\ UNCHANGED <<m_recyconnectionList, m_connectionList>>
  BY DEF FreeEntry, PutOneToFree, RecyclerFrame
<1>2. InRecycler = {victim} /\ InRecycler' = {} /\ Waiting' = Waiting
  BY <1>1 DEF InRecycler, Waiting
<1>3. Free' = {victim} \cup Free /\ IsInjective(m_freeconnectionList')
  <2>1. victim \in Conns /\ m_freeconnectionList \in Seq(Conns) /\ victim \notin Free
    BY <1>1, <1>2, KnownConns DEF Inv, Known, TypeOK, ListType, Ordered, Apart
  <2>2. QED
    BY <1>1, <2>1, PushOnce DEF Free, Ordered, Once
<1>4. Apart' /\ Covered'
  BY <1>1, <1>2, <1>3, RecyclerOnly DEF Ordered, Apart, Covered
<1>5. Once'
  BY <1>1, <1>3 DEF Ordered, Once
<1>6. QED
  BY <1>4, <1>5, RecyclerOnly DEF Ordered

\* A client that leaves, the time, a new client.
LEMMA OutsideOrdered ==
  ASSUME Inv, Ordered, Tick \/ Connect \/ (\E f \in Fds : Leave(f)) \/ UNCHANGED vars
  PROVE  Ordered'
<1>1. UNCHANGED <<m_freeconnectionList, m_recyconnectionList, m_connectionList, epoll, connfd,
                  newfd, conn, pc, events, rpc, victim>>
  BY DEF Tick, Connect, Leave, vars
<1>2. InLoop' = InLoop /\ InRecycler' = InRecycler
  BY <1>1 DEF InLoop, InRecycler
<1>3. \A f \in Fds : sock[f] # "closed" => sock'[f] # "closed"
  BY DEF Tick, Connect, Leave, vars, Inv, TypeOK, KernelType
<1>4. Bound' /\ Fresh'
  BY <1>1, <1>3 DEF Ordered, Bound, Fresh
<1>5. AtTurn'
  <2>1. Accepting => newfd \in Fds
    BY DEF Inv, Descriptors
  <2>2. QED
    BY <1>1, <1>3, <2>1 DEF Ordered, AtTurn, Accepting, InUse
<1>6. QED
  BY <1>1, <1>2, <1>4, <1>5, NoMove DEF Ordered

\* Once a client has closed in good order, nothing is said.
Placing == ~eofSeen => Ordered

\* Every step keeps the places, until a client closes in good order.
LEMMA StepPlacing == Inv /\ Placing /\ [Next]_vars => Placing'
<1> SUFFICES ASSUME Inv, Placing, [Next]_vars, ~eofSeen'
             PROVE  Ordered'
  BY DEF Placing
<1>1. ~eofSeen
  BY DEF Next, Dead, vars, EventLoop, ProcessEvents, EventAccept, RecvProc, Recv, RecvMore,
         RecvEOF, RecvError, LockToRecycle, EnterRecycleList, RecycleThread, LookAtCount,
         LockToScan, SkipEntry, EraseEntry, LockToFree, FreeEntry, EndScan, Tick, Connect, Leave
<1>2. Ordered
  BY <1>1 DEF Placing
<1>3. CASE EventLoop
  <2>1. LoopFrame
    BY <1>3, EntryDue
  <2>2. CASE ProcessEvents
    <3>1. ProcessFrame
      BY <2>2 DEF ProcessEvents, ProcessFrame
    <3>2. QED
      BY <1>2, <2>1, <2>2, <3>1, EpollWaitOrdered, TakeEventOrdered, NoMoreEventsOrdered,
         WriteEventOrdered DEF ProcessEvents
  <2>3. CASE EventAccept
    <3>1. AcceptFrame
      BY <2>1, <2>3 DEF EventAccept, AcceptFrame
    <3>2. CASE Accept
      BY <1>2, <3>1, <3>2, AcceptOrdered
    <3>3. CASE GetConnection
      BY <1>2, <3>1, <3>3, LockToGetOrdered, GetOneToUseOrdered DEF GetConnection
    <3>4. CASE Setup
      BY <1>2, <3>1, <3>4, SetupOrdered
    <3>5. CASE CloseConnection
      BY <1>2, <3>1, <3>5, LockToCloseOrdered, BeginFreeOrdered, FreeAndCloseOrdered
      DEF CloseConnection
    <3>6. QED
      BY <2>3, <3>2, <3>3, <3>4, <3>5 DEF EventAccept
  <2>4. CASE RecvProc
    <3>1. RecvFrame
      BY <2>1, <2>4 DEF RecvProc, RecvFrame
    <3>2. QED
      BY <1>2, <2>4, <3>1, RecvOrdered, LockToRecycleOrdered, EnterRecycleListOrdered
      DEF RecvProc
  <2>5. QED
    BY <1>3, <2>2, <2>3, <2>4 DEF EventLoop
<1>4. CASE RecycleThread
  <2>1. RecyclerFrame
    BY <1>4 DEF RecycleThread, RecyclerFrame
  <2>2. QED
    BY <1>2, <1>4, <2>1, RecyclerLooksOrdered, EraseEntryOrdered, FreeEntryOrdered
    DEF RecycleThread
<1>5. CASE Tick \/ Connect \/ (\E f \in Fds : Leave(f)) \/ UNCHANGED vars
  BY <1>2, <1>5, OutsideOrdered
<1>6. QED
  BY <1>3, <1>4, <1>5 DEF Next, Dead

\* As long as no client has closed in good order, every connection is at one place, and
\* once, whenever both threads are at rest: for any number of connections, clients and
\* descriptors, and whatever fails.
THEOREM AllPlacedOnce == Spec => []PlacedOnce
<1>1. Inv /\ Placing => PlacedOnce
  <2>1. SUFFICES ASSUME Inv, Ordered, AtRest
                 PROVE  /\ \A f, g \in Fds : epoll[f] = epoll[g] /\ epoll[f] # NoConn => f = g
                        /\ IsInjective(m_freeconnectionList \o m_recyconnectionList)
                        /\ LET idle == ToSet(m_freeconnectionList \o m_recyconnectionList) IN
                           /\ InUse \cap idle = {}
                           /\ m_connectionList = {Listener} \cup InUse \cup idle
    BY DEF Placing, PlacedOnce
  <2>2. m_freeconnectionList \in Seq(Conns) /\ m_recyconnectionList \in Seq(Conns)
    BY <2>1 DEF Inv, TypeOK, ListType
  <2>3. /\ ToSet(m_freeconnectionList \o m_recyconnectionList) = Free \cup Waiting
        /\ IsInjective(m_freeconnectionList \o m_recyconnectionList)
    BY <2>1, <2>2, JoinOnce DEF Ordered, Once, Apart, Free, Waiting
  <2>4. InLoop = {} /\ InRecycler = {}
    BY <2>1 DEF AtRest, InLoop, InRecycler
  <2>5. Free \subseteq m_connectionList /\ Waiting \subseteq m_connectionList
    BY <2>1 DEF Inv, Known, Free, Waiting, ToSet
  <2>6. InUse \subseteq m_connectionList /\ Listener \in m_connectionList
    BY <2>1 DEF Inv, Known, InUse
  <2>7. QED
    BY <2>1, <2>3, <2>4, <2>5, <2>6 DEF Ordered, Apart, Covered, Bound
<1>2. Init => Placing
  BY InitOrdered DEF Placing
<1>3. QED
  BY <1>1, <1>2, InvHolds, StepPlacing, PTL DEF Spec

-----------------------------------------------------------------------------
(* The pool implements AtomicPool *)

\* t is s with e put at its i-th place.
Inserted(S, s, i, e, t) ==
  /\ t \in Seq(S) /\ Len(t) = Len(s) + 1 /\ t[i] = e
  /\ \A k \in 1..Len(s) : (k < i => t[k] = s[k]) /\ (k >= i => t[k + 1] = s[k])

\* What InsertAt does to the elements.
LEMMA InsertAtElements ==
  ASSUME NEW S, NEW s \in Seq(S), NEW i \in 1..(Len(s) + 1), NEW e \in S
  PROVE  Inserted(S, s, i, e, InsertAt(s, i, e))
<1> DEFINE front == SubSeq(s, 1, i - 1)
           back  == SubSeq(s, i, Len(s))
           n     == Len(s)
<1>1. n \in Nat /\ DOMAIN s = 1..n /\ i \in Int /\ 1 <= i /\ i <= n + 1
  OBVIOUS
<1>2. /\ front \in Seq(S) /\ Len(front) = i - 1 /\ \A k \in 1..(i - 1) : front[k] = s[k]
  BY <1>1
<1>3. /\ back \in Seq(S) /\ Len(back) = n - i + 1
      /\ \A k \in 1..(n - i + 1) : back[k] = s[k + i - 1]
  BY <1>1
<1>4. InsertAt(s, i, e) = (front \o <<e>>) \o back
  BY DEF InsertAt
<1> HIDE DEF front, back, n
<1> DEFINE first == front \o <<e>>
<1>5. /\ first \in Seq(S) /\ Len(first) = i
      /\ \A k \in 1..i : first[k] = IF k < i THEN s[k] ELSE e
  BY <1>1, <1>2
<1> HIDE DEF first
<1>6. /\ first \o back \in Seq(S) /\ Len(first \o back) = Len(first) + Len(back)
      /\ \A k \in 1..(Len(first) + Len(back)) :
           (first \o back)[k] = IF k <= Len(first) THEN first[k] ELSE back[k - Len(first)]
  BY <1>3, <1>5, ConcatProperties
<1>7. i + (n - i + 1) = n + 1
  BY <1>1
<1>8. \A k \in 1..(n + 1) : (first \o back)[k] = IF k <= i THEN first[k] ELSE back[k - i]
  BY <1>3, <1>5, <1>6, <1>7
<1>9. ASSUME NEW k \in 1..n
      PROVE  /\ k < i => (first \o back)[k] = s[k]
             /\ k >= i => (first \o back)[k + 1] = s[k]
  <2>1. CASE k < i
    <3>1. k \in 1..i /\ k \in 1..(n + 1) /\ k <= i /\ ~(k >= i)
      BY <1>1, <2>1
    <3>2. QED
      BY <1>5, <1>8, <2>1, <3>1
  <2>2. CASE k >= i
    <3>1. /\ k + 1 \in 1..(n + 1) /\ ~(k + 1 <= i) /\ ~(k < i)
          /\ (k + 1) - i \in 1..(n - i + 1) /\ ((k + 1) - i) + i - 1 = k
      BY <1>1, <2>2
    <3>2. back[(k + 1) - i] = s[k]
      BY <1>3, <3>1
    <3>3. QED
      BY <1>8, <3>1, <3>2
  <2>3. QED
    BY <1>1, <2>1, <2>2
<1>10. (first \o back)[i] = e
  BY <1>1, <1>5, <1>8
<1>11. QED
  BY <1>3, <1>4, <1>5, <1>6, <1>7, <1>9, <1>10 DEF first, n, Inserted

\* What is erased and kept aside goes back to its place ...
LEMMA InsertRemoved ==
  ASSUME NEW S, NEW s \in Seq(S), NEW i \in 1..Len(s)
  PROVE  InsertAt(RemoveAt(s, i), i, s[i]) = s
<1> DEFINE t == RemoveAt(s, i)
           u == InsertAt(t, i, s[i])
<1>1. t \in Seq(S) /\ Len(t) = Len(s) - 1
  BY RemoveAtType
<1>2. \A k \in 1..(Len(s) - 1) : t[k] = IF k < i THEN s[k] ELSE s[k + 1]
  BY RemoveAtElements
<1> HIDE DEF t
<1>3. s[i] \in S /\ Len(s) \in Nat /\ i \in Nat /\ 1 <= i /\ i <= Len(s)
  OBVIOUS
<1>4. i \in 1..(Len(t) + 1) /\ Len(t) + 1 = Len(s)
  BY <1>1, <1>3
<1>5. /\ u \in Seq(S) /\ Len(u) = Len(t) + 1 /\ u[i] = s[i]
      /\ \A k \in 1..Len(t) : (k < i => u[k] = t[k]) /\ (k >= i => u[k + 1] = t[k])
  <2>1. Inserted(S, t, i, s[i], u)
    BY <1>1, <1>3, <1>4, InsertAtElements
  <2>2. QED
    BY <2>1 DEF Inserted
<1> HIDE DEF u
<1>6. ASSUME NEW k \in 1..Len(s)
      PROVE  u[k] = s[k]
  <2>1. CASE k < i
    <3>1. k \in 1..(Len(s) - 1) /\ k \in 1..Len(t)
      BY <1>1, <1>3, <2>1
    <3>2. QED
      BY <1>2, <1>5, <2>1, <3>1
  <2>2. CASE k = i
    BY <1>5, <2>2
  <2>3. CASE k > i
    <3>1. /\ k - 1 \in 1..(Len(s) - 1) /\ k - 1 \in 1..Len(t) /\ ~(k - 1 < i)
          /\ k - 1 >= i /\ (k - 1) + 1 = k
      BY <1>1, <1>3, <2>3
    <3>2. t[k - 1] = s[k] /\ u[k] = t[k - 1]
      BY <1>2, <1>5, <3>1
    <3>3. QED
      BY <3>2
  <2>4. QED
    BY <1>3, <2>1, <2>2, <2>3
<1>7. u = s
  BY <1>4, <1>5, <1>6, SeqEqual
<1>8. QED
  BY <1>7 DEF u, t

\* ... and is what is removed from there.
LEMMA RemoveInserted ==
  ASSUME NEW S, NEW s \in Seq(S), NEW i \in 1..(Len(s) + 1), NEW e \in S
  PROVE  /\ i \in DOMAIN InsertAt(s, i, e) /\ InsertAt(s, i, e)[i] = e
         /\ RemoveAt(InsertAt(s, i, e), i) = s
<1> DEFINE t == InsertAt(s, i, e)
           u == RemoveAt(t, i)
<1>1. /\ t \in Seq(S) /\ Len(t) = Len(s) + 1 /\ t[i] = e
      /\ \A k \in 1..Len(s) : (k < i => t[k] = s[k]) /\ (k >= i => t[k + 1] = s[k])
  <2>1. Inserted(S, s, i, e, t)
    BY InsertAtElements
  <2>2. QED
    BY <2>1 DEF Inserted
<1> HIDE DEF t
<1>2. Len(s) \in Nat /\ i \in Nat /\ 1 <= i /\ i <= Len(s) + 1
  OBVIOUS
<1>3. i \in 1..Len(t) /\ Len(t) - 1 = Len(s)
  BY <1>1, <1>2
<1>4. u \in Seq(S) /\ Len(u) = Len(s)
  BY <1>1, <1>3, RemoveAtType
<1>5. \A k \in 1..Len(s) : u[k] = IF k < i THEN t[k] ELSE t[k + 1]
  <2>1. \A k \in 1..(Len(t) - 1) : RemoveAt(t, i)[k] = IF k < i THEN t[k] ELSE t[k + 1]
    BY <1>1, <1>3, RemoveAtElements
  <2>2. QED
    BY <1>3, <2>1
<1> HIDE DEF u
<1>6. ASSUME NEW k \in 1..Len(s)
      PROVE  u[k] = s[k]
  <2>1. k < i \/ (k >= i /\ ~(k < i))
    BY <1>2
  <2>2. QED
    BY <1>1, <1>5, <2>1
<1>7. u = s
  BY <1>4, <1>6, SeqEqual
<1>8. t[i] = e /\ i \in DOMAIN t
  BY <1>1, <1>2, <1>3
<1>9. QED
  BY <1>7, <1>8 DEF u, t

\* The elements of a list into which one is inserted.
LEMMA InsertedSet ==
  ASSUME NEW S, NEW s \in Seq(S), NEW i \in 1..(Len(s) + 1), NEW e \in S
  PROVE  ToSet(InsertAt(s, i, e)) = ToSet(s) \cup {e}
<1> DEFINE t == InsertAt(s, i, e)
<1>1. /\ t \in Seq(S) /\ Len(t) = Len(s) + 1 /\ t[i] = e
      /\ \A k \in 1..Len(s) : (k < i => t[k] = s[k]) /\ (k >= i => t[k + 1] = s[k])
  <2>1. Inserted(S, s, i, e, t)
    BY InsertAtElements
  <2>2. QED
    BY <2>1 DEF Inserted
<1> HIDE DEF t
<1>2. /\ Len(s) \in Nat /\ i \in Nat /\ 1 <= i /\ i <= Len(s) + 1
      /\ DOMAIN s = 1..Len(s)
  OBVIOUS
<1>3. DOMAIN t = 1..(Len(s) + 1)
  BY <1>1
<1>4. ASSUME NEW k \in 1..(Len(s) + 1)
      PROVE  t[k] \in ToSet(s) \cup {e}
  <2>1. CASE k < i
    <3>1. k \in DOMAIN s /\ k \in 1..Len(s)
      BY <1>2, <2>1
    <3>2. QED
      BY <1>1, <2>1, <3>1 DEF ToSet
  <2>2. CASE k = i
    BY <1>1, <2>2
  <2>3. CASE k > i
    <3>1. k - 1 \in DOMAIN s /\ k - 1 \in 1..Len(s) /\ k - 1 >= i /\ (k - 1) + 1 = k
      BY <1>2, <2>3
    <3>2. QED
      BY <1>1, <3>1 DEF ToSet
  <2>4. QED
    BY <1>2, <2>1, <2>2, <2>3
<1>5. ASSUME NEW k \in 1..Len(s)
      PROVE  \E j \in DOMAIN t : t[j] = s[k]
  <2>1. CASE k < i
    <3>1. k \in DOMAIN t
      BY <1>2, <1>3
    <3>2. QED
      BY <1>1, <2>1, <3>1
  <2>2. CASE k >= i
    <3>1. k + 1 \in DOMAIN t
      BY <1>2, <1>3
    <3>2. QED
      BY <1>1, <2>2, <3>1
  <2>3. QED
    BY <1>2, <2>1, <2>2
<1>6. i \in DOMAIN t /\ t[i] = e
  BY <1>1, <1>2, <1>3
<1>7. ToSet(t) = ToSet(s) \cup {e}
  BY <1>2, <1>3, <1>4, <1>5, <1>6 DEF ToSet
<1>8. QED
  BY <1>7 DEF t

\* What the recycle thread takes for due is due, and what it has erased was in the list
\* at iter.
Freeing == rpc \in {"free", "put"}
Ages ==
  /\ \A c \in due : age[c] >= WaitTime
  /\ Freeing => age[victim] >= WaitTime /\ iter \in 1..(Len(m_recyconnectionList) + 1)

\* The event loop: a connection that gets a new time of entry is not due any more, and
\* the recycle thread, which would hold the mutex, has none in hand.
LEMMA LoopAges ==
  ASSUME Inv, Ages, EventLoop
  PROVE  Ages'
<1>1. UNCHANGED <<rpc, iter, victim>>
  BY DEF EventLoop
<1>2. CASE LockToRecycle
  <2>1. ~Freeing /\ age' = [age EXCEPT ![conn] = 0]
    BY <1>2 DEF LockToRecycle, Inv, Locks, Freeing
  <2>2. due' \in DueAfterEntry
    BY <1>2 DEF EventLoop, LockToRecycle
  <2>3. CASE WaitTime = 0
    <3>1. due' \subseteq Conns
      BY EntryDue DEF LoopFrame, Inv, TypeOK, RecyclerType
    <3>2. \A c \in Conns : age'[c] >= 0
      BY <2>1, <2>3 DEF Inv, TypeOK, FieldType
    <3>3. QED
      BY <1>1, <2>1, <2>3, <3>1, <3>2 DEF Ages, Freeing
  <2>4. CASE WaitTime # 0
    <3>1. due' = due \ {conn}
      BY <2>2, <2>4 DEF DueAfterEntry
    <3>2. \A c \in due' : c \in Conns
      BY <3>1 DEF Inv, TypeOK, RecyclerType
    <3>3. QED
      BY <1>1, <2>1, <3>1, <3>2 DEF Ages, Freeing, Inv, TypeOK, FieldType
  <2>5. QED
    BY <2>3, <2>4
<1>3. CASE EnterRecycleList /\ RecvProc
  <2>1. ~Freeing /\ due' = due /\ age' = age
    BY <1>3, EntryDue DEF EnterRecycleList, Inv, Locks, Freeing
  <2>2. QED
    BY <1>1, <2>1 DEF Ages, Freeing
<1>4. CASE ProcessEvents \/ EventAccept \/ (Recv /\ RecvProc)
  <2>1. due' = due
    <3>1. ~(pc = "recycle" /\ pc' = "enter")
      BY <1>4 DEF ProcessEvents, EpollWait, TakeEvent, NoMoreEvents, WriteEvent, EventAccept,
                  Accept, NoAccept4, AcceptFails, AcceptClient, GetConnection, LockToGet,
                  GetOneToUse, Setup, CloseConnection, LockToClose, BeginFree,
                  FreeAndClose, Recv
    <3>2. QED
      BY <3>1, EntryDue
  <2>2. age' = age /\ m_recyconnectionList' = m_recyconnectionList
    BY <1>4 DEF ProcessEvents, EventAccept, Recv
  <2>3. QED
    BY <1>1, <2>1, <2>2 DEF Ages, Freeing
<1>5. QED
  BY <1>2, <1>3, <1>4 DEF EventLoop, RecvProc

\* The recycle thread.
LEMMA RecyclerAges ==
  ASSUME Inv, Ages, RecycleThread
  PROVE  Ages'
<1>1. age' = age
  BY DEF RecycleThread
<1>2. CASE LookAtCount
  BY <1>1, <1>2 DEF LookAtCount, Ages, Freeing
<1>3. CASE LockToScan \/ SkipEntry \/ FreeEntry \/ EndScan
  BY <1>1, <1>3 DEF LockToScan, SkipEntry, FreeEntry, EndScan, Ages, Freeing
<1>4. CASE LockToFree
  BY <1>1, <1>4 DEF LockToFree, Ages, Freeing
<1>5. CASE EraseEntry
  <2>1. m_recyconnectionList \in Seq(Conns) /\ iter \in 1..Len(m_recyconnectionList)
    BY <1>5 DEF EraseEntry, Inv, TypeOK, ListType, RecyclerType
  <2>2. Len(m_recyconnectionList') = Len(m_recyconnectionList) - 1
    BY <1>5, <2>1, RemoveAtType DEF EraseEntry
  <2>3. iter' = iter /\ due' = due /\ victim' \in due
    BY <1>5 DEF EraseEntry
  <2>4. iter' \in 1..(Len(m_recyconnectionList') + 1)
    BY <2>1, <2>2, <2>3
  <2>5. QED
    BY <1>1, <2>3, <2>4 DEF Ages
<1>6. QED
  BY <1>2, <1>3, <1>4, <1>5 DEF RecycleThread

\* Time only makes what is due older.
LEMMA OutsideAges ==
  ASSUME Inv, Ages, Tick \/ Connect \/ (\E f \in Fds : Leave(f)) \/ UNCHANGED vars
  PROVE  Ages'
<1>1. UNCHANGED <<due, rpc, iter, victim, m_recyconnectionList>>
  BY DEF Tick, Connect, Leave, vars
<1>2. \A c \in Conns : age[c] >= WaitTime => age'[c] >= WaitTime
  <2>1. CASE Tick
    BY <2>1, PoolAssumption DEF Tick, Inv, TypeOK, FieldType
  <2>2. CASE ~Tick
    BY <2>2 DEF Connect, Leave, vars
  <2>3. QED
    BY <2>1, <2>2
<1>3. due \subseteq Conns /\ (Freeing => victim \in Conns)
  BY KnownConns DEF Inv, TypeOK, RecyclerType, Known, Freeing
<1>4. QED
  BY <1>1, <1>2, <1>3 DEF Ages, Freeing

\* What is due is old enough in every state.
LEMMA AgesHold == Spec => [](Inv /\ Ages)
<1>1. Init => Ages
  BY DEF Init, Ages, Freeing
<1>2. Inv /\ Ages /\ [Next]_vars => Ages'
  BY LoopAges, RecyclerAges, OutsideAges DEF Next, Dead
<1>3. QED
  BY <1>1, <1>2, InvHolds, PTL DEF Spec

\* A thread that only moves between places that are the same for the pool.
LEMMA PoolStutters ==
  ASSUME UNCHANGED <<m_connectionList, m_freeconnectionList, m_recyconnectionList,
                     iCurrsequence, age>>,
         \/ ~Reading /\ ~Reading'
         \/ UNCHANGED <<pc, conn, seen>>
         \/ UNCHANGED <<pc, conn>> /\ seen'[Loop] = seen[Loop],
         \/ ~Freeing /\ ~Freeing'
         \/ Freeing' = Freeing /\ UNCHANGED <<iter, victim>>
  PROVE  UNCHANGED Pool!vars
<1>1. PoolKnown' = PoolKnown
  BY DEF PoolKnown, Reading
<1>2. PoolRecycling' = PoolRecycling
  BY DEF PoolRecycling, Reading, Freeing
<1>3. PoolNumber' = PoolNumber
  BY DEF PoolNumber, Reading
<1>4. QED
  BY <1>1, <1>2, <1>3 DEF Pool!vars

\* The pool starts with the connection of the listening socket.
LEMMA InitMaps == Init => Pool!Init
<1> SUFFICES ASSUME Init PROVE Pool!Init
  OBVIOUS
<1>1. /\ PoolKnown = {Listener} /\ PoolRecycling = <<>>
      /\ PoolNumber = [c \in Conns |-> IF c = Listener THEN 1 ELSE 0]
  BY DEF Init, PoolKnown, PoolRecycling, PoolNumber, Reading
<1>2. QED
  BY <1>1 DEF Init, Pool!Init

\* ngx_get_connection takes the connection that was freed last, or makes one.
LEMMA LockToGetMaps ==
  ASSUME Inv, LockToGet, GetConnection, AcceptFrame
  PROVE  Pool!Next
<1>1. /\ pc = "get" /\ pc' = "use" /\ ~Reading /\ Reading'
      /\ UNCHANGED <<m_connectionList, m_recyconnectionList, iCurrsequence, age,
                     rpc, iter, victim>>
  BY DEF LockToGet, GetConnection, AcceptFrame, LoopFrame, Reading
<1>2. conn' \in Conns /\ seen'[Loop] = iCurrsequence[conn']
  <2>1. conn' \in Conns
    <3>1. CASE m_freeconnectionList # <<>>
      BY <3>1, HeadTailProperties DEF LockToGet, Inv, TypeOK, ListType
    <3>2. CASE m_freeconnectionList = <<>>
      BY <3>2 DEF LockToGet, Inv, TypeOK, ListType
    <3>3. QED
      BY <3>1, <3>2
  <2>2. QED
    BY <2>1 DEF LockToGet, ReadSequence, Inv, TypeOK, FieldType
<1>3. PoolRecycling' = PoolRecycling
  BY <1>1 DEF PoolRecycling
<1>4. PoolNumber' = [PoolNumber EXCEPT ![conn'] = (@ + 1) % Modulus]
  BY <1>1, <1>2 DEF PoolNumber
<1>5. PoolKnown = m_connectionList /\ PoolKnown' = m_connectionList \cup {conn'}
  BY <1>1 DEF PoolKnown
<1>6. CASE m_freeconnectionList # <<>>
  <2>1. /\ conn' = Head(m_freeconnectionList)
        /\ m_freeconnectionList' = Tail(m_freeconnectionList)
    BY <1>6 DEF LockToGet
  <2>2. conn' \in m_connectionList
    BY <2>1, <1>6, HeadTailProperties DEF Inv, Known
  <2>3. Pool!Reuse
    BY <1>1, <1>3, <1>4, <1>5, <1>6, <2>1, <2>2 DEF Pool!Reuse, Pool!Count
  <2>4. QED
    BY <2>3 DEF Pool!Next
<1>7. CASE m_freeconnectionList = <<>>
  <2>1. conn' \notin m_connectionList /\ m_freeconnectionList' = m_freeconnectionList
    BY <1>7 DEF LockToGet, Inv, TypeOK, ListType
  <2>2. Pool!Make(conn')
    BY <1>1, <1>3, <1>4, <1>5, <1>7, <2>1 DEF Pool!Make, Pool!Count
  <2>3. QED
    BY <1>2, <2>2 DEF Pool!Next
<1>8. QED
  BY <1>6, <1>7

\* The rest of ngx_get_connection writes what has been read.
LEMMA GetOneToUseMaps ==
  ASSUME Inv, GetOneToUse, GetConnection, AcceptFrame
  PROVE  UNCHANGED Pool!vars
<1>1. /\ pc = "use" /\ pc' = "setup" /\ conn' = conn /\ conn \in Conns
      /\ UNCHANGED <<m_freeconnectionList, m_recyconnectionList, age, rpc, iter, victim>>
  BY DEF GetOneToUse, GetConnection, AcceptFrame, LoopFrame, Inv, Known
<1>2. PoolKnown' = PoolKnown
  BY <1>1 DEF PoolKnown, GetOneToUse
<1>3. PoolRecycling' = PoolRecycling
  BY <1>1 DEF PoolRecycling
<1>4. PoolNumber' = PoolNumber
  BY <1>1 DEF PoolNumber, Reading, GetOneToUse, WriteSequence, Inv, TypeOK, FieldType
<1>5. QED
  BY <1>1, <1>2, <1>3, <1>4 DEF Pool!vars

\* A connection that was not put to use is free again.
LEMMA FreeAndCloseMaps ==
  ASSUME Inv, FreeAndClose, CloseConnection, AcceptFrame
  PROVE  Pool!Next
<1>1. /\ pc = "put" /\ pc' = "write" /\ ~Reading /\ ~Reading'
      /\ m_freeconnectionList' = <<conn>> \o m_freeconnectionList
      /\ WriteSequence(Loop, conn)
      /\ UNCHANGED <<m_connectionList, m_recyconnectionList, age, rpc, iter, victim>>
  BY DEF FreeAndClose, PutOneToFree, CloseConnection, AcceptFrame, LoopFrame, Reading
<1>2. conn \in Conns /\ conn \in m_connectionList /\ seen[Loop] = iCurrsequence[conn]
  BY <1>1 DEF Inv, Known, Reads, TypeOK, ListType
<1>3. PoolKnown = m_connectionList /\ PoolKnown' = PoolKnown /\ PoolRecycling' = PoolRecycling
  BY <1>1 DEF PoolKnown, PoolRecycling
<1>4. PoolNumber' = [PoolNumber EXCEPT ![conn] = (@ + 1) % Modulus]
  BY <1>1, <1>2 DEF PoolNumber, WriteSequence, Inv, TypeOK, FieldType
<1>5. Pool!Close(conn)
  BY <1>1, <1>2, <1>3, <1>4 DEF Pool!Close, Pool!Count
<1>6. QED
  BY <1>2, <1>5 DEF Pool!Next

\* inRecyConnectQueue, when it has its lock, its time and its number.
LEMMA LockToRecycleMaps ==
  ASSUME Inv, LockToRecycle, RecvFrame
  PROVE  Pool!Next
<1>1. /\ pc = "recycle" /\ pc' = "enter" /\ ~Reading /\ Reading' /\ conn' = conn
      /\ ~Freeing /\ age' = [age EXCEPT ![conn] = 0]
      /\ UNCHANGED <<m_connectionList, m_freeconnectionList, m_recyconnectionList,
                     iCurrsequence>>
  BY DEF LockToRecycle, RecvFrame, LoopFrame, Reading, Freeing, Inv, Locks
<1>2. conn \in Conns /\ conn \in m_connectionList /\ seen'[Loop] = iCurrsequence[conn]
  BY <1>1 DEF LockToRecycle, ReadSequence, Inv, Known, TypeOK, ListType, FieldType
<1>3. PoolKnown = m_connectionList /\ PoolKnown' = PoolKnown
  BY <1>1 DEF PoolKnown
<1>4. /\ PoolRecycling = m_recyconnectionList
      /\ PoolRecycling' = <<conn>> \o m_recyconnectionList
  BY <1>1 DEF PoolRecycling, Freeing
<1>5. PoolNumber' = [PoolNumber EXCEPT ![conn] = (@ + 1) % Modulus]
  BY <1>1, <1>2 DEF PoolNumber
<1>6. Pool!Recycle(conn)
  BY <1>1, <1>2, <1>3, <1>4, <1>5 DEF Pool!Recycle, Pool!Count
<1>7. QED
  BY <1>2, <1>6 DEF Pool!Next

\* Its entry into the list is nothing more.
LEMMA EnterRecycleListMaps ==
  ASSUME Inv, EnterRecycleList, RecvFrame
  PROVE  UNCHANGED Pool!vars
<1>1. /\ pc = "enter" /\ pc' = "write" /\ conn \in Conns /\ rpc' = rpc /\ ~Freeing
      /\ m_recyconnectionList' = <<conn>> \o m_recyconnectionList
      /\ WriteSequence(Loop, conn)
      /\ UNCHANGED <<m_connectionList, m_freeconnectionList, age>>
  BY DEF EnterRecycleList, RecvFrame, LoopFrame, Freeing, Inv, Locks, Known, TypeOK, ListType
<1>2. PoolKnown' = PoolKnown
  BY <1>1 DEF PoolKnown
<1>3. PoolRecycling' = PoolRecycling
  BY <1>1 DEF PoolRecycling, Freeing
<1>4. PoolNumber' = PoolNumber
  BY <1>1 DEF PoolNumber, Reading, WriteSequence, Inv, TypeOK, FieldType
<1>5. QED
  BY <1>1, <1>2, <1>3, <1>4 DEF Pool!vars

\* What is erased is kept aside at its place ...
LEMMA EraseEntryMaps ==
  ASSUME Inv, EraseEntry, RecyclerFrame
  PROVE  UNCHANGED Pool!vars
<1>1. /\ rpc = "scan" /\ rpc' = "free" /\ iter' = iter
      /\ victim' = m_recyconnectionList[iter]
      /\ m_recyconnectionList' = RemoveAt(m_recyconnectionList, iter)
      /\ UNCHANGED <<pc, conn, seen, m_connectionList, m_freeconnectionList, age,
                     iCurrsequence>>
  BY DEF EraseEntry, RecyclerFrame
<1>2. pc # "enter"
  BY <1>1 DEF Inv, Locks
<1>3. m_recyconnectionList \in Seq(Conns) /\ iter \in 1..Len(m_recyconnectionList)
  BY DEF EraseEntry, Inv, TypeOK, ListType, RecyclerType
<1>4. InsertAt(RemoveAt(m_recyconnectionList, iter), iter, m_recyconnectionList[iter])
        = m_recyconnectionList
  BY <1>3, InsertRemoved
<1>5. PoolRecycling' = PoolRecycling
  BY <1>1, <1>2, <1>4 DEF PoolRecycling
<1>6. PoolKnown' = PoolKnown /\ PoolNumber' = PoolNumber
  BY <1>1 DEF PoolKnown, PoolNumber, Reading
<1>7. QED
  BY <1>1, <1>5, <1>6 DEF Pool!vars

\* ... until it is freed, which is after its waiting time.
LEMMA FreeEntryMaps ==
  ASSUME Inv, Ages, FreeEntry, RecyclerFrame
  PROVE  Pool!Next
<1>1. /\ rpc = "put" /\ rpc' = "scan"
      /\ m_freeconnectionList' = <<victim>> \o m_freeconnectionList
      /\ WriteSequence(Recycler, victim)
      /\ UNCHANGED <<pc, conn, m_recyconnectionList, m_connectionList, age>>
  BY DEF FreeEntry, PutOneToFree, RecyclerFrame
<1>2. ~Reading /\ ~Reading' /\ pc # "enter"
  BY <1>1 DEF Inv, Locks, Reading
<1>3. /\ victim \in Conns /\ seen[Recycler] = iCurrsequence[victim]
      /\ m_recyconnectionList \in Seq(Conns)
  BY <1>1 DEF Inv, Known, Reads, TypeOK, ListType
<1>4. age[victim] >= WaitTime /\ iter \in 1..(Len(m_recyconnectionList) + 1)
  BY <1>1 DEF Ages, Freeing
<1>5. /\ PoolRecycling = InsertAt(m_recyconnectionList, iter, victim)
      /\ PoolRecycling' = m_recyconnectionList
  BY <1>1, <1>2 DEF PoolRecycling
<1>6. /\ iter \in DOMAIN PoolRecycling /\ PoolRecycling[iter] = victim
      /\ PoolRecycling' = RemoveAt(PoolRecycling, iter)
  BY <1>3, <1>4, <1>5, RemoveInserted
<1>7. PoolNumber' = [PoolNumber EXCEPT ![victim] = (@ + 1) % Modulus]
  BY <1>1, <1>2, <1>3 DEF PoolNumber, WriteSequence, Inv, TypeOK, FieldType
<1>8. PoolKnown' = PoolKnown
  BY <1>1 DEF PoolKnown
<1>9. Pool!Free(iter)
  <2>1. PoolRecycling' = Pool!RemoveAt(PoolRecycling, iter)
    BY <1>6 DEF RemoveAt, Pool!RemoveAt
  <2>2. QED
    BY <1>1, <1>4, <1>6, <1>7, <1>8, <2>1 DEF Pool!Free, Pool!Count
<1>10. QED
  BY <1>6, <1>9 DEF Pool!Next

\* The time passes for what waits; for what has been erased it has already passed.
LEMMA TickMaps ==
  ASSUME Inv, Ages, Tick
  PROVE  Pool!Next
<1>1. /\ UNCHANGED <<pc, conn, seen, rpc, iter, victim, m_connectionList, m_freeconnectionList,
                     m_recyconnectionList, iCurrsequence>>
      /\ age' = [c \in Conns |->
                   IF c \in Stamped /\ age[c] < WaitTime THEN age[c] + 1 ELSE age[c]]
  BY DEF Tick
<1>2. PoolKnown' = PoolKnown /\ PoolRecycling' = PoolRecycling /\ PoolNumber' = PoolNumber
  BY <1>1 DEF PoolKnown, PoolRecycling, PoolNumber, Reading
<1>3. \A c \in Conns : age[c] < WaitTime => (c \in Stamped <=> c \in ToSet(PoolRecycling))
  <2>1. m_recyconnectionList \in Seq(Conns)
    BY DEF Inv, TypeOK, ListType
  <2>2. CASE pc = "enter"
    <3>1. PoolRecycling = <<conn>> \o m_recyconnectionList /\ conn \in Conns
      BY <2>2 DEF PoolRecycling, Inv, Known, TypeOK, ListType
    <3>2. ToSet(PoolRecycling) = {conn} \cup ToSet(m_recyconnectionList)
      BY <2>1, <3>1, PushOnce
    <3>3. QED
      BY <2>2, <3>2 DEF Stamped
  <2>3. CASE pc # "enter" /\ Freeing
    <3>1. /\ iter \in 1..(Len(m_recyconnectionList) + 1) /\ age[victim] >= WaitTime
          /\ victim \in Conns
      BY <2>3 DEF Ages, Freeing, Inv, Known, TypeOK, ListType
    <3>2. ToSet(PoolRecycling) = ToSet(m_recyconnectionList) \cup {victim}
      BY <2>1, <2>3, <3>1, InsertedSet DEF PoolRecycling, Freeing
    <3>3. ~(age[victim] < WaitTime)
      BY <3>1, PoolAssumption DEF Inv, TypeOK, FieldType
    <3>4. QED
      BY <2>3, <3>2, <3>3 DEF Stamped
  <2>4. CASE pc # "enter" /\ ~Freeing
    BY <2>4 DEF PoolRecycling, Freeing, Stamped
  <2>5. QED
    BY <2>2, <2>3, <2>4
<1>4. age' = [c \in Conns |->
                IF c \in ToSet(PoolRecycling) /\ age[c] < WaitTime THEN age[c] + 1 ELSE age[c]]
  BY <1>1, <1>3
<1>5. Pool!Tick
  <2>1. Pool!ToSet(PoolRecycling) = ToSet(PoolRecycling)
    BY DEF ToSet, Pool!ToSet
  <2>2. QED
    BY <1>1, <1>2, <1>4, <2>1 DEF Pool!Tick
<1>6. QED
  BY <1>5 DEF Pool!Next

\* The other steps of the event loop are none of the pool.
LEMMA LoopStutters ==
  ASSUME Inv, EventLoop,
         \/ ProcessEvents
         \/ EventAccept /\ (Accept \/ Setup)
         \/ EventAccept /\ CloseConnection /\ (LockToClose \/ BeginFree)
         \/ RecvProc /\ Recv
  PROVE  UNCHANGED Pool!vars
<1>1. UNCHANGED <<rpc, iter, victim>>
  BY DEF EventLoop
<1>2. /\ UNCHANGED <<m_connectionList, m_freeconnectionList, m_recyconnectionList,
                     iCurrsequence, age>>
      /\ ~Reading /\ ~Reading'
  <2>1. CASE ProcessEvents
    BY <2>1 DEF ProcessEvents, EpollWait, TakeEvent, NoMoreEvents, WriteEvent, Reading
  <2>2. CASE EventAccept /\ Accept
    BY <2>2 DEF EventAccept, Accept, NoAccept4, AcceptFails, AcceptClient, Reading
  <2>3. CASE EventAccept /\ Setup
    BY <2>3 DEF EventAccept, Setup, Register, SetupFails, Reading
  <2>4. CASE EventAccept /\ CloseConnection /\ (LockToClose \/ BeginFree)
    BY <2>4 DEF EventAccept, CloseConnection, LockToClose, BeginFree, Reading
  <2>5. CASE RecvProc /\ Recv
    BY <2>5 DEF RecvProc, Recv, RecvMore, RecvEOF, RecvError, Reading
  <2>6. QED
    BY <2>1, <2>2, <2>3, <2>4, <2>5
<1>3. QED
  BY <1>1, <1>2, PoolStutters DEF Freeing

\* Nor are those in which the recycle thread looks for something to free.
LEMMA RecyclerStutters ==
  ASSUME Inv, RecyclerFrame,
         LookAtCount \/ LockToScan \/ SkipEntry \/ LockToFree \/ EndScan
  PROVE  UNCHANGED Pool!vars
<1>1. /\ UNCHANGED <<m_connectionList, m_freeconnectionList, m_recyconnectionList,
                     iCurrsequence, age, pc, conn>>
      /\ seen'[Loop] = seen[Loop]
  BY DEF RecyclerFrame, LookAtCount, LockToScan, SkipEntry, LockToFree, EndScan, ReadSequence,
         Inv, TypeOK, FieldType
<1>2. \/ ~Freeing /\ ~Freeing'
      \/ Freeing' = Freeing /\ UNCHANGED <<iter, victim>>
  BY DEF LookAtCount, LockToScan, SkipEntry, LockToFree, EndScan, Freeing
<1>3. QED
  BY <1>1, <1>2, PoolStutters

\* Every step is one of the pool's, or none.
LEMMA StepMaps == Inv /\ Ages /\ [Next]_vars => [Pool!Next]_(Pool!vars)
<1> SUFFICES ASSUME Inv, Ages, [Next]_vars
             PROVE  Pool!Next \/ UNCHANGED Pool!vars
  OBVIOUS
<1>1. CASE EventLoop
  <2>1. LoopFrame
    BY <1>1, EntryDue
  <2>2. CASE ProcessEvents
    BY <1>1, <2>2, LoopStutters
  <2>3. CASE EventAccept
    <3>1. AcceptFrame
      BY <2>1, <2>3 DEF EventAccept, AcceptFrame
    <3>2. CASE Accept \/ Setup
      BY <1>1, <2>3, <3>2, LoopStutters
    <3>3. CASE GetConnection
      BY <3>1, <3>3, LockToGetMaps, GetOneToUseMaps DEF GetConnection
    <3>4. CASE CloseConnection
      BY <1>1, <2>3, <3>1, <3>4, LoopStutters, FreeAndCloseMaps DEF CloseConnection
    <3>5. QED
      BY <2>3, <3>2, <3>3, <3>4 DEF EventAccept
  <2>4. CASE RecvProc
    <3>1. RecvFrame
      BY <2>1, <2>4 DEF RecvProc, RecvFrame
    <3>2. QED
      BY <1>1, <2>4, <3>1, LoopStutters, LockToRecycleMaps, EnterRecycleListMaps DEF RecvProc
  <2>5. QED
    BY <1>1, <2>2, <2>3, <2>4 DEF EventLoop
<1>2. CASE RecycleThread
  <2>1. RecyclerFrame
    BY <1>2 DEF RecycleThread, RecyclerFrame
  <2>2. QED
    BY <1>2, <2>1, RecyclerStutters, EraseEntryMaps, FreeEntryMaps DEF RecycleThread
<1>3. CASE Tick
  BY <1>3, TickMaps
<1>4. CASE Connect \/ (\E f \in Fds : Leave(f)) \/ UNCHANGED vars
  <2>1. UNCHANGED <<m_connectionList, m_freeconnectionList, m_recyconnectionList,
                    iCurrsequence, age, pc, conn, seen, rpc, iter, victim>>
    BY <1>4 DEF Connect, Leave, vars
  <2>2. QED
    BY <2>1, PoolStutters DEF Freeing
<1>5. QED
  BY <1>1, <1>2, <1>3, <1>4 DEF Next, Dead

\* Every behaviour of the two threads, their mutexes, lists and counters is one of a pool
\* whose operations happen at once: for any number of connections and clients, any
\* waiting time, and whatever fails.
THEOREM PoolImplementsAtomicPool == Spec => ImplementsPool
BY InitMaps, StepMaps, AgesHold, PTL DEF Spec, ImplementsPool, Pool!Spec
=============================================================================
