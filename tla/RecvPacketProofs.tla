-------------------------- MODULE RecvPacketProofs --------------------------
(***************************************************************************)
(* Proofs about RecvPacket, for every header size, every maximal length,   *)
(* every set of lengths a client may write and every bound.                *)
(***************************************************************************)
EXTENDS RecvPacket, TLAPS

\* Where the machine stands in a packet.  A machine in its initial state waits
\* for a whole header; while the connection holds a buffer its window lies in
\* that buffer, and the header of that packet is still in dataHeadInfo.
PacketInv ==
  /\ curStat = HD_INIT => window.mem = HeadMem /\ irecvlen = HeaderLen
  /\ window.mem = precvMem
  /\ precvMem # NoBuf =>
       /\ precvMem \in Buffers
       /\ heap[precvMem].len = pkgLen
       /\ pkgLen \in HeaderLen + 1..MaxLegalLen

\* Only allocated buffers travel.
AllocatedInv == Range(queue) \cup working \cup freed \subseteq Buffers

\* A connection up for recycling receives nothing more, so the numbers its
\* packets recorded stay behind the connection's.
SequenceInv ==
  /\ recy = 0 => \A b \in Buffers : heap[b].seq = iCurrsequence
  /\ recy > 0 => /\ \A b \in Buffers : heap[b].seq < iCurrsequence
                 /\ ~fdOpen \/ (avail = 0 /\ peer = "closed")

IInv ==
  /\ TypeOK
  /\ PacketInv
  /\ WindowInBounds
  /\ AllocatedInv
  /\ OneOwner
  /\ SequenceInv

-----------------------------------------------------------------------------
\* Appending adds one element to a queue, and keeps it free of duplicates if the
\* element is new.
LEMMA AppendRange ==
  ASSUME NEW q \in Seq(Nat), NEW b \in Nat
  PROVE  /\ Append(q, b) \in Seq(Nat)
         /\ Range(Append(q, b)) = Range(q) \cup {b}
<1>1. DOMAIN Append(q, b) = 1..Len(q) + 1 /\ DOMAIN q = 1..Len(q)
  OBVIOUS
<1>2. \A i \in 1..Len(q) : Append(q, b)[i] = q[i]
  OBVIOUS
<1>3. Append(q, b)[Len(q) + 1] = b
  OBVIOUS
<1> QED
  BY <1>1, <1>2, <1>3 DEF Range

\* Taking the head of a queue leaves the rest in place.
LEMMA TailRange ==
  ASSUME NEW q \in Seq(Nat), q # <<>>
  PROVE  /\ Tail(q) \in Seq(Nat)
         /\ Head(q) \in Nat /\ Head(q) = q[1]
         /\ DOMAIN q = 1..Len(q) /\ 1 \in DOMAIN q
         /\ DOMAIN Tail(q) = 1..Len(q) - 1
         /\ \A i \in DOMAIN Tail(q) : Tail(q)[i] = q[i + 1] /\ i + 1 \in DOMAIN q
         /\ Range(q) = {Head(q)} \cup Range(Tail(q))
<1>1. /\ Tail(q) \in Seq(Nat) /\ Head(q) \in Nat /\ Head(q) = q[1]
      /\ DOMAIN q = 1..Len(q) /\ Len(q) \in Nat \ {0}
      /\ DOMAIN Tail(q) = 1..Len(q) - 1
      /\ \A i \in 1..Len(q) - 1 : Tail(q)[i] = q[i + 1]
  OBVIOUS
<1>2. Range(Tail(q)) \subseteq Range(q)
  BY <1>1 DEF Range
<1>4. ASSUME NEW x \in Range(q) PROVE x = Head(q) \/ x \in Range(Tail(q))
  <2>1. PICK i \in 1..Len(q) : x = q[i]
    BY <1>1 DEF Range
  <2>2. CASE i = 1
    BY <1>1, <2>1, <2>2
  <2>3. CASE i # 1
    <3>1. i - 1 \in 1..Len(q) - 1 /\ x = Tail(q)[i - 1]
      BY <1>1, <2>1, <2>3
    <3> QED
      BY <1>1, <3>1 DEF Range
  <2> QED
    BY <2>2, <2>3
<1>5. \A i \in DOMAIN Tail(q) : Tail(q)[i] = q[i + 1] /\ i + 1 \in DOMAIN q
  BY <1>1
<1>6. 1 \in DOMAIN q
  BY <1>1
<1>7. Head(q) \in Range(q)
  BY <1>1, <1>6 DEF Range
<1>8. Range(q) = {Head(q)} \cup Range(Tail(q))
  BY <1>2, <1>4, <1>7
<1> QED
  BY <1>1, <1>5, <1>6, <1>8

-----------------------------------------------------------------------------
THEOREM InitInv == Init => IInv
<1> SUFFICES ASSUME Init PROVE IInv
  OBVIOUS
<1>1. Buffers = {} /\ DOMAIN queue = {} /\ Range(queue) = {}
  BY DEF Init, Buffers, Range
<1>2. TypeOK
  <2>1. window \in [mem : Nat, off : Nat]
    BY DEF Init, HeadWindow, HeadMem
  <2>2. heap \in Seq(Packets) /\ queue \in Seq(Nat)
    BY DEF Init
  <2>3. irecvlen \in Nat /\ curStat = HD_INIT
    BY SizesAssumption DEF Init
  <2> QED
    BY <2>1, <2>2, <2>3 DEF Init, TypeOK, NoBuf
<1>3. PacketInv /\ WindowInBounds
  BY SizesAssumption
  DEF Init, PacketInv, WindowInBounds, HeadWindow, HeadMem, NoBuf
<1>4. AllocatedInv /\ OneOwner /\ SequenceInv
  BY <1>1 DEF Init, AllocatedInv, OneOwner, QueuedOnce, SequenceInv
<1> QED
  BY <1>2, <1>3, <1>4 DEF IInv

\* What a read of data is: recv() returns at least one byte and at most what was
\* asked for; a full window completes a header or a body, and the code takes
\* both for a header.
LEMMA ReadCases ==
  ASSUME IInv, ReadData
  PROVE  /\ Received \in 1..irecvlen
         /\ recy = 0
         /\ (Received = irecvlen /\ proc_p1) \/ (Received < irecvlen /\ Partial(Received))
<1>1. Received \in 1..irecvlen
  BY DEF IInv, TypeOK, WindowInBounds, ReadData, Received
<1>2. recy = 0
  BY DEF IInv, TypeOK, SequenceInv, ReadData
<1>3. CASE ReadFirst(Received)
  BY <1>1, <1>2, <1>3 DEF ReadFirst, IInv, PacketInv, TypeOK
<1>4. CASE ReadMore(Received)
  BY <1>1, <1>2, <1>4 DEF ReadMore, IInv, TypeOK
<1> QED
  BY <1>3, <1>4 DEF ReadData

\* A partial read moves the window on inside its memory.
LEMMA PartialInv ==
  ASSUME IInv, ReadData, Received < irecvlen, Partial(Received)
  PROVE  IInv'
<1>1. Received \in 1..irecvlen /\ recy = 0
  BY ReadCases
<1>2. /\ window'.mem = window.mem /\ window'.off = window.off + Received
      /\ window' \in [mem : Nat, off : Nat]
      /\ irecvlen' = irecvlen - Received /\ irecvlen' \in Nat \ {0}
      /\ avail' \in Nat
  <2>1. window \in [mem : Nat, off : Nat] /\ Received \in Nat /\ irecvlen \in Nat
    BY <1>1 DEF IInv, TypeOK
  <2>2. window' = [window EXCEPT !.off = window.off + Received]
    BY DEF Partial
  <2>3. /\ window'.mem = window.mem /\ window'.off = window.off + Received
        /\ window' \in [mem : Nat, off : Nat]
    BY <2>1, <2>2
  <2>4. irecvlen' = irecvlen - Received
    BY DEF Partial
  <2>5. avail' = avail - Received /\ avail >= Received /\ avail \in Nat
    BY <2>1 DEF ReadData, Received, IInv, TypeOK
  <2> QED
    BY <1>1, <2>1, <2>3, <2>4, <2>5
<1>3. TypeOK'
  BY <1>2 DEF Partial, ReadData, IInv, TypeOK, HD_RECVING
<1>4. PacketInv'
  BY <1>2 DEF Partial, IInv, PacketInv, HD_INIT, HD_RECVING, Buffers
<1>5. WindowInBounds'
  <2>1. /\ window.off \in Nat /\ irecvlen \in Nat
        /\ window'.off + irecvlen' = window.off + irecvlen
        /\ window'.off >= window.off
    BY <1>1, <1>2 DEF IInv, TypeOK
  <2>2. heap' = heap /\ precvMem' = precvMem
    BY DEF Partial
  <2> QED
    BY <1>2, <2>1, <2>2, SizesAssumption DEF IInv, WindowInBounds, Buffers
<1>6. AllocatedInv' /\ OneOwner'
  BY <1>2 DEF Partial, ReadData, IInv, AllocatedInv, OneOwner, QueuedOnce, Buffers
<1>7. SequenceInv'
  BY <1>1 DEF Partial, ReadData, IInv, SequenceInv, Buffers
<1> QED
  BY <1>3, <1>4, <1>5, <1>6, <1>7 DEF IInv

\* The facts about memory that a machine waiting for a header satisfies.
LEMMA WaitForHeaderInv ==
  ASSUME IInv, WaitForHeader, precvMem' = NoBuf
  PROVE  /\ curStat' = HD_INIT /\ window' \in [mem : Nat, off : Nat]
         /\ irecvlen' \in Nat
         /\ PacketInv' /\ WindowInBounds'
  BY SizesAssumption
  DEF WaitForHeader, PacketInv, WindowInBounds, HeadWindow, HeadMem, NoBuf

\* A dropped header leaves everything but the machine as it was.
LEMMA DropInv ==
  ASSUME IInv, ReadData, NEW len \in Lens, pkgLen' = len, window.mem = HeadMem,
         DropHeader(len)
  PROVE  IInv'
<1>1. Received \in 1..irecvlen /\ recy = 0 /\ avail' \in Nat
  BY ReadCases DEF ReadData, Received, IInv, TypeOK
<1>2. precvMem' = NoBuf
  BY DEF DropHeader, IInv, PacketInv, HeadMem, NoBuf
<1>3. /\ curStat' = HD_INIT /\ window' \in [mem : Nat, off : Nat]
      /\ irecvlen' \in Nat
      /\ PacketInv' /\ WindowInBounds'
  BY <1>2, WaitForHeaderInv DEF DropHeader
<1>4. TypeOK'
  BY <1>1, <1>2, <1>3, SizesAssumption DEF DropHeader, ReadData, IInv, TypeOK, NoBuf
<1>5. window'.mem = precvMem'
  BY <1>3 DEF PacketInv
<1>6. AllocatedInv' /\ OneOwner'
  BY <1>5 DEF DropHeader, ReadData, IInv, PacketInv, AllocatedInv, OneOwner,
              QueuedOnce, Buffers
<1>7. SequenceInv'
  BY <1>1 DEF DropHeader, ReadData, IInv, SequenceInv, Buffers
<1> QED
  BY <1>3, <1>4, <1>6, <1>7 DEF IInv

\* An accepted header: the new buffer is Len(heap) + 1, which nobody owns yet.
LEMMA AcceptInv ==
  ASSUME IInv, ReadData, NEW len \in Nat, pkgLen' = len, AcceptHeader(len)
  PROVE  IInv'
<1> DEFINE b == Len(heap) + 1
           packet == [len |-> len, seq |-> iCurrsequence]
<1>1. Received \in 1..irecvlen /\ recy = 0 /\ avail' \in Nat
  BY ReadCases DEF ReadData, Received, IInv, TypeOK
<1>2. /\ heap \in Seq(Packets) /\ packet \in Packets /\ heap' = Append(heap, packet)
      /\ len \in HeaderLen..MaxLegalLen
      /\ crashed' = crashed
  BY DEF AcceptHeader, IInv, TypeOK, Packets, Legal
<1>3. /\ heap' \in Seq(Packets) /\ Len(heap') = b /\ b \in Nat
      /\ heap'[b] = packet
      /\ \A i \in Buffers : heap'[i] = heap[i]
      /\ Buffers' = Buffers \cup {b} /\ b \notin Buffers
  <2>1. Len(heap) \in Nat
    BY <1>2
  <2>2. /\ heap' \in Seq(Packets) /\ Len(heap') = b
        /\ heap'[b] = packet
        /\ \A i \in 1..Len(heap) : heap'[i] = heap[i]
    BY <1>2
  <2> QED
    BY <2>1, <2>2 DEF Buffers
<1>4. b # NoBuf /\ b # HeadMem
  BY <1>2, <1>3 DEF NoBuf, HeadMem
<1>5. SequenceInv'
  <2>1. \A i \in Buffers' : heap'[i].seq = iCurrsequence
    BY <1>1, <1>3 DEF IInv, SequenceInv
  <2> QED
    BY <1>1, <2>1 DEF ReadData, SequenceInv
<1>6. /\ Range(queue) \cup working \cup freed \subseteq Buffers
      /\ b \notin Range(queue) \cup working \cup freed
  BY <1>3 DEF IInv, AllocatedInv
<1>7. CASE len = HeaderLen /\ proc_plast(b)
  <2>1. /\ queue' = Append(queue, b) /\ queue \in Seq(Nat) /\ precvMem' = NoBuf
        /\ working' = working /\ freed' = freed
    BY <1>7 DEF proc_plast, ReadData, IInv, TypeOK
  <2>2. queue' \in Seq(Nat) /\ Range(queue') = Range(queue) \cup {b}
    BY <1>3, <2>1, AppendRange
  <2>3. /\ curStat' = HD_INIT /\ window' \in [mem : Nat, off : Nat]
        /\ irecvlen' \in Nat
        /\ PacketInv' /\ WindowInBounds'
    BY <1>7, <2>1, WaitForHeaderInv DEF proc_plast
  <2>4. TypeOK'
    BY <1>1, <1>2, <1>3, <2>1, <2>2, <2>3 DEF ReadData, IInv, TypeOK, NoBuf
  <2>5. QueuedOnce'
    <3>1. DOMAIN queue = 1..Len(queue) /\ DOMAIN queue' = 1..Len(queue) + 1
      BY <1>3, <2>1
    <3>2. \A i \in 1..Len(queue) : queue'[i] = queue[i] /\ queue'[i] # b
      BY <1>3, <1>6, <2>1, <3>1, SMTT(20) DEF Range
    <3>3. queue'[Len(queue) + 1] = b
      BY <1>3, <2>1
    <3> QED
      BY <3>1, <3>2, <3>3 DEF QueuedOnce, IInv, OneOwner
  <2>6. AllocatedInv'
    BY <1>3, <1>6, <2>1, <2>2 DEF AllocatedInv
  <2>7. NoBuf \notin Buffers' /\ window'.mem = precvMem'
    BY <1>3, <2>3 DEF Buffers, NoBuf, PacketInv
  <2>8. OneOwner'
    BY <1>6, <2>1, <2>2, <2>5, <2>6, <2>7 DEF IInv, OneOwner, AllocatedInv
  <2> QED
    BY <1>5, <2>3, <2>4, <2>6, <2>8 DEF IInv
<1>8. CASE len # HeaderLen /\ ExpectBody(b, len)
  <2>1. /\ precvMem' = b /\ curStat' = BD_INIT /\ queue' = queue
        /\ window' = [mem |-> b, off |-> HeaderLen] /\ irecvlen' = len - HeaderLen
        /\ working' = working /\ freed' = freed
    BY <1>8 DEF ExpectBody, ReadData
  <2>2. irecvlen' \in Nat \ {0} /\ HeaderLen + irecvlen' = len
    BY <1>2, <1>8, <2>1, SizesAssumption
  <2>3. TypeOK'
    BY <1>1, <1>2, <1>3, <2>1, <2>2, SizesAssumption
    DEF ReadData, IInv, TypeOK, BD_INIT
  <2>4. PacketInv'
    BY <1>2, <1>3, <1>8, <2>1, SizesAssumption DEF PacketInv, BD_INIT, HD_INIT
  <2>5. WindowInBounds'
    BY <1>3, <2>1, <2>2, SizesAssumption DEF WindowInBounds
  <2>6. AllocatedInv'
    BY <1>3, <1>6, <2>1 DEF AllocatedInv
  <2>7. OneOwner'
    BY <1>6, <2>1 DEF IInv, OneOwner, QueuedOnce
  <2> QED
    BY <1>5, <2>3, <2>4, <2>5, <2>6, <2>7 DEF IInv
<1> QED
  BY <1>7, <1>8 DEF AcceptHeader

\* A read of data preserves the invariant.
LEMMA ReadDataInv == ASSUME IInv, ReadData PROVE IInv'
<1>1. CASE Received < irecvlen /\ Partial(Received)
  BY <1>1, PartialInv
<1>2. CASE proc_p1
  <2>1. PICK len \in IF window.mem = HeadMem THEN Lens ELSE {pkgLen} :
          /\ pkgLen' = len
          /\ DropHeader(len) \/ AcceptHeader(len) \/ AcceptCrashes(len)
    BY <1>2 DEF proc_p1
  <2>2. len \in Nat
    BY <2>1, SizesAssumption DEF IInv, TypeOK
  <2>3. CASE DropHeader(len)
    <3>1. window.mem = HeadMem
      BY <2>1, <2>3, SizesAssumption
      DEF DropHeader, Legal, IInv, TypeOK, PacketInv, HeadMem, NoBuf
    <3> QED
      BY <2>1, <2>3, <3>1, DropInv
  <2>4. CASE AcceptHeader(len)
    BY <2>1, <2>2, <2>4, AcceptInv
  <2>5. CASE AcceptCrashes(len)
    <3>1. recy = 0 /\ avail' \in Nat
      BY ReadCases DEF ReadData, Received, IInv, TypeOK
    <3>2. precvMem # NoBuf => pkgLen' = pkgLen
      BY <2>1 DEF IInv, PacketInv, NoBuf, HeadMem
    <3>3. TypeOK'
      BY <2>1, <2>2, <2>5, <3>1 DEF AcceptCrashes, ReadData, IInv, TypeOK
    <3>4. PacketInv' /\ WindowInBounds'
      BY <2>5, <3>2 DEF AcceptCrashes, IInv, PacketInv, WindowInBounds, Buffers
    <3>5. AllocatedInv' /\ OneOwner' /\ SequenceInv'
      BY <2>5, <3>1 DEF AcceptCrashes, ReadData, IInv, AllocatedInv, OneOwner,
                        QueuedOnce, SequenceInv, Buffers
    <3> QED
      BY <3>3, <3>4, <3>5 DEF IInv
  <2> QED
    BY <2>1, <2>3, <2>4, <2>5
<1> QED
  BY <1>1, <1>2, ReadCases

\* The steps that read no data leave the machine alone.
LEMMA OtherStepsInv ==
  ASSUME IInv, [Next]_vars, ~ReadData
  PROVE  IInv'
<1> USE DEF IInv
<1>1. ASSUME UNCHANGED <<connVars, heap, queue, working, freed>>,
             TypeOK', SequenceInv'
      PROVE  IInv'
  BY <1>1 DEF connVars, PacketInv, WindowInBounds, AllocatedInv, OneOwner,
              QueuedOnce, Buffers
<1>2. ASSUME inRecyConnectQueue, UNCHANGED heap
      PROVE  /\ iCurrsequence' \in Nat /\ recy' \in Nat /\ recy' > 0
             /\ \A i \in Buffers' : heap'[i].seq < iCurrsequence'
  <2>1. \A i \in Buffers : heap[i].seq \in Nat /\ heap[i].seq <= iCurrsequence
    <3>1. \A i \in Buffers : heap[i].seq \in Nat
      <4>1. heap \in Seq(Packets)
        BY DEF TypeOK
      <4>2. \A i \in 1..Len(heap) : heap[i] \in Packets
        BY <4>1
      <4> QED
        BY <4>2 DEF Packets, Buffers
    <3>2. CASE recy = 0
      BY <3>1, <3>2 DEF SequenceInv, TypeOK
    <3>3. CASE recy > 0
      BY <3>1, <3>3 DEF SequenceInv, TypeOK
    <3> QED
      BY <3>2, <3>3 DEF TypeOK
  <2> QED
    BY <1>2, <2>1 DEF inRecyConnectQueue, TypeOK, Buffers
<1>3. CASE ReadEOF \/ ReadError
  <2>1. /\ inRecyConnectQueue
        /\ UNCHANGED <<connVars, heap, queue, working, freed, netVars, crashed>>
        /\ \/ fdOpen' = FALSE
           \/ fdOpen' = fdOpen /\ avail = 0 /\ peer = "closed"
    BY <1>3 DEF ReadEOF, ReadError
  <2>2. /\ iCurrsequence' \in Nat /\ recy' \in Nat /\ recy' > 0
        /\ \A i \in Buffers' : heap'[i].seq < iCurrsequence'
    BY <1>2, <2>1
  <2>3. TypeOK'
    BY <2>1, <2>2 DEF TypeOK, connVars, netVars
  <2>4. SequenceInv'
    BY <2>1, <2>2 DEF SequenceInv, netVars
  <2> QED
    BY <1>1, <2>1, <2>3, <2>4
<1>4. CASE TakePacket
  <2>1. queue \in Seq(Nat) /\ queue # <<>>
    BY <1>4 DEF TakePacket, TypeOK
  <2>2. /\ queue' = Tail(queue) /\ queue' \in Seq(Nat)
        /\ working' = working \cup {Head(queue)} /\ Head(queue) \in Nat
        /\ Range(queue) = {Head(queue)} \cup Range(queue')
    BY <1>4, <2>1, TailRange DEF TakePacket
  <2>3. QueuedOnce' /\ Head(queue) \notin Range(queue')
    <3>1. /\ DOMAIN queue = 1..Len(queue) /\ 1 \in DOMAIN queue
          /\ Head(queue) = queue[1]
          /\ DOMAIN queue' = 1..Len(queue) - 1
          /\ \A i \in DOMAIN queue' : queue'[i] = queue[i + 1] /\ i + 1 \in DOMAIN queue
      BY <2>1, <2>2, TailRange
    <3>2. \A i, j \in DOMAIN queue' : queue'[i] = queue'[j] => i = j
      BY <3>1 DEF OneOwner, QueuedOnce
    <3>3. \A i \in DOMAIN queue' : queue'[i] # queue[1]
      BY <3>1 DEF OneOwner, QueuedOnce
    <3> QED
      BY <3>1, <3>2, <3>3 DEF QueuedOnce, Range
  <2>4. TypeOK'
    BY <1>4, <2>2 DEF TakePacket, TypeOK, connVars, netVars
  <2>5. AllocatedInv' /\ OneOwner'
    BY <1>4, <2>2, <2>3 DEF TakePacket, AllocatedInv, OneOwner, Buffers, connVars
  <2>6. PacketInv' /\ WindowInBounds' /\ SequenceInv'
    BY <1>4 DEF TakePacket, PacketInv, WindowInBounds, SequenceInv, Buffers, connVars,
                netVars
  <2> QED
    BY <2>4, <2>5, <2>6
<1>5. ASSUME NEW b \in working, FreePacket(b)
      PROVE  IInv'
  <2>1. TypeOK'
    BY <1>5 DEF FreePacket, TypeOK, connVars, netVars
  <2>2. AllocatedInv' /\ OneOwner'
    BY <1>5 DEF FreePacket, AllocatedInv, OneOwner, QueuedOnce, Buffers, connVars
  <2>3. PacketInv' /\ WindowInBounds' /\ SequenceInv'
    BY <1>5 DEF FreePacket, PacketInv, WindowInBounds, SequenceInv, Buffers, connVars,
                netVars
  <2> QED
    BY <2>1, <2>2, <2>3
<1>6. CASE Send
  <2>1. TypeOK'
    BY <1>6 DEF Send, TypeOK, connVars
  <2>2. SequenceInv'
    BY <1>6 DEF Send, SequenceInv, Buffers
  <2> QED
    BY <1>1, <1>6, <2>1, <2>2 DEF Send
<1>7. CASE Leave
  <2>1. TypeOK'
    BY <1>7 DEF Leave, TypeOK, connVars
  <2>2. SequenceInv'
    BY <1>7 DEF Leave, SequenceInv, Buffers
  <2> QED
    BY <1>1, <1>7, <2>1, <2>2 DEF Leave
<1>8. CASE UNCHANGED vars
  <2>1. TypeOK' /\ SequenceInv'
    BY <1>8 DEF vars, connVars, netVars, TypeOK, SequenceInv, Buffers
  <2> QED
    BY <1>1, <1>8, <2>1 DEF vars
<1> QED
  BY <1>3, <1>4, <1>5, <1>6, <1>7, <1>8 DEF Next, ReadEvent

THEOREM StepInv == IInv /\ [Next]_vars => IInv'
  BY ReadDataInv, OtherStepsInv

THEOREM Invariance == Spec => []IInv
  BY InitInv, StepInv, PTL DEF Spec

\* Type correctness of the receiving machine.
THEOREM TypeCorrect == Spec => []TypeOK
<1>1. IInv => TypeOK
  BY DEF IInv
<1> QED
  BY <1>1, Invariance, PTL

\* Whatever lengths a client declares and however its bytes arrive, recv() is
\* never given a window outside the memory it belongs to, nor an empty one.
THEOREM WindowSafe == Spec => []WindowInBounds
<1>1. IInv => WindowInBounds
  BY DEF IInv
<1> QED
  BY <1>1, Invariance, PTL

\* The connection, the queue, the pool threads and the allocator never share a
\* buffer, so no packet is written after it was queued and none is freed twice.
THEOREM OwnershipSafe == Spec => []OneOwner
<1>1. IInv => OneOwner
  BY DEF IInv
<1> QED
  BY <1>1, Invariance, PTL

\* The comparison of sequence numbers in threadRecvProcFunc tells the packets of
\* a recycled connection from those of a live one.
THEOREM StaleDetected == Spec => []StaleIsVisible
<1>1. IInv => StaleIsVisible
  <2> SUFFICES ASSUME IInv, NEW b \in Range(queue) \cup working
               PROVE  (heap[b].seq = iCurrsequence) <=> (recy = 0)
    BY DEF StaleIsVisible
  <2>1. b \in Buffers /\ recy \in Nat /\ iCurrsequence \in Nat
    BY DEF IInv, AllocatedInv, TypeOK
  <2>2. recy = 0 \/ recy > 0
    BY <2>1
  <2> QED
    BY <2>1, <2>2 DEF IInv, SequenceInv
<1> QED
  BY <1>1, Invariance, PTL
=============================================================================
