---------------------------- MODULE DispatchProofs ----------------------------
(***************************************************************************)
(* Proofs about Dispatch, for every set of threads, connections and        *)
(* packets, and every number of packets and of lives of a connection.      *)
(***************************************************************************)
EXTENDS Dispatch, TLAPS

\* The pool hands out the messages in order: those that wait came last, and what
\* a thread has was handed out to it alone.
FlowInv ==
  /\ Len(pending) <= arrived
  /\ \A i \in 1..Len(pending) : pending[i] = (arrived - Len(pending)) + i
  /\ \A t \in Threads : hand[t] <= arrived - Len(pending)
  /\ \A t \in Threads : hand[t] = 0 <=> pc[t] = "idle"
  /\ \A t, u \in Threads : hand[t] = hand[u] /\ hand[t] # 0 => t = u

\* What a thread has found out about its packet.
Registers(packet) == packet = [body |-> "register", crc |-> TRUE, msgCode |-> 5]

Checked == {"sequence", "code", "register", "login", "lock", "answer"}

StageInv ==
  \A t \in Threads :
    /\ pc[t] \in Checked => Msg(t).packet.crc = TRUE /\ ~IsNull(Msg(t))
    /\ pc[t] = "register" => Msg(t).packet.msgCode = 5
    /\ pc[t] \in {"lock", "answer"} => Registers(Msg(t).packet)

\* The number in a header is the connection's as long as its client has it, and
\* behind it from then on: in a packet that is being received, one that has been, and an
\* answer.
Traceable(h, conn) ==
  \/ IsNull(h)
  \/ /\ h.iCurrsequence <= iCurrsequence[conn]
     /\ h.iCurrsequence = iCurrsequence[conn] => Has(h.client, conn)

TraceInv ==
  /\ \A c \in Conns : Traceable(precvMemPointer[c], c)
  /\ \A n \in 1..arrived : Traceable(message[n], message[n].conn)
  /\ \A i \in DOMAIN m_MsgSendQueue :
       ~IsNull(m_MsgSendQueue[i]) /\ Traceable(m_MsgSendQueue[i], m_MsgSendQueue[i].conn)

\* A request that is answered was handed out, and whoever still has it is done.
DueInv ==
  \A i \in DOMAIN m_MsgSendQueue :
    LET a == m_MsgSendQueue[i]
        m == message[a.request] IN
      /\ a.request <= arrived - Len(pending)
      /\ \A t \in Threads : hand[t] = a.request => pc[t] = "free"
      /\ Registers(m.packet) /\ a.client = m.client /\ a.conn = m.conn
      /\ \A j \in DOMAIN m_MsgSendQueue :
           m_MsgSendQueue[j].request = a.request => j = i

IInv == TypeOK /\ FlowInv /\ StageInv /\ TraceInv /\ DueInv

USE DispatchAssumption

-----------------------------------------------------------------------------
(* Facts about the state *)

\* What a message header holds, and what an answer holds.
LEMMA MessageFacts ==
  ASSUME TypeOK, NEW n \in 1..arrived
  PROVE  /\ n \in 1..Len(message) /\ message[n] \in MessageType
         /\ message[n].conn \in Conns /\ message[n].client \in Nat
         /\ message[n].iCurrsequence \in Nat /\ message[n].packet \in Packets
<1>1. message \in Seq(MessageType) /\ Len(message) = arrived
  BY DEF TypeOK
<1>2. n \in 1..Len(message) /\ message[n] \in MessageType
  BY <1>1
<1> QED
  BY <1>2 DEF MessageType

LEMMA AnswerFacts ==
  ASSUME TypeOK, NEW i \in DOMAIN m_MsgSendQueue
  PROVE  /\ m_MsgSendQueue[i] \in AnswerType
         /\ m_MsgSendQueue[i].request \in 1..MaxPackets
         /\ m_MsgSendQueue[i].conn \in Conns /\ m_MsgSendQueue[i].client \in Nat
         /\ m_MsgSendQueue[i].iCurrsequence \in Nat
<1>1. m_MsgSendQueue \in Seq(AnswerType)
  BY DEF TypeOK
<1>2. m_MsgSendQueue[i] \in AnswerType
  BY <1>1
<1> QED
  BY <1>2 DEF AnswerType

\* A thread that is not idle has a message that has arrived.
LEMMA HandFacts ==
  ASSUME TypeOK, FlowInv, NEW t \in Threads, pc[t] # "idle"
  PROVE  /\ hand[t] \in 1..arrived /\ hand[t] <= arrived - Len(pending)
         /\ Msg(t) = message[hand[t]] /\ Msg(t).conn \in Conns
<1>1. hand[t] \in 0..arrived /\ arrived \in 0..MaxPackets /\ Len(pending) \in Nat
  BY DEF TypeOK
<1>2. hand[t] # 0 /\ hand[t] <= arrived - Len(pending)
  BY DEF FlowInv
<1>3. hand[t] \in 1..arrived
  BY <1>1, <1>2
<1> QED
  BY <1>2, <1>3, MessageFacts DEF Msg

LEMMA InitInv == Init => IInv
<1> SUFFICES ASSUME Init PROVE IInv
  OBVIOUS
<1>1. /\ message = <<>> /\ m_MsgSendQueue = <<>> /\ pending = <<>>
      /\ arrived = 0 /\ \A t \in Threads : hand[t] = 0 /\ pc[t] = "idle"
  BY DEF Init, Pool!Init
<1>2. TypeOK
  <2>1. /\ curStat \in [Conns -> {"header", "body"}]
        /\ precvMemPointer \in [Conns -> HeaderType]
    BY DEF Init, NullPtr, HeaderType
  <2>2. /\ hand \in [Threads -> 0..arrived] /\ arrived \in 0..MaxPackets
        /\ m_semEventSendQueue \in 0..Len(m_MsgSendQueue)
    BY DEF Init, Pool!Init
  <2>3. /\ iCurrsequence \in [Conns -> 0..MaxSequence]
        /\ recycling \in [Conns -> Nat] /\ free \in [Conns -> Nat]
        /\ client \in [Conns -> Nat]
    BY DEF Init
  <2>4. /\ served \in [Conns -> BOOLEAN] /\ leftOpen \in [Conns -> BOOLEAN]
        /\ logicPorcMutex \in [Conns -> Threads \cup {Nobody}]
    BY DEF Init
  <2>5. /\ clients = 0 /\ released = {} /\ stopped = FALSE /\ over = FALSE
        /\ m_iSendMsgQueueCount = 0 /\ pc \in [Threads -> Labels]
    BY DEF Init, Pool!Init, Labels
  <2>6. /\ message \in Seq(MessageType) /\ Len(message) = arrived
        /\ pending \in Seq(1..MaxPackets) /\ released \subseteq 1..MaxPackets
        /\ m_MsgSendQueue \in Seq(AnswerType)
        /\ m_iSendMsgQueueCount = Len(m_MsgSendQueue)
    BY <1>1, <2>5
  <2> QED
    BY <2>1, <2>2, <2>3, <2>4, <2>5, <2>6 DEF TypeOK
<1>3. FlowInv /\ StageInv
  BY <1>1 DEF FlowInv, StageInv, Checked
<1>4. TraceInv /\ DueInv
  <2>1. \A c \in Conns : precvMemPointer[c] = NullPtr
    BY DEF Init
  <2> QED
    BY <1>1, <2>1 DEF TraceInv, Traceable, IsNull, NullPtr, DueInv
<1> QED
  BY <1>2, <1>3, <1>4 DEF IInv

-----------------------------------------------------------------------------
(* Steps of the connections *)

\* A header stays traceable when a connection's number grows.
LEMMA TraceableKept ==
  ASSUME TypeOK, NEW c \in Conns, Increment(c),
         \A d \in Conns \ {c} : served'[d] = served[d] /\ client'[d] = client[d],
         NEW conn \in Conns, NEW h, h.iCurrsequence \in Nat, Traceable(h, conn)
  PROVE  \/ IsNull(h)
         \/ /\ h.iCurrsequence <= iCurrsequence'[conn]
            /\ h.iCurrsequence = iCurrsequence'[conn] => Has(h.client, conn)'
<1> SUFFICES ASSUME ~IsNull(h)
             PROVE  /\ h.iCurrsequence <= iCurrsequence'[conn]
                    /\ h.iCurrsequence = iCurrsequence'[conn] => Has(h.client, conn)'
  OBVIOUS
<1>0. /\ h.iCurrsequence <= iCurrsequence[conn]
      /\ h.iCurrsequence = iCurrsequence[conn] => Has(h.client, conn)
  BY DEF Traceable
<1>1. /\ iCurrsequence \in [Conns -> 0..MaxSequence]
      /\ iCurrsequence' = [iCurrsequence EXCEPT ![c] = iCurrsequence[c] + 1]
  BY DEF TypeOK, Increment
<1>2. iCurrsequence[c] \in Nat
  BY <1>1
<1>3. CASE conn = c
  <2>1. iCurrsequence'[c] = iCurrsequence[c] + 1
    BY <1>1
  <2> QED
    BY <1>0, <1>2, <1>3, <2>1
<1>4. CASE conn # c
  <2>1. iCurrsequence'[conn] = iCurrsequence[conn]
    BY <1>1, <1>4
  <2> QED
    BY <1>0, <1>4, <2>1 DEF Has
<1> QED
  BY <1>3, <1>4

LEMMA ConnectionStep ==
  ASSUME IInv, NEW c \in Conns,
         GetOneToUse(c) \/ inRecyConnectQueue(c) \/ PutOneToFree(c)
  PROVE  IInv'
<1>1. TypeOK /\ TraceInv
  BY DEF IInv
<1>2. /\ served \in [Conns -> BOOLEAN] /\ leftOpen \in [Conns -> BOOLEAN]
      /\ recycling \in [Conns -> Nat] /\ free \in [Conns -> Nat]
      /\ client \in [Conns -> Nat] /\ clients \in Nat
      /\ iCurrsequence \in [Conns -> 0..MaxSequence]
      /\ curStat \in [Conns -> {"header", "body"}]
      /\ precvMemPointer \in [Conns -> HeaderType]
  BY <1>1 DEF TypeOK
<1>3. /\ served' \in [Conns -> BOOLEAN] /\ leftOpen' \in [Conns -> BOOLEAN]
      /\ \A d \in Conns \ {c} : served'[d] = served[d]
  <2>1. CASE GetOneToUse(c)
    BY <1>2, <2>1, Zenon DEF GetOneToUse
  <2>2. CASE inRecyConnectQueue(c)
    BY <1>2, <2>2 DEF inRecyConnectQueue
  <2>3. CASE PutOneToFree(c)
    BY <1>2, <2>3 DEF PutOneToFree
  <2> QED
    BY <2>1, <2>2, <2>3
<1>4. PICK k \in Nat : client' = [client EXCEPT ![c] = k]
  BY <1>2 DEF GetOneToUse, inRecyConnectQueue, PutOneToFree
<1>5. Increment(c) /\ clients' \in Nat
  BY <1>2 DEF GetOneToUse, inRecyConnectQueue, PutOneToFree
<1>6. UNCHANGED <<message, poolVars, pc, logicPorcMutex, sendVars>>
  BY DEF GetOneToUse, inRecyConnectQueue, PutOneToFree
<1>10. \/ precvMemPointer' = precvMemPointer
       \/ precvMemPointer' = [precvMemPointer EXCEPT ![c] = NullPtr]
  BY DEF GetOneToUse, inRecyConnectQueue, PutOneToFree
<1>7. TypeOK'
  <2>1. iCurrsequence' \in [Conns -> 0..MaxSequence]
    <3>1. iCurrsequence[c] \in 0..MaxSequence /\ iCurrsequence[c] < MaxSequence
      BY <1>2, <1>5 DEF Increment
    <3>2. iCurrsequence[c] + 1 \in 0..MaxSequence
      BY <3>1
    <3> QED
      BY <1>2, <1>5, <3>2 DEF Increment
  <2>2. recycling' \in [Conns -> Nat] /\ free' \in [Conns -> Nat]
    BY <1>2 DEF GetOneToUse, inRecyConnectQueue, PutOneToFree
  <2>3. client' \in [Conns -> Nat]
    BY <1>2, <1>4
  <2>4. curStat' \in [Conns -> {"header", "body"}]
    BY <1>2 DEF GetOneToUse, inRecyConnectQueue, PutOneToFree
  <2>5. precvMemPointer' \in [Conns -> HeaderType]
    <3>1. NullPtr \in HeaderType
      BY DEF NullPtr, HeaderType
    <3> QED
      BY <1>2, <1>10, <3>1
  <2> QED
    BY <1>1, <1>3, <1>5, <1>6, <2>1, <2>2, <2>3, <2>4, <2>5 DEF TypeOK, poolVars, sendVars
<1>8. FlowInv' /\ StageInv' /\ DueInv'
  BY <1>6 DEF IInv, FlowInv, StageInv, DueInv, Msg, poolVars, sendVars
<1>9. \A d \in Conns \ {c} : served'[d] = served[d] /\ client'[d] = client[d]
  BY <1>2, <1>3, <1>4
<1>11. TraceInv'
  <2>1. ASSUME NEW n \in 1..arrived PROVE Traceable(message[n], message[n].conn)'
    <3>1. Traceable(message[n], message[n].conn)
      BY <1>1 DEF TraceInv
    <3> QED
      BY <1>1, <1>5, <1>6, <1>9, <3>1, MessageFacts, TraceableKept DEF Traceable
  <2>2. ASSUME NEW i \in DOMAIN m_MsgSendQueue
        PROVE  Traceable(m_MsgSendQueue[i], m_MsgSendQueue[i].conn)'
    <3>1. Traceable(m_MsgSendQueue[i], m_MsgSendQueue[i].conn)
      BY <1>1 DEF TraceInv
    <3> QED
      BY <1>1, <1>5, <1>6, <1>9, <3>1, AnswerFacts, TraceableKept
      DEF Traceable, sendVars
  <2>3. ASSUME NEW d \in Conns PROVE Traceable(precvMemPointer[d], d)'
    <3>1. precvMemPointer'[d] = precvMemPointer[d] \/ precvMemPointer'[d] = NullPtr
      BY <1>2, <1>10
    <3>2. CASE precvMemPointer'[d] = NullPtr
      BY <3>2 DEF Traceable, IsNull, NullPtr
    <3>3. CASE precvMemPointer'[d] = precvMemPointer[d]
      <4>1. Traceable(precvMemPointer[d], d)
        BY <1>1 DEF TraceInv
      <4>2. precvMemPointer[d].iCurrsequence \in Nat
        BY <1>2 DEF HeaderType
      <4> QED
        BY <1>1, <1>5, <1>9, <3>3, <4>1, <4>2, TraceableKept DEF Traceable
    <3> QED
      BY <3>1, <3>2, <3>3
  <2> QED
    BY <1>1, <1>6, <2>1, <2>2, <2>3 DEF TraceInv, IsNull, poolVars, sendVars
<1> QED
  BY <1>7, <1>8, <1>11 DEF IInv

\* Append, spelled out.
LEMMA AppendFacts ==
  ASSUME NEW S, NEW s \in Seq(S), NEW e \in S
  PROVE  /\ Append(s, e) \in Seq(S) /\ Len(Append(s, e)) = Len(s) + 1
         /\ DOMAIN Append(s, e) = DOMAIN s \cup {Len(s) + 1}
         /\ \A i \in DOMAIN s : Append(s, e)[i] = s[i]
         /\ Append(s, e)[Len(s) + 1] = e
  OBVIOUS

\* A header is complete; the packet's message header is filled in.
LEMMA HeaderStep ==
  ASSUME IInv, NEW c \in Conns, ReceiveHeader(c)
  PROVE  IInv'
<1>1. TypeOK /\ TraceInv
  BY DEF IInv
<1>2. /\ UNCHANGED <<iCurrsequence, served, recycling, free, leftOpen, client, clients>>
      /\ UNCHANGED <<message, poolVars, pc, logicPorcMutex, sendVars>>
      /\ served[c]
      /\ curStat' = [curStat EXCEPT ![c] = "body"]
      /\ precvMemPointer' = [precvMemPointer EXCEPT ![c] = MsgHeader(c)]
  BY DEF ReceiveHeader
<1>3. iCurrsequence[c] \in Nat /\ client[c] \in Nat
  BY <1>1 DEF TypeOK
<1>4. TypeOK'
  <2>1. MsgHeader(c) \in HeaderType
    BY <1>3 DEF MsgHeader, HeaderType
  <2>2. precvMemPointer' \in [Conns -> HeaderType] /\ curStat' \in [Conns -> {"header", "body"}]
    BY <1>1, <1>2, <2>1 DEF TypeOK
  <2> QED
    BY <1>1, <1>2, <2>2 DEF TypeOK, poolVars, sendVars
<1>5. FlowInv' /\ StageInv' /\ DueInv'
  BY <1>2 DEF IInv, FlowInv, StageInv, DueInv, Msg, poolVars, sendVars
<1>6. TraceInv'
  <2>1. ASSUME NEW d \in Conns PROVE Traceable(precvMemPointer[d], d)'
    <3>1. CASE d = c
      <4>1. precvMemPointer'[d] = MsgHeader(c)
        BY <1>1, <1>2, <3>1 DEF TypeOK
      <4>2. /\ precvMemPointer'[d].iCurrsequence = iCurrsequence'[d]
            /\ precvMemPointer'[d].client = client'[d]
        BY <1>2, <3>1, <4>1 DEF MsgHeader
      <4> QED
        BY <1>2, <1>3, <3>1, <4>2 DEF Traceable, Has
    <3>2. CASE d # c
      <4>1. precvMemPointer'[d] = precvMemPointer[d]
        BY <1>1, <1>2, <3>2 DEF TypeOK
      <4> QED
        BY <1>1, <1>2, <4>1 DEF TraceInv, Traceable, Has
    <3> QED
      BY <3>1, <3>2
  <2> QED
    BY <1>1, <1>2, <2>1 DEF TraceInv, Traceable, Has, IsNull, poolVars, sendVars
<1> QED
  BY <1>4, <1>5, <1>6 DEF IInv

\* A packet is complete: its message header is new, or what proc_p1 left.
LEMMA ReceiveStep ==
  ASSUME IInv, NEW c \in Conns, NEW packet \in Packets,
         ReceiveAlone(c, packet) \/ ReceiveBody(c, packet)
  PROVE  IInv'
<1>0. PICK header \in HeaderType :
        /\ proc_plast(c, header, packet) /\ Traceable(header, c)
        /\ arrived < MaxPackets
        /\ precvMemPointer' \in {precvMemPointer, [precvMemPointer EXCEPT ![c] = NullPtr]}
  <2>1. /\ iCurrsequence \in [Conns -> 0..MaxSequence] /\ client \in [Conns -> Nat]
        /\ precvMemPointer \in [Conns -> HeaderType] /\ TraceInv
    BY DEF IInv, TypeOK
  <2>2. CASE ReceiveAlone(c, packet)
    <3>1. MsgHeader(c) \in HeaderType /\ Traceable(MsgHeader(c), c)
      BY <2>1, <2>2 DEF ReceiveAlone, MsgHeader, HeaderType, Traceable, Has
    <3> QED
      BY <2>2, <3>1 DEF ReceiveAlone, connVars
  <2>3. CASE ReceiveBody(c, packet)
    <3>1. precvMemPointer[c] \in HeaderType /\ Traceable(precvMemPointer[c], c)
      BY <2>1 DEF TraceInv
    <3> QED
      BY <2>3, <3>1 DEF ReceiveBody
  <2> QED
    BY <2>2, <2>3
<1> DEFINE h == [conn |-> c, iCurrsequence |-> header.iCurrsequence,
                 client |-> header.client, packet |-> packet]
<1>1. TypeOK /\ FlowInv
  BY DEF IInv
<1>2. /\ arrived \in 0..MaxPackets /\ arrived < MaxPackets
      /\ arrived' = arrived + 1 /\ pending' = Append(pending, arrived + 1)
      /\ message' = Append(message, h)
      /\ UNCHANGED <<iCurrsequence, served, recycling, free, leftOpen, client, clients>>
      /\ UNCHANGED <<pc, logicPorcMutex, sendVars, hand, released, stopped, over>>
  BY <1>0, <1>1 DEF ReceiveAlone, ReceiveBody, proc_plast, Pool!Arrive, TypeOK, connVars
<1>3. /\ message \in Seq(MessageType) /\ Len(message) = arrived
      /\ pending \in Seq(1..MaxPackets)
  BY <1>1 DEF TypeOK
<1>4. h \in MessageType /\ arrived + 1 \in 1..MaxPackets
  <2>1. header.iCurrsequence \in Nat /\ header.client \in Nat
    BY <1>0 DEF HeaderType
  <2> QED
    BY <1>2, <2>1 DEF MessageType
<1>5. /\ message' \in Seq(MessageType) /\ Len(message') = arrived'
      /\ \A n \in 1..arrived : message'[n] = message[n]
      /\ message'[arrived + 1] = h
  BY <1>2, <1>3, <1>4, AppendFacts
<1>6. /\ pending' \in Seq(1..MaxPackets) /\ Len(pending') = Len(pending) + 1
      /\ \A i \in 1..Len(pending) : pending'[i] = pending[i]
      /\ pending'[Len(pending) + 1] = arrived + 1
  BY <1>2, <1>3, <1>4, AppendFacts
<1>7. Len(pending) \in Nat /\ arrived' - Len(pending') = arrived - Len(pending)
  BY <1>2, <1>3, <1>6
<1>8. TypeOK'
  <2>1. arrived' \in 0..MaxPackets /\ hand' \in [Threads -> 0..arrived']
    <3>1. hand \in [Threads -> 0..arrived]
      BY <1>1 DEF TypeOK
    <3>2. 0..arrived \subseteq 0..arrived'
      BY <1>2
    <3>3. hand' \in [Threads -> 0..arrived']
      BY <1>2, <3>1, <3>2
    <3> QED
      BY <1>2, <3>3
  <2>2. curStat' \in [Conns -> {"header", "body"}]
    BY <1>1 DEF TypeOK, ReceiveAlone, ReceiveBody, connVars
  <2>3. precvMemPointer' \in [Conns -> HeaderType]
    <3>1. NullPtr \in HeaderType
      BY DEF NullPtr, HeaderType
    <3> QED
      BY <1>0, <1>1, <3>1 DEF TypeOK
  <2> QED
    BY <1>1, <1>2, <1>5, <1>6, <2>1, <2>2, <2>3 DEF TypeOK, sendVars
<1>9. FlowInv'
  <2>1. Len(pending') <= arrived'
    BY <1>1, <1>2, <1>6, <1>7 DEF FlowInv
  <2>2. ASSUME NEW i \in 1..Len(pending')
        PROVE  pending'[i] = (arrived' - Len(pending')) + i
    <3>1. CASE i \in 1..Len(pending)
      BY <1>1, <1>6, <1>7, <3>1 DEF FlowInv
    <3>2. CASE i = Len(pending) + 1
      BY <1>2, <1>6, <1>7, <3>2
    <3> QED
      BY <1>6, <1>7, <3>1, <3>2
  <2> QED
    BY <1>1, <1>2, <1>7, <2>1, <2>2 DEF FlowInv
<1>10. StageInv'
  <2>1. ASSUME NEW t \in Threads, pc[t] # "idle" PROVE Msg(t)' = Msg(t)
    BY <1>1, <1>2, <1>5, <2>1, HandFacts DEF Msg
  <2> QED
    BY <1>2, <2>1 DEF IInv, StageInv, Checked
<1>11. TraceInv'
  <2>1. ASSUME NEW n \in 1..arrived' PROVE Traceable(message[n], message[n].conn)'
    <3>1. CASE n \in 1..arrived
      <4>1. Traceable(message[n], message[n].conn)
        BY <3>1 DEF IInv, TraceInv
      <4> QED
        BY <1>2, <1>5, <3>1, <4>1 DEF Traceable, Has
    <3>2. CASE n = arrived + 1
      <4>1. /\ message'[n].iCurrsequence = header.iCurrsequence
            /\ message'[n].client = header.client /\ message'[n].conn = c
        BY <1>5, <3>2
      <4> QED
        BY <1>0, <1>2, <4>1 DEF Traceable, Has, IsNull
    <3>3. n \in 1..arrived \/ n = arrived + 1
      BY <1>2
    <3> QED
      BY <3>1, <3>2, <3>3
  <2>2. \A i \in DOMAIN m_MsgSendQueue :
          /\ ~IsNull(m_MsgSendQueue[i])'
          /\ Traceable(m_MsgSendQueue[i], m_MsgSendQueue[i].conn)'
    BY <1>2 DEF IInv, TraceInv, Traceable, Has, IsNull, sendVars
  <2>3. ASSUME NEW d \in Conns PROVE Traceable(precvMemPointer[d], d)'
    <3>1. precvMemPointer'[d] = precvMemPointer[d] \/ precvMemPointer'[d] = NullPtr
      BY <1>0, <1>1 DEF TypeOK
    <3>2. CASE precvMemPointer'[d] = NullPtr
      BY <3>2 DEF Traceable, IsNull, NullPtr
    <3>3. CASE precvMemPointer'[d] = precvMemPointer[d]
      BY <1>2, <3>3 DEF IInv, TraceInv, Traceable, Has
    <3> QED
      BY <3>1, <3>2, <3>3
  <2> QED
    BY <1>2, <2>1, <2>2, <2>3 DEF TraceInv, sendVars
<1>12. DueInv'
  <2>1. ASSUME NEW i \in DOMAIN m_MsgSendQueue
        PROVE  message'[m_MsgSendQueue[i].request] = message[m_MsgSendQueue[i].request]
    <3>1. m_MsgSendQueue[i].request <= arrived - Len(pending)
      BY DEF IInv, DueInv
    <3>2. m_MsgSendQueue[i].request \in 1..arrived
      BY <1>1, <1>2, <1>7, <3>1, AnswerFacts
    <3> QED
      BY <1>5, <3>2
  <2>2. m_MsgSendQueue' = m_MsgSendQueue /\ hand' = hand /\ pc' = pc
    BY <1>2 DEF sendVars
  <2>3. DueInv
    BY DEF IInv
  <2> QED
    BY <1>7, <2>1, <2>2, <2>3 DEF DueInv
<1> QED
  BY <1>8, <1>9, <1>10, <1>11, <1>12 DEF IInv

-----------------------------------------------------------------------------
(* Steps of the threads *)

\* A thread goes on with its message.
LEMMA Moves ==
  ASSUME IInv, NEW t \in Threads, pc[t] \notin {"idle", "free"},
         NEW next \in Labels \ {"idle"}, Goto(t, next),
         UNCHANGED <<message, poolVars>>,
         next \in Checked => Msg(t).packet.crc = TRUE /\ ~IsNull(Msg(t)),
         next = "register" => Msg(t).packet.msgCode = 5,
         next \in {"lock", "answer"} => Registers(Msg(t).packet)
  PROVE  /\ pc' \in [Threads -> Labels] /\ FlowInv' /\ StageInv'
         /\ \A i \in DOMAIN m_MsgSendQueue : m_MsgSendQueue[i].request # hand[t]
<1>1. pc \in [Threads -> Labels] /\ pc' = [pc EXCEPT ![t] = next]
  BY DEF IInv, TypeOK, Goto
<1>2. pc' \in [Threads -> Labels]
  BY <1>1
<1>3. \A u \in Threads : pc'[u] = IF u = t THEN next ELSE pc[u]
  BY <1>1
<1>4. \A u \in Threads : Msg(u)' = Msg(u)
  BY DEF Msg, poolVars
<1>5. FlowInv'
  BY <1>3 DEF IInv, FlowInv, poolVars
<1>6. StageInv'
  BY <1>3, <1>4 DEF IInv, StageInv
<1>7. \A i \in DOMAIN m_MsgSendQueue : m_MsgSendQueue[i].request # hand[t]
  BY DEF IInv, DueInv
<1> QED
  BY <1>2, <1>5, <1>6, <1>7

\* Connections and answers stay as they are.
LEMMA NothingSent ==
  ASSUME IInv, NEW t \in Threads, pc[t] \notin {"idle", "free"},
         NEW next \in Labels \ {"idle"}, Goto(t, next),
         UNCHANGED <<connVars, message, poolVars, sendVars>>,
         logicPorcMutex' \in [Conns -> Threads \cup {Nobody}],
         next \in Checked => Msg(t).packet.crc = TRUE /\ ~IsNull(Msg(t)),
         next = "register" => Msg(t).packet.msgCode = 5,
         next \in {"lock", "answer"} => Registers(Msg(t).packet)
  PROVE  IInv'
<1>1. /\ pc' \in [Threads -> Labels] /\ FlowInv' /\ StageInv'
      /\ \A i \in DOMAIN m_MsgSendQueue : m_MsgSendQueue[i].request # hand[t]
  BY Moves
<1>2. TypeOK'
  BY <1>1 DEF IInv, TypeOK, connVars, poolVars, sendVars
<1>3. TraceInv'
  BY DEF IInv, TraceInv, Traceable, Has, IsNull, connVars, poolVars, sendVars
<1>4. \A u \in Threads : u # t => pc'[u] = pc[u]
  BY DEF IInv, TypeOK, Goto
<1>5. DueInv'
  BY <1>1, <1>4 DEF IInv, DueInv, poolVars, sendVars
<1> QED
  BY <1>1, <1>2, <1>3, <1>5 DEF IInv

\* The steps that only look at the message, and the one that takes the mutex.
LEMMA StageStep ==
  ASSUME IInv, NEW t \in Threads,
         \/ CheckCrc(t) \/ CheckSequence(t) \/ CheckCode(t)
         \/ HandleLogIn(t) \/ HandleRegister(t) \/ Lock(t)
  PROVE  IInv'
<1> USE DEF At, Only
<1>1. TypeOK /\ StageInv /\ logicPorcMutex \in [Conns -> Threads \cup {Nobody}]
  BY DEF IInv, TypeOK
<1>2. (UNCHANGED logicPorcMutex) => logicPorcMutex' \in [Conns -> Threads \cup {Nobody}]
  BY <1>1
<1>9. pc[t] \in Checked => Msg(t).packet.crc = TRUE /\ ~IsNull(Msg(t))
  BY <1>1 DEF StageInv
<1>3. CASE CheckCrc(t)
  <2>1. PICK next \in {"sequence", "free"} :
          Only(t, next) /\ (next = "sequence" => Msg(t).packet.crc)
    BY <1>3 DEF CheckCrc
  <2>2. Msg(t).packet.crc \in BOOLEAN
    <3>1. Msg(t) = message[hand[t]] /\ hand[t] \in 1..arrived
      BY <1>1, <1>3, HandFacts DEF CheckCrc, IInv
    <3>2. Msg(t).packet \in PacketType
      BY <1>1, <3>1, MessageFacts
    <3> QED
      BY <3>2 DEF PacketType
  <2>3. next = "sequence" => Msg(t).packet.crc = TRUE /\ ~IsNull(Msg(t))
    BY <1>3, <2>1, <2>2 DEF CheckCrc
  <2> QED
    BY <1>2, <1>3, <2>1, <2>3, NothingSent DEF CheckCrc, Checked, Labels
<1>4. CASE CheckSequence(t)
  <2>1. PICK next \in {"code", "free"} : Only(t, next)
    BY <1>4 DEF CheckSequence
  <2>2. Msg(t).packet.crc = TRUE /\ ~IsNull(Msg(t))
    BY <1>9, <1>4 DEF CheckSequence, Checked
  <2> QED
    BY <1>2, <1>4, <2>1, <2>2, NothingSent DEF CheckSequence, Labels
<1>5. CASE CheckCode(t)
  <2>1. PICK next \in {"register", "login", "free"} :
          Only(t, next) /\ (next = "register" => Msg(t).packet.msgCode = 5)
    BY <1>5 DEF CheckCode, statusHandler
  <2>2. Msg(t).packet.crc = TRUE /\ ~IsNull(Msg(t))
    BY <1>9, <1>5 DEF CheckCode, Checked
  <2> QED
    BY <1>2, <1>5, <2>1, <2>2, NothingSent DEF CheckCode, Labels
<1>6. CASE HandleLogIn(t)
  BY <1>2, <1>6, NothingSent DEF HandleLogIn, Labels, Checked
<1>7. CASE HandleRegister(t)
  <2>1. PICK next \in {"lock", "free"} :
          Only(t, next) /\ (next = "lock" => Msg(t).packet.body = "register")
    BY <1>7 DEF HandleRegister, RegisterBody
  <2>2. Msg(t).packet.crc = TRUE /\ ~IsNull(Msg(t)) /\ Msg(t).packet.msgCode = 5
    BY <1>1, <1>9, <1>7 DEF HandleRegister, StageInv, Checked
  <2>3. next = "lock" => Registers(Msg(t).packet)
    <3>1. Msg(t) = message[hand[t]] /\ hand[t] \in 1..arrived
      BY <1>1, <1>7, HandFacts DEF HandleRegister, IInv
    <3>2. Msg(t).packet \in PacketType
      BY <1>1, <3>1, MessageFacts
    <3> QED
      BY <2>1, <2>2, <3>2 DEF PacketType, Registers
  <2> QED
    BY <1>2, <1>7, <2>1, <2>2, <2>3, NothingSent DEF HandleRegister, Labels
<1>8. CASE Lock(t)
  <2>1. Msg(t).packet.crc = TRUE /\ ~IsNull(Msg(t)) /\ Registers(Msg(t).packet)
    BY <1>1, <1>9, <1>8 DEF Lock, StageInv, Checked
  <2>2. logicPorcMutex' \in [Conns -> Threads \cup {Nobody}]
    BY <1>1, <1>8 DEF Lock
  <2> QED
    BY <1>8, <2>1, <2>2, NothingSent DEF Lock, Labels
<1> QED
  BY <1>3, <1>4, <1>5, <1>6, <1>7, <1>8

LEMMA AnswerStep ==
  ASSUME IInv, NEW t \in Threads, Answer(t)
  PROVE  IInv'
<1>1. TypeOK /\ FlowInv /\ pc[t] = "answer"
  BY DEF IInv, Answer, At
<1>2. /\ Goto(t, "free") /\ UNCHANGED <<connVars, message, poolVars>>
      /\ m_MsgSendQueue' = Append(m_MsgSendQueue, AnswerHeader(t))
      /\ m_iSendMsgQueueCount' = m_iSendMsgQueueCount + 1
      /\ m_semEventSendQueue' \in {m_semEventSendQueue, m_semEventSendQueue + 1}
      /\ Unlock(Msg(t).conn)
  BY DEF Answer, msgSend
<1>3. /\ pc' \in [Threads -> Labels] /\ FlowInv' /\ StageInv'
      /\ \A i \in DOMAIN m_MsgSendQueue : m_MsgSendQueue[i].request # hand[t]
  BY <1>1, <1>2, Moves DEF Labels, Checked
<1>4. /\ hand[t] \in 1..arrived /\ hand[t] <= arrived - Len(pending)
      /\ Msg(t) = message[hand[t]]
  BY <1>1, HandFacts
<1>5. AnswerHeader(t) \in AnswerType
  <2>1. arrived \in 0..MaxPackets
    BY <1>1 DEF TypeOK
  <2> QED
    BY <1>1, <1>4, <2>1, MessageFacts DEF AnswerHeader, AnswerType
<1>6. /\ m_MsgSendQueue \in Seq(AnswerType)
      /\ m_MsgSendQueue' \in Seq(AnswerType)
      /\ Len(m_MsgSendQueue') = Len(m_MsgSendQueue) + 1
      /\ DOMAIN m_MsgSendQueue' = DOMAIN m_MsgSendQueue \cup {Len(m_MsgSendQueue) + 1}
      /\ \A i \in DOMAIN m_MsgSendQueue : m_MsgSendQueue'[i] = m_MsgSendQueue[i]
      /\ m_MsgSendQueue'[Len(m_MsgSendQueue) + 1] = AnswerHeader(t)
  <2>1. m_MsgSendQueue \in Seq(AnswerType)
    BY <1>1 DEF TypeOK
  <2> QED
    BY <1>2, <1>5, <2>1, AppendFacts
<1>7. TypeOK'
  <2>1. logicPorcMutex' \in [Conns -> Threads \cup {Nobody}]
    BY <1>1, <1>2 DEF TypeOK, Unlock
  <2>2. /\ m_iSendMsgQueueCount' = Len(m_MsgSendQueue')
        /\ m_semEventSendQueue' \in 0..Len(m_MsgSendQueue')
    BY <1>1, <1>2, <1>6 DEF TypeOK
  <2> QED
    BY <1>1, <1>2, <1>3, <1>6, <2>1, <2>2 DEF TypeOK, connVars, poolVars
<1>8. TraceInv'
  <2>1. Traceable(message[hand[t]], Msg(t).conn) /\ ~IsNull(Msg(t))
    BY <1>1, <1>4 DEF IInv, TraceInv, StageInv, Checked
  <2>2. Traceable(AnswerHeader(t), AnswerHeader(t).conn) /\ ~IsNull(AnswerHeader(t))
    BY <1>4, <2>1 DEF Traceable, AnswerHeader, IsNull
  <2>3. /\ \A c \in Conns : Traceable(precvMemPointer[c], c)'
        /\ \A n \in 1..arrived : Traceable(message[n], message[n].conn)'
    BY <1>2 DEF IInv, TraceInv, Traceable, Has, connVars
  <2>4. ASSUME NEW i \in DOMAIN m_MsgSendQueue'
        PROVE  /\ ~IsNull(m_MsgSendQueue[i])'
               /\ Traceable(m_MsgSendQueue[i], m_MsgSendQueue[i].conn)'
    <3>1. \/ /\ i \in DOMAIN m_MsgSendQueue
             /\ m_MsgSendQueue'[i] = m_MsgSendQueue[i]
          \/ m_MsgSendQueue'[i] = AnswerHeader(t)
      BY <1>6
    <3>2. /\ ~IsNull(m_MsgSendQueue'[i])
          /\ Traceable(m_MsgSendQueue'[i], m_MsgSendQueue'[i].conn)
      BY <2>2, <3>1 DEF IInv, TraceInv
    <3> QED
      BY <1>2, <3>2 DEF IsNull, Traceable, Has, connVars
  <2> QED
    BY <1>2, <2>3, <2>4 DEF TraceInv, poolVars
<1>9. DueInv'
  <2>1. pc'[t] = "free" /\ \A u \in Threads : u # t => pc'[u] = pc[u]
    BY <1>1, <1>2 DEF TypeOK, Goto
  <2>2. /\ AnswerHeader(t).request = hand[t] /\ Registers(message[hand[t]].packet)
        /\ AnswerHeader(t).client = message[hand[t]].client
        /\ AnswerHeader(t).conn = message[hand[t]].conn
    BY <1>1, <1>4 DEF AnswerHeader, IInv, StageInv
  <2>3. \A u \in Threads : hand[u] = hand[t] => u = t
    BY <1>1, <1>4 DEF FlowInv
  <2> DEFINE Due(q) ==
        \A i \in DOMAIN q :
          /\ q[i].request <= arrived - Len(pending)
          /\ \A u \in Threads : hand[u] = q[i].request => pc'[u] = "free"
          /\ Registers(message[q[i].request].packet)
          /\ q[i].client = message[q[i].request].client
          /\ q[i].conn = message[q[i].request].conn
             Alone(q) == \A i, j \in DOMAIN q : q[j].request = q[i].request => j = i
  <2>4. Due(m_MsgSendQueue)
    BY <1>3, <2>1 DEF IInv, DueInv
  <2>5. Due(m_MsgSendQueue')
    BY <1>4, <1>6, <2>1, <2>2, <2>3, <2>4
  <2>6. Alone(m_MsgSendQueue)
    BY DEF IInv, DueInv
  <2>7. Alone(m_MsgSendQueue')
    BY <1>3, <1>6, <2>2, <2>6
  <2> QED
    BY <1>2, <2>5, <2>7 DEF DueInv, poolVars
<1> QED
  BY <1>3, <1>7, <1>8, <1>9 DEF IInv

LEMMA TakeStep ==
  ASSUME IInv, NEW t \in Threads, Take(t)
  PROVE  IInv'
<1>1. TypeOK /\ FlowInv /\ pc[t] = "idle" /\ hand[t] = 0 /\ pending # <<>>
  BY DEF IInv, Take, At, Pool!Take
<1>2. /\ hand' = [hand EXCEPT ![t] = Head(pending)] /\ pending' = Tail(pending)
      /\ pc' = [pc EXCEPT ![t] = "crc"]
      /\ UNCHANGED <<connVars, message, logicPorcMutex, sendVars>>
      /\ UNCHANGED <<released, arrived, stopped, over>>
  BY DEF Take, Pool!Take, Goto
<1>3. /\ pending \in Seq(1..MaxPackets) /\ arrived \in 0..MaxPackets
      /\ hand \in [Threads -> 0..arrived] /\ pc \in [Threads -> Labels]
  BY <1>1 DEF TypeOK
<1>4. /\ Len(pending) \in Nat \ {0} /\ pending[1] = Head(pending)
      /\ pending' \in Seq(1..MaxPackets) /\ Len(pending') = Len(pending) - 1
      /\ \A i \in 1..Len(pending') : pending'[i] = pending[i + 1]
      /\ Head(pending) \in 1..MaxPackets
  BY <1>1, <1>2, <1>3
<1>5. /\ Head(pending) = arrived - Len(pending) + 1 /\ Len(pending) <= arrived
      /\ \A u \in Threads : hand[u] <= arrived - Len(pending)
  <2>1. pending[1] = arrived - Len(pending) + 1
    BY <1>1, <1>3, <1>4 DEF FlowInv
  <2> QED
    BY <1>1, <1>4, <2>1 DEF FlowInv
<1>6. /\ hand'[t] = Head(pending) /\ pc'[t] = "crc"
      /\ \A u \in Threads : u # t => hand'[u] = hand[u] /\ pc'[u] = pc[u]
  BY <1>2, <1>3
<1>7. TypeOK'
  <2>1. hand' \in [Threads -> 0..arrived]
    <3>1. Head(pending) \in 0..arrived
      BY <1>3, <1>4, <1>5
    <3> QED
      BY <1>2, <1>3, <3>1
  <2>2. pc' \in [Threads -> Labels]
    BY <1>2, <1>3 DEF Labels
  <2> QED
    BY <1>1, <1>2, <1>4, <2>1, <2>2 DEF TypeOK, connVars, sendVars
<1>8. FlowInv'
  <2>1. arrived' - Len(pending') = arrived - Len(pending) + 1
    BY <1>2, <1>3, <1>4
  <2>2. \A i \in 1..Len(pending') : pending'[i] = (arrived' - Len(pending')) + i
    BY <1>1, <1>3, <1>4, <2>1, SMTT(20) DEF FlowInv
  <2>3. \A u \in Threads : hand'[u] <= arrived' - Len(pending')
    BY <1>3, <1>4, <1>5, <1>6, <2>1
  <2>4. \A u \in Threads : hand'[u] = 0 <=> pc'[u] = "idle"
    BY <1>1, <1>4, <1>6 DEF FlowInv
  <2>5. \A u \in Threads : u # t => hand'[u] # hand'[t]
    BY <1>3, <1>4, <1>5, <1>6
  <2>6. \A u, v \in Threads : hand'[u] = hand'[v] /\ hand'[u] # 0 => u = v
    BY <1>1, <1>6, <2>5 DEF FlowInv
  <2> QED
    BY <1>2, <1>3, <1>4, <1>5, <2>2, <2>3, <2>4, <2>6 DEF FlowInv
<1>9. StageInv'
  BY <1>2, <1>6 DEF IInv, StageInv, Msg, Checked
<1>10. TraceInv'
  BY <1>2 DEF IInv, TraceInv, Traceable, Has, IsNull, connVars, sendVars
<1>11. DueInv'
  <2>1. \A i \in DOMAIN m_MsgSendQueue :
          /\ m_MsgSendQueue[i].request # hand'[t]
          /\ m_MsgSendQueue[i].request <= arrived - Len(pending')
    <3>1. \A i \in DOMAIN m_MsgSendQueue :
            /\ m_MsgSendQueue[i].request <= arrived - Len(pending)
            /\ m_MsgSendQueue[i].request \in Nat
      BY <1>1, AnswerFacts DEF IInv, DueInv
    <3> QED
      BY <1>3, <1>4, <1>5, <1>6, <3>1
  <2> QED
    BY <1>2, <1>6, <2>1 DEF IInv, DueInv, sendVars
<1> QED
  BY <1>7, <1>8, <1>9, <1>10, <1>11 DEF IInv

LEMMA FreeStep ==
  ASSUME IInv, NEW t \in Threads, FreeMemory(t)
  PROVE  IInv'
<1>1. TypeOK /\ FlowInv /\ pc[t] = "free" /\ hand[t] # 0
  BY DEF IInv, FreeMemory, At, Pool!Release
<1>2. /\ hand' = [hand EXCEPT ![t] = 0] /\ released' = released \cup {hand[t]}
      /\ pc' = [pc EXCEPT ![t] = "idle"]
      /\ UNCHANGED <<connVars, message, logicPorcMutex, sendVars>>
      /\ UNCHANGED <<pending, arrived, stopped, over>>
  BY DEF FreeMemory, Pool!Release, Goto
<1>3. /\ hand \in [Threads -> 0..arrived] /\ pc \in [Threads -> Labels]
      /\ arrived \in 0..MaxPackets
      /\ arrived \in Nat /\ Len(pending) \in Nat /\ Len(pending) <= arrived
  BY <1>1 DEF TypeOK, FlowInv
<1>4. /\ hand'[t] = 0 /\ pc'[t] = "idle"
      /\ \A u \in Threads : u # t => hand'[u] = hand[u] /\ pc'[u] = pc[u]
  BY <1>2, <1>3
<1>5. TypeOK'
  <2>1. hand' \in [Threads -> 0..arrived] /\ hand[t] \in 1..MaxPackets
    BY <1>1, <1>2, <1>3
  <2>2. pc' \in [Threads -> Labels]
    BY <1>2, <1>3 DEF Labels
  <2> QED
    BY <1>1, <1>2, <2>1, <2>2 DEF TypeOK, connVars, sendVars
<1>6. FlowInv'
  BY <1>1, <1>2, <1>3, <1>4 DEF FlowInv
<1>7. StageInv'
  BY <1>2, <1>4 DEF IInv, StageInv, Msg, Checked
<1>8. TraceInv'
  BY <1>2 DEF IInv, TraceInv, Traceable, Has, IsNull, connVars, sendVars
<1>9. DueInv'
  <2>1. \A i \in DOMAIN m_MsgSendQueue : m_MsgSendQueue[i].request # 0
    BY <1>1, AnswerFacts
  <2> QED
    BY <1>2, <1>4, <2>1 DEF IInv, DueInv, sendVars
<1> QED
  BY <1>5, <1>6, <1>7, <1>8, <1>9 DEF IInv

LEMMA CrashStep ==
  ASSUME IInv, NEW t \in Threads, NullCrashes(t)
  PROVE  IInv'
<1>1. /\ over' = TRUE
      /\ UNCHANGED <<connVars, message, pending, hand, released, arrived, stopped>>
      /\ UNCHANGED <<pc, logicPorcMutex, sendVars>>
  BY DEF NullCrashes
<1>2. TypeOK'
  BY <1>1 DEF IInv, TypeOK, connVars, sendVars
<1>3. FlowInv' /\ StageInv' /\ DueInv'
  BY <1>1 DEF IInv, FlowInv, StageInv, DueInv, Msg, sendVars
<1>4. TraceInv'
  BY <1>1 DEF IInv, TraceInv, Traceable, Has, IsNull, connVars, sendVars
<1> QED
  BY <1>2, <1>3, <1>4 DEF IInv

-----------------------------------------------------------------------------
(* The theorems *)

\* Every step keeps the inductive invariant.
THEOREM Invariance == Spec => []IInv
<1>1. IInv /\ [Next]_vars => IInv'
  <2> SUFFICES ASSUME IInv, [Next]_vars PROVE IInv'
    OBVIOUS
  <2>1. CASE \E t \in Threads : Thread(t)
    BY <2>1, TakeStep, CrashStep, StageStep, AnswerStep, FreeStep DEF Thread
  <2>2. CASE \E c \in Conns : Connection(c)
    BY <2>2, ConnectionStep, HeaderStep, ReceiveStep DEF Connection
  <2>3. CASE UNCHANGED vars
    BY <2>3 DEF vars, connVars, poolVars, sendVars, IInv, TypeOK, FlowInv, StageInv,
                TraceInv, Traceable, Has, IsNull, DueInv, Msg
  <2> QED
    BY <2>1, <2>2, <2>3 DEF Next
<1> QED
  BY <1>1, InitInv, PTL DEF Spec

\* Types: what a thread has in hand has arrived, the send queue's counter is its length,
\* and the semaphore, whose sem_post may fail, never runs ahead of it.
THEOREM TypeCorrect == Spec => []TypeOK
<1>1. IInv => TypeOK
  BY DEF IInv
<1> QED
  BY <1>1, Invariance, PTL

\* _HandleRegister: the number in the header of an answer is its connection's only
\* as long as the client that asked has the connection.
THEOREM AnswersAlwaysTraceable == Spec => []AnswersTraceable
<1>1. IInv => AnswersTraceable
  BY DEF IInv, TraceInv, Traceable, AnswersTraceable
<1> QED
  BY <1>1, Invariance, PTL

\* threadRecvProcFunc: an answer is for a request that deserves one, the only one for
\* it, and to the client that sent it.
THEOREM AnswersAlwaysDue == Spec => []AnswersAreDue
<1>1. IInv => AnswersAreDue
  BY DEF IInv, DueInv, Registers, AnswersAreDue
<1> QED
  BY <1>1, Invariance, PTL

\* threadRecvProcFunc, line 102: equal sequence numbers mean the same client.
THEOREM SequenceIdentifies == Spec => OnlyForPresent
<1>1. IInv /\ [Next]_vars =>
        [\A t \in Threads :
           At(t, "sequence") /\ pc'[t] = "code" => Has(Msg(t).client, Msg(t).conn)]_vars
  <2> SUFFICES ASSUME IInv, [Next]_vars, NEW t \in Threads,
                      pc[t] = "sequence", pc'[t] = "code"
               PROVE  Has(Msg(t).client, Msg(t).conn)
    BY DEF At
  <2>1. pc \in [Threads -> Labels]
    BY DEF IInv, TypeOK
  <2>2. CheckSequence(t)
    <3>1. ASSUME NEW u \in Threads, Thread(u) PROVE u = t
      BY <2>1, <3>1 DEF Thread, Take, NullCrashes, CheckCrc, CheckSequence, CheckCode, HandleLogIn,
           HandleRegister, Lock, Answer, FreeMemory, Only, Goto
    <3>2. ~(UNCHANGED pc)
      OBVIOUS
    <3>3. Thread(t)
      BY <3>1, <3>2 DEF Next, Connection, GetOneToUse, inRecyConnectQueue, PutOneToFree,
           ReceiveHeader, ReceiveAlone, ReceiveBody, vars
    <3> QED
      BY <3>3 DEF Thread, Take, NullCrashes, CheckCrc, CheckCode, HandleLogIn, HandleRegister, Lock,
           Answer, FreeMemory, At
  <2>3. IsCurrent(t)
    BY <2>1, <2>2 DEF CheckSequence, Only, Goto
  <2>4. Traceable(Msg(t), Msg(t).conn) /\ ~IsNull(Msg(t))
    BY HandFacts DEF IInv, TraceInv, StageInv, Checked
  <2> QED
    BY <2>3, <2>4 DEF IsCurrent, Traceable
<1> QED
  BY <1>1, Invariance, PTL DEF Spec, OnlyForPresent
=============================================================================
