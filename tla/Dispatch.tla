-------------------------------- MODULE Dispatch --------------------------------
(***************************************************************************)
(* What a pool thread does with a packet: CLogicSocket::threadRecvProcFunc *)
(* and its handlers, and CSocket::msgSend, while the event loop's thread   *)
(* recycles the connections the packets came from.                         *)
(*                                                                         *)
(* The pool is the abstract JobQueue, which ThreadPool implements.  Of a   *)
(* connection the model has its life: it serves a client, waits to be      *)
(* recycled, is free; each change of it increments the sequence number,    *)
(* the only thing that tells one client of a connection from the next.     *)
(* The descriptor of a client that closes in good order stays open, with   *)
(* its events: a connection may be in the recycle list, and then in the    *)
(* free list, more than once, and be freed while it serves a client.  The  *)
(* numbers of the clients are known to the model, not to the code.  A      *)
(* packet gets its message header when its own header is complete, and     *)
(* goes to the pool when its body is.                                      *)
(***************************************************************************)
EXTENDS Integers, Sequences, FiniteSets, Functions

CONSTANTS
  Threads,      \* the pool's threads
  Conns,        \* the connections of the pool
  Packets,      \* what clients may send
  MaxPackets,   \* how many packets arrive
  MaxSequence,  \* how far the sequence number of a connection may go
  Nobody        \* no thread

\* A packet: whether its body is missing, of the size of _STRUCT_REGISTER, or of
\* another size; whether its checksum is right; and its message code.
PacketType ==
  [body : {"none", "register", "other"}, crc : BOOLEAN, msgCode : Nat]

ASSUME DispatchAssumption ==
  /\ Nobody \notin Threads
  /\ Packets \subseteq PacketType
  /\ MaxPackets \in Nat /\ MaxSequence \in Nat

VARIABLES
  iCurrsequence,        \* per connection
  served,               \* per connection: it serves a client
  recycling,            \* per connection: how often it is in the recycle list
  free,                 \* per connection: how often it is in the free list
  leftOpen,             \* per connection: a descriptor whose client is gone has it
  client,               \* per connection: the client that has or had it, by number
  clients,              \* how many clients have come
  curStat,              \* per connection: what comes next, a header or a body
  precvMemPointer,      \* per connection: the message header of the packet whose body
                        \* is due
  message,              \* the messages in the order of their arrival
  pending, hand, released, arrived, stopped, over,  \* the pool, as in JobQueue
  pc,                   \* where each thread is
  logicPorcMutex,       \* per connection: the thread that holds it
  m_MsgSendQueue,       \* headers of the answers
  m_iSendMsgQueueCount,
  m_semEventSendQueue

connVars == <<iCurrsequence, served, recycling, free, leftOpen, client, clients,
              curStat, precvMemPointer>>
poolVars == <<pending, hand, released, arrived, stopped, over>>
sendVars == <<m_MsgSendQueue, m_iSendMsgQueueCount, m_semEventSendQueue>>
vars == <<connVars, message, poolVars, pc, logicPorcMutex, sendVars>>

\* Of its actions, Stop does not happen, since StopAll is not called, and End only as
\* the death of the process.
Pool == INSTANCE JobQueue WITH Workers <- Threads

\* In a message header, the number 0 is that of no client: the null pointer.
NullPtr == [iCurrsequence |-> 0, client |-> 0]
IsNull(header) == header.iCurrsequence = 0

\* initConnection makes no connection: the number it counts to is still 0.
Init ==
  /\ iCurrsequence = [c \in Conns |-> 0]
  /\ served = [c \in Conns |-> FALSE] /\ leftOpen = [c \in Conns |-> FALSE]
  /\ recycling = [c \in Conns |-> 0] /\ free = [c \in Conns |-> 0]
  /\ client = [c \in Conns |-> 0] /\ clients = 0
  /\ curStat = [c \in Conns |-> "header"]
  /\ precvMemPointer = [c \in Conns |-> NullPtr]
  /\ message = <<>>
  /\ Pool!Init
  /\ pc = [t \in Threads |-> "idle"]
  /\ logicPorcMutex = [c \in Conns |-> Nobody]
  /\ m_MsgSendQueue = <<>>
  /\ m_iSendMsgQueueCount = 0 /\ m_semEventSendQueue = 0

-----------------------------------------------------------------------------
(* Connections and packets, in the event loop's and the recycle thread *)

Increment(c) ==
  /\ iCurrsequence[c] < MaxSequence
  /\ iCurrsequence' = [iCurrsequence EXCEPT ![c] = @ + 1]

\* ngx_get_connection: a free connection, or a new one.
GetOneToUse(c) ==
  /\ \/ free[c] > 0 /\ free' = [free EXCEPT ![c] = @ - 1]
     \/ iCurrsequence[c] = 0 /\ UNCHANGED free
  /\ Increment(c)
  /\ served' = [served EXCEPT ![c] = TRUE]
  /\ clients' = clients + 1
  /\ client' = [client EXCEPT ![c] = clients + 1]
  /\ curStat' = [curStat EXCEPT ![c] = "header"]
  /\ precvMemPointer' = [precvMemPointer EXCEPT ![c] = NullPtr]
  /\ UNCHANGED <<recycling, leftOpen, message, poolVars, pc, logicPorcMutex, sendVars>>

\* The client is gone, and has closed or not; or there is an event of a descriptor that
\* was left open.
inRecyConnectQueue(c) ==
  /\ served[c] \/ leftOpen[c]
  /\ Increment(c)
  /\ served' = [served EXCEPT ![c] = FALSE]
  /\ recycling' = [recycling EXCEPT ![c] = @ + 1]
  /\ \E closed \in BOOLEAN : leftOpen' = [leftOpen EXCEPT ![c] = @ \/ closed]
  /\ UNCHANGED <<free, client, clients, curStat, precvMemPointer, message, poolVars, pc,
                 logicPorcMutex, sendVars>>

\* ngx_free_connection, of one entry of the list.  The packet that is being received
\* is freed, also under a client that goes on sending it.
PutOneToFree(c) ==
  /\ recycling[c] > 0
  /\ Increment(c)
  /\ recycling' = [recycling EXCEPT ![c] = @ - 1]
  /\ free' = [free EXCEPT ![c] = @ + 1]
  /\ precvMemPointer' = [precvMemPointer EXCEPT ![c] = NullPtr]
  /\ UNCHANGED <<served, leftOpen, client, clients, curStat, message, poolVars, pc,
                 logicPorcMutex, sendVars>>

\* The message header of a packet that begins now.
MsgHeader(c) == [iCurrsequence |-> iCurrsequence[c], client |-> client[c]]

\* The packet's memory goes to the pool.
proc_plast(c, header, packet) ==
  /\ Pool!Arrive
  /\ message' = Append(message,
       [conn |-> c, iCurrsequence |-> header.iCurrsequence, client |-> header.client,
        packet |-> packet])

\* A legal header is complete, and a body is to come.
ReceiveHeader(c) ==
  /\ arrived < MaxPackets /\ served[c] /\ curStat[c] = "header"
  /\ curStat' = [curStat EXCEPT ![c] = "body"]
  /\ precvMemPointer' = [precvMemPointer EXCEPT ![c] = MsgHeader(c)]
  /\ UNCHANGED <<iCurrsequence, served, recycling, free, leftOpen, client, clients,
                 message, poolVars, pc, logicPorcMutex, sendVars>>

\* A legal header is complete, and there is no body.
ReceiveAlone(c, packet) ==
  /\ arrived < MaxPackets /\ served[c] /\ curStat[c] = "header"
  /\ packet.body = "none"
  /\ proc_plast(c, MsgHeader(c), packet)
  /\ UNCHANGED <<connVars, pc, logicPorcMutex, sendVars>>

\* A body is complete.  Its memory may have been freed in the meantime: then the pool
\* gets a null pointer.
ReceiveBody(c, packet) ==
  /\ arrived < MaxPackets /\ served[c] /\ curStat[c] = "body"
  /\ packet.body # "none"
  /\ proc_plast(c, precvMemPointer[c], packet)
  /\ curStat' = [curStat EXCEPT ![c] = "header"]
  /\ precvMemPointer' = [precvMemPointer EXCEPT ![c] = NullPtr]
  /\ UNCHANGED <<iCurrsequence, served, recycling, free, leftOpen, client, clients,
                 pc, logicPorcMutex, sendVars>>

-----------------------------------------------------------------------------
(* A pool thread *)

At(t, l) == pc[t] = l
Goto(t, l) == pc' = [pc EXCEPT ![t] = l]
Msg(t) == message[hand[t]]

Take(t) ==
  /\ At(t, "idle")
  /\ Pool!Take(t)
  /\ Goto(t, "crc")
  /\ UNCHANGED <<connVars, message, logicPorcMutex, sendVars>>

Only(t, next) ==
  /\ Goto(t, next)
  /\ UNCHANGED <<connVars, message, poolVars, logicPorcMutex, sendVars>>

\* The first read of a message is through its pointer.
NullCrashes(t) ==
  /\ At(t, "crc") /\ IsNull(Msg(t))
  /\ over' = TRUE
  /\ UNCHANGED <<connVars, message, pending, hand, released, arrived, stopped, pc,
                 logicPorcMutex, sendVars>>

CheckCrc(t) ==
  /\ At(t, "crc") /\ ~IsNull(Msg(t))
  /\ Only(t, IF Msg(t).packet.crc THEN "sequence" ELSE "free")

\* Mutant: a connection that has got further is taken for the same.
IsCurrent_OrLater(t) == iCurrsequence[Msg(t).conn] >= Msg(t).iCurrsequence

IsCurrent(t) == iCurrsequence[Msg(t).conn] = Msg(t).iCurrsequence

\* The comparison holds no lock, and nothing holds for long after it.
CheckSequence(t) ==
  /\ At(t, "sequence")
  /\ Only(t, IF IsCurrent(t) THEN "code" ELSE "free")

\* Mutant: null pointers are not tested for.
statusHandler_NullCalled ==
  [n \in 0..6 |-> IF n = 5 THEN "register" ELSE IF n = 6 THEN "login" ELSE "null"]

\* The numbers of statusHandler that have a handler; 0 to 4 are null, and there are
\* none above.
statusHandler == [n \in {5, 6} |-> IF n = 5 THEN "register" ELSE "login"]

CheckCode(t) ==
  /\ At(t, "code")
  /\ Only(t, IF Msg(t).packet.msgCode \in DOMAIN statusHandler
             THEN statusHandler[Msg(t).packet.msgCode] ELSE "free")

HandleLogIn(t) == At(t, "login") /\ Only(t, "free")

\* Mutant: only the missing body is refused.
RegisterBody_AnySize(t) == Msg(t).packet.body # "none"

RegisterBody(t) == Msg(t).packet.body = "register"

\* The first lines of _HandleRegister.
HandleRegister(t) ==
  /\ At(t, "register")
  /\ Only(t, IF RegisterBody(t) THEN "lock" ELSE "free")

Lock(t) ==
  /\ At(t, "lock")
  /\ logicPorcMutex[Msg(t).conn] = Nobody
  /\ logicPorcMutex' = [logicPorcMutex EXCEPT ![Msg(t).conn] = t]
  /\ Goto(t, "answer")
  /\ UNCHANGED <<connVars, message, poolVars, sendVars>>

\* Mutant: the sequence number is that of the connection.
AnswerHeader_OfConnection(t) ==
  [request |-> hand[t], conn |-> Msg(t).conn, client |-> Msg(t).client,
   iCurrsequence |-> iCurrsequence[Msg(t).conn]]

\* The message header of the request is copied to the answer.
AnswerHeader(t) ==
  [request |-> hand[t], conn |-> Msg(t).conn, client |-> Msg(t).client,
   iCurrsequence |-> Msg(t).iCurrsequence]

\* The failure of sem_post is only logged.
msgSend(header) ==
  /\ m_MsgSendQueue' = Append(m_MsgSendQueue, header)
  /\ m_iSendMsgQueueCount' = m_iSendMsgQueueCount + 1
  /\ m_semEventSendQueue' \in {m_semEventSendQueue, m_semEventSendQueue + 1}

\* Mutant: the mutex stays locked.
Unlock_Forgotten(c) == UNCHANGED logicPorcMutex

Unlock(c) == logicPorcMutex' = [logicPorcMutex EXCEPT ![c] = Nobody]

\* The rest of _HandleRegister.
Answer(t) ==
  /\ At(t, "answer")
  /\ msgSend(AnswerHeader(t))
  /\ Unlock(Msg(t).conn)
  /\ Goto(t, "free")
  /\ UNCHANGED <<connVars, message, poolVars>>

\* Back in ThreadFunc: FreeMemory.
FreeMemory(t) ==
  /\ At(t, "free")
  /\ Pool!Release(t)
  /\ Goto(t, "idle")
  /\ UNCHANGED <<connVars, message, logicPorcMutex, sendVars>>

Thread(t) ==
  \/ Take(t) \/ NullCrashes(t) \/ CheckCrc(t) \/ CheckSequence(t) \/ CheckCode(t)
  \/ HandleLogIn(t) \/ HandleRegister(t) \/ Lock(t) \/ Answer(t) \/ FreeMemory(t)

Connection(c) ==
  \/ GetOneToUse(c) \/ inRecyConnectQueue(c) \/ PutOneToFree(c) \/ ReceiveHeader(c)
  \/ \E packet \in Packets : ReceiveAlone(c, packet) \/ ReceiveBody(c, packet)

Next ==
  /\ ~over
  /\ \/ \E t \in Threads : Thread(t)
     \/ \E c \in Conns : Connection(c)

Spec == Init /\ [][Next]_vars

\* The pool's threads run as long as the process lives.
FairSpec == Spec /\ \A t \in Threads : WF_vars(~over /\ Thread(t))

-----------------------------------------------------------------------------
Labels == {"idle", "crc", "sequence", "code", "register", "login", "lock", "answer",
           "free"}
HeaderType == [iCurrsequence : Nat, client : Nat]
MessageType ==
  [conn : Conns, client : Nat, iCurrsequence : Nat, packet : Packets]
AnswerType ==
  [request : 1..MaxPackets, conn : Conns, client : Nat, iCurrsequence : Nat]

\* The type invariant.
TypeOK ==
  /\ iCurrsequence \in [Conns -> 0..MaxSequence]
  /\ served \in [Conns -> BOOLEAN] /\ leftOpen \in [Conns -> BOOLEAN]
  /\ recycling \in [Conns -> Nat] /\ free \in [Conns -> Nat]
  /\ clients \in Nat /\ client \in [Conns -> Nat]
  /\ curStat \in [Conns -> {"header", "body"}]
  /\ precvMemPointer \in [Conns -> HeaderType]
  /\ arrived \in 0..MaxPackets
  /\ message \in Seq(MessageType) /\ Len(message) = arrived
  /\ pending \in Seq(1..MaxPackets) /\ released \subseteq 1..MaxPackets
  /\ hand \in [Threads -> 0..arrived] /\ stopped = FALSE /\ over \in BOOLEAN
  /\ pc \in [Threads -> Labels]
  /\ logicPorcMutex \in [Conns -> Threads \cup {Nobody}]
  /\ m_MsgSendQueue \in Seq(AnswerType)
  /\ m_iSendMsgQueueCount = Len(m_MsgSendQueue)
  /\ m_semEventSendQueue \in 0..Len(m_MsgSendQueue)

\* Client k is served through connection c now.
Has(k, c) == served[c] /\ client[c] = k

\* Past the comparison of the sequence numbers, which takes no lock, the packet's
\* client had the connection at that moment: no later client of the connection is
\* taken for it, however often the connection was recycled in between.
OnlyForPresent ==
  [][\A t \in Threads :
       At(t, "sequence") /\ pc'[t] = "code" => Has(Msg(t).client, Msg(t).conn)]_vars

\* The connection may pass to another client between the comparison and the answer,
\* and while the answer waits; the header it carries still tells: its number is
\* the connection's only as long as the client that asked has the connection.
AnswersTraceable ==
  \A i \in DOMAIN m_MsgSendQueue :
    LET a == m_MsgSendQueue[i] IN
      a.iCurrsequence = iCurrsequence[a.conn] => Has(a.client, a.conn)

\* An answer is due: it is for a request with a right checksum, the code of a
\* registration and a body of its size; and a request gets one answer at most, to
\* the client that sent it.
AnswersAreDue ==
  \A i \in DOMAIN m_MsgSendQueue :
    LET a == m_MsgSendQueue[i]
        m == message[a.request] IN
      /\ m.packet = [body |-> "register", crc |-> TRUE, msgCode |-> 5]
      /\ a.client = m.client /\ a.conn = m.conn
      /\ \A j \in DOMAIN m_MsgSendQueue : m_MsgSendQueue[j].request = a.request => j = i

\* The pool gets every packet's memory back, whatever is wrong with the packet and
\* whoever holds the mutex of its connection, as long as no null pointer is among them.
EveryPacketEnds ==
  \A n \in 1..MaxPackets : arrived >= n ~> n \in released \/ over
=============================================================================
