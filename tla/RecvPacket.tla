------------------------------ MODULE RecvPacket ------------------------------
(***************************************************************************)
(* The packet-receiving state machine of one client connection:            *)
(* CSocket::ngx_read_request_handler, recvproc, proc_p1 and proc_plast of  *)
(* net/ngx_c_socket_request.cxx, on the fields of ngx_connection_poll.     *)
(*                                                                         *)
(* A packet is a fixed header, which holds the total length pkgLen, and a  *)
(* body.  Every read event asks recv() for irecvlen bytes at precvbuf, the *)
(* "window".  The header is collected in the array dataHeadInfo, the body  *)
(* in a buffer allocated when the header is complete.  The complete buffer *)
(* is queued for the thread pool, whose threads free it.                   *)
(*                                                                         *)
(* Bytes have no value here but the decoded length of a header.  One read  *)
(* event is one step: the fields of the connection belong to the event     *)
(* loop's thread, the only thread that runs the handler.                   *)
(***************************************************************************)
EXTENDS Integers, Sequences, FiniteSets, SequencesExt

CONSTANTS
  HeaderLen,      \* sizeof(COMM_PKG_HEADER)
  DataBufSize,    \* _DATA_BUFSIZE_, the size of dataHeadInfo
  MaxLegalLen,    \* _PKG_MAX_LENGTH - 1000, the longest packet accepted
  Lens,           \* the values of pkgLen a client writes, legal or not
  MaxBytes,       \* bound: the bytes the client sends
  MaxRecy         \* bound: how often the connection enters the recycle list

ASSUME SizesAssumption ==
  /\ HeaderLen \in Nat \ {0}
  /\ DataBufSize \in Nat /\ DataBufSize > HeaderLen
  /\ MaxLegalLen \in Nat
  /\ Lens \subseteq Nat
  /\ MaxBytes \in Nat
  /\ MaxRecy \in Nat

VARIABLES
  curStat,        \* state of the receiving state machine
  pkgLen,         \* the decoded pkgLen field of the header in dataHeadInfo
  window,         \* precvbuf: [mem |-> HeadMem or a buffer, off |-> offset]
  irecvlen,       \* bytes still wanted at precvbuf
  precvMem,       \* precvMemPointer: the buffer of the connection, or NoBuf
  iCurrsequence,  \* the connection's sequence number
  heap,           \* buffers in the order of their allocation
  queue,          \* m_MsgRecvQueue: buffers handed to the thread pool
  working,        \* buffers a pool thread has taken and not yet freed
  freed,          \* buffers returned to the allocator
  sent,           \* bytes the client has sent so far
  avail,          \* bytes in the socket's receive buffer
  peer,           \* the client's end of the connection
  fdOpen,         \* connfd is open (and registered with epoll)
  recy,           \* entries of this connection in m_recyconnectionList
  crashed         \* the process has died

connVars == <<curStat, pkgLen, window, irecvlen, precvMem>>
netVars  == <<sent, avail, peer>>
vars == <<connVars, iCurrsequence, heap, queue, working, freed, netVars,
          fdOpen, recy, crashed>>

HD_INIT   == 0
HD_RECVING == 1
BD_INIT   == 2
BD_RECVING == 3

HeadMem == 0      \* the memory dataHeadInfo; buffers are 1, 2, ...
NoBuf   == 0      \* precvMemPointer == nullptr

Buffers == 1..Len(heap)

\* The offset in a buffer counts from its packet header: the message header
\* in front of it is never part of a window.
HeadWindow == [mem |-> HeadMem, off |-> 0]

-----------------------------------------------------------------------------
\* ngx_connection_poll::GetOneToUse on a connection fresh from the pool.
Init ==
  /\ curStat = HD_INIT
  /\ pkgLen = 0
  /\ window = HeadWindow
  /\ irecvlen = HeaderLen
  /\ precvMem = NoBuf
  /\ iCurrsequence = 1
  /\ heap = <<>> /\ queue = <<>>
  /\ working = {} /\ freed = {}
  /\ sent = 0 /\ avail = 0 /\ peer = "open"
  /\ fdOpen = TRUE
  /\ recy = 0
  /\ crashed = FALSE

\* The three assignments that make the connection wait for a new header.
WaitForHeader ==
  /\ curStat' = HD_INIT
  /\ window' = HeadWindow
  /\ irecvlen' = HeaderLen

\* Mutant: precvMemPointer is not reset.
proc_plast_KeepsBuffer(b) ==
  /\ queue' = Append(queue, b)
  /\ precvMem' = b
  /\ WaitForHeader

\* ngx_wait_request_handler_proc_plast: queue the packet in buffer b.
proc_plast(b) ==
  /\ queue' = Append(queue, b)
  /\ precvMem' = NoBuf
  /\ WaitForHeader

\* Mutant: no lower bound on the length.
Legal_NoMinimum(len) == len <= MaxLegalLen

\* The lengths a header may hold.
Legal(len) == len \in HeaderLen..MaxLegalLen

\* A header whose length is impossible is dropped, nothing else.
DropHeader(len) ==
  /\ ~Legal(len)
  /\ WaitForHeader
  /\ UNCHANGED <<precvMem, heap, queue, crashed>>

\* Mutant: asks for as many bytes as the packet has, header included.
ExpectBody_WholePacket(b, len) ==
  /\ precvMem' = b
  /\ curStat' = BD_INIT
  /\ window' = [mem |-> b, off |-> HeaderLen]
  /\ irecvlen' = len
  /\ UNCHANGED queue

\* The body is received behind the header.  precvMemPointer is overwritten,
\* whatever it was.
ExpectBody(b, len) ==
  /\ precvMem' = b
  /\ curStat' = BD_INIT
  /\ window' = [mem |-> b, off |-> HeaderLen]
  /\ irecvlen' = len - HeaderLen
  /\ UNCHANGED queue

\* The buffer for a legal packet: it records the connection's sequence number
\* and receives a copy of the header.
AcceptHeader(len) ==
  LET b == Len(heap) + 1 IN
  /\ Legal(len)
  /\ heap' = Append(heap, [len |-> len, seq |-> iCurrsequence])
  /\ \/ len = HeaderLen /\ proc_plast(b)
     \/ len # HeaderLen /\ ExpectBody(b, len)
  /\ UNCHANGED crashed

\* pConn of the new message header is a shared_ptr in memory no constructor
\* has initialised: assigning to it releases whatever owner the old bytes name,
\* which is harmless (AcceptHeader) or kills the process.
AcceptCrashes(len) ==
  /\ Legal(len)
  /\ crashed' = TRUE
  /\ UNCHANGED <<curStat, window, irecvlen, precvMem, heap, queue>>

\* ngx_wait_request_handler_proc_p1: the header in dataHeadInfo is complete.
\* Its length is new if the window that was filled lay in dataHeadInfo.
proc_p1 ==
  \E len \in IF window.mem = HeadMem THEN Lens ELSE {pkgLen} :
    /\ pkgLen' = len
    /\ DropHeader(len) \/ AcceptHeader(len) \/ AcceptCrashes(len)

\* Fewer bytes than wanted: move the window on and wait for the rest.
Partial(n) ==
  /\ curStat' = HD_RECVING
  /\ window' = [window EXCEPT !.off = @ + n]
  /\ irecvlen' = irecvlen - n
  /\ UNCHANGED <<pkgLen, precvMem, heap, queue, crashed>>

\* recv() hands over what there is, irecvlen bytes at most.
Received == IF avail < irecvlen THEN avail ELSE irecvlen

\* ngx_read_request_handler in state _PKG_HD_INIT.
ReadFirst(n) ==
  /\ curStat = HD_INIT
  /\ \/ n = HeaderLen /\ proc_p1
     \/ n # HeaderLen /\ Partial(n)

\* ngx_read_request_handler in the other states.  The condition of the second
\* branch assigns: "curStat = _PKG_HD_RECVING".  It is always true, and the two
\* branches for the body are never reached.
ReadMore(n) ==
  /\ curStat # HD_INIT
  /\ \/ n = irecvlen /\ proc_p1
     \/ n # irecvlen /\ Partial(n)

\* A read event that finds data.
ReadData ==
  /\ ~crashed /\ fdOpen
  /\ avail > 0 /\ peer # "reset"
  /\ ReadFirst(Received) \/ ReadMore(Received)
  /\ avail' = avail - Received
  /\ UNCHANGED <<iCurrsequence, working, freed, sent, peer, fdOpen, recy>>

\* Mutant: the sequence number is left alone.
inRecyConnectQueue_SameSequence ==
  /\ recy < MaxRecy
  /\ iCurrsequence' = iCurrsequence
  /\ recy' = recy + 1

\* inRecyConnectQueue: the packets of this connection still queued are stale from
\* now on.
inRecyConnectQueue ==
  /\ recy < MaxRecy
  /\ iCurrsequence' = iCurrsequence + 1
  /\ recy' = recy + 1

\* recvproc with n == 0: the client has closed.  connfd stays open.
ReadEOF ==
  /\ ~crashed /\ fdOpen
  /\ avail = 0 /\ peer = "closed"
  /\ inRecyConnectQueue
  /\ UNCHANGED <<connVars, heap, queue, working, freed, netVars, fdOpen, crashed>>

\* Mutant: the socket is closed and the connection forgotten.
ReadError_OnlyCloses ==
  /\ ~crashed /\ fdOpen
  /\ peer = "reset"
  /\ fdOpen' = FALSE
  /\ UNCHANGED <<connVars, iCurrsequence, heap, queue, working, freed, netVars,
                 recy, crashed>>

\* recvproc with an error other than EAGAIN and EINTR (those change nothing).
ReadError ==
  /\ ~crashed /\ fdOpen
  /\ peer = "reset"
  /\ fdOpen' = FALSE
  /\ inRecyConnectQueue
  /\ UNCHANGED <<connVars, heap, queue, working, freed, netVars, crashed>>

ReadEvent == ReadData \/ ReadEOF \/ ReadError

\* A thread of the pool takes the oldest packet, and frees it when it is done.
TakePacket ==
  /\ ~crashed /\ queue # <<>>
  /\ working' = working \cup {Head(queue)}
  /\ queue' = Tail(queue)
  /\ UNCHANGED <<connVars, iCurrsequence, heap, freed, netVars, fdOpen, recy,
                 crashed>>

FreePacket(b) ==
  /\ ~crashed /\ b \in working
  /\ working' = working \ {b}
  /\ freed' = freed \cup {b}
  /\ UNCHANGED <<connVars, iCurrsequence, heap, queue, netVars, fdOpen, recy,
                 crashed>>

\* The client.
Send ==
  /\ peer = "open" /\ sent < MaxBytes
  /\ sent' = sent + 1 /\ avail' = avail + 1
  /\ UNCHANGED <<connVars, iCurrsequence, heap, queue, working, freed, peer,
                 fdOpen, recy, crashed>>

Leave ==
  /\ peer = "open"
  /\ peer' \in {"closed", "reset"}
  /\ UNCHANGED <<connVars, iCurrsequence, heap, queue, working, freed, sent,
                 avail, fdOpen, recy, crashed>>

Next ==
  \/ ReadEvent
  \/ TakePacket
  \/ \E b \in working : FreePacket(b)
  \/ Send
  \/ Leave

Spec == Init /\ [][Next]_vars

\* epoll is level-triggered: a socket with data, or whose client has gone, is
\* reported until it is read.
FairSpec == Spec /\ WF_vars(ReadEvent)

-----------------------------------------------------------------------------
Packets == [len : Nat, seq : Nat]

\* The type invariant.
TypeOK ==
  /\ curStat \in {HD_INIT, HD_RECVING, BD_INIT, BD_RECVING}
  /\ pkgLen \in Nat
  /\ window \in [mem : Nat, off : Nat]
  /\ irecvlen \in Nat
  /\ precvMem \in Nat
  /\ iCurrsequence \in Nat
  /\ heap \in Seq(Packets)
  /\ queue \in Seq(Nat)
  /\ working \in SUBSET Nat
  /\ freed \in SUBSET Nat
  /\ sent \in Nat /\ avail \in Nat
  /\ peer \in {"open", "closed", "reset"}
  /\ fdOpen \in BOOLEAN
  /\ recy \in Nat
  /\ crashed \in BOOLEAN

\* recv() can never write outside the memory of its window, however the client
\* cuts and glues its packets: the window ends exactly where the header, or the
\* buffer the connection holds, ends.  And it is never empty: recv() of no bytes
\* returns 0, which recvproc takes for a closed connection.
WindowInBounds ==
  /\ irecvlen > 0
  /\ \/ /\ window.mem = HeadMem
        /\ window.off + irecvlen = HeaderLen
        /\ window.off + irecvlen <= DataBufSize
     \/ /\ window.mem \in Buffers
        /\ window.mem = precvMem
        /\ window.off >= HeaderLen
        /\ window.off + irecvlen = heap[precvMem].len

QueuedOnce == \A i, j \in DOMAIN queue : queue[i] = queue[j] => i = j

\* A buffer has one owner: what the connection still writes to is not queued, not
\* in the hands of a pool thread and not freed, and no packet is queued twice or
\* queued again once a thread has taken it (it would be freed twice).
OneOwner ==
  /\ QueuedOnce
  /\ precvMem \notin Range(queue) \cup working \cup freed
  /\ window.mem \notin Range(queue) \cup working \cup freed
  /\ Range(queue) \cap (working \cup freed) = {}
  /\ working \cap freed = {}

\* Once the connection is up for recycling, each of its packets still on the way
\* to a handler is recognised as stale by the comparison of sequence numbers in
\* threadRecvProcFunc; until then none is.
StaleIsVisible ==
  \A b \in Range(queue) \cup working :
    (heap[b].seq = iCurrsequence) <=> (recy = 0)

\* A client that closes or resets its connection is noticed: the connection
\* reaches the recycle list (or the process has died).
GoneIsRecycled == (peer # "open") ~> (recy > 0 \/ crashed)

\* ngx_comm.h says of _PKG_BD_RECVING that after the body the machine goes
\* straight back to _PKG_HD_INIT.  The body's window is left only when it is full.
BodyReturnsToHeader ==
  [][window.mem # HeadMem /\ window'.mem # window.mem
       => curStat' = HD_INIT /\ window'.mem = HeadMem]_vars
=============================================================================
