---------------------------- MODULE MessageFraming ----------------------------
(***************************************************************************)
(* The receiving side of one session: PostRecv hands the free part of the  *)
(* ReceiveBuffer to WSARecv, the network fills some of it, and             *)
(* OnReceiveData cuts messages out of the byte stream.  One session has    *)
(* one receiver at a time (TCPServer!OneReceiver), so the steps alternate; *)
(* the stream's fragmentation is what varies.                              *)
(*                                                                         *)
(* A byte is <<m, k>>: byte k of the m-th message the peer has sent.  The  *)
(* first HeaderSize bytes of a message are its header, which the program   *)
(* can decode only when it has read exactly these bytes.                   *)
(***************************************************************************)
EXTENDS RingCursor, Sequences

CONSTANTS
  HeaderSize,       \* sizeof(SerializeBuffer::Header)
  PayloadCapacity,  \* SerializeBuffer::Capacity()
  BufSize,          \* m_sessionRecvBufSize
  MaxMessages       \* bound of the model: messages of one connection

\* RECV_BUFFER_SIZE_MIN against INSTANCE_SIZE: the buffer holds more than the largest message.
ASSUME FramingAssumption ==
  /\ HeaderSize \in Nat \ {0}
  /\ PayloadCapacity \in Nat
  /\ BufSize \in Nat
  /\ HeaderSize + PayloadCapacity < BufSize
  /\ MaxMessages \in Nat

LargestMessage == HeaderSize + PayloadCapacity

VARIABLES
  mem,        \* the bytes of the buffer
  rd,         \* m_pReadCursor - m_pBufferBegin
  wr,         \* m_pWriteCursor - m_pBufferBegin
  wsaBufs,    \* the buffers the pending WSARecv was given
  phase,      \* what the receiver does next
  cancelIo,   \* m_cancelIo # 0
  sent,       \* the messages the peer has sent: code valid or not, announced payload size
  inFlight,   \* the bytes on their way
  delivered   \* the messages OnReceive was given, as bytes

cursors == <<rd, wr>>
peer    == <<sent, inFlight>>
vars    == <<mem, cursors, wsaBufs, phase, cancelIo, peer, delivered>>

Unread == Used(rd, wr, BufSize)
Noise  == <<0, 0>>
NoBufs == [contiguous |-> 0, wrap |-> 0]

\* The bytes of message m; a header that announces too much is followed by no payload.
Bytes(m, size) == [k \in 1..HeaderSize + (IF size > PayloadCapacity THEN 0 ELSE size) |-> <<m, k>>]

MessageBytes(m) == Bytes(m, sent[m].size)

\* ReceiveBuffer::Peek: n bytes from the read cursor, around the end of the buffer.
Peek(n) == [k \in 1..n |-> mem[Advance(rd, k - 1, BufSize)]]

\* What the program reads in a header: the one that was sent, or none at all.
IsHeader(bytes) ==
  \E m \in 1..Len(sent) : bytes = [k \in 1..HeaderSize |-> <<m, k>>]
Header(bytes) ==
  IF IsHeader(bytes) THEN sent[bytes[1][1]] ELSE [valid |-> FALSE, size |-> 0]

------------------------------------------------------------------------------

\* What a peer may put in a header: a payload size that fits, is one too large or exceeds even the
\* receive buffer, or another protocol's code.
Messages ==
  [valid : {TRUE}, size : 0..PayloadCapacity + 1 \cup {BufSize}] \cup {[valid |-> FALSE, size |-> 0]}

PeerSend ==
  \E message \in Messages :
    /\ Len(sent) < MaxMessages
    /\ sent' = Append(sent, message)
    /\ inFlight' = inFlight \o Bytes(Len(sent) + 1, message.size)
    /\ UNCHANGED <<mem, cursors, wsaBufs, phase, cancelIo, delivered>>

\* PostRecv.  Without any room it returns and no completion will ever come.
PostRecv ==
  LET area == WritableArea(rd, wr, BufSize) IN
  /\ phase = "post"
  /\ IF area.contiguous = 0 /\ area.wrap = 0
       THEN phase' = "stalled" /\ UNCHANGED wsaBufs
       ELSE phase' = "pending" /\ wsaBufs' = area
  /\ UNCHANGED <<mem, cursors, cancelIo, peer, delivered>>

\* The address of the k-th byte a WSARecv stores: wsaBufs[0] from the write cursor, then
\* wsaBufs[1] from the beginning.
Target(k) == IF k <= wsaBufs.contiguous THEN wr + k - 1 ELSE k - wsaBufs.contiguous - 1

\* n bytes arrive and OnReceiveData moves the write cursor over them.
Receive(n) ==
  /\ phase = "pending"
  /\ n <= Len(inFlight)
  /\ n <= wsaBufs.contiguous + wsaBufs.wrap
  /\ mem' = [a \in DOMAIN mem |->
              IF \E k \in 1..n : Target(k) = a
                THEN inFlight[CHOOSE k \in 1..n : Target(k) = a]
                ELSE mem[a]]
  /\ inFlight' = SubSeq(inFlight, n + 1, Len(inFlight))
  /\ wr' = Advance(wr, n, BufSize)
  /\ wsaBufs' = NoBufs
  /\ phase' = "parse"
  /\ UNCHANGED <<rd, cancelIo, sent, delivered>>

\* Mutant: a payload of any announced size is accepted.
AnySize(size) == TRUE

\* `header.m_size > SerializeBuffer::Capacity()` is rejected.
FitsPacket(size) == size <= PayloadCapacity

\* Mutant: a message that exactly ends the readable bytes is left for later.
StrictlyReadable(size) == HeaderSize + size < Unread

\* `messageSize > readableSize`: the stream has not brought the whole message yet.
WhollyReadable(size) == HeaderSize + size <= Unread

\* OnReceiveData, one turn of its loop that ends it: too few bytes, or a bad header.
ParseStop ==
  LET header == Header(Peek(HeaderSize)) IN
  /\ phase = "parse"
  /\ \/ /\ \/ Unread < HeaderSize
           \/ header.valid /\ FitsPacket(header.size) /\ ~WhollyReadable(header.size)
        /\ UNCHANGED cancelIo
     \/ /\ Unread >= HeaderSize
        /\ ~(header.valid /\ FitsPacket(header.size))
        /\ cancelIo' = TRUE
  /\ phase' = "parsed"
  /\ UNCHANGED <<mem, cursors, wsaBufs, peer, delivered>>

\* One turn that delivers a message.
ParseMessage ==
  LET header == Header(Peek(HeaderSize))
      messageSize == HeaderSize + header.size
  IN
  /\ phase = "parse"
  /\ Unread >= HeaderSize
  /\ header.valid
  /\ FitsPacket(header.size)
  /\ WhollyReadable(header.size)
  /\ delivered' = Append(delivered, Peek(messageSize))
  /\ rd' = Advance(rd, messageSize, BufSize)
  /\ UNCHANGED <<mem, wr, wsaBufs, phase, cancelIo, peer>>

\* `if (session.m_cancelIo == 0 && ...) PostRecv(session)`.
Repost ==
  /\ phase = "parsed"
  /\ phase' = IF cancelIo THEN "ended" ELSE "post"
  /\ UNCHANGED <<mem, cursors, wsaBufs, cancelIo, peer, delivered>>

\* The pending receive fails or is cancelled: no further PostRecv.
Break ==
  /\ phase = "pending"
  /\ phase' = "ended"
  /\ wsaBufs' = NoBufs
  /\ cancelIo' = TRUE
  /\ UNCHANGED <<mem, cursors, peer, delivered>>

\* Mutant: the release job leaves the bytes of the ended session in the buffer.
Keep(cursor) == cursor

\* ReceiveBuffer::Clear.
Clear(cursor) == 0

\* DoSessionReleaseJob clears the buffer; the slot starts a session with another peer.
Reuse ==
  /\ phase = "ended"
  /\ rd' = Clear(rd)
  /\ wr' = Clear(wr)
  /\ phase' = "post"
  /\ cancelIo' = FALSE
  /\ sent' = <<>>
  /\ inFlight' = <<>>
  /\ delivered' = <<>>
  /\ UNCHANGED <<mem, wsaBufs>>

Init ==
  /\ mem = [a \in 0..BufSize - 1 |-> Noise]
  /\ rd = 0
  /\ wr = 0
  /\ wsaBufs = NoBufs
  /\ phase = "post"
  /\ cancelIo = FALSE
  /\ sent = <<>>
  /\ inFlight = <<>>
  /\ delivered = <<>>

Next ==
  \/ PeerSend
  \/ PostRecv
  \/ \E n \in 1..BufSize - 1 : Receive(n)
  \/ ParseStop
  \/ ParseMessage
  \/ Repost
  \/ Break
  \/ Reuse

Spec == Init /\ [][Next]_vars

------------------------------------------------------------------------------

Phases == {"post", "pending", "parse", "parsed", "ended", "stalled"}

\* The cursors stay in the buffer and the areas given to WSARecv have sizes in its range.
TypeOK ==
  /\ rd \in 0..BufSize - 1
  /\ wr \in 0..BufSize - 1
  /\ wsaBufs \in [contiguous : 0..BufSize - 1, wrap : 0..BufSize - 1]
  /\ phase \in Phases
  /\ cancelIo \in BOOLEAN

\* However the stream is fragmented and wherever it wraps, what OnReceive gets is the peer's
\* messages, byte for byte, in order, and nothing from a bad header on.
DeliveredAsSent ==
  /\ Len(delivered) <= Len(sent)
  /\ \A i \in 1..Len(delivered) :
       /\ delivered[i] = MessageBytes(i)
       /\ sent[i].valid
       /\ sent[i].size <= PayloadCapacity

\* The receiver never waits for the network on a complete message: when a receive is pending, the
\* bytes in the buffer are less than the next message.
NoMessageHeldBack ==
  phase \in {"post", "pending"} /\ Len(delivered) < Len(sent) =>
    Unread < Len(MessageBytes(Len(delivered) + 1))

\* The rest of an unfinished message always leaves room, so PostRecv never takes its silent early
\* return, after which a healthy connection would stay mute for ever.
NeverStalled == phase # "stalled"

\* A pending WSARecv writes into free bytes only, is given all of them, and its first WSABUF is
\* filled (PostRecv fills wsaBufs[1] without wsaBufs[0] if only the wrapped part has room).
ReceivesIntoFreeBytes ==
  phase = "pending" =>
    /\ wsaBufs.contiguous > 0
    /\ wsaBufs.contiguous + wsaBufs.wrap = BufSize - 1 - Unread
    /\ \A k \in 1..wsaBufs.contiguous + wsaBufs.wrap :
         Target(k) = Advance(wr, k - 1, BufSize)
====
