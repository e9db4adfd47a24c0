------------------------ MODULE MessageFramingTheorems ------------------------
(***************************************************************************)
(* The byte stream of a session becomes the messages the peer sent, for    *)
(* every buffer size, header size, packet capacity and fragmentation.      *)
(***************************************************************************)
EXTENDS MessageFraming, SequenceTheorems, TLAPS

USE DEF cursors, peer

Indices == 0..BufSize - 1
Octets  == Nat \X Nat

------------------------------------------------------------------------------
(***************************************************************************)
(* The buffer.                                                             *)
(***************************************************************************)

\* A cursor advanced by at most one turn stays in the buffer.
LEMMA AdvanceInBuffer ==
  ASSUME NEW c \in Indices, NEW n \in 0..BufSize
  PROVE  Advance(c, n, BufSize) \in Indices
BY FramingAssumption DEF Indices, Advance

LEMMA UsedInBuffer ==
  ASSUME NEW r \in Indices, NEW w \in Indices
  PROVE  Used(r, w, BufSize) \in Indices
BY FramingAssumption DEF Indices, Used

\* The writable area is what is free, and it has a first part unless nothing is free.
LEMMA AreaIsFree ==
  ASSUME NEW r \in Indices, NEW w \in Indices
  PROVE  LET area == WritableArea(r, w, BufSize)
         IN  /\ area \in [contiguous : Indices, wrap : Indices] \/ area.contiguous = BufSize
             /\ area.contiguous \in Nat /\ area.wrap \in Nat
             /\ area.contiguous + area.wrap = BufSize - 1 - Used(r, w, BufSize)
             /\ area.contiguous = 0 => area.wrap = 0
BY FramingAssumption DEF Indices, WritableArea, VirtualRead, Used

LEMMA AreaType ==
  ASSUME NEW r \in Indices, NEW w \in Indices
  PROVE  WritableArea(r, w, BufSize) \in [contiguous : Indices, wrap : Indices]
BY FramingAssumption DEF Indices, WritableArea, VirtualRead

\* The k-th byte of the area is the k-th from the write cursor.
LEMMA AreaFollowsCursor ==
  ASSUME NEW r \in Indices, NEW w \in Indices, wr = w, wsaBufs = WritableArea(r, w, BufSize),
         NEW k \in 1..wsaBufs.contiguous + wsaBufs.wrap
  PROVE  Target(k) = Advance(w, k - 1, BufSize)
BY FramingAssumption DEF Indices, WritableArea, VirtualRead, Target, Advance

\* Different bytes from a cursor have different addresses.
LEMMA AdvanceInjective ==
  ASSUME NEW c \in Indices, NEW i \in 0..BufSize - 1, NEW j \in 0..BufSize - 1,
         Advance(c, i, BufSize) = Advance(c, j, BufSize)
  PROVE  i = j
BY FramingAssumption DEF Indices, Advance

\* The free bytes behind the write cursor are none of the unread ones.
LEMMA FreeIsNotUnread ==
  ASSUME NEW r \in Indices, NEW w \in Indices, NEW i \in Nat, NEW j \in Nat,
         i < Used(r, w, BufSize), j < BufSize - 1 - Used(r, w, BufSize)
  PROVE  Advance(r, i, BufSize) # Advance(w, j, BufSize)
BY FramingAssumption DEF Indices, Used, Advance

\* The bytes behind the unread ones are those behind the write cursor.
LEMMA BehindUnread ==
  ASSUME NEW r \in Indices, NEW w \in Indices, NEW j \in Nat, j <= BufSize - 1 - Used(r, w, BufSize)
  PROVE  /\ Advance(r, Used(r, w, BufSize) + j, BufSize) = Advance(w, j, BufSize)
         /\ Used(r, Advance(w, j, BufSize), BufSize) = Used(r, w, BufSize) + j
BY FramingAssumption DEF Indices, Used, Advance

\* Moving the read cursor over n bytes leaves the others as they were.
LEMMA SkipBytes ==
  ASSUME NEW r \in Indices, NEW w \in Indices, NEW n \in Nat, n <= Used(r, w, BufSize)
  PROVE  /\ Advance(r, n, BufSize) \in Indices
         /\ Used(Advance(r, n, BufSize), w, BufSize) = Used(r, w, BufSize) - n
         /\ \A i \in Nat : n + i < BufSize =>
              Advance(Advance(r, n, BufSize), i, BufSize) = Advance(r, n + i, BufSize)
BY FramingAssumption DEF Indices, Used, Advance

------------------------------------------------------------------------------
(***************************************************************************)
(* The inductive invariant.                                                *)
(***************************************************************************)

\* Types of what TypeOK leaves open.
DataTypes ==
  /\ mem \in [Indices -> Octets]
  /\ sent \in Seq(Messages)
  /\ inFlight \in Seq(Octets)
  /\ delivered \in Seq(Seq(Octets))

\* The stream that is not parsed yet: the unread bytes of the buffer and then those on their way.
Total     == Unread + Len(inFlight)
Stream(i) == IF i <= Unread THEN mem[Advance(rd, i - 1, BufSize)] ELSE inFlight[i - Unread]

\* The bytes of a message.
Size(m) == HeaderSize + (IF sent[m].size > PayloadCapacity THEN 0 ELSE sent[m].size)

\* The messages that are not delivered yet, one after the other: message m begins at start[m].
Remaining == Len(delivered) + 1..Len(sent)

Layout(start) ==
  /\ start \in [Len(delivered) + 1..Len(sent) + 1 -> Nat]
  /\ start[Len(delivered) + 1] = 1
  /\ start[Len(sent) + 1] = Total + 1
  /\ \A m \in Remaining : start[m + 1] = start[m] + Size(m)
  /\ \A a, b \in Len(delivered) + 1..Len(sent) + 1 : a <= b => start[a] <= start[b]
  /\ \A m \in Remaining : \A k \in 1..Size(m) : Stream(start[m] + k - 1) = <<m, k>>

Framed == \E start : Layout(start)

\* A receive is given the whole free area; the buffer is not read while it is pending.
AreaGiven ==
  phase = "pending" => wsaBufs = WritableArea(rd, wr, BufSize) /\ wsaBufs.contiguous > 0

\* Between two turns of parsing the next message is not complete.
NextIncomplete ==
  (phase \in {"post", "pending"} \/ (phase = "parsed" /\ ~cancelIo)) =>
    (Len(delivered) < Len(sent) => Unread < Size(Len(delivered) + 1))

\* I/O is cancelled only when parsing has ended.
CancelEnds == cancelIo => phase \in {"parsed", "ended"}

IInv ==
  /\ TypeOK
  /\ DataTypes
  /\ DeliveredAsSent
  /\ Framed
  /\ AreaGiven
  /\ NextIncomplete
  /\ CancelEnds
  /\ NeverStalled

------------------------------------------------------------------------------
(***************************************************************************)
(* Messages.                                                               *)
(***************************************************************************)

LEMMA MessageSizeType == ASSUME NEW message \in Messages PROVE message.size \in Nat
<1>1. CASE message \in [valid : {TRUE}, size : 0..PayloadCapacity + 1 \cup {BufSize}]
  <2>1. message.size \in 0..PayloadCapacity + 1 \cup {BufSize}
    BY <1>1, Zenon
  <2>q. QED
    BY <2>1, FramingAssumption
<1>2. CASE message \in {[valid |-> FALSE, size |-> 0]}
  BY <1>2
<1>q. QED
  BY <1>1, <1>2 DEF Messages

LEMMA SizeType ==
  ASSUME DataTypes, NEW m \in 1..Len(sent)
  PROVE  /\ sent[m] \in Messages
         /\ Size(m) \in Nat
         /\ HeaderSize <= Size(m)
         /\ Size(m) <= LargestMessage
         /\ sent[m].size <= PayloadCapacity => Size(m) = HeaderSize + sent[m].size
<1>1. sent[m] \in Messages
  BY ElementOfSeq DEF DataTypes
<1>2. sent[m].size \in Nat
  BY <1>1, MessageSizeType
<1>q. QED
  BY <1>1, <1>2, FramingAssumption DEF Size, LargestMessage

LEMMA MessageLength ==
  ASSUME DataTypes, NEW m \in 1..Len(sent)
  PROVE  /\ MessageBytes(m) = [k \in 1..Size(m) |-> <<m, k>>]
         /\ MessageBytes(m) \in Seq(Octets)
         /\ Len(MessageBytes(m)) = Size(m)
<1>1. MessageBytes(m) = [k \in 1..Size(m) |-> <<m, k>>]
  BY DEF MessageBytes, Bytes, Size
<1>2. Size(m) \in Nat
  BY SizeType
<1>3. Len(sent) \in Nat
  BY DEF DataTypes
<1>4. MessageBytes(m) \in [1..Size(m) -> Octets]
  BY <1>1, <1>2, <1>3 DEF Octets
<1>q. QED
  BY <1>1, <1>2, <1>4

LEMMA UnreadType ==
  ASSUME TypeOK
  PROVE  Unread \in Nat /\ Unread < BufSize
<1>1. rd \in Indices /\ wr \in Indices
  BY DEF TypeOK, Indices
<1>2. Unread \in Indices
  BY <1>1, UsedInBuffer DEF Unread
<1>q. QED
  BY <1>2, FramingAssumption DEF Indices

\* The next message is at the beginning of the stream; without one the stream is empty.
LEMMA NextMessage ==
  ASSUME TypeOK, DataTypes, DeliveredAsSent, Framed
  PROVE  /\ Len(delivered) \in Nat /\ Len(sent) \in Nat /\ Len(delivered) <= Len(sent)
         /\ Len(delivered) = Len(sent) => Unread = 0
         /\ Len(delivered) < Len(sent) =>
              /\ Len(delivered) + 1 \in 1..Len(sent)
              /\ \A k \in 1..Size(Len(delivered) + 1) : Stream(k) = <<Len(delivered) + 1, k>>
<1>1. PICK start : Layout(start)
  BY DEF Framed
<1>2. /\ Len(delivered) \in Nat /\ Len(sent) \in Nat /\ Len(delivered) <= Len(sent)
      /\ Len(inFlight) \in Nat /\ Unread \in Nat
  BY UnreadType DEF DataTypes, DeliveredAsSent
<1>3. Len(delivered) = Len(sent) => Unread = 0
  BY <1>1, <1>2 DEF Layout, Total
<1>4. ASSUME Len(delivered) < Len(sent), NEW k \in 1..Size(Len(delivered) + 1)
      PROVE  Stream(k) = <<Len(delivered) + 1, k>>
  <2>1. Len(delivered) + 1 \in Remaining /\ start[Len(delivered) + 1] = 1
    BY <1>1, <1>2, <1>4 DEF Layout, Remaining
  <2>2. Stream(1 + k - 1) = <<Len(delivered) + 1, k>>
    BY <1>1, <2>1 DEF Layout
  <2>3. 1 + k - 1 = k
    BY <1>2, <1>4, SizeType
  <2>q. QED
    BY <2>2, <2>3
<1>q. QED
  BY <1>2, <1>3, <1>4

\* A header that has been read completely is the next message's.
LEMMA HeaderIsNext ==
  ASSUME IInv, Unread >= HeaderSize
  PROVE  /\ Len(delivered) < Len(sent)
         /\ Header(Peek(HeaderSize)) = sent[Len(delivered) + 1]
<1> DEFINE next == Len(delivered) + 1
           bytes == Peek(HeaderSize)
<1>1. /\ Unread \in Nat /\ Unread > 0
      /\ Len(delivered) \in Nat /\ Len(sent) \in Nat /\ Len(delivered) < Len(sent)
      /\ next \in 1..Len(sent)
      /\ \A k \in 1..Size(next) : Stream(k) = <<next, k>>
  <2>1. Unread \in Nat /\ Unread > 0
    BY UnreadType, FramingAssumption DEF IInv
  <2>q. QED
    BY <2>1, NextMessage DEF IInv
<1>2. \A k \in 1..HeaderSize : k \in 1..Size(next) /\ k <= Unread
  BY <1>1, SizeType, FramingAssumption DEF IInv
<1>3. \A k \in 1..HeaderSize : mem[Advance(rd, k - 1, BufSize)] = <<next, k>>
  BY <1>1, <1>2 DEF Stream
<1>4. bytes = [k \in 1..HeaderSize |-> <<next, k>>]
  BY <1>3 DEF Peek
<1>5. IsHeader(bytes)
  BY <1>1, <1>4 DEF IsHeader
<1>6. bytes[1][1] = next
  <2>1. 1 \in 1..HeaderSize
    BY FramingAssumption
  <2>q. QED
    BY <1>4, <2>1
<1>q. QED
  BY <1>1, <1>5, <1>6 DEF Header

\* What a turn of the loop that delivers a message reads.
LEMMA ParsedIsNext ==
  ASSUME IInv, ParseMessage
  PROVE  LET next == Len(delivered) + 1 IN
         /\ Len(delivered) \in Nat /\ next \in 1..Len(sent)
         /\ sent[next].valid /\ sent[next].size <= PayloadCapacity
         /\ Size(next) \in Nat /\ Size(next) <= Unread
         /\ delivered' = Append(delivered, MessageBytes(next))
         /\ rd' = Advance(rd, Size(next), BufSize)
<1> DEFINE next == Len(delivered) + 1
           header == Header(Peek(HeaderSize))
<1>1. Unread >= HeaderSize /\ header.valid /\ FitsPacket(header.size) /\ WhollyReadable(header.size)
  BY DEF ParseMessage
<1>2. /\ delivered' = Append(delivered, Peek(HeaderSize + header.size))
      /\ rd' = Advance(rd, HeaderSize + header.size, BufSize)
  BY DEF ParseMessage
<1>3. header = sent[next] /\ Len(delivered) < Len(sent)
  BY <1>1, HeaderIsNext
<1>4. /\ Len(delivered) \in Nat /\ Len(sent) \in Nat /\ next \in 1..Len(sent) /\ Unread \in Nat
      /\ \A k \in 1..Size(next) : Stream(k) = <<next, k>>
  BY <1>3, NextMessage, UnreadType DEF IInv
<1>5. sent[next].valid /\ sent[next].size <= PayloadCapacity /\ HeaderSize + sent[next].size <= Unread
  BY <1>1, <1>3 DEF FitsPacket, WhollyReadable
<1>6. Size(next) \in Nat /\ Size(next) = HeaderSize + sent[next].size
  BY <1>4, <1>5, SizeType DEF IInv
<1>7. Peek(Size(next)) = MessageBytes(next)
  <2>1. \A k \in 1..Size(next) : k <= Unread /\ Stream(k) = <<next, k>>
    BY <1>4, <1>5, <1>6
  <2>2. \A k \in 1..Size(next) : mem[Advance(rd, k - 1, BufSize)] = <<next, k>>
    BY <2>1 DEF Stream
  <2>3. MessageBytes(next) = [k \in 1..Size(next) |-> <<next, k>>]
    BY <1>4, MessageLength DEF IInv
  <2>q. QED
    BY <2>2, <2>3 DEF Peek
<1>q. QED
  BY <1>2, <1>3, <1>4, <1>5, <1>6, <1>7

\* The bytes of a message on their way.
LEMMA BytesType ==
  ASSUME NEW m \in Nat, NEW message \in Messages
  PROVE  /\ Bytes(m, message.size) \in Seq(Octets)
         /\ Len(Bytes(m, message.size)) = HeaderSize + (IF message.size > PayloadCapacity THEN 0 ELSE message.size)
<1> DEFINE length == HeaderSize + (IF message.size > PayloadCapacity THEN 0 ELSE message.size)
<1>1. message.size \in Nat
  BY MessageSizeType
<1>2. length \in Nat
  BY <1>1, FramingAssumption
<1>3. Bytes(m, message.size) = [k \in 1..length |-> <<m, k>>]
  BY DEF Bytes
<1>4. Bytes(m, message.size) \in [1..length -> Octets]
  BY <1>2, <1>3 DEF Octets
<1>q. QED
  BY <1>2, <1>3, <1>4

------------------------------------------------------------------------------
(***************************************************************************)
(* The steps.                                                              *)
(***************************************************************************)

\* The bytes of a remaining message are bytes of the stream.
LEMMA InMessages ==
  ASSUME TypeOK, DataTypes, DeliveredAsSent, NEW start, Layout(start)
  PROVE  \A m \in Remaining : \A k \in 1..Size(m) : start[m] + k - 1 \in 1..Total
<1> SUFFICES ASSUME NEW m \in Remaining, NEW k \in 1..Size(m)
             PROVE  start[m] + k - 1 \in 1..Total
  OBVIOUS
<1>1. Len(delivered) \in Nat /\ Len(sent) \in Nat
  BY DEF DataTypes
<1>2. /\ m \in 1..Len(sent)
      /\ m \in Len(delivered) + 1..Len(sent) + 1
      /\ m + 1 \in Len(delivered) + 1..Len(sent) + 1
      /\ Len(delivered) + 1 \in Len(delivered) + 1..Len(sent) + 1
      /\ Len(sent) + 1 \in Len(delivered) + 1..Len(sent) + 1
      /\ Len(delivered) + 1 <= m /\ m + 1 <= Len(sent) + 1
  BY <1>1 DEF Remaining
<1>3. Size(m) \in Nat
  BY <1>2, SizeType
<1>4. /\ start[m + 1] = start[m] + Size(m) /\ start[m] \in Nat
      /\ start[m] >= 1 /\ start[m + 1] <= Total + 1
  BY <1>2 DEF Layout
<1>5. Total \in Nat
  BY UnreadType DEF Total, DataTypes
<1>q. QED
  BY <1>3, <1>4, <1>5

\* A step that leaves the stream and the messages alone.
LEMMA FramedUnchanged ==
  ASSUME Framed, mem' = mem, rd' = rd, wr' = wr, sent' = sent, inFlight' = inFlight, delivered' = delivered
  PROVE  Framed'
<1>1. PICK start : Layout(start)
  BY DEF Framed
<1>2. Unread' = Unread /\ Total' = Total /\ Remaining' = Remaining
  BY DEF Unread, Total, Remaining
<1>3. \A m : Size(m)' = Size(m)
  BY DEF Size
<1>4. \A i : Stream(i)' = Stream(i)
  BY <1>2 DEF Stream
<1>5. Layout(start)'
  BY <1>1, <1>2, <1>3, <1>4 DEF Layout
<1>q. QED
  BY <1>5 DEF Framed

LEMMA PeerSendStep == ASSUME IInv, PeerSend PROVE IInv'
<1>1. PICK message \in Messages :
        /\ sent' = Append(sent, message)
        /\ inFlight' = inFlight \o Bytes(Len(sent) + 1, message.size)
  BY DEF PeerSend
<1>2. UNCHANGED <<mem, rd, wr, wsaBufs, phase, cancelIo, delivered>>
  BY DEF PeerSend
<1>0. PICK n \in Nat : n = Len(sent)
  BY DEF IInv, DataTypes
<1> DEFINE bytes == Bytes(n + 1, message.size)
<1>3. /\ n \in Nat /\ Len(sent) = n /\ Len(delivered) \in Nat /\ Len(delivered) <= n
      /\ Unread \in Nat /\ Len(inFlight) \in Nat
      /\ Len(delivered) = n => Unread = 0
  BY <1>0, NextMessage, UnreadType DEF IInv, DataTypes
<1>4. /\ sent' \in Seq(Messages) /\ Len(sent') = n + 1 /\ sent'[n + 1] = message
      /\ \A m \in 1..n : sent'[m] = sent[m]
  BY <1>0, <1>1, AppendProperties DEF IInv, DataTypes
<1>5. \A m \in 1..n : Size(m)' = Size(m)
  BY <1>4 DEF Size
<1>6. bytes \in Seq(Octets) /\ Len(bytes) = Size(n + 1)' /\ Size(n + 1)' \in Nat /\ Size(n + 1)' > 0
  <2>1. bytes \in Seq(Octets) /\ Len(bytes) = HeaderSize + (IF message.size > PayloadCapacity THEN 0 ELSE message.size)
    BY <1>3, BytesType
  <2>2. Len(bytes) = Size(n + 1)'
    BY <1>4, <2>1 DEF Size
  <2>3. Len(bytes) > 0
    BY <2>1, FramingAssumption, MessageSizeType
  <2>q. QED
    BY <2>1, <2>2, <2>3
<1>7. /\ inFlight' \in Seq(Octets)
      /\ Len(inFlight') = Len(inFlight) + Size(n + 1)'
      /\ \A i \in 1..Len(inFlight) : inFlight'[i] = inFlight[i]
      /\ \A k \in 1..Size(n + 1)' : inFlight'[Len(inFlight) + k] = <<n + 1, k>>
  <2>1. inFlight' \in Seq(Octets) /\ Len(inFlight') = Len(inFlight) + Len(bytes)
    BY <1>0, <1>1, <1>6, ConcatProperties DEF IInv, DataTypes
  <2>2. \A i \in 1..Len(inFlight) + Len(bytes) :
          inFlight'[i] = IF i <= Len(inFlight) THEN inFlight[i] ELSE bytes[i - Len(inFlight)]
    BY <1>0, <1>1, <1>6, ConcatProperties DEF IInv, DataTypes
  <2>3. \A k \in 1..Size(n + 1)' : bytes[k] = <<n + 1, k>>
    BY <1>4 DEF Bytes, Size
  <2>4. ASSUME NEW k \in 1..Size(n + 1)' PROVE inFlight'[Len(inFlight) + k] = <<n + 1, k>>
    <3>1. Len(inFlight) + k \in 1..Len(inFlight) + Len(bytes) /\ ~(Len(inFlight) + k <= Len(inFlight))
      BY <1>3, <1>6
    <3>2. Len(inFlight) + k - Len(inFlight) = k
      BY <1>3, <1>6
    <3>q. QED
      BY <2>2, <2>3, <3>1, <3>2
  <2>5. ASSUME NEW i \in 1..Len(inFlight) PROVE inFlight'[i] = inFlight[i]
    BY <1>3, <1>6, <2>2
  <2>q. QED
    BY <1>6, <2>1, <2>4, <2>5
<1>8. TypeOK' /\ DataTypes'
  BY <1>2, <1>4, <1>7 DEF IInv, TypeOK, DataTypes
<1>9. DeliveredAsSent'
  <2>1. Len(delivered) <= Len(sent')
    BY <1>3, <1>4
  <2>2. ASSUME NEW i \in 1..Len(delivered)
        PROVE  (delivered[i] = MessageBytes(i) /\ sent[i].valid /\ sent[i].size <= PayloadCapacity)'
    <3>1. i \in 1..n /\ sent'[i] = sent[i]
      BY <1>3, <1>4
    <3>2. delivered[i] = MessageBytes(i) /\ sent[i].valid /\ sent[i].size <= PayloadCapacity
      BY DEF IInv, DeliveredAsSent
    <3>q. QED
      BY <1>2, <3>1, <3>2 DEF MessageBytes
  <2>q. QED
    BY <1>2, <2>1, <2>2 DEF DeliveredAsSent
<1>10. Framed'
  <2>1. PICK start : Layout(start)
    BY DEF IInv, Framed
  <2>0. PICK new : new = [m \in Len(delivered) + 1..n + 2 |->
                            IF m = n + 2 THEN start[n + 1] + Len(bytes) ELSE start[m]]
    OBVIOUS
  <2>2. Unread' = Unread /\ Total' = Total + Size(n + 1)'
    BY <1>2, <1>3, <1>6, <1>7 DEF Total, Unread
  <2>3. ASSUME NEW i \in 1..Total PROVE Stream(i)' = Stream(i)
    <3>1. CASE i <= Unread
      BY <1>2, <2>2, <3>1 DEF Stream
    <3>2. CASE ~(i <= Unread)
      <4>1. i - Unread \in 1..Len(inFlight)
        BY <1>3, <3>2 DEF Total
      <4>2. Stream(i) = inFlight[i - Unread] /\ Stream(i)' = inFlight'[i - Unread]
        BY <2>2, <3>2 DEF Stream
      <4>q. QED
        BY <1>7, <4>1, <4>2
    <3>q. QED
      BY <3>1, <3>2
  <2>4. start[n + 1] = Total + 1 /\ Total \in Nat /\ start[Len(delivered) + 1] = 1
    BY <1>3, <2>1 DEF Layout, Total
  <2>5. \A m \in Len(delivered) + 1..n + 1 : start[m] \in Nat /\ start[m] <= Total + 1 /\ start[m] >= 1
    BY <1>3, <2>1, <2>4 DEF Layout
  <2>6. ASSUME NEW k \in 1..Size(n + 1)' PROVE Stream(start[n + 1] + k - 1)' = <<n + 1, k>>
    <3>1. start[n + 1] + k - 1 = Unread + (Len(inFlight) + k) /\ Len(inFlight) + k > 0
      BY <1>3, <1>6, <2>4 DEF Total
    <3>2. Stream(start[n + 1] + k - 1)' = inFlight'[start[n + 1] + k - 1 - Unread]
      BY <1>3, <1>6, <2>2, <2>4, <3>1 DEF Stream
    <3>3. start[n + 1] + k - 1 - Unread = Len(inFlight) + k
      BY <1>3, <1>6, <2>4, <3>1
    <3>q. QED
      BY <1>7, <3>2, <3>3
  <2>7. ASSUME NEW m \in Remaining, NEW k \in 1..Size(m) PROVE Stream(start[m] + k - 1)' = <<m, k>>
    <3>1. m \in 1..n /\ m + 1 \in Len(delivered) + 1..n + 1 /\ m \in Len(delivered) + 1..n + 1
      BY <1>3 DEF Remaining
    <3>2. start[m] + k - 1 \in 1..Total
      <4>1. start[m + 1] = start[m] + Size(m)
        BY <2>1 DEF Layout
      <4>2. Size(m) \in Nat
        BY <1>3, <3>1, SizeType DEF IInv
      <4>q. QED
        BY SMTT(40), <2>4, <2>5, <3>1, <4>1, <4>2
    <3>3. Stream(start[m] + k - 1) = <<m, k>>
      BY <2>1 DEF Layout
    <3>q. QED
      BY <2>3, <3>2, <3>3
  <2>8. Layout(new)'
    <3>1. new \in [Len(delivered) + 1..n + 2 -> Nat]
      BY <1>3, <1>6, <2>0, <2>4, <2>5
    <3>2. new[Len(delivered) + 1] = 1 /\ new[n + 2] = Total' + 1
      <4>1. new[Len(delivered) + 1] = start[Len(delivered) + 1]
        BY <1>3, <2>0
      <4>2. new[n + 2] = start[n + 1] + Len(bytes)
        BY <1>3, <2>0
      <4>q. QED
        BY <1>6, <2>2, <2>4, <4>1, <4>2
    <3>3. \A m \in Len(delivered) + 1..n + 1 : new[m] = start[m]
      BY <1>3, <2>0
    <3>4. \A m \in Len(delivered) + 1..n + 1 : new[m + 1] = new[m] + Size(m)'
      <4> SUFFICES ASSUME NEW m \in Len(delivered) + 1..n + 1 PROVE new[m + 1] = new[m] + Size(m)'
        OBVIOUS
      <4>1. CASE m = n + 1
        BY <1>3, <1>6, <2>0, <3>3, <4>1
      <4>2. CASE m # n + 1
        <5>1. m \in Remaining /\ m \in 1..n /\ m + 1 \in Len(delivered) + 1..n + 1
          BY <1>3, <4>2 DEF Remaining
        <5>q. QED
          BY <1>5, <2>1, <3>3, <5>1 DEF Layout
      <4>q. QED
        BY <4>1, <4>2
    <3>5. \A a, b \in Len(delivered) + 1..n + 2 : a <= b => new[a] <= new[b]
      BY <1>3, <1>6, <2>0, <2>1, <2>4, <2>5 DEF Layout
    <3>6. \A m \in Len(delivered) + 1..n + 1 : \A k \in 1..Size(m)' : Stream(new[m] + k - 1)' = <<m, k>>
      <4> SUFFICES ASSUME NEW m \in Len(delivered) + 1..n + 1, NEW k \in 1..Size(m)'
                   PROVE  Stream(start[m] + k - 1)' = <<m, k>>
        BY <3>3
      <4>1. CASE m = n + 1
        BY <2>6, <4>1
      <4>2. CASE m # n + 1
        <5>1. m \in Remaining /\ m \in 1..n
          BY <1>3, <4>2 DEF Remaining
        <5>q. QED
          BY <1>5, <2>7, <5>1
      <4>q. QED
        BY <4>1, <4>2
    <3>7. /\ Len(delivered)' = Len(delivered) /\ Len(sent)' = n + 1 /\ n + 1 + 1 = n + 2
          /\ Remaining' = Len(delivered) + 1..n + 1
      BY <1>2, <1>3, <1>4 DEF Remaining
    <3>q. QED
      BY <3>1, <3>2, <3>4, <3>5, <3>6, <3>7 DEF Layout
  <2>q. QED
    BY <2>8 DEF Framed
<1>11. AreaGiven' /\ CancelEnds' /\ NeverStalled'
  BY <1>2 DEF IInv, AreaGiven, CancelEnds, NeverStalled
<1>12. NextIncomplete'
  <2>1. Unread' = Unread
    BY <1>2 DEF Unread
  <2>2. CASE Len(delivered) = n
    BY <1>2, <1>3, <1>6, <2>1, <2>2 DEF NextIncomplete
  <2>3. CASE Len(delivered) # n
    <3>1. Len(delivered) < n /\ Size(Len(delivered) + 1)' = Size(Len(delivered) + 1)
      BY <1>2, <1>3, <1>5, <2>3
    <3>q. QED
      BY <1>2, <1>3, <2>1, <3>1 DEF IInv, NextIncomplete
  <2>q. QED
    BY <2>2, <2>3
<1>q. QED
  BY <1>8, <1>9, <1>10, <1>11, <1>12 DEF IInv

LEMMA PostRecvStep == ASSUME IInv, PostRecv PROVE IInv'
<1>1. /\ phase = "post"
      /\ UNCHANGED <<mem, rd, wr, cancelIo, sent, inFlight, delivered>>
  BY DEF PostRecv
<1> DEFINE area == WritableArea(rd, wr, BufSize)
<1>2. rd \in Indices /\ wr \in Indices
  BY DEF IInv, TypeOK, Indices
<1>3. Unread < LargestMessage
  <2>1. CASE Len(delivered) = Len(sent)
    BY <2>1, NextMessage, FramingAssumption DEF IInv, LargestMessage
  <2>2. CASE Len(delivered) # Len(sent)
    <3>1. /\ Len(delivered) < Len(sent) /\ Len(delivered) + 1 \in 1..Len(sent)
      BY <2>2, NextMessage DEF IInv
    <3>2. Unread < Size(Len(delivered) + 1)
      BY <1>1, <3>1 DEF IInv, NextIncomplete
    <3>3. Size(Len(delivered) + 1) \in Nat /\ Size(Len(delivered) + 1) <= LargestMessage
      BY <3>1, SizeType DEF IInv
    <3>q. QED
      BY <3>2, <3>3, UnreadType, FramingAssumption DEF IInv, LargestMessage
  <2>q. QED
    BY <2>1, <2>2
<1>4. /\ area.contiguous \in Nat /\ area.contiguous > 0
      /\ area \in [contiguous : 0..BufSize - 1, wrap : 0..BufSize - 1]
  <2>1. /\ area.contiguous \in Nat /\ area.wrap \in Nat
        /\ area.contiguous + area.wrap = BufSize - 1 - Unread
        /\ area.contiguous = 0 => area.wrap = 0
    BY <1>2, AreaIsFree DEF Unread
  <2>2. BufSize - 1 - Unread > 0
    BY <1>3, UnreadType, FramingAssumption DEF IInv, LargestMessage
  <2>3. area \in [contiguous : 0..BufSize - 1, wrap : 0..BufSize - 1]
    BY <1>2, AreaType DEF Indices
  <2>q. QED
    BY <2>1, <2>2, <2>3
<1>5. phase' = "pending" /\ wsaBufs' = area
  BY <1>4 DEF PostRecv
<1>6. TypeOK' /\ DataTypes'
  BY <1>1, <1>4, <1>5 DEF IInv, TypeOK, DataTypes, Phases
<1>7. DeliveredAsSent'
  BY <1>1 DEF IInv, DeliveredAsSent, MessageBytes
<1>8. Framed'
  BY <1>1, FramedUnchanged DEF IInv
<1>9. AreaGiven' /\ CancelEnds' /\ NeverStalled'
  BY <1>1, <1>4, <1>5 DEF IInv, AreaGiven, CancelEnds, NeverStalled
<1>10. NextIncomplete'
  BY <1>1, <1>5 DEF IInv, NextIncomplete, Unread, Size
<1>q. QED
  BY <1>6, <1>7, <1>8, <1>9, <1>10 DEF IInv

\* Bytes that arrive continue the stream where it was.
LEMMA StreamReceived ==
  ASSUME IInv, NEW n \in 1..BufSize - 1, Receive(n)
  PROVE  /\ mem' \in [Indices -> Octets]
         /\ inFlight' \in Seq(Octets)
         /\ Unread' = Unread + n /\ Total' = Total
         /\ \A i \in 1..Total : Stream(i)' = Stream(i)
<1>1. /\ phase = "pending"
      /\ n <= Len(inFlight)
      /\ n <= wsaBufs.contiguous + wsaBufs.wrap
      /\ inFlight' = SubSeq(inFlight, n + 1, Len(inFlight))
      /\ wr' = Advance(wr, n, BufSize)
      /\ rd' = rd
  BY DEF Receive
<1>2. mem' = [a \in DOMAIN mem |->
               IF \E k \in 1..n : Target(k) = a
                 THEN inFlight[CHOOSE k \in 1..n : Target(k) = a]
                 ELSE mem[a]]
  BY DEF Receive
<1>3. rd \in Indices /\ wr \in Indices /\ mem \in [Indices -> Octets] /\ inFlight \in Seq(Octets)
  BY DEF IInv, TypeOK, DataTypes, Indices
<1>4. Unread \in Nat /\ Unread < BufSize /\ Len(inFlight) \in Nat
  BY <1>3, UnreadType DEF IInv
<1>5. wsaBufs = WritableArea(rd, wr, BufSize) /\ n <= BufSize - 1 - Unread
  <2>1. wsaBufs = WritableArea(rd, wr, BufSize)
    BY <1>1 DEF IInv, AreaGiven
  <2>2. wsaBufs.contiguous + wsaBufs.wrap = BufSize - 1 - Unread
    BY <1>3, <2>1, AreaIsFree DEF Unread
  <2>q. QED
    BY <1>1, <2>1, <2>2
<1>6. \A k \in 1..n : Target(k) = Advance(wr, k - 1, BufSize) /\ Target(k) \in Indices
  <2> SUFFICES ASSUME NEW k \in 1..n
               PROVE  Target(k) = Advance(wr, k - 1, BufSize) /\ Target(k) \in Indices
    OBVIOUS
  <2>1. wsaBufs.contiguous \in Nat /\ wsaBufs.wrap \in Nat
    BY <1>3, <1>5, AreaIsFree
  <2>2. k \in 1..wsaBufs.contiguous + wsaBufs.wrap
    BY <1>1, <2>1
  <2>3. Target(k) = Advance(wr, k - 1, BufSize)
    BY <1>3, <1>5, <2>2, AreaFollowsCursor
  <2>4. k - 1 \in 0..BufSize
    BY FramingAssumption
  <2>q. QED
    BY <1>3, <2>3, <2>4, AdvanceInBuffer
<1>7. \A j, k \in 1..n : Target(j) = Target(k) => j = k
  <2> SUFFICES ASSUME NEW j \in 1..n, NEW k \in 1..n, Target(j) = Target(k)
               PROVE  j = k
    OBVIOUS
  <2>1. j - 1 \in 0..BufSize - 1 /\ k - 1 \in 0..BufSize - 1
    BY FramingAssumption
  <2>2. Advance(wr, j - 1, BufSize) = Advance(wr, k - 1, BufSize)
    BY <1>6
  <2>3. j - 1 = k - 1
    BY <1>3, <2>1, <2>2, AdvanceInjective
  <2>q. QED
    BY <2>3
<1>8. DOMAIN mem = Indices
  BY <1>3
<1>9. \A k \in 1..n : mem'[Target(k)] = inFlight[k]
  <2> SUFFICES ASSUME NEW k \in 1..n PROVE mem'[Target(k)] = inFlight[k]
    OBVIOUS
  <2>1. Target(k) \in DOMAIN mem
    BY <1>6, <1>8
  <2>2. mem'[Target(k)] = inFlight[CHOOSE j \in 1..n : Target(j) = Target(k)]
    BY <1>2, <2>1
  <2>3. (CHOOSE j \in 1..n : Target(j) = Target(k)) = k
    BY <1>7
  <2>q. QED
    BY <2>2, <2>3
<1>10. \A a \in Indices : (\A k \in 1..n : Target(k) # a) => mem'[a] = mem[a]
  BY <1>2, <1>8
<1>11. mem' \in [Indices -> Octets]
  <2>1. \A k \in 1..n : inFlight[k] \in Octets
    BY <1>1, <1>3, <1>4, ElementOfSeq
  <2>2. ASSUME NEW a \in Indices PROVE mem'[a] \in Octets
    <3>1. CASE \E k \in 1..n : Target(k) = a
      BY <1>9, <2>1, <3>1
    <3>2. CASE \A k \in 1..n : Target(k) # a
      BY <1>3, <1>10, <3>2
    <3>q. QED
      BY <3>1, <3>2
  <2>q. QED
    BY <1>2, <1>8, <2>2
<1>12. /\ inFlight' \in Seq(Octets)
       /\ Len(inFlight') = Len(inFlight) - n
       /\ \A i \in 1..Len(inFlight) - n : inFlight'[i] = inFlight[n + i]
  <2>1. n + 1 \in 1..Len(inFlight) + 1 /\ Len(inFlight) \in n..Len(inFlight)
    BY <1>1, <1>4
  <2>2. /\ inFlight' \in Seq(Octets)
        /\ Len(inFlight') = IF n + 1 <= Len(inFlight) THEN Len(inFlight) - (n + 1) + 1 ELSE 0
        /\ \A i \in 1..Len(inFlight) - (n + 1) + 1 : inFlight'[i] = inFlight[n + 1 + i - 1]
    BY <1>1, <1>3, <2>1, SubSeqProperties
  <2>3. Len(inFlight) - (n + 1) + 1 = Len(inFlight) - n
    BY <1>4
  <2>4. \A i \in 1..Len(inFlight) - n : n + 1 + i - 1 = n + i
    BY <1>4
  <2>q. QED
    BY SMTT(40), <1>1, <1>4, <2>2, <2>3, <2>4
<1>13. Unread' = Unread + n
  BY <1>1, <1>3, <1>5, BehindUnread DEF Unread
<1>14. Total' = Total
  BY <1>4, <1>12, <1>13 DEF Total
<1>15. ASSUME NEW i \in 1..Total PROVE Stream(i)' = Stream(i)
  <2>1. CASE i <= Unread
    <3>1. Stream(i) = mem[Advance(rd, i - 1, BufSize)]
      BY <2>1 DEF Stream
    <3>2. Stream(i)' = mem'[Advance(rd, i - 1, BufSize)]
      BY <1>1, <1>4, <1>13, <2>1 DEF Stream
    <3>3. Advance(rd, i - 1, BufSize) \in Indices
      BY <1>3, <1>4, <2>1, AdvanceInBuffer, FramingAssumption
    <3>4. \A k \in 1..n : Advance(rd, i - 1, BufSize) # Advance(wr, k - 1, BufSize)
      <4> SUFFICES ASSUME NEW k \in 1..n
                   PROVE  Advance(rd, i - 1, BufSize) # Advance(wr, k - 1, BufSize)
        OBVIOUS
      <4>1. /\ i - 1 \in Nat /\ k - 1 \in Nat
            /\ i - 1 < Unread /\ k - 1 < BufSize - 1 - Unread
        BY <1>4, <1>5, <2>1, FramingAssumption
      <4>q. QED
        BY <1>3, <4>1, FreeIsNotUnread DEF Unread
    <3>5. mem'[Advance(rd, i - 1, BufSize)] = mem[Advance(rd, i - 1, BufSize)]
      BY <1>6, <1>10, <3>3, <3>4
    <3>q. QED
      BY <3>1, <3>2, <3>5
  <2>2. CASE i > Unread /\ i <= Unread + n
    <3>1. /\ i - Unread \in 1..n /\ i - Unread - 1 \in Nat
          /\ i - Unread - 1 <= BufSize - 1 - Unread
          /\ Unread + (i - Unread - 1) = i - 1
      BY <1>4, <1>5, <2>2, FramingAssumption
    <3>2. Stream(i)' = mem'[Advance(rd, i - 1, BufSize)]
      BY <1>1, <1>4, <1>13, <2>2 DEF Stream
    <3>3. Advance(rd, i - 1, BufSize) = Advance(wr, i - Unread - 1, BufSize)
      <4>1. Advance(rd, Unread + (i - Unread - 1), BufSize) = Advance(wr, i - Unread - 1, BufSize)
        BY <1>3, <3>1, BehindUnread DEF Unread
      <4>q. QED
        BY <3>1, <4>1
    <3>4. mem'[Advance(rd, i - 1, BufSize)] = inFlight[i - Unread]
      BY <1>6, <1>9, <3>1, <3>3
    <3>5. Stream(i) = inFlight[i - Unread]
      BY <1>4, <2>2 DEF Stream
    <3>q. QED
      BY <3>2, <3>4, <3>5
  <2>3. CASE i > Unread + n
    <3>1. /\ ~(i <= Unread) /\ ~(i <= Unread + n)
          /\ i - (Unread + n) \in 1..Len(inFlight) - n
          /\ n + (i - (Unread + n)) = i - Unread
      BY <1>4, <2>3 DEF Total
    <3>2. Stream(i)' = inFlight'[i - (Unread + n)]
      BY <1>13, <3>1 DEF Stream
    <3>3. Stream(i) = inFlight[i - Unread]
      BY <3>1 DEF Stream
    <3>q. QED
      BY <1>12, <3>1, <3>2, <3>3
  <2>q. QED
    BY <1>4, <2>1, <2>2, <2>3 DEF Total
<1>q. QED
  BY <1>11, <1>12, <1>13, <1>14, <1>15

LEMMA ReceiveStep == ASSUME IInv, NEW n \in 1..BufSize - 1, Receive(n) PROVE IInv'
<1>1. /\ phase' = "parse" /\ wsaBufs' = NoBufs
      /\ wr' = Advance(wr, n, BufSize) /\ n \in 0..BufSize
      /\ UNCHANGED <<rd, cancelIo, sent, delivered>>
  BY FramingAssumption DEF Receive
<1>2. /\ mem' \in [Indices -> Octets] /\ inFlight' \in Seq(Octets)
      /\ Total' = Total
      /\ \A i \in 1..Total : Stream(i)' = Stream(i)
  BY StreamReceived
<1>3. TypeOK'
  <2>1. wr' \in 0..BufSize - 1
    BY <1>1, AdvanceInBuffer DEF IInv, TypeOK, Indices
  <2>2. NoBufs \in [contiguous : 0..BufSize - 1, wrap : 0..BufSize - 1]
    BY FramingAssumption DEF NoBufs
  <2>q. QED
    BY <1>1, <2>1, <2>2 DEF IInv, TypeOK, Phases
<1>4. DataTypes'
  BY <1>1, <1>2 DEF IInv, DataTypes
<1>5. DeliveredAsSent'
  BY <1>1 DEF IInv, DeliveredAsSent, MessageBytes
<1>6. Framed'
  <2>1. PICK start : Layout(start)
    BY DEF IInv, Framed
  <2>2. Remaining' = Remaining /\ \A m : Size(m)' = Size(m)
    BY <1>1 DEF Remaining, Size
  <2>3. \A m \in Remaining : \A k \in 1..Size(m) : start[m] + k - 1 \in 1..Total
    BY <2>1, InMessages DEF IInv
  <2>4. \A m \in Remaining : \A k \in 1..Size(m) : Stream(start[m] + k - 1)' = <<m, k>>
    BY <1>2, <2>1, <2>3 DEF Layout
  <2>5. Layout(start)'
    BY <1>1, <1>2, <2>1, <2>2, <2>4 DEF Layout
  <2>q. QED
    BY <2>5 DEF Framed
<1>7. AreaGiven' /\ CancelEnds' /\ NeverStalled' /\ NextIncomplete'
  <2>1. ~cancelIo
    BY DEF IInv, CancelEnds, Receive
  <2>q. QED
    BY <1>1, <2>1 DEF AreaGiven, CancelEnds, NeverStalled, NextIncomplete
<1>q. QED
  BY <1>3, <1>4, <1>5, <1>6, <1>7 DEF IInv

\* The loop ends on an incomplete message or by cancelling I/O.
LEMMA ParseStopStep == ASSUME IInv, ParseStop PROVE IInv'
<1> DEFINE header == Header(Peek(HeaderSize))
           next   == Len(delivered) + 1
<1>1. /\ phase = "parse" /\ phase' = "parsed"
      /\ UNCHANGED <<mem, rd, wr, wsaBufs, sent, inFlight, delivered>>
  BY DEF ParseStop
<1>2. \/ /\ \/ Unread < HeaderSize
            \/ header.valid /\ FitsPacket(header.size) /\ ~WhollyReadable(header.size)
         /\ cancelIo' = cancelIo
      \/ cancelIo' = TRUE
  BY DEF ParseStop
<1>3. ASSUME ~cancelIo', Len(delivered) < Len(sent) PROVE Unread < Size(next)
  <2>0. cancelIo' # TRUE
    BY <1>3
  <2>1. /\ Unread \in Nat /\ Len(delivered) \in Nat /\ next \in 1..Len(sent)
    BY <1>3, UnreadType, NextMessage DEF IInv
  <2>2. /\ Size(next) \in Nat /\ HeaderSize <= Size(next)
        /\ sent[next].size <= PayloadCapacity => Size(next) = HeaderSize + sent[next].size
    BY <2>1, SizeType DEF IInv
  <2>3. CASE Unread < HeaderSize
    BY <2>1, <2>2, <2>3, FramingAssumption
  <2>4. CASE ~(Unread < HeaderSize)
    <3>1. Unread >= HeaderSize
      BY <2>1, <2>4, FramingAssumption
    <3>2. header = sent[next]
      BY <3>1, HeaderIsNext
    <3>3. sent[next].size <= PayloadCapacity /\ ~(HeaderSize + sent[next].size <= Unread)
      BY <1>2, <2>0, <2>4, <3>2 DEF FitsPacket, WhollyReadable
    <3>q. QED
      BY <2>1, <2>2, <3>3
  <2>q. QED
    BY <2>3, <2>4
<1>4. cancelIo' \in BOOLEAN
  BY <1>2 DEF IInv, TypeOK
<1>5. TypeOK'
  BY <1>1, <1>4 DEF IInv, TypeOK, Phases
<1>6. DataTypes' /\ DeliveredAsSent'
  BY <1>1 DEF IInv, DataTypes, DeliveredAsSent, MessageBytes
<1>7. Framed'
  BY <1>1, FramedUnchanged DEF IInv
<1>8. AreaGiven' /\ CancelEnds' /\ NeverStalled'
  BY <1>1 DEF AreaGiven, CancelEnds, NeverStalled
<1>9. NextIncomplete'
  BY <1>1, <1>3 DEF NextIncomplete, Unread, Size
<1>q. QED
  BY <1>5, <1>6, <1>7, <1>8, <1>9 DEF IInv

LEMMA RepostStep == ASSUME IInv, Repost PROVE IInv'
<1>1. /\ phase = "parsed" /\ phase' = IF cancelIo THEN "ended" ELSE "post"
      /\ UNCHANGED <<mem, rd, wr, wsaBufs, cancelIo, sent, inFlight, delivered>>
  BY DEF Repost
<1>2. TypeOK' /\ DataTypes' /\ DeliveredAsSent'
  BY <1>1 DEF IInv, TypeOK, DataTypes, DeliveredAsSent, MessageBytes, Phases
<1>3. Framed'
  BY <1>1, FramedUnchanged DEF IInv
<1>4. AreaGiven' /\ CancelEnds' /\ NeverStalled'
  BY <1>1 DEF AreaGiven, CancelEnds, NeverStalled
<1>5. NextIncomplete'
  BY <1>1 DEF IInv, NextIncomplete, Unread, Size
<1>q. QED
  BY <1>2, <1>3, <1>4, <1>5 DEF IInv

LEMMA BreakStep == ASSUME IInv, Break PROVE IInv'
<1>1. /\ phase' = "ended" /\ wsaBufs' = NoBufs /\ cancelIo' = TRUE
      /\ UNCHANGED <<mem, rd, wr, sent, inFlight, delivered>>
  BY DEF Break
<1>2. NoBufs \in [contiguous : 0..BufSize - 1, wrap : 0..BufSize - 1]
  BY FramingAssumption DEF NoBufs
<1>3. TypeOK' /\ DataTypes' /\ DeliveredAsSent'
  BY <1>1, <1>2 DEF IInv, TypeOK, DataTypes, DeliveredAsSent, MessageBytes, Phases
<1>4. Framed'
  BY <1>1, FramedUnchanged DEF IInv
<1>5. AreaGiven' /\ CancelEnds' /\ NeverStalled' /\ NextIncomplete'
  BY <1>1 DEF AreaGiven, CancelEnds, NeverStalled, NextIncomplete
<1>q. QED
  BY <1>3, <1>4, <1>5 DEF IInv

\* Without messages the stream is empty.
EmptyStream ==
  /\ rd = 0 /\ wr = 0
  /\ sent = <<>> /\ inFlight = <<>> /\ delivered = <<>>

LEMMA EmptyIsFramed == EmptyStream => Framed
<1> SUFFICES ASSUME EmptyStream PROVE Framed
  OBVIOUS
<1>1. Len(sent) = 0 /\ Len(inFlight) = 0 /\ Len(delivered) = 0
  BY DEF EmptyStream
<1>2. Total = 0 /\ Remaining = {}
  BY <1>1 DEF EmptyStream, Total, Unread, Used, Remaining
<1>3. PICK start : start = [m \in 1..1 |-> 1]
  OBVIOUS
<1>4. Layout(start)
  BY <1>1, <1>2, <1>3 DEF Layout
<1>q. QED
  BY <1>4 DEF Framed

LEMMA EmptyIsFramedPrimed == EmptyStream' => Framed'
BY EmptyIsFramed, PTL

LEMMA ReuseStep == ASSUME IInv, Reuse PROVE IInv'
<1>1. /\ phase' = "post" /\ cancelIo' = FALSE
      /\ rd' = 0 /\ wr' = 0 /\ sent' = <<>> /\ inFlight' = <<>> /\ delivered' = <<>>
      /\ UNCHANGED <<mem, wsaBufs>>
  BY DEF Reuse, Clear
<1>2. Len(sent') = 0 /\ Len(delivered') = 0
  BY <1>1
<1>3. TypeOK' /\ DataTypes'
  <2>0. 0 \in 0..BufSize - 1
    BY FramingAssumption
  <2>1. TypeOK'
    BY <1>1, <2>0 DEF IInv, TypeOK, Phases
  <2>2. <<>> \in Seq(Messages) /\ <<>> \in Seq(Octets) /\ <<>> \in Seq(Seq(Octets))
    BY EmptySeq
  <2>3. mem \in [Indices -> Octets]
    BY DEF IInv, DataTypes
  <2>q. QED
    BY <1>1, <2>1, <2>2, <2>3 DEF DataTypes
<1>4. DeliveredAsSent' /\ NextIncomplete'
  BY <1>1, <1>2 DEF DeliveredAsSent, NextIncomplete
<1>5. Framed'
  BY <1>1, EmptyIsFramedPrimed DEF EmptyStream
<1>6. AreaGiven' /\ CancelEnds' /\ NeverStalled'
  BY <1>1 DEF AreaGiven, CancelEnds, NeverStalled
<1>q. QED
  BY <1>3, <1>4, <1>5, <1>6 DEF IInv

\* A delivered message is cut off the front of the stream.
LEMMA StreamParsed ==
  ASSUME IInv, ParseMessage
  PROVE  LET size == Size(Len(delivered) + 1) IN
         /\ rd' \in Indices
         /\ Unread' = Unread - size /\ Total' = Total - size
         /\ \A i \in 1..Total - size : Stream(i)' = Stream(size + i)
<1>1. PICK size : size = Size(Len(delivered) + 1)
  OBVIOUS
<1>2. /\ size \in Nat /\ size <= Unread
      /\ rd' = Advance(rd, size, BufSize)
      /\ UNCHANGED <<mem, wr, inFlight>>
  BY <1>1, ParsedIsNext DEF ParseMessage
<1>3. /\ rd \in Indices /\ wr \in Indices
      /\ Unread \in Nat /\ Unread < BufSize /\ Len(inFlight) \in Nat
  BY UnreadType DEF IInv, TypeOK, DataTypes, Indices
<1>4. /\ rd' \in Indices
      /\ Unread' = Unread - size
      /\ \A i \in Nat : size + i < BufSize => Advance(rd', i, BufSize) = Advance(rd, size + i, BufSize)
  BY <1>2, <1>3, SkipBytes DEF Unread
<1>5. Total' = Total - size
  BY <1>2, <1>3, <1>4 DEF Total
<1>6. ASSUME NEW i \in 1..Total - size PROVE Stream(i)' = Stream(size + i)
  <2>1. CASE i <= Unread - size
    <3>1. Stream(i)' = mem[Advance(rd', i - 1, BufSize)]
      BY <1>2, <1>4, <2>1 DEF Stream
    <3>2. Stream(size + i) = mem[Advance(rd, size + i - 1, BufSize)]
      BY <1>2, <1>3, <2>1 DEF Stream
    <3>3. i - 1 \in Nat /\ size + (i - 1) < BufSize /\ size + (i - 1) = size + i - 1
      BY <1>2, <1>3, <2>1, FramingAssumption DEF Total
    <3>4. Advance(rd', i - 1, BufSize) = Advance(rd, size + i - 1, BufSize)
      BY <1>4, <3>3
    <3>q. QED
      BY <3>1, <3>2, <3>4
  <2>2. CASE i > Unread - size
    <3>1. ~(i <= Unread - size) /\ ~(size + i <= Unread) /\ i - (Unread - size) = size + i - Unread
      BY <1>2, <1>3, <2>2 DEF Total
    <3>2. Stream(i)' = inFlight[i - (Unread - size)]
      BY <1>2, <1>4, <3>1 DEF Stream
    <3>3. Stream(size + i) = inFlight[size + i - Unread]
      BY <1>2, <1>3, <3>1 DEF Stream
    <3>q. QED
      BY <3>1, <3>2, <3>3
  <2>q. QED
    BY <1>2, <1>3, <2>1, <2>2 DEF Total
<1>q. QED
  BY <1>1, <1>4, <1>5, <1>6

LEMMA ParseMessageStep == ASSUME IInv, ParseMessage PROVE IInv'
<1>1. PICK d \in Nat, n \in Nat : d = Len(delivered) /\ n = Len(sent)
  BY DEF IInv, DataTypes
<1>2. PICK size : size = Size(d + 1)
  OBVIOUS
<1>3. /\ d + 1 \in 1..n
      /\ sent[d + 1].valid /\ sent[d + 1].size <= PayloadCapacity
      /\ size \in Nat /\ size <= Unread
      /\ delivered' = Append(delivered, MessageBytes(d + 1))
  BY <1>1, <1>2, ParsedIsNext
<1>4. /\ rd' \in Indices
      /\ Total' = Total - size
      /\ \A i \in 1..Total - size : Stream(i)' = Stream(size + i)
  BY <1>1, <1>2, StreamParsed
<1>5. /\ phase = "parse"
      /\ UNCHANGED <<mem, wr, wsaBufs, phase, cancelIo, sent, inFlight>>
  BY DEF ParseMessage
<1>6. MessageBytes(d + 1) \in Seq(Octets)
  BY <1>1, <1>3, MessageLength DEF IInv
<1>7. /\ delivered' \in Seq(Seq(Octets)) /\ Len(delivered') = d + 1
      /\ delivered'[d + 1] = MessageBytes(d + 1)
      /\ \A i \in 1..d : delivered'[i] = delivered[i]
  BY <1>1, <1>3, <1>6, AppendProperties DEF IInv, DataTypes
<1>8. TypeOK' /\ DataTypes'
  BY <1>4, <1>5, <1>7 DEF IInv, TypeOK, DataTypes, Indices
<1>9. DeliveredAsSent'
  <2>1. \A i : MessageBytes(i)' = MessageBytes(i)
    BY <1>5 DEF MessageBytes
  <2>2. \A i \in 1..d : delivered[i] = MessageBytes(i) /\ sent[i].valid /\ sent[i].size <= PayloadCapacity
    BY <1>1 DEF IInv, DeliveredAsSent
  <2>3. \A i \in 1..d + 1 : i \in 1..d \/ i = d + 1
    BY <1>1
  <2>4. Len(delivered') <= Len(sent')
    BY <1>1, <1>3, <1>5, <1>7
  <2>q. QED
    BY <1>3, <1>5, <1>7, <2>1, <2>2, <2>3, <2>4 DEF DeliveredAsSent
<1>10. Framed'
  <2>1. PICK start : Layout(start)
    BY DEF IInv, Framed
  <2>2. PICK new : new = [m \in d + 2..n + 1 |-> start[m] - size]
    OBVIOUS
  <2>3. Remaining' = d + 2..n /\ Remaining = d + 1..n /\ \A m : Size(m)' = Size(m)
    BY <1>1, <1>5, <1>7 DEF Remaining, Size
  <2>4. /\ \A m \in d + 1..n + 1 : start[m] \in Nat
        /\ start[d + 1] = 1 /\ start[d + 1 + 1] = start[d + 1] + size
        /\ start[n + 1] = Total + 1
        /\ \A m \in d + 1..n : start[m + 1] = start[m] + Size(m)
        /\ \A a, b \in d + 1..n + 1 : a <= b => start[a] <= start[b]
    BY <1>1, <1>2, <1>3, <2>1, <2>3 DEF Layout
  <2>5. \A m \in d + 2..n + 1 : m \in d + 1..n + 1 /\ start[m] > size /\ new[m] = start[m] - size
    <3> SUFFICES ASSUME NEW m \in d + 2..n + 1
                 PROVE  m \in d + 1..n + 1 /\ start[m] > size /\ new[m] = start[m] - size
      OBVIOUS
    <3>1. m \in d + 1..n + 1 /\ d + 1 + 1 \in d + 1..n + 1 /\ d + 1 + 1 <= m
      OBVIOUS
    <3>2. start[d + 1 + 1] <= start[m]
      BY <2>4, <3>1
    <3>q. QED
      BY <1>3, <2>2, <2>4, <3>1, <3>2
  <2>6. new \in [d + 2..n + 1 -> Nat]
    BY SMTT(40), <1>3, <2>2, <2>4, <2>5
  <2>7. d + 2 \in d + 2..n + 1 /\ n + 1 \in d + 2..n + 1 /\ d + 1 + 1 = d + 2
    BY <1>3
  <2>8. new[d + 2] = 1
    <3>1. new[d + 2] = start[d + 2] - size
      BY <2>5, <2>7
    <3>2. start[d + 2] = 1 + size
      BY <1>3, <2>4, <2>7
    <3>q. QED
      BY <1>3, <3>1, <3>2
  <2>9. new[n + 1] = Total' + 1
    <3>1. Total \in Nat
      BY UnreadType DEF IInv, Total, DataTypes
    <3>q. QED
      BY SMTT(40), <1>3, <1>4, <2>4, <2>5, <2>7, <3>1
  <2>10. ASSUME NEW m \in d + 2..n PROVE new[m + 1] = new[m] + Size(m)'
    <3>1. m \in d + 1..n /\ m \in d + 2..n + 1 /\ m + 1 \in d + 2..n + 1 /\ m \in 1..n
      OBVIOUS
    <3>2. Size(m) \in Nat
      BY <1>1, <3>1, SizeType DEF IInv
    <3>3. start[m + 1] = start[m] + Size(m) /\ start[m] \in Nat
      BY <2>4, <2>5, <3>1
    <3>4. new[m + 1] = start[m + 1] - size /\ new[m] = start[m] - size
      BY <2>5, <3>1
    <3>q. QED
      BY <1>3, <2>3, <3>2, <3>3, <3>4
  <2>11. ASSUME NEW a \in d + 2..n + 1, NEW b \in d + 2..n + 1, a <= b PROVE new[a] <= new[b]
    <3>1. start[a] <= start[b] /\ start[a] \in Nat /\ start[b] \in Nat
      BY <2>4, <2>5, <2>11
    <3>q. QED
      BY <1>3, <2>5, <3>1
  <2>12. ASSUME NEW m \in d + 2..n, NEW k \in 1..Size(m) PROVE Stream(new[m] + k - 1)' = <<m, k>>
    <3>1. m \in Remaining /\ m \in 1..n /\ m \in d + 2..n + 1
      BY <2>3
    <3>2. Size(m) \in Nat /\ Total \in Nat
      BY <1>1, <3>1, SizeType, UnreadType DEF IInv, Total, DataTypes
    <3>3. start[m] + k - 1 \in 1..Total
      BY <2>1, <3>1, InMessages DEF IInv
    <3>4. new[m] = start[m] - size /\ start[m] > size /\ start[m] \in Nat
      BY <2>4, <2>5, <3>1
    <3>5. new[m] + k - 1 \in 1..Total - size /\ size + (new[m] + k - 1) = start[m] + k - 1
      <4>1. size \in Nat
        BY <1>3
      <4>2. k \in Nat /\ k >= 1
        BY <3>2
      <4>q. QED
        BY <3>2, <3>3, <3>4, <4>1, <4>2
    <3>6. Stream(start[m] + k - 1) = <<m, k>>
      BY <2>1, <3>1 DEF Layout
    <3>q. QED
      BY <1>4, <3>5, <3>6
  <2>13. Len(delivered') + 1 = d + 2 /\ Len(sent') = n
    BY <1>1, <1>5, <1>7
  <2>14. Layout(new)'
    BY <2>3, <2>6, <2>8, <2>9, <2>10, <2>11, <2>12, <2>13 DEF Layout
  <2>q. QED
    BY <2>14 DEF Framed
<1>11. AreaGiven' /\ CancelEnds' /\ NeverStalled' /\ NextIncomplete'
  BY <1>5 DEF IInv, AreaGiven, CancelEnds, NeverStalled, NextIncomplete
<1>q. QED
  BY <1>8, <1>9, <1>10, <1>11 DEF IInv

LEMMA StutteringStep == ASSUME IInv, UNCHANGED vars PROVE IInv'
<1>1. UNCHANGED <<mem, rd, wr, wsaBufs, phase, cancelIo, sent, inFlight, delivered>>
  BY DEF vars
<1>2. TypeOK' /\ DataTypes' /\ DeliveredAsSent'
  BY <1>1 DEF IInv, TypeOK, DataTypes, DeliveredAsSent, MessageBytes
<1>3. Framed'
  BY <1>1, FramedUnchanged DEF IInv
<1>4. AreaGiven' /\ CancelEnds' /\ NeverStalled' /\ NextIncomplete'
  BY <1>1 DEF IInv, AreaGiven, CancelEnds, NeverStalled, NextIncomplete, Unread, Size
<1>q. QED
  BY <1>2, <1>3, <1>4 DEF IInv

LEMMA InitialInvariant == Init => IInv
<1> SUFFICES ASSUME Init PROVE IInv
  OBVIOUS
<1>1. Len(sent) = 0 /\ Len(delivered) = 0
  BY DEF Init
<1>2. TypeOK
  <2>1. 0 \in 0..BufSize - 1
    BY FramingAssumption
  <2>2. NoBufs \in [contiguous : 0..BufSize - 1, wrap : 0..BufSize - 1]
    BY <2>1 DEF NoBufs
  <2>q. QED
    BY <2>1, <2>2 DEF Init, TypeOK, Phases
<1>3. DataTypes
  <2>1. sent = <<>> /\ inFlight = <<>> /\ delivered = <<>>
    BY DEF Init
  <2>2. mem \in [Indices -> Octets]
    BY DEF Init, Indices, Octets, Noise
  <2>q. QED
    BY <2>1, <2>2, EmptySeq DEF DataTypes
<1>4. DeliveredAsSent /\ NextIncomplete
  BY <1>1 DEF DeliveredAsSent, NextIncomplete
<1>5. Framed
  BY EmptyIsFramed DEF Init, EmptyStream
<1>6. AreaGiven /\ CancelEnds /\ NeverStalled
  BY DEF Init, AreaGiven, CancelEnds, NeverStalled
<1>q. QED
  BY <1>2, <1>3, <1>4, <1>5, <1>6 DEF IInv

LEMMA InductiveStep == IInv /\ [Next]_vars => IInv'
<1> SUFFICES ASSUME IInv, [Next]_vars PROVE IInv'
  OBVIOUS
<1>1. CASE PeerSend
  BY <1>1, PeerSendStep
<1>2. CASE PostRecv
  BY <1>2, PostRecvStep
<1>3. ASSUME NEW n \in 1..BufSize - 1, Receive(n) PROVE IInv'
  BY <1>3, ReceiveStep
<1>4. CASE ParseStop
  BY <1>4, ParseStopStep
<1>5. CASE ParseMessage
  BY <1>5, ParseMessageStep
<1>6. CASE Repost
  BY <1>6, RepostStep
<1>7. CASE Break
  BY <1>7, BreakStep
<1>8. CASE Reuse
  BY <1>8, ReuseStep
<1>9. CASE UNCHANGED vars
  BY <1>9, StutteringStep
<1>q. QED
  BY <1>1, <1>2, <1>3, <1>4, <1>5, <1>6, <1>7, <1>8, <1>9 DEF Next

------------------------------------------------------------------------------
(***************************************************************************)
(* The theorems.                                                           *)
(***************************************************************************)

\* The stream is laid out as the messages that are not delivered yet, whatever the network, the
\* parsing loop and the reuse of the slot have done: the inductive invariant always holds.
THEOREM Invariance == Spec => []IInv
<1>1. Init => IInv
  BY InitialInvariant
<1>2. IInv /\ [Next]_vars => IInv'
  BY InductiveStep
<1>q. QED
  BY <1>1, <1>2, PTL DEF Spec

\* The cursors of the receive buffer and the areas given to WSARecv stay in the buffer.
THEOREM TypeCorrectness == Spec => []TypeOK
<1>1. IInv => TypeOK
  BY DEF IInv
<1>q. QED
  BY <1>1, Invariance, PTL

\* OnReceive is given the peer's messages, whole and in order, for every fragmentation.
THEOREM MessagesArriveAsSent == Spec => []DeliveredAsSent
<1>1. IInv => DeliveredAsSent
  BY DEF IInv
<1>q. QED
  BY <1>1, Invariance, PTL

\* A message that has arrived completely is never kept back until more bytes come.
THEOREM CompleteMessagesAreDelivered == Spec => []NoMessageHeldBack
<1>1. IInv => NoMessageHeldBack
  <2> SUFFICES ASSUME IInv, phase \in {"post", "pending"}, Len(delivered) < Len(sent)
               PROVE  Unread < Len(MessageBytes(Len(delivered) + 1))
    BY DEF NoMessageHeldBack
  <2>1. Len(delivered) + 1 \in 1..Len(sent)
    BY NextMessage DEF IInv
  <2>2. Len(MessageBytes(Len(delivered) + 1)) = Size(Len(delivered) + 1)
    BY <2>1, MessageLength DEF IInv
  <2>q. QED
    BY <2>2 DEF IInv, NextIncomplete
<1>q. QED
  BY <1>1, Invariance, PTL

\* There is always room to post a receive: PostRecv never returns silently on a full buffer.
THEOREM ReceivingNeverStalls == Spec => []NeverStalled
<1>1. IInv => NeverStalled
  BY DEF IInv
<1>q. QED
  BY <1>1, Invariance, PTL

\* WSARecv is given exactly the free bytes, in the order of the stream.
THEOREM ReceivesAreFree == Spec => []ReceivesIntoFreeBytes
<1>1. IInv => ReceivesIntoFreeBytes
  <2> SUFFICES ASSUME IInv, phase = "pending"
               PROVE  /\ wsaBufs.contiguous > 0
                      /\ wsaBufs.contiguous + wsaBufs.wrap = BufSize - 1 - Unread
                      /\ \A k \in 1..wsaBufs.contiguous + wsaBufs.wrap : Target(k) = Advance(wr, k - 1, BufSize)
    BY DEF ReceivesIntoFreeBytes
  <2>1. rd \in Indices /\ wr \in Indices
    BY DEF IInv, TypeOK, Indices
  <2>2. wsaBufs = WritableArea(rd, wr, BufSize) /\ wsaBufs.contiguous > 0
    BY DEF IInv, AreaGiven
  <2>3. wsaBufs.contiguous + wsaBufs.wrap = BufSize - 1 - Unread
    BY <2>1, <2>2, AreaIsFree DEF Unread
  <2>4. \A k \in 1..wsaBufs.contiguous + wsaBufs.wrap : Target(k) = Advance(wr, k - 1, BufSize)
    BY <2>1, <2>2, AreaFollowsCursor
  <2>q. QED
    BY <2>2, <2>3, <2>4
<1>q. QED
  BY <1>1, Invariance, PTL
====
