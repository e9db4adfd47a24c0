-------------------------- MODULE SendQueueTheorems --------------------------
(***************************************************************************)
(* SendQueue is a bounded first-in first-out queue for every ring size,    *)
(* every set of packets and every interleaving with the unlocked Size.     *)
(***************************************************************************)
EXTENDS SendQueue, SequenceTheorems, TLAPS

Indices == 0..BufSize - 1

\* Entry i lies between the cursors, in the ring's order.
Between(i, r, w) == IF w < r THEN r <= i \/ i < w ELSE r <= i /\ i < w

------------------------------------------------------------------------------
(***************************************************************************)
(* Cursor arithmetic.                                                      *)
(***************************************************************************)

\* A cursor advanced by at most one turn stays in the ring (ComputeAdvancedCursorPos).
LEMMA AdvanceInRing ==
  ASSUME NEW c \in Indices, NEW n \in 0..BufSize
  PROVE  Advance(c, n, BufSize) \in Indices
BY SendQueueAssumption DEF Indices, Advance

\* The ring never counts more than BufSize - 1 entries, and counts none only if the cursors are equal.
LEMMA UsedInRing ==
  ASSUME NEW r \in Indices, NEW w \in Indices
  PROVE  /\ Used(r, w, BufSize) \in Indices
         /\ Used(r, w, BufSize) = 0 <=> r = w
BY SendQueueAssumption DEF Indices, Used

\* The k-th entry from the read cursor lies between the cursors if k is less than the count.
LEMMA CountedIsBetween ==
  ASSUME NEW r \in Indices, NEW w \in Indices, NEW k \in Indices
  PROVE  k < Used(r, w, BufSize) <=> Between(Advance(r, k, BufSize), r, w)
BY SendQueueAssumption DEF Indices, Used, Advance, Between

\* Every entry is the k-th from the read cursor for one k.
LEMMA IndexFromCursor ==
  ASSUME NEW r \in Indices, NEW i \in Indices
  PROVE  \E k \in Indices : i = Advance(r, k, BufSize)
<1>1. CASE r <= i
  <2>1. i - r \in Indices /\ i = Advance(r, i - r, BufSize)
    BY <1>1, SendQueueAssumption DEF Indices, Advance
  <2>q. QED
    BY <2>1
<1>2. CASE i < r
  <2>1. i + BufSize - r \in Indices /\ i = Advance(r, i + BufSize - r, BufSize)
    BY <1>2, SendQueueAssumption DEF Indices, Advance
  <2>q. QED
    BY <2>1
<1>q. QED
  BY <1>1, <1>2 DEF Indices

\* The entries counted from the read cursor are those between the cursors.
LEMMA SpanIsBetween ==
  ASSUME NEW r \in Indices, NEW w \in Indices, NEW i \in Indices
  PROVE  (\E k \in 0..Used(r, w, BufSize) - 1 : i = Advance(r, k, BufSize)) <=> Between(i, r, w)
<1>1. ASSUME NEW k \in 0..Used(r, w, BufSize) - 1, i = Advance(r, k, BufSize)
      PROVE  Between(i, r, w)
  <2>1. k \in Indices /\ k < Used(r, w, BufSize)
    BY UsedInRing, SendQueueAssumption DEF Indices
  <2>q. QED
    BY <1>1, <2>1, CountedIsBetween
<1>2. ASSUME Between(i, r, w)
      PROVE  \E k \in 0..Used(r, w, BufSize) - 1 : i = Advance(r, k, BufSize)
  <2>1. PICK k \in Indices : i = Advance(r, k, BufSize)
    BY IndexFromCursor
  <2>2. k < Used(r, w, BufSize)
    BY <1>2, <2>1, CountedIsBetween
  <2>3. k \in 0..Used(r, w, BufSize) - 1
    BY <2>2, UsedInRing DEF Indices
  <2>q. QED
    BY <2>1, <2>3
<1>q. QED
  BY <1>1, <1>2

------------------------------------------------------------------------------
(***************************************************************************)
(* The entries and the cursors.                                            *)
(***************************************************************************)

\* EntriesMatchCursors in terms of the cursors alone.
Filled == \A i \in Indices : slot[i] # Null <=> Between(i, rd, wr)

\* A Size that has loaded the read cursor has the current one unless an entry was popped since.
LoadCurrent == loaded # -1 /\ ~popped => loaded = rd

IInv == TypeOK /\ Filled /\ LoadCurrent

LEMMA FilledIsMatch == TypeOK => (Filled <=> EntriesMatchCursors)
BY SpanIsBetween DEF TypeOK, Filled, EntriesMatchCursors, Count, Indices

LEMMA InitialInvariant == Init => IInv
<1> SUFFICES ASSUME Init PROVE IInv
  OBVIOUS
<1>1. TypeOK
  <2>1. popped \in BOOLEAN
    BY DEF Init
  <2>q. QED
    BY <2>1, SendQueueAssumption DEF Init, TypeOK
<1>2. Filled
  BY SendQueueAssumption DEF Init, Filled, Between, Indices
<1>3. LoadCurrent
  BY DEF Init, LoadCurrent
<1>q. QED
  BY <1>1, <1>2, <1>3 DEF IInv

\* An entry next to the write cursor joins the span, unless the ring is full.
LEMMA PushedIsBetween ==
  ASSUME NEW r \in Indices, NEW w \in Indices, NEW i \in Indices, ~IsFull(r, w, BufSize)
  PROVE  Between(i, r, Advance(w, 1, BufSize)) <=> Between(i, r, w) \/ i = w
BY SendQueueAssumption DEF Indices, Advance, IsFull, Between

\* The entry at the read cursor leaves it.
LEMMA PoppedIsBetween ==
  ASSUME NEW r \in Indices, NEW w \in Indices, NEW i \in Indices, r # w
  PROVE  Between(i, Advance(r, 1, BufSize), w) <=> Between(i, r, w) /\ i # r
BY SendQueueAssumption DEF Indices, Advance, Between

LEMMA InvariantStep == IInv /\ [Next]_vars => IInv'
<1> SUFFICES ASSUME IInv, [Next]_vars PROVE IInv'
  OBVIOUS
<1> USE DEF IInv, locked, unlocked
<1>1. ASSUME NEW p \in Packets, Push(p) PROVE IInv'
  <2>1. CASE Full(p)
    BY <1>1, <2>1 DEF Push, TypeOK, Filled, LoadCurrent
  <2>2. CASE ~Full(p)
    <3>1. /\ slot' = [slot EXCEPT ![wr] = p]
          /\ wr' = Advance(wr, 1, BufSize)
          /\ UNCHANGED <<rd, loaded, popped>>
      BY <1>1, <2>2 DEF Push
    <3>2. wr' \in Indices
      BY <3>1, AdvanceInRing, SendQueueAssumption DEF TypeOK, Indices
    <3>3. TypeOK'
      BY <3>1, <3>2 DEF TypeOK, Indices
    <3>4. \A i \in Indices : Between(i, rd, wr)' <=> Between(i, rd, wr) \/ i = wr
      BY <2>2, <3>1, PushedIsBetween DEF TypeOK, Full, Indices
    <3>5. \A i \in Indices : slot'[i] = IF i = wr THEN p ELSE slot[i]
      BY <3>1 DEF TypeOK, Indices
    <3>6. Filled'
      BY <3>4, <3>5, SendQueueAssumption DEF Filled
    <3>q. QED
      BY <3>1, <3>3, <3>6 DEF LoadCurrent
  <2>q. QED
    BY <2>1, <2>2
<1>2. ASSUME NEW n \in 0..BufSize - 1, Peek(n) PROVE IInv'
  BY <1>2 DEF Peek, TypeOK, Filled, LoadCurrent
<1>3. ASSUME Pop PROVE IInv'
  <2>1. /\ slot' = [slot EXCEPT ![rd] = Null]
        /\ rd' = Advance(rd, 1, BufSize)
        /\ popped'
        /\ rd # wr
        /\ UNCHANGED <<wr, loaded>>
    BY <1>3 DEF Pop
  <2>2. rd' \in Indices
    BY <2>1, AdvanceInRing, SendQueueAssumption DEF TypeOK, Indices
  <2>3. popped' \in BOOLEAN
    BY <1>3 DEF Pop
  <2>4. TypeOK'
    BY <2>1, <2>2, <2>3 DEF TypeOK, Indices
  <2>5. \A i \in Indices : Between(i, rd, wr)' <=> Between(i, rd, wr) /\ i # rd
    BY <2>1, PoppedIsBetween DEF TypeOK, Indices
  <2>6. \A i \in Indices : slot'[i] = IF i = rd THEN Null ELSE slot[i]
    BY <2>1 DEF TypeOK, Indices
  <2>7. Filled'
    BY <2>5, <2>6 DEF Filled
  <2>q. QED
    BY <2>1, <2>4, <2>7 DEF LoadCurrent
<1>4. ASSUME SizeLoadRead PROVE IInv'
  <2>1. loaded' = rd /\ popped' = FALSE /\ UNCHANGED <<slot, rd, wr>>
    BY <1>4 DEF SizeLoadRead
  <2>2. TypeOK'
    <3>1. loaded' \in -1..BufSize - 1
      BY <2>1, SendQueueAssumption DEF TypeOK
    <3>q. QED
      BY <2>1, <3>1 DEF TypeOK
  <2>q. QED
    BY <2>1, <2>2 DEF Filled, LoadCurrent
<1>5. ASSUME SizeLoadWrite PROVE IInv'
  <2>1. loaded' = -1 /\ UNCHANGED <<slot, rd, wr, popped>>
    BY <1>5 DEF SizeLoadWrite
  <2>q. QED
    BY <2>1, SendQueueAssumption DEF TypeOK, Filled, LoadCurrent
<1>6. ASSUME UNCHANGED vars PROVE IInv'
  BY <1>6 DEF vars, TypeOK, Filled, LoadCurrent
<1>q. QED
  BY <1>1, <1>2, <1>3, <1>4, <1>5, <1>6 DEF Next

\* The invariant of the cursors, the entries and the unlocked Size.
THEOREM Invariance == Spec => []IInv
BY InitialInvariant, InvariantStep, PTL DEF Spec

\* The cursors stay in the ring, and its entries are packets or nullptr (SendQueue.cpp).
THEOREM TypeCorrectness == Spec => []TypeOK
<1>1. IInv => TypeOK
  BY DEF IInv
<1>q. QED
  BY <1>1, Invariance, PTL

\* Exactly the entries between the cursors hold packets: Pop leaves no pointer behind, and Push never
\* overwrites one.
THEOREM EntriesAreBetweenTheCursors == Spec => []EntriesMatchCursors
<1>1. IInv => EntriesMatchCursors
  BY FilledIsMatch DEF IInv
<1>q. QED
  BY <1>1, Invariance, PTL

\* The unlocked Size of the completion of a send reports an empty queue only if it is empty, or if
\* another thread popped in between.
THEOREM UnlockedSizeIsSafe == Spec => UnlockedSizeMissesOnlyAfterPop
<1> DEFINE A == SizeLoadWrite /\ size' = 0 => popped \/ rd = wr
<1>1. IInv => A
  <2> SUFFICES ASSUME IInv, SizeLoadWrite, size' = 0, ~popped PROVE rd = wr
    OBVIOUS
  <2>1. loaded = rd
    BY DEF SizeLoadWrite, IInv, LoadCurrent
  <2>2. Used(rd, wr, BufSize) = 0
    BY <2>1 DEF SizeLoadWrite
  <2>q. QED
    BY <2>2, UsedInRing DEF IInv, TypeOK, Indices
<1>2. IInv /\ [Next]_vars => [A]_vars
  BY <1>1
<1>q. QED
  BY <1>2, Invariance, PTL DEF Spec, UnlockedSizeMissesOnlyAfterPop

------------------------------------------------------------------------------
(***************************************************************************)
(* The ring implements the bounded queue.                                  *)
(***************************************************************************)

\* The packets of the ring, oldest first: what the refinement substitutes for the abstract queue.
Contents == [k \in 1..Count |-> slot[Advance(rd, k - 1, BufSize)]]

\* The contents are a sequence of packets as long as the count says.
Sequential ==
  /\ Count \in 0..BufSize - 1
  /\ Contents \in Seq(Packets)
  /\ Len(Contents) = Count

LEMMA ContentsSequence == IInv => Sequential
<1> SUFFICES ASSUME IInv PROVE Sequential
  OBVIOUS
<1>1. Count \in 0..BufSize - 1
  BY UsedInRing DEF IInv, TypeOK, Count, Indices
<1>2. ASSUME NEW k \in 1..Count PROVE slot[Advance(rd, k - 1, BufSize)] \in Packets
  <2>1. k - 1 \in Indices /\ k - 1 < Used(rd, wr, BufSize)
    BY <1>1, SendQueueAssumption DEF Indices, Count
  <2>2. Advance(rd, k - 1, BufSize) \in Indices
    <3>1. k - 1 \in 0..BufSize
      BY <2>1, SendQueueAssumption DEF Indices
    <3>q. QED
      BY <3>1, AdvanceInRing DEF IInv, TypeOK, Indices
  <2>3. Between(Advance(rd, k - 1, BufSize), rd, wr)
    BY <2>1, CountedIsBetween DEF IInv, TypeOK, Indices
  <2>q. QED
    BY <2>2, <2>3 DEF IInv, TypeOK, Filled, Indices
<1>3. Contents \in [1..Count -> Packets]
  BY <1>2 DEF Contents
<1>q. QED
  BY <1>1, <1>3 DEF Sequential

LEMMA ContentsPrimed == IInv' => Sequential'
BY ContentsSequence, PTL

\* A packet pushed at the write cursor is the last of the contents.
LEMMA PushAppends ==
  ASSUME IInv, IInv', NEW p \in Packets, Push(p), ~Full(p)
  PROVE  Contents' = Append(Contents, p)
<1>1. /\ slot' = [slot EXCEPT ![wr] = p]
      /\ wr' = Advance(wr, 1, BufSize)
      /\ rd' = rd
  BY DEF Push, unlocked
<1>2. /\ Contents \in Seq(Packets) /\ Len(Contents) = Count
      /\ Contents' \in Seq(Packets) /\ Len(Contents') = Count'
  BY ContentsSequence, ContentsPrimed DEF Sequential
<1>3. Count' = Count + 1 /\ wr = Advance(rd, Count, BufSize)
  BY <1>1, SendQueueAssumption DEF IInv, TypeOK, Full, IsFull, Count, Used, Advance
<1>4. ASSUME NEW k \in 1..Count' PROVE Contents'[k] = Append(Contents, p)[k]
  <2>1. Contents'[k] = slot'[Advance(rd, k - 1, BufSize)]
    BY <1>1 DEF Contents
  <2>2. CASE k = Count + 1
    <3>1. Contents'[k] = slot'[wr]
      BY <1>2, <1>3, <2>1, <2>2
    <3>2. slot'[wr] = p
      BY <1>1 DEF IInv, TypeOK
    <3>q. QED
      BY <1>2, <2>2, <3>1, <3>2, AppendProperties
  <2>3. CASE k # Count + 1
    <3>1. k \in 1..Count
      BY <1>2, <1>3, <2>3
    <3>2. Contents[k] = slot[Advance(rd, k - 1, BufSize)]
      BY <3>1 DEF Contents
    <3>3. Advance(rd, k - 1, BufSize) \in Indices /\ Advance(rd, k - 1, BufSize) # wr
      BY <3>1, SendQueueAssumption DEF IInv, TypeOK, Indices, Count, Used, Advance
    <3>4. slot'[Advance(rd, k - 1, BufSize)] = slot[Advance(rd, k - 1, BufSize)]
      BY <1>1, <3>3 DEF IInv, TypeOK, Indices
    <3>5. Append(Contents, p)[k] = Contents[k]
      BY <1>2, <3>1, AppendProperties
    <3>q. QED
      BY <2>1, <3>2, <3>4, <3>5
  <2>q. QED
    BY <2>2, <2>3
<1>5. Append(Contents, p) \in Seq(Packets) /\ Len(Append(Contents, p)) = Len(Contents')
  BY <1>2, <1>3, AppendProperties
<1>q. QED
  BY <1>2, <1>4, <1>5, SeqEqual

\* A packet popped at the read cursor was the first.
LEMMA PopRemovesFirst ==
  ASSUME IInv, IInv', Pop
  PROVE  Contents # <<>> /\ Contents' = Tail(Contents) /\ slot[rd] = Head(Contents)
<1>1. /\ slot' = [slot EXCEPT ![rd] = Null]
      /\ rd' = Advance(rd, 1, BufSize)
      /\ wr' = wr
      /\ rd # wr
  BY DEF Pop
<1>2. /\ Contents \in Seq(Packets) /\ Len(Contents) = Count
      /\ Contents' \in Seq(Packets) /\ Len(Contents') = Count'
      /\ Count \in Nat
  BY ContentsSequence, ContentsPrimed DEF Sequential
<1>3. Count' = Count - 1 /\ Count > 0
  BY <1>1, SendQueueAssumption DEF IInv, TypeOK, Count, Used, Advance
<1>4. Contents # <<>>
  BY <1>2, <1>3, EmptySeq
<1>5. slot[rd] = Head(Contents)
  <2>1. Contents[1] = slot[Advance(rd, 0, BufSize)]
    BY <1>2, <1>3 DEF Contents
  <2>2. Advance(rd, 0, BufSize) = rd
    BY SendQueueAssumption DEF IInv, TypeOK, Advance
  <2>3. Head(Contents) = Contents[1]
    BY <1>2, <1>4
  <2>q. QED
    BY <2>1, <2>2, <2>3
<1>6. Tail(Contents) \in Seq(Packets) /\ Len(Tail(Contents)) = Len(Contents')
  BY <1>2, <1>3, <1>4, HeadTailProperties
<1>7. ASSUME NEW k \in 1..Count' PROVE Contents'[k] = Tail(Contents)[k]
  <2>1. Contents'[k] = slot'[Advance(rd', k - 1, BufSize)]
    BY DEF Contents
  <2>2. Tail(Contents)[k] = Contents[k + 1]
    BY <1>2, <1>4, <1>6, HeadTailProperties
  <2>3. k \in Nat /\ k + 1 \in 1..Count
    BY <1>2, <1>3
  <2>4. Contents[k + 1] = slot[Advance(rd, k + 1 - 1, BufSize)]
    BY <2>3 DEF Contents
  <2>5. /\ Advance(rd', k - 1, BufSize) = Advance(rd, k + 1 - 1, BufSize)
        /\ Advance(rd', k - 1, BufSize) \in Indices
        /\ Advance(rd', k - 1, BufSize) # rd
    BY <1>1, <2>3, SendQueueAssumption DEF IInv, TypeOK, Indices, Count, Used, Advance
  <2>6. slot'[Advance(rd', k - 1, BufSize)] = slot[Advance(rd', k - 1, BufSize)]
    BY <1>1, <2>5 DEF IInv, TypeOK, Indices
  <2>q. QED
    BY <2>1, <2>2, <2>4, <2>5, <2>6
<1>q. QED
  BY <1>2, <1>4, <1>5, <1>6, <1>7, SeqEqual

\* Peek returns the first packets of the contents.
LEMMA PeekReturnsFirst ==
  ASSUME IInv, NEW n \in 0..BufSize - 1, n <= Count
  PROVE  [i \in 1..n |-> slot[Advance(rd, i - 1, BufSize)]] = SubSeq(Contents, 1, n)
<1> DEFINE first == [i \in 1..n |-> slot[Advance(rd, i - 1, BufSize)]]
<1>1. Contents \in Seq(Packets) /\ Len(Contents) = Count /\ Count \in Nat /\ n \in Nat
  BY ContentsSequence, SendQueueAssumption DEF Sequential
<1>2. \A i \in 1..n : i \in 1..Count /\ Contents[i] = slot[Advance(rd, i - 1, BufSize)]
  BY <1>1 DEF Contents
<1>3. \A i \in 1..n : Contents[i] \in Packets
  BY <1>1, <1>2, ElementOfSeq
<1>4. /\ SubSeq(Contents, 1, n) \in Seq(Packets)
      /\ Len(SubSeq(Contents, 1, n)) = n
      /\ \A i \in 1..n : SubSeq(Contents, 1, n)[i] = Contents[i]
  <2>1. 1 \in Int /\ n \in Int /\ n - 1 + 1 = n
    BY <1>1
  <2>2. /\ SubSeq(Contents, 1, n) \in Seq(Packets)
        /\ Len(SubSeq(Contents, 1, n)) = IF 1 <= n THEN n - 1 + 1 ELSE 0
        /\ \A i \in 1..n - 1 + 1 : SubSeq(Contents, 1, n)[i] = Contents[1 + i - 1]
    BY <1>3, <2>1, SubSeqProperties
  <2>q. QED
    BY <1>1, <2>2
<1>5. first \in Seq(Packets) /\ Len(first) = n
  <2>1. first \in [1..n -> Packets]
    BY <1>2, <1>3
  <2>q. QED
    BY <1>1, <2>1
<1>q. QED
  BY <1>2, <1>4, <1>5, SeqEqual

\* Every step of the ring is a step of the queue or leaves it as it is.
LEMMA QueueStep == IInv /\ IInv' /\ [Next]_vars => [Queue!Next]_<<Contents, result>>
<1> SUFFICES ASSUME IInv, IInv', [Next]_vars PROVE [Queue!Next]_<<Contents, result>>
  OBVIOUS
<1>0. Contents \in Seq(Packets) /\ Len(Contents) = Count /\ Count \in 0..BufSize - 1
  BY ContentsSequence DEF Sequential
<1>1. ASSUME NEW p \in Packets, Push(p) PROVE Queue!Next
  <2>1. CASE Full(p)
    <3>1. Count = BufSize - 1
      BY <2>1, SendQueueAssumption DEF IInv, TypeOK, Full, IsFull, Count, Used, Advance
    <3>2. result' = <<"push", FALSE>> /\ Contents' = Contents
      BY <1>1, <2>1 DEF Push, Contents, Count
    <3>3. Queue!Refuse
      BY <1>0, <3>1, <3>2 DEF Queue!Refuse, Contents
    <3>q. QED
      BY <3>3 DEF Queue!Next
  <2>2. CASE ~Full(p)
    <3>1. result' = <<"push", TRUE>>
      BY <1>1, <2>2 DEF Push
    <3>2. Count < BufSize - 1
      BY <2>2, SendQueueAssumption DEF IInv, TypeOK, Full, IsFull, Count, Used, Advance
    <3>3. Queue!Enqueue(p)
      BY <1>0, <1>1, <2>2, <3>1, <3>2, PushAppends DEF Queue!Enqueue, Contents
    <3>q. QED
      BY <3>3 DEF Queue!Next
  <2>q. QED
    BY <2>1, <2>2
<1>2. ASSUME NEW n \in 0..BufSize - 1, Peek(n) PROVE Queue!Next
  <2>1. n <= Count
    BY <1>2 DEF Peek, Count
  <2>2. Contents' = Contents
    BY <1>2 DEF Peek, Contents, Count
  <2>3. result' = <<"peek", SubSeq(Contents, 1, n)>>
    BY <1>2, <2>1, PeekReturnsFirst DEF Peek
  <2>4. Queue!Look(n)
    BY <1>0, <2>1, <2>2, <2>3 DEF Queue!Look, Contents
  <2>q. QED
    BY <2>4 DEF Queue!Next
<1>3. ASSUME Pop PROVE Queue!Next
  <2>1. result' = <<"pop", slot[rd]>>
    BY <1>3 DEF Pop
  <2>2. Queue!Dequeue
    BY <1>3, <2>1, PopRemovesFirst DEF Queue!Dequeue, Contents
  <2>q. QED
    BY <2>2 DEF Queue!Next
<1>4. ASSUME SizeLoadRead \/ SizeLoadWrite \/ UNCHANGED vars
      PROVE  UNCHANGED <<Contents, result>>
  BY <1>4 DEF SizeLoadRead, SizeLoadWrite, vars, locked, Contents, Count
<1>q. QED
  BY <1>1, <1>2, <1>3, <1>4 DEF Next

\* The ring with two cursors is a bounded first-in first-out queue: Push refuses only when BufSize - 1
\* packets are queued, Peek and Pop return the oldest (SendQueue.cpp).
THEOREM RingImplementsQueue == Spec => QueueContract
<1>1. Init => Queue!Init
  <2> SUFFICES ASSUME Init PROVE Queue!Init
    OBVIOUS
  <2>1. IInv /\ Count = 0 /\ result = <<"none">>
    BY InitialInvariant, SendQueueAssumption DEF Init, Count, Used
  <2>2. Contents = <<>>
    BY <2>1, ContentsSequence, EmptySeq DEF Sequential
  <2>q. QED
    BY <2>1, <2>2 DEF Queue!Init, Contents
<1>2. IInv /\ IInv' /\ [Next]_vars => [Queue!Next]_<<[k \in 1..Count |-> slot[Advance(rd, k - 1, BufSize)]], result>>
  BY QueueStep DEF Contents
<1>q. QED
  BY <1>1, <1>2, Invariance, PTL DEF Spec, QueueContract, Queue!Spec
====
