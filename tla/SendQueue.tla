------------------------------- MODULE SendQueue -------------------------------
(***************************************************************************)
(* winppy::SendQueue: a ring of SerializeBuffer pointers.  Push, Peek and  *)
(* Pop run under the session's lock and are single steps; the worker that  *)
(* completes a send calls Size without it, so the two cursors are loaded   *)
(* one after the other while other threads push and pop.                   *)
(***************************************************************************)
EXTENDS RingCursor, Sequences

CONSTANTS
  Packets,     \* the SerializeBuffer pointers
  Null,        \* nullptr
  BufSize      \* m_bufSize

ASSUME SendQueueAssumption == Null \notin Packets /\ BufSize \in Nat /\ BufSize > 1

VARIABLES
  slot,        \* the ring's entries
  rd,          \* m_pReadCursor - m_pBufferBegin
  wr,          \* m_pWriteCursor - m_pBufferBegin
  result,      \* what the last locked operation returned
  loaded,      \* the read cursor the unlocked Size has loaded, or -1
  popped,      \* a Pop has run since that load
  size         \* what the last unlocked Size returned, or -1

locked   == <<slot, rd, wr, result>>
unlocked == <<loaded, popped, size>>
vars     == <<locked, unlocked>>

\* Mutant: a full ring takes one packet more.
NeverFull(s) == FALSE

\* The check Push makes first.
Full(s) == IsFull(rd, wr, BufSize)

Push(p) ==
  /\ IF Full(p)
       THEN result' = <<"push", FALSE>> /\ UNCHANGED <<slot, wr>>
       ELSE /\ slot' = [slot EXCEPT ![wr] = p]
            /\ wr' = Advance(wr, 1, BufSize)
            /\ result' = <<"push", TRUE>>
  /\ UNCHANGED <<rd, unlocked>>

\* Called with n at most Size().
Peek(n) ==
  /\ n <= Used(rd, wr, BufSize)
  /\ result' = <<"peek", [i \in 1..n |-> slot[Advance(rd, i - 1, BufSize)]]>>
  /\ UNCHANGED <<slot, rd, wr, unlocked>>

\* Called only when the queue is not empty.
Pop ==
  /\ rd # wr
  /\ result' = <<"pop", slot[rd]>>
  /\ slot' = [slot EXCEPT ![rd] = Null]
  /\ rd' = Advance(rd, 1, BufSize)
  /\ popped' = TRUE
  /\ UNCHANGED <<wr, loaded, size>>

SizeLoadRead ==
  /\ loaded = -1
  /\ loaded' = rd
  /\ popped' = FALSE
  /\ size' = -1
  /\ UNCHANGED locked

SizeLoadWrite ==
  /\ loaded # -1
  /\ size' = Used(loaded, wr, BufSize)
  /\ loaded' = -1
  /\ UNCHANGED <<locked, popped>>

Init ==
  /\ slot = [i \in 0..BufSize - 1 |-> Null]
  /\ rd = 0
  /\ wr = 0
  /\ result = <<"none">>
  /\ loaded = -1
  /\ popped = FALSE
  /\ size = -1

Next ==
  \/ \E p \in Packets : Push(p)
  \/ \E n \in 0..BufSize - 1 : Peek(n)
  \/ Pop
  \/ SizeLoadRead
  \/ SizeLoadWrite

Spec == Init /\ [][Next]_vars

------------------------------------------------------------------------------

Count == Used(rd, wr, BufSize)

\* Every variable has its type; the cursors, and a cursor the unlocked Size has loaded, stay in the ring.
TypeOK ==
  /\ rd \in 0..BufSize - 1
  /\ wr \in 0..BufSize - 1
  /\ slot \in [0..BufSize - 1 -> Packets \cup {Null}]
  /\ loaded \in -1..BufSize - 1
  /\ popped \in BOOLEAN

\* The entries the cursors span are the packets, and no other entry still points to one: a popped
\* packet's buffer is never sent or released again.
EntriesMatchCursors ==
  \A i \in 0..BufSize - 1 :
    slot[i] # Null <=> \E k \in 0..Count - 1 : i = Advance(rd, k, BufSize)

\* The unlocked Size misses packets only if someone has popped meanwhile: without another thread
\* that completes sends (and looks again itself), a queue that holds packets is not read as empty.
UnlockedSizeMissesOnlyAfterPop ==
  [][SizeLoadWrite /\ size' = 0 => popped \/ rd = wr]_vars

\* The ring implements the bounded queue of capacity BufSize - 1.
Queue == INSTANCE BoundedQueue
  WITH Capacity <- BufSize - 1, items <- [k \in 1..Count |-> slot[Advance(rd, k - 1, BufSize)]]

QueueContract == Queue!Spec
====
