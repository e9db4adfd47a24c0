----------------------------- MODULE BoundedQueue -----------------------------
(***************************************************************************)
(* What SendQueue promises: a bounded first-in first-out queue whose Push  *)
(* says whether there was room.                                            *)
(***************************************************************************)
EXTENDS Naturals, Sequences

CONSTANTS Packets, Capacity

VARIABLES
  items,     \* the packets, oldest first
  result     \* what the last operation returned

Enqueue(p) ==
  /\ Len(items) < Capacity
  /\ items' = Append(items, p)
  /\ result' = <<"push", TRUE>>

Refuse ==
  /\ Len(items) = Capacity
  /\ result' = <<"push", FALSE>>
  /\ UNCHANGED items

Dequeue ==
  /\ items # <<>>
  /\ items' = Tail(items)
  /\ result' = <<"pop", Head(items)>>

\* The n oldest packets, left in place.
Look(n) ==
  /\ n <= Len(items)
  /\ result' = <<"peek", SubSeq(items, 1, n)>>
  /\ UNCHANGED items

Init == items = <<>> /\ result = <<"none">>

Next ==
  \/ \E p \in Packets : Enqueue(p)
  \/ Refuse
  \/ Dequeue
  \/ \E n \in 0..Capacity : Look(n)

Spec == Init /\ [][Next]_<<items, result>>
====
