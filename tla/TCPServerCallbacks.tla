-------------------------- MODULE TCPServerCallbacks --------------------------
(***************************************************************************)
(* TCPServer implements SessionCallbacks: the refinement mapping reads the *)
(* phase of a session off the slot that has its id, and the program points *)
(* of the threads that work on that slot.                                  *)
(***************************************************************************)
EXTENDS TCPServerInvariant

At(label, s) == \E t \in Threads : pc[t] = label /\ cur[t] = s

\* The session in slot s is live, or its release is under way.
Ongoing(s) == ~released[s] \/ jobs[s] > 0 \/ At("postJob", s)

SlotPhase(s) ==
  IF At("onConnect", s) THEN "connecting"
  ELSE IF At("onReceive", s) THEN "receiving"
  ELSE IF At("onDisconnect", s) THEN "closing"
  ELSE IF Ongoing(s) THEN "open"
  ELSE "closed"

\* OnConnect has been entered with id i.
Told(i) == \E k \in known : k[1] = i

\* A session whose slot has gone to another one is closed.
Phase(i) ==
  IF ~Told(i) THEN "unborn"
  ELSE IF \E s \in Slots : id[s] = i THEN SlotPhase(CHOOSE s \in Slots : id[s] = i)
  ELSE "closed"

Callbacks == INSTANCE SessionCallbacks
  WITH Ids <- 1..MaxIds, MaxSessions <- Cardinality(Slots), phase <- [i \in 1..MaxIds |-> Phase(i)]

\* Every behaviour of the server, seen through the callbacks, is one SessionCallbacks allows.
CallbackContract == Callbacks!Spec
====
