--------------------------- MODULE SessionCallbacks ---------------------------
(***************************************************************************)
(* What TCPServer promises to the class derived from it: for every session *)
(* OnConnect, then OnReceive any number of times and never two at once,    *)
(* then OnDisconnect exactly once and after all of them.  Ids are issued   *)
(* in order and never reissued, and at most MaxSessions sessions exist.    *)
(***************************************************************************)
EXTENDS Naturals, FiniteSets

CONSTANTS Ids, MaxSessions

VARIABLE phase

Phases == {"unborn", "connecting", "open", "receiving", "closing", "closed"}

\* Sessions the application has been told of and not yet told the end of.
Existing == {i \in Ids : phase[i] \notin {"unborn", "closed"}}

Move(i, from, to) ==
  /\ phase[i] = from
  /\ phase' = [phase EXCEPT ![i] = to]

\* OnConnect is entered with a new id.
EnterOnConnect(i) ==
  /\ Cardinality(Existing) < MaxSessions
  /\ \A j \in Ids : j < i => phase[j] # "unborn"
  /\ Move(i, "unborn", "connecting")

LeaveOnConnect(i) == Move(i, "connecting", "open")

EnterOnReceive(i) == Move(i, "open", "receiving")

LeaveOnReceive(i) == Move(i, "receiving", "open")

EnterOnDisconnect(i) == Move(i, "open", "closing")

LeaveOnDisconnect(i) == Move(i, "closing", "closed")

Init == phase = [i \in Ids |-> "unborn"]

Next ==
  \E i \in Ids :
    \/ EnterOnConnect(i) \/ LeaveOnConnect(i)
    \/ EnterOnReceive(i) \/ LeaveOnReceive(i)
    \/ EnterOnDisconnect(i) \/ LeaveOnDisconnect(i)

Spec == Init /\ [][Next]_phase
====
