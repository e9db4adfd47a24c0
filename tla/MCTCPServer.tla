----------------------------- MODULE MCTCPServer -----------------------------
(* Instances of TCPServer, and of its refinement of SessionCallbacks, for TLC. *)
EXTENDS TCPServerCallbacks, TLC

\* Workers are interchangeable, and so are callers and slots.
Symmetry == Permutations(Workers) \cup Permutations(Callers) \cup Permutations(Slots)
====
