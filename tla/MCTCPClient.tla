----------------------------- MODULE MCTCPClient -----------------------------
(* Instances of TCPClient for TLC. *)
EXTENDS TCPClientInvariant, TLC

\* Workers are interchangeable, and so are callers.
Symmetry == Permutations(Workers) \cup Permutations(Callers)
====
