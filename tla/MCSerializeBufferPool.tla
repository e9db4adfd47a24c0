------------------------ MODULE MCSerializeBufferPool ------------------------
(* Instances of SerializeBufferPool for TLC. *)
EXTENDS SerializeBufferPool, TLC

\* Threads and references are interchangeable, and so are blocks that are not allocated at first.
PoolSymmetry ==
  Permutations(Threads) \cup Permutations(References) \cup Permutations(Blocks \ Initial)
====
