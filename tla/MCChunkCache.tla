---------------------------- MODULE MCChunkCache ----------------------------
(* Small instances of ChunkCache for TLC.                                  *)
EXTENDS ChunkCache, TLC

(* Requests at the interesting places: inside the first chunk, and across  *)
(* the boundary to the second.                                             *)
Head0 == [off |-> 0, size |-> 1]
Cross == [off |-> 1, size |-> 3]

MCRequestsHead == {Head0}
MCRequestsFull == {[off |-> 0, size |-> 2]}
MCRequestsCross == {Cross}
MCRequestsBoth  == {Head0, Cross}

(* Bodies of exactly the requested length, or also some of a length no     *)
(* chunk has.                                                              *)
ExactBodies == [c \in Chunk |-> {ChunkLen(c)}]
OddBodies   == [c \in Chunk |-> {ChunkLen(c), 1}]

Symmetry == Permutations(Readers) \cup Permutations(Items)
=============================================================================
