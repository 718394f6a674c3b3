--------------------------- MODULE MCChunkAnalysis ---------------------------
(* Instances of ChunkAnalysis for TLC. *)
EXTENDS ChunkAnalysis, TLC

CONSTANTS w1, w2

Symmetry == Permutations(Workers)
=============================================================================
