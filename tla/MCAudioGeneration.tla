-------------------------- MODULE MCAudioGeneration --------------------------
(* Small instances of AudioGeneration. *)
EXTENDS AudioGeneration, TLC

CONSTANTS c1, c2, r1, r2

\* Consumers are interchangeable.
Symmetric == Permutations({c1, c2})
=============================================================================
