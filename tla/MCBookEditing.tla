--------------------------- MODULE MCBookEditing ---------------------------
(* Small instances of BookEditing. *)
EXTENDS BookEditing, TLC

\* The tabs are interchangeable, and so are the texts.
Symmetric == Permutations(Sessions) \cup Permutations(Texts)
=============================================================================
