------------------------- MODULE MCContentRequests -------------------------
(* Content requests of one book with small sets of accounts and rows.      *)
EXTENDS ContentRequests, TLC

CONSTANTS w1, w2, author, reviewer, admin

(* The admin, who also edits, uses another instance than the author and the *)
(* reviewer.                                                               *)
Paths == author :> {w1} @@ reviewer :> {w1} @@ admin :> {w2}

(* The rows of the request table are interchangeable: none is looked up by *)
(* its number.                                                             *)
RowSymmetry == Permutations(Ids)
=============================================================================
