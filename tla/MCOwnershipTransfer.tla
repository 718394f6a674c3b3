------------------------ MODULE MCOwnershipTransfer -------------------------
(* Transfers of one book between a few accounts of every role.             *)
EXTENDS OwnershipTransfer, TLC

(* The contents of a book are interchangeable: a revision is only ever     *)
(* compared with another.                                                  *)
RevisionSymmetry == Permutations(Revisions)
=============================================================================
