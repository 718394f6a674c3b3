------------------------ MODULE MCAnalysisLifecycle -------------------------
(* Instances of AnalysisLifecycle for TLC. *)
EXTENDS AnalysisLifecycle

CONSTANTS k1, u1

\* The text of a chapter is edited, and the edit is taken back.
BackAndForth == {<<c, 1, 2>> : c \in Chapters} \cup {<<c, 2, 1>> : c \in Chapters}
=============================================================================
