------------------------- MODULE MCCharacterRegistry -------------------------
(* Instances of CharacterRegistry for TLC. *)
EXTENDS CharacterRegistry, TLC

CONSTANTS t1, t2

\* One analysis with two characters, one of them also called by a title.
Cast == (1 :> [names |-> <<[id |-> "an", name |-> "an"], [id |-> "an", name |-> "teacher"],
                           [id |-> "bo", name |-> "bo"]>>,
               speaker |-> ("s1" :> "an" @@ "s2" :> "bo")])
Tones == ("an" :> "low" @@ "bo" :> "none" @@ "cy" :> "high")
Aliases == {<<"an", "cy", "book">>, <<"teacher", "cy", "chapter">>}
Merges == {<<"an", "cy">>, <<"cy", "an">>, <<"bo", "cy">>}
Symmetry == Permutations(Threads)
=============================================================================
