-------------------------- MODULE MCChapterReading --------------------------
(* Instances of ChapterReading for TLC. *)
EXTENDS ChapterReading

CONSTANTS v1, v2, v3

\* Nothing to say at all; an indented quote, which is refused; a quote with nothing to say
\* and an open one that a pause replaces in some books; two chunks, the second a quote of
\* several pieces.
Chapters == {
  <<"space", "line">>,
  <<"wide", "open", "letter", "close">>,
  <<"letter", "stop", "open", "stop", "close", "open", "latin", "ellipsis">>,
  <<"letter", "stop", "open", "letter", "stop", "letter", "comma", "letter", "close">>}

Annotated == {[name |-> "nobody", emotion |-> "neutral"], [name |-> "Ann", emotion |-> "happy"],
              [name |-> "ANN", emotion |-> "neutral"]}
Folded == [name \in {"Ann", "ANN"} |-> "Ann"]

Profiles == {[speaker |-> "Ann", emotion |-> "happy", usable |-> TRUE],
             [speaker |-> "narrator", emotion |-> "happy", usable |-> FALSE]}

Book(narrator, ann, english, key) ==
  [voices |-> [narrator |-> narrator, Ann |-> ann, ANN |-> Unset, nobody |-> Unset, _english |-> IF english THEN v3 ELSE Unset],
   english |-> english, narratorKey |-> key, profiles |-> Profiles]

Expressive == [id |-> "v1", limit |-> 4, retries |-> 1, emotional |-> TRUE,
               emotions |-> FALSE, expressive |-> [v \in {v1} |-> TRUE]]
Plain == [id |-> "legacy", limit |-> 2, retries |-> 0, emotional |-> FALSE,
          emotions |-> FALSE, expressive |-> << >>]

Requested == {
  [book |-> Book(v1, v2, FALSE, "label"), provider |-> Expressive, strict |-> FALSE],
  [book |-> Book(v1, v1, FALSE, "speaker:narrator"), provider |-> Expressive, strict |-> TRUE],
  [book |-> Book(Unset, Unset, TRUE, "label"), provider |-> Plain, strict |-> FALSE],
  [book |-> Book(Unset, v2, FALSE, "label"), provider |-> Plain, strict |-> FALSE]}

Limits == [chars |-> 8, segments |-> 3]
Coverage == [low |-> 3, percent |-> 50]
=============================================================================
