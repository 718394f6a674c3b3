-------------------------- MODULE SegmentAnnotation --------------------------
(***************************************************************************)
(* What the analyzer accepts from the AI provider for a chunk of segments    *)
(* (backend/services/structured_output.py, backend/analyzer.py) and the      *)
(* artifact it makes of it (backend/services/source_faithful.py).            *)
(*                                                                          *)
(* A segment is named by its number in the chapter.  An answer is the        *)
(* sequence of the numbers its annotations name: a number of the chunk,      *)
(* Unknown, or Nameless when an annotation has no segment_id at all.         *)
(***************************************************************************)
EXTENDS SourceSegmentation, Integers

CONSTANT Character  \* the character of each way to write a name

Unknown == 0
Nameless == -1

\* The annotations that name no segment of the chunk, or one named before.
Wrong(answer, ids) ==
  {k \in DOMAIN answer : answer[k] \notin ids \/ \E j \in 1 .. k - 1 : answer[j] = answer[k]}

\* Mutant: an answer is completed however little it covers.
NoFloor(missing, ids, policy) == FALSE

\* A chunk of some size of which too little is covered.
TooLow(missing, ids, policy) ==
  /\ Cardinality(ids) >= policy.low
  /\ 100 * (Cardinality(ids) - Cardinality(missing)) < policy.percent * Cardinality(ids)

\* validate_annotation_payload: what it returns or the code of its error, which is
\* that of the first wrong annotation.
Verdict(answer, ids, policy) ==
  LET wrong == Wrong(answer, ids)
      missing == ids \ Range(answer)
  IN CASE wrong # {} /\ answer[Min(wrong)] = Nameless -> "schema"
       [] wrong # {} /\ answer[Min(wrong)] # Nameless -> "reference"
       [] wrong = {} /\ missing = {} -> "accepted"
       [] wrong = {} /\ missing # {} /\ TooLow(missing, ids, policy) -> "low"
       [] OTHER -> "incomplete"

\* The annotations a repair keeps: the first of each segment.
Kept(answer, ids) == Picked(answer, DOMAIN answer \ Wrong(answer, ids))

\* Those it asks to bind again; one without a segment_id is not among them.
Rebound(answer, ids) == Cardinality({k \in Wrong(answer, ids) : answer[k] # Nameless})

\* The answers to a repair that pass: as many segments as were asked for, each
\* missing so far, each once.
Repairs(n, missing) == Injection(1 .. n, missing)

-----------------------------------------------------------------------------
(* The artifact *)

\* apply_annotations: who speaks a segment.  The type is the source's; the name
\* the provider gives counts in a dialogue only, however it is written.
SpeakerOf(span, name) ==
  IF span.type = "narration" THEN "narrator"
  ELSE IF name = "nobody" THEN "unresolved" ELSE Character[name]

\* One annotation for each segment, and nothing else.
Covers(annotations, spans) ==
  IsInjective(annotations) /\ Range(annotations) = DOMAIN spans

\* The segments in the order of the annotations.
Artifact(spans, annotations, said) ==
  [k \in DOMAIN annotations |->
    LET i == annotations[k]
    IN [segment |-> i, from |-> spans[i].from, to |-> spans[i].to,
        speaker |-> SpeakerOf(spans[i], said[i].name), name |-> said[i].name, emotion |-> said[i].emotion]]

\* validate_v4_artifact.
Valid(text, artifact) == artifact # << >> /\ Faithful(text, artifact)
=============================================================================
