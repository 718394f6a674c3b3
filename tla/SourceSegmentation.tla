-------------------------- MODULE SourceSegmentation --------------------------
(***************************************************************************)
(* The segments of a chapter (backend/services/source_faithful.py) and the   *)
(* pieces a long segment is spoken in (services/tts_text.py): functions of   *)
(* the text, which alone decides what is read aloud.                         *)
(*                                                                          *)
(* A text is a sequence of kinds of characters.  A place is a position in    *)
(* it, and a span goes from its first place to the place after its last.     *)
(***************************************************************************)
EXTENDS Naturals, Sequences, SequencesExt, FiniteSetsExt

Formatting == {"space", "line", "hidden"}   \* hidden: the zero-width space
Spacing == {"space", "line", "wide"}        \* what isspace() and strip() take for a space
Sentence == {"stop", "dot", "ellipsis"}     \* 。！？, the full stop and …
Terminal == Sentence \cup {"comma"}      \* with ，、：
CloseOf == [open |-> "close", quote |-> "quote"]    \* 「」 and the plain mark
Letters == {"letter", "latin"}
Kinds == Formatting \cup Spacing \cup Terminal \cup Letters \cup {"open", "close", "quote"}

Places(a, b) == a .. b - 1

\* The first place from a on, before b, with the property that the set has; or b.
FirstIn(S, a, b) == Min({i \in S : a <= i /\ i < b} \cup {b})

\* The place after the run of these kinds that begins at i.
After(text, kinds, i, b) == FirstIn({j \in DOMAIN text : text[j] \notin kinds}, i, b)

\* The elements of a set of places, in order.
InOrder(S) == [k \in 1 .. Cardinality(S) |-> CHOOSE i \in S : Cardinality({j \in S : j < i}) = k - 1]

\* The elements of a sequence at these positions, in order.
Picked(seq, places) == [k \in DOMAIN InOrder(places) |-> seq[InOrder(places)[k]]]

Span(a, b, type) == [from |-> a, to |-> b, type |-> type]

-----------------------------------------------------------------------------
(* Cutting what stands from a to b, from left to right *)

\* The parts, each from its first place to the place after its last, when the part that
\* begins at p ends before next[p].
Cuts(next, a, b) ==
  LET cut[n \in 0 .. b - a] ==  \* the first n parts, if there are so many
        IF n = 0 THEN << >>
        ELSE LET before == cut[n - 1]
                 p == IF before = << >> THEN a ELSE before[Len(before)][2]
             IN IF p < b THEN Append(before, <<p, next[p]>>) ELSE before
  IN cut[b - a]

-----------------------------------------------------------------------------
(* Paragraphs *)

\* A place between two line breaks with nothing but blanks between them.
IsBreak(text, blanks, i) ==
  \E j, k \in DOMAIN text :
    /\ j < k /\ j <= i /\ i <= k /\ text[j] = "line" /\ text[k] = "line"
    /\ \A p \in j .. k : text[p] \in blanks

\* The runs of a text between its breaks that have more than blanks.
Runs(text, blanks) ==
  LET inside == {i \in DOMAIN text : ~IsBreak(text, blanks, i)}
      End(a) == FirstIn(DOMAIN text \ inside, a, Len(text) + 1)
      starts == {a \in inside : /\ a - 1 \notin inside
                                /\ \E i \in Places(a, End(a)) : text[i] \notin blanks}
  IN [k \in DOMAIN InOrder(starts) |-> <<InOrder(starts)[k], End(InOrder(starts)[k])>>]

\* _non_formatting_ranges.
Paragraphs(text) == Runs(text, Formatting)

-----------------------------------------------------------------------------
(* Narration and dialogue *)

Trimmed(text, a, b) ==
  LET said == {i \in Places(a, b) : text[i] \notin Formatting}
  IN IF said = {} THEN << >> ELSE <<Span(Min(said), Max(said) + 1, "narration")>>

\* A mark that ends a sentence: not within an ellipsis, nor a full stop before a
\* letter.
EndsSentence(text, i, b) ==
  /\ text[i] \in Sentence
  /\ ~(text[i] = "dot" /\ i + 1 < b /\ text[i + 1] = "dot")
  /\ LET after == After(text, Sentence, i + 1, b)
     IN after = b \/ text[after] \in Formatting \/ text[i] # "dot"

\* _append_narration: a piece of narration ends after the marks that end a sentence.
Narration(text, a, b) ==
  LET marks == {i \in DOMAIN text : EndsSentence(text, i, b)}
      pieces == Cuts([i \in Places(a, b) |-> After(text, Sentence, FirstIn(marks, i, b), b)], a, b)
  IN FlattenSeq([k \in DOMAIN pieces |-> Trimmed(text, pieces[k][1], pieces[k][2])])

IsQuote(text, i) == text[i] \in DOMAIN CloseOf

Closing(text, open, b) ==
  FirstIn({i \in DOMAIN text : text[i] = CloseOf[text[open]]}, open + 1, b)

\* The marks that follow a closed quote belong to it; a quote nobody closes is dialogue
\* to the end of its paragraph.
DialogueEnd(text, open, b) == After(text, Terminal, Closing(text, open, b) + 1, b)

\* Mutant: what stands in quotes is narrated as well.
TwiceTold(text, a, b) ==
  IF IsQuote(text, a) THEN Narration(text, a, b) \o <<Span(a, b, "dialogue")>> ELSE Narration(text, a, b)

\* A stretch that begins with a quote is dialogue, any other is narration.
Told(text, a, b) ==
  IF IsQuote(text, a) THEN <<Span(a, b, "dialogue")>> ELSE Narration(text, a, b)

\* _split_paragraph.
Split(text, a, b) ==
  LET quotes == {i \in DOMAIN text : IsQuote(text, i)}
      stretches == Cuts([i \in Places(a, b) |->
                     IF IsQuote(text, i) THEN DialogueEnd(text, i, b) ELSE FirstIn(quotes, i, b)], a, b)
  IN FlattenSeq([k \in DOMAIN stretches |-> Told(text, stretches[k][1], stretches[k][2])])

\* The spans of segment_source.
Segments(text) ==
  LET paragraphs == Paragraphs(text)
  IN FlattenSeq([p \in DOMAIN paragraphs |-> Split(text, paragraphs[p][1], paragraphs[p][2])])

\* isspace().
IsSpace(text, span) == \A i \in Places(span.from, span.to) : text[i] \in Spacing

\* _make_span refuses a span of nothing but spaces, and with it the text.  The trim leaves
\* such a span where a space is none of the formatting, as an ideographic one is.
Readable(text) == \A k \in DOMAIN Segments(text) : ~IsSpace(text, Segments(text)[k])

\* validate_spans, which segment_source and every saved artifact must pass.
Faithful(text, spans) ==
  LET said == {i \in DOMAIN text : text[i] \notin Formatting}
      covered == UNION {Places(spans[k].from, spans[k].to) : k \in DOMAIN spans}
  IN /\ \A k \in DOMAIN spans :
          /\ 1 <= spans[k].from /\ spans[k].from < spans[k].to /\ spans[k].to <= Len(text) + 1
          /\ ~IsSpace(text, spans[k])
     /\ \A j, k \in DOMAIN spans : j # k =>
          spans[j].to <= spans[k].from \/ spans[k].to <= spans[j].from
     /\ said \subseteq covered

Chars(spans, i, j) == SumFunctionOnSet([k \in DOMAIN spans |-> spans[k].to - spans[k].from], i .. j)

\* group_segments: a group ends before the segment that is too much for it.
Groups(spans, limits) ==
  LET n == Len(spans)
      TooMuch(i) == {j \in DOMAIN spans : Chars(spans, i, j) > limits.chars \/ j - i >= limits.segments}
  IN Cuts([i \in DOMAIN spans |-> FirstIn(TooMuch(i), i + 1, n + 1)], 1, n + 1)

-----------------------------------------------------------------------------
(* Pieces *)

Primary == {"stop", "line"}              \* 。！？ and the line break
Secondary == {"comma"}

Stripped(text, a, b) ==
  LET said == {i \in Places(a, b) : text[i] \notin Spacing}
  IN IF said = {} THEN <<a, a>> ELSE <<Min(said), Max(said) + 1>>

\* The places after a mark and the quotes it closes.
Boundaries(text, a, b) ==
  {After(text, {"close", "quote"}, i + 1, b) :
     i \in {j \in Places(a, b) : text[j] \in Primary \cup Secondary}}

\* Where the piece that begins at i ends: the last boundary within the limit, one
\* of a sentence before any other.
Cut(text, a, i, b, max) ==
  LET within == {c \in Boundaries(text, a, b) : i < c /\ c <= i + max}
      primary == {c \in within : \/ text[c - 1] \in Primary
                                 \/ c - 2 >= a /\ text[c - 2] \in Primary}
  IN IF primary # {} THEN Max(primary) ELSE IF within # {} THEN Max(within) ELSE i + max

Pieces(text, a, b, max) ==
  Cuts([i \in Places(a, b) |-> IF b - i <= max THEN b ELSE Cut(text, a, i, b, max)], a, b)

\* split_text_for_synthesis, of what stands from a to b: the places of its pieces.
SpokenPieces(text, a, b, max) ==
  LET s == Stripped(text, a, b)
      pieces == Pieces(text, s[1], s[2], max)
      Said(piece) == \E i \in Places(piece[1], piece[2]) : text[i] \notin Spacing
  IN Picked(pieces, {k \in DOMAIN pieces : Said(pieces[k])})
=============================================================================
