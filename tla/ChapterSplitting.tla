--------------------------- MODULE ChapterSplitting ---------------------------
(***************************************************************************)
(* How an imported document becomes chapters (backend/splitter.py): by its   *)
(* headings, by its blank lines, or by the number of characters.             *)
(*                                                                          *)
(* For the first two a document is a sequence of kinds of lines.  Lines of   *)
(* text are all different, titles are all the same line.                     *)
(***************************************************************************)
EXTENDS SourceSegmentation

\* heading: 第N章 with a title; title: that title once more; front: an author or
\* a tag in brackets; rule: a line of ═ or ─.
Lines == {"text", "heading", "title", "front", "blank", "rule"}
Written(doc) == {i \in DOMAIN doc : doc[i] \notin {"blank", "rule"}}

-----------------------------------------------------------------------------
(* By headings *)

\* Mutant: what stands before the first heading is not flushed at it.
NoPrologue(doc) == {i \in DOMAIN doc : doc[i] = "heading"}

\* A section begins at each heading, and at the top if something is written there.
Sections(doc) ==
  LET heads == {i \in DOMAIN doc : doc[i] = "heading"}
      before == {i \in Written(doc) : \A h \in heads : i < h}
  IN heads \cup IF before = {} THEN {} ELSE {0}

\* The lines of the section that begins at s.  The title is dropped where it comes
\* again at once, except in the first chapter.
Body(doc, s) ==
  LET next == FirstIn(Sections(doc), s + 1, Len(doc) + 1)
      lines == {i \in Written(doc) : s < i /\ i < next}
      echo == {i \in lines : \A j \in lines : j <= i => doc[j] = "title"}
      isFirst == \A r \in Sections(doc) : s <= r
  IN IF s = 0 \/ isFirst THEN lines ELSE lines \ echo

\* What the top of the first chapter is cleared of: its author, its tags, and any
\* line that is the first of the document.
Heads(doc, s) ==
  LET named == {i \in Body(doc, s) :
                  doc[i] = "front" \/ i = 1 \/ (doc[1] = "title" /\ doc[i] = "title")}
  IN {i \in named : \A j \in Body(doc, s) : j <= i => j \in named}

\* _split_by_title: the lines of each chapter.
SplitByTitle(doc) ==
  LET starts == InOrder(Sections(doc))
      first == Body(doc, starts[1]) \ Heads(doc, starts[1])
      rest == [k \in 1 .. Len(starts) - 1 |-> Body(doc, starts[k + 1])]
  IN IF starts = << >> THEN << >> ELSE IF first = {} THEN rest ELSE <<first>> \o rest

-----------------------------------------------------------------------------
(* By blank lines *)

\* Two lines stay together when no rule and at most one blank line is between them.
Together(doc, i, j) ==
  \A p \in i .. j : doc[p] # "rule" /\ (p > i /\ p < j => doc[p] # "blank" \/ doc[p + 1] # "blank")

\* _split_by_blank.
SplitByBlank(doc) ==
  LET text == {i \in DOMAIN doc : doc[i] \notin {"blank", "rule"}}
      starts == InOrder({i \in text : ~\E j \in text : j < i /\ Together(doc, j, i)})
  IN [k \in DOMAIN starts |-> {i \in text : starts[k] <= i /\ Together(doc, starts[k], i)}]

-----------------------------------------------------------------------------
(* By characters: of a text as in SourceSegmentation *)

\* The paragraphs with whole lines: from the line of their first to the line of
\* their last character.
WholeParagraphs(text) ==
  LET paragraphs == Runs(text, Spacing)
      breaks == {i \in DOMAIN text : text[i] = "line"}
      LineFrom(i) == Max({0} \cup {p \in breaks : p < i}) + 1
      Whole(p) == LET s == Stripped(text, p[1], p[2])
                  IN <<LineFrom(s[1]), FirstIn(breaks, s[2] - 1, Len(text) + 1)>>
  IN [k \in DOMAIN paragraphs |-> Whole(paragraphs[k])]

\* A paragraph over the limit is cut at the last line break within it.
Units(text, a, b, limit) ==
  LET Breaks(i) == {p \in Places(i + 1, i + limit) : text[p] = "line"}
      End(i) == IF b - i <= limit THEN b
                ELSE IF Breaks(i) = {} THEN i + limit ELSE Max(Breaks(i))
  IN Cuts([i \in Places(a, b) |-> End(i)], a, b)

AllUnits(text, limit) ==
  LET paragraphs == WholeParagraphs(text)
  IN FlattenSeq([k \in DOMAIN paragraphs |-> Units(text, paragraphs[k][1], paragraphs[k][2], limit)])

\* The characters of the units from i to j.
Size(units, i, j) == SumFunctionOnSet([k \in DOMAIN units |-> units[k][2] - units[k][1]], i .. j)

\* A chapter is full with the unit that makes it reach the limit.
Filled(units, limit) ==
  LET n == Len(units)
      Full(i) == {j \in 1 .. n + 1 : Size(units, i, j - 1) >= limit}
  IN Cuts([i \in DOMAIN units |-> FirstIn(Full(i), i + 1, n + 1)], 1, n + 1)

\* _split_by_chars: the first and the last unit of each chapter.
SplitByChars(text, limit) ==
  LET units == AllUnits(text, limit)
      chapters == Filled(units, limit)
      Says(chapter) == \E u \in Places(chapter[1], chapter[2]) : \E i \in Places(units[u][1], units[u][2]) :
                          text[i] \notin Spacing
  IN Picked(chapters, {k \in DOMAIN chapters : Says(chapters[k])})
=============================================================================
