---------------------------- MODULE BookEditing ----------------------------
(***************************************************************************)
(* Editing one book from several tabs: its chapters and their order, the    *)
(* version history of the texts, and the metadata (routers/books.py,        *)
(* services/book_service.py, services/chapter_service.py).                  *)
(*                                                                          *)
(* Most requests hold the lock of the book (state.book_lock), which one web *)
(* process shares.  Editing a chapter and editing the metadata are one      *)
(* transaction besides; adding, removing and reordering commit several      *)
(* times; restoring a version and changing the settings take no lock at     *)
(* all.  Each commit is a step, so what an unlocked request reads may be    *)
(* old when it writes.                                                      *)
(*                                                                          *)
(* Chapters are addressed by their position (seq).  A history entry keeps   *)
(* the position it was saved under; its field of, the chapter whose text it *)
(* was, is the model's own.                                                 *)
(***************************************************************************)
EXTENDS Naturals, Sequences, FiniteSets, SequencesExt

CONSTANTS
  Chapters,     \* ids of chapters (and their chapter_key), in creation order
  Uploaded,     \* how many of them the book is created with
  Texts,        \* texts a chapter can have
  Sessions,     \* requests in progress, each from a tab of its own
  Languages,    \* values of books.category
  Free,         \* nobody holds the lock of the book
  NoText,       \* the text of a row that was never inserted
  Kept,         \* versions kept for a position (20 in the code)
  MaxEdits,     \* bound: requests that write something
  MaxCrashes    \* bound: deaths of the web process

ASSUME ChapterAssumption ==
  /\ IsFiniteSet(Chapters) /\ Chapters = 1 .. Cardinality(Chapters)
  /\ Uploaded \in Chapters
ASSUME SessionAssumption == Free \notin Sessions /\ NoText \notin Texts
ASSUME BoundAssumption ==
  /\ Kept \in Nat \ {0}
  /\ MaxEdits \in Nat
  /\ MaxCrashes \in Nat

VARIABLES
  chapter,   \* the rows of chapters
  history,   \* chapter_revisions, in order of id
  meta,      \* books.category and books.settings
  analysed,  \* the book has a row in chapter_analyses
  lock,      \* state.book_lock of the book
  tab,       \* the chapter and the metadata each tab was loaded with
  call,      \* local state of the request of each session
  edits, crashes

vars == <<chapter, history, meta, analysed, lock, tab, call, edits, crashes>>
book == <<meta, analysed>>

Absent == [here |-> FALSE, seq |-> 0, text |-> NoText]
Row == [here : BOOLEAN, seq : Nat, text : Texts \cup {NoText}]
Version == [seq : Nat, text : Texts, of : Chapters]
Meta == [language : Languages, prologue : BOOLEAN, correct : BOOLEAN]

\* what: the row or the metadata the tab shows; idle when it shows nothing.
Blank == [what |-> "nothing"]
Idle == [op |-> "idle"]

Live == {c \in Chapters : chapter[c].here}
At(n) == {c \in Live : chapter[c].seq = n}
\* Some chapters in the order of their positions.
InOrder(S) == CHOOSE order \in SetToSeqs(S) :
  \A i, j \in DOMAIN order : i < j => chapter[order[i]].seq < chapter[order[j]].seq

----------------------------------------------------------------------------
(* The version history.                                                    *)

VersionsOf(h, n) == {i \in DOMAIN h : h[i].seq = n}
Has(h, n, t) == \E i \in VersionsOf(h, n) : h[i].text = t

\* save_chapter_revision: the same text is not saved twice under a position,
\* and only the newest versions of the position are kept.
Newest(h, n) ==
  LET mine == VersionsOf(h, n)
      recent == {i \in mine : Cardinality({k \in mine : k > i}) < Kept}
  IN  [i \in DOMAIN h |-> i \in recent \/ h[i].seq # n]
Pruned(h, n) ==
  LET keep == Newest(h, n)
      left == {i \in DOMAIN h : keep[i]}
  IN  [k \in 1 .. Cardinality(left) |->
         h[CHOOSE i \in left : Cardinality({j \in left : j =< i}) = k]]
\* Mutant: a version is found by its text alone.
SavedByText(h, n, t, c) ==
  IF \E i \in DOMAIN h : h[i].text = t
  THEN Pruned(h, n)
  ELSE Pruned(Append(h, [seq |-> n, text |-> t, of |-> c]), n)
Saved(h, n, t, c) ==
  IF Has(h, n, t)
  THEN Pruned(h, n)
  ELSE Pruned(Append(h, [seq |-> n, text |-> t, of |-> c]), n)

----------------------------------------------------------------------------
(* Requests.                                                               *)

\* A tab that has an editor open is used for its save only.
Opens(s) == call[s] = Idle /\ edits < MaxEdits
Starts(s) == Opens(s) /\ tab[s] = Blank
StartsLocked(s) == Starts(s) /\ lock = Free
Saves(s, what) == Opens(s) /\ tab[s].what = what /\ lock = Free
Holds(s, op) == call[s].op = op /\ lock = s
Ends(s) == call' = [call EXCEPT ![s] = Idle] /\ lock' = Free

\* The editor of a chapter, or of the metadata, is opened.
LoadChapter(s) == \E c \in Live :
  /\ call[s] = Idle
  /\ tab' = [tab EXCEPT ![s] = [what |-> "chapter", key |-> c,
                                seq |-> chapter[c].seq, text |-> chapter[c].text]]
  /\ UNCHANGED <<chapter, history, book, lock, call, edits, crashes>>
LoadMeta(s) ==
  /\ call[s] = Idle
  /\ tab' = [tab EXCEPT ![s] = [what |-> "meta", meta |-> meta]]
  /\ UNCHANGED <<chapter, history, book, lock, call, edits, crashes>>

\* What a request may bring of the chapter or of the metadata its tab was loaded
\* with; older callers leave it out.  Only what is given is compared.
Conditions == {"key", "text", "title"}
MetaConditions == {"hash", "time", "nothing"}

\* edit_chapter: what is given must be that of the chapter at the position; a
\* refused edit changes nothing.  Titles are not modelled, so a title may be
\* another at any time.
\* Mutant: the chapter at the position is taken for the one that was loaded.
MatchesText(c, seen, given) == "text" \in given => chapter[c].text = seen.text
Matches(c, seen, given) ==
  /\ "key" \in given => c = seen.key
  /\ "text" \in given => chapter[c].text = seen.text
Edit(s, t, given) ==
  /\ Saves(s, "chapter")
  /\ tab' = [tab EXCEPT ![s] = Blank]
  /\ edits' = edits + 1
  /\ \/ \E c \in At(tab[s].seq) :
          /\ Matches(c, tab[s], given)
          /\ chapter' = [chapter EXCEPT ![c].text = t]
          /\ history' = IF t = chapter[c].text THEN history
                        ELSE Saved(history, chapter[c].seq, chapter[c].text, c)
     \/ /\ "title" \in given \/ ~ \E c \in At(tab[s].seq) : Matches(c, tab[s], given)
        /\ UNCHANGED <<chapter, history>>
  /\ UNCHANGED <<book, lock, call, crashes>>

\* restore_revision, without lock or transaction: the version and the chapter
\* now at its position are read, the text that was read is saved, and the row
\* at the position is overwritten.
RestoreRead(s) == \E i \in DOMAIN history : \E c \in At(history[i].seq) :
  /\ Starts(s)
  /\ call' = [call EXCEPT ![s] =
       [op |-> IF history[i].text = chapter[c].text THEN "same" ELSE "saving",
        version |-> history[i], key |-> c, text |-> chapter[c].text]]
  /\ edits' = edits + 1
  /\ UNCHANGED <<chapter, history, book, lock, tab, crashes>>
RestoreSame(s) ==
  /\ call[s].op = "same"
  /\ call' = [call EXCEPT ![s] = Idle]
  /\ UNCHANGED <<chapter, history, book, lock, tab, edits, crashes>>
RestoreSave(s) ==
  /\ call[s].op = "saving"
  /\ history' = Saved(history, call[s].version.seq, call[s].text, call[s].key)
  /\ call' = [call EXCEPT ![s].op = "restoring"]
  /\ UNCHANGED <<chapter, book, lock, tab, edits, crashes>>
RestoreWrite(s) ==
  /\ call[s].op = "restoring"
  /\ chapter' = [c \in Chapters |->
       IF c \in At(call[s].version.seq)
       THEN [chapter[c] EXCEPT !.text = call[s].version.text] ELSE chapter[c]]
  /\ call' = [call EXCEPT ![s] = Idle]
  /\ UNCHANGED <<history, book, lock, tab, edits, crashes>>

\* add_chapter: next_seq, then the insert.
AddRead(s) ==
  /\ StartsLocked(s)
  /\ Cardinality({c \in Chapters : chapter[c] # Absent}) < Cardinality(Chapters)
  /\ lock' = s
  /\ call' = [call EXCEPT ![s] = [op |-> "adding",
       seq |-> IF Live = {} THEN 0 ELSE 1 + Max({chapter[c].seq : c \in Live})]]
  /\ edits' = edits + 1
  /\ UNCHANGED <<chapter, history, book, tab, crashes>>
AddInsert(s, t) ==
  /\ Holds(s, "adding")
  /\ LET unused == {c \in Chapters : chapter[c] = Absent}
         c == CHOOSE x \in unused : \A y \in unused : x =< y
     IN  chapter' = [chapter EXCEPT ![c] =
                       [here |-> TRUE, seq |-> call[s].seq, text |-> t]]
  /\ Ends(s)
  /\ UNCHANGED <<history, book, tab, edits, crashes>>

\* db.reorder_chapters: the rows must be those of the order; one transaction.
Reordered(order) ==
  [c \in Chapters |-> IF c \in ToSet(order)
                      THEN [chapter[c] EXCEPT !.seq = CHOOSE n \in 0 .. Len(order) - 1 :
                                                        order[n + 1] = c]
                      ELSE chapter[c]]
Renumber(order) ==
  IF ToSet(order) = Live THEN chapter' = Reordered(order) ELSE UNCHANGED chapter

\* remove_chapter: at least one chapter stays; the row is deleted, then the
\* rest is renumbered.
Removed(c) == [chapter EXCEPT ![c].here = FALSE]
\* Mutant: the last chapter may go.
AnyRemovable(c) == c \in Live
Removable(c) == c \in Live /\ Cardinality(Live) > 1
RemoveRead(s) == \E c \in Chapters :
  /\ StartsLocked(s)
  /\ Removable(c)
  /\ lock' = s
  /\ call' = [call EXCEPT ![s] = [op |-> "removing", key |-> c,
                                  rest |-> InOrder(Live \ {c})]]
  /\ edits' = edits + 1
  /\ UNCHANGED <<chapter, history, book, tab, crashes>>
RemoveDelete(s) ==
  /\ Holds(s, "removing")
  /\ chapter' = Removed(call[s].key)
  /\ call' = [call EXCEPT ![s].op = "renumbering"]
  /\ UNCHANGED <<history, book, lock, tab, edits, crashes>>
RemoveRenumber(s) ==
  /\ Holds(s, "renumbering")
  /\ Renumber(call[s].rest)
  /\ Ends(s)
  /\ UNCHANGED <<history, book, tab, edits, crashes>>

\* reorder_chapters: the positions are read, then the rows are renumbered.
ReorderRead(s) == \E order \in SetToSeqs(Live) :
  /\ StartsLocked(s)
  /\ lock' = s
  /\ call' = [call EXCEPT ![s] = [op |-> "ordering", order |-> order]]
  /\ edits' = edits + 1
  /\ UNCHANGED <<chapter, history, book, tab, crashes>>
ReorderWrite(s) ==
  /\ Holds(s, "ordering")
  /\ Renumber(call[s].order)
  /\ Ends(s)
  /\ UNCHANGED <<history, book, tab, edits, crashes>>

\* update_book: one transaction, refused when the hash of the metadata is given and
\* is not that of the row (it leaves ttsCorrect out), or when the language would
\* change after an analysis was started.  Without a hash the time of the row's last
\* change may be given, which whatever else writes the row moves as well.
SameMeta(a, b) == a.language = b.language /\ a.prologue = b.prologue
EditMeta(s, language, prologue, given) ==
  LET accepted == /\ given = "hash" => SameMeta(tab[s].meta, meta)
                  /\ analysed => language = meta.language IN
  /\ Saves(s, "meta")
  /\ tab' = [tab EXCEPT ![s] = Blank]
  /\ edits' = edits + 1
  /\ \/ accepted /\ meta' = [meta EXCEPT !.language = language, !.prologue = prologue]
     \/ (~accepted \/ given = "time") /\ UNCHANGED meta
  /\ UNCHANGED <<chapter, history, analysed, lock, call, crashes>>

\* update_settings: the settings are read, changed and written back without a
\* lock; they hold the prologue flag as well.
SettingsRead(s) ==
  /\ Starts(s)
  /\ call' = [call EXCEPT ![s] = [op |-> "settings", prologue |-> meta.prologue]]
  /\ edits' = edits + 1
  /\ UNCHANGED <<chapter, history, book, lock, tab, crashes>>
SettingsWrite(s, correct) ==
  /\ call[s].op = "settings"
  /\ meta' = [meta EXCEPT !.prologue = call[s].prologue, !.correct = correct]
  /\ call' = [call EXCEPT ![s] = Idle]
  /\ UNCHANGED <<chapter, history, analysed, lock, tab, edits, crashes>>

\* The first analysis of a chapter is started (AnalysisLifecycle).
StartAnalysis ==
  /\ ~analysed /\ Live # {}
  /\ analysed' = TRUE
  /\ UNCHANGED <<chapter, history, meta, lock, tab, call, edits, crashes>>

\* The web process dies and is started again: its requests and its lock are gone.
Crash ==
  /\ crashes < MaxCrashes
  /\ \E s \in Sessions : call[s] # Idle
  /\ crashes' = crashes + 1
  /\ lock' = Free
  /\ call' = [s \in Sessions |-> Idle]
  /\ UNCHANGED <<chapter, history, book, tab, edits>>

----------------------------------------------------------------------------
\* create_book_from_upload: the chapters of the file, in its order.
Init ==
  /\ \E text \in [1 .. Uploaded -> Texts] :
       chapter = [c \in Chapters |-> IF c > Uploaded THEN Absent
                    ELSE [here |-> TRUE, seq |-> c - 1, text |-> text[c]]]
  /\ history = <<>>
  /\ meta \in [language : Languages, prologue : {TRUE}, correct : {FALSE}]
  /\ analysed = FALSE
  /\ lock = Free
  /\ tab = [s \in Sessions |-> Blank]
  /\ call = [s \in Sessions |-> Idle]
  /\ edits = 0 /\ crashes = 0

Next ==
  \/ \E s \in Sessions :
       \/ LoadChapter(s) \/ LoadMeta(s)
       \/ \E t \in Texts : AddInsert(s, t) \/ \E given \in SUBSET Conditions : Edit(s, t, given)
       \/ RestoreRead(s) \/ RestoreSame(s) \/ RestoreSave(s) \/ RestoreWrite(s)
       \/ AddRead(s)
       \/ RemoveRead(s) \/ RemoveDelete(s) \/ RemoveRenumber(s)
       \/ ReorderRead(s) \/ ReorderWrite(s)
       \/ \E l \in Languages, p \in BOOLEAN, given \in MetaConditions : EditMeta(s, l, p, given)
       \/ SettingsRead(s)
       \/ \E b \in BOOLEAN : SettingsWrite(s, b)
  \/ StartAnalysis
  \/ Crash

Spec == Init /\ [][Next]_vars

----------------------------------------------------------------------------
(* Properties.                                                             *)

\* The variables hold what the rows can hold.
TypeOK ==
  /\ chapter \in [Chapters -> Row]
  /\ history \in Seq(Version)
  /\ meta \in Meta
  /\ analysed \in BOOLEAN
  /\ lock \in Sessions \cup {Free}
  /\ DOMAIN tab = Sessions /\ DOMAIN call = Sessions
  /\ edits \in 0 .. MaxEdits /\ crashes \in 0 .. MaxCrashes

\* A save that says what its tab was loaded with, as the editors of the frontend do,
\* overwrites nothing else: a chapter edit that gives the key and the text changes
\* the chapter it was opened on, whatever has been moved or removed since, and only
\* from the text it was opened with; a metadata edit that gives the hash replaces the
\* metadata it was opened with.  Without them a save hits whatever is at the position
\* (edit_chapter, update_book beside reorder_chapters, remove_chapter,
\* restore_revision and other saves).
EditIsOfWhatWasSeen == [][\A s \in Sessions :
  /\ \A given \in SUBSET Conditions :
       {"key", "text"} \subseteq given /\ (\E t \in Texts : Edit(s, t, given)) =>
         \A c \in Chapters : chapter'[c] # chapter[c] =>
           c = tab[s].key /\ chapter[c].text = tab[s].text
  /\ (\E l \in Languages, p \in BOOLEAN : EditMeta(s, l, p, "hash")) =>
       (meta' # meta => tab[s].meta.language = meta.language
                        /\ tab[s].meta.prologue = meta.prologue)]_vars

\* A text that is overwritten is in the history of its position afterwards,
\* except when a restore overwrites a text that was written after it had read
\* the chapter (restore_revision takes no lock): another text than it has read,
\* or the same one, after as many other versions as are kept.
OldVersionIsSaved == [][\A c \in Chapters :
  (chapter'[c].here /\ chapter[c].here /\ chapter'[c].text # chapter[c].text) =>
    \/ Has(history', chapter[c].seq, chapter[c].text)
    \/ \E s \in Sessions : /\ call[s].op = "restoring" /\ call'[s] = Idle
                           /\ \/ call[s].text # chapter[c].text
                              \/ Cardinality(VersionsOf(history, chapter[c].seq)) >= Kept]_vars

\* A book keeps a chapter, however many removals come at a time and wherever the
\* process dies (remove_chapter counts the chapters under the lock); and when nobody
\* holds the lock and no process has died inside a request, the positions are
\* 0, 1, ... without a gap: the ones readers and editors use.
ChaptersAreNumbered ==
  /\ Live # {}
  /\ lock = Free /\ crashes = 0 =>
       {chapter[c].seq : c \in Live} = 0 .. Cardinality(Live) - 1
=============================================================================
