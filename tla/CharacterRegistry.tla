------------------------- MODULE CharacterRegistry -------------------------
(***************************************************************************)
(* The identities of the characters of one book                             *)
(* (backend/services/character_resolution.py and its router): registration  *)
(* of ready artifacts, aliases, proposals, merges, splits, voice conflicts, *)
(* the migration of a book and its rollback.                                *)
(*                                                                          *)
(* A thread keeps one SQLite connection.  A request commits at its end; one *)
(* that is refused after a write neither commits nor rolls back, so its     *)
(* writes wait in the connection until the thread commits something else,   *)
(* and no other thread can write meanwhile.                                 *)
(***************************************************************************)
EXTENDS Naturals, Sequences, SequencesExt, FiniteSetsExt

CONSTANTS
  Threads,      \* threads that serve requests or run analyses
  Ids,          \* character ids; each stands for its canonical name, too
  Titles,       \* GENERIC_SURFACES
  Artifact,     \* the ready artifacts, by analysis: Artifact[a].names lists, in the
                \* order of the file, each character under its own name and under
                \* its aliases, [id, name]; speaker gives the speaker of each segment
  Confirmed,    \* characters that are active from the start
  Legacy,       \* names in the voices of a book from before the registry
  FirstVoice,   \* the voices of the book, by canonical name
  Assigned,     \* inputs of assign_alias: <<surface, target, scope>>
  Pairs,        \* inputs of merge and proposal: <<source, target>>
  MaxRevision,  \* bound of the model: revisions of the registry
  MaxProposals, \* bound of the model: proposals
  MaxSnapshots  \* bound of the model: migrations

Analyses == DOMAIN Artifact
Surfaces == Ids \cup Titles
Nobody == "nobody"
NoVoice == "none"
Voices == {FirstVoice[c] : c \in Ids} \ {NoVoice}

ASSUME IdAssumption ==
  /\ IsFiniteSet(Ids) /\ Confirmed \cup Legacy \subseteq Ids /\ Titles \cap Ids = {}
  /\ Nobody \notin Ids \cup Threads
ASSUME ArtifactAssumption ==
  /\ IsFiniteSet(Analyses) /\ Analyses \subseteq Nat
  /\ \A a \in Analyses :
       /\ Artifact[a].names \in Seq([id : Ids, name : Surfaces])
       /\ \A g \in DOMAIN Artifact[a].speaker : Artifact[a].speaker[g] \in Ids \cup {Nobody}
ASSUME InputAssumption ==
  /\ FirstVoice \in [Ids -> Voices \cup {NoVoice}]
  /\ Assigned \subseteq Surfaces \X (Ids \cup {Nobody}) \X {"chapter", "book", "unresolved"}
  /\ Pairs \subseteq Ids \X Ids
ASSUME RegistryBounds == {MaxRevision, MaxProposals, MaxSnapshots} \subseteq Nat

Segments == UNION {{<<a, g>> : g \in DOMAIN Artifact[a].speaker} : a \in Analyses}
SourceSpeaker(seg) == Artifact[seg[1]].speaker[seg[2]]

VARIABLES
  store,  \* the tables, as committed
  work,   \* the tables as the holder of the write transaction sees them
  holder, \* the thread with a write transaction that a refusal left open
  task    \* what a thread does in several transactions

registry == <<store, work, holder, task>>

Character == [status : {"absent", "provisional", "active", "merged", "split"},
              into : Ids \cup {Nobody},
              voice : {"ready", "needs_manual_voice_resolution", "voice_pending_confirmation"}]
NoCharacter == [status |-> "absent", into |-> Nobody, voice |-> "ready"]
Fresh(status) == [NoCharacter EXCEPT !.status = status]

Alias == [surface : Surfaces, scope : {"chapter", "book", "unresolved"},
          target : Ids \cup {Nobody}, status : {"accepted", "unresolved"}]
Conflict == [character : Ids, options : SUBSET Voices, open : BOOLEAN]
Proposal == [source : Ids, target : Ids, sure : BOOLEAN, revision : 0 .. MaxRevision,
             status : {"pending", "unresolved", "accepted"}]
Event == [type : {"alias_assigned", "merge", "split", "voice_resolved", "migration",
                  "migration_rollback"}, revision : 0 .. MaxRevision]

NoTask == [phase |-> "idle", proposal |-> 0, revision |-> 0, forced |-> FALSE, left |-> {},
           voices |-> FirstVoice]
Task == [phase : {"idle", "merging", "marking", "snapshot", "registering", "legacy"},
         proposal : 0 .. MaxProposals, revision : 0 .. MaxRevision, forced : BOOLEAN,
         left : SUBSET Analyses, voices : [Ids -> Voices \cup {NoVoice}]]

\* What a revision of the registry stands for.
Identity(s) == [characters |-> s.characters, aliases |-> s.aliases]

EmptyStore ==
  [characters |-> [c \in Ids |-> IF c \in Confirmed THEN Fresh("active") ELSE NoCharacter],
   aliases |-> <<>>, resolved |-> [g \in Segments |-> "absent"], conflicts |-> <<>>,
   proposals |-> <<>>, snapshots |-> <<>>, voices |-> FirstVoice, meta |-> FALSE,
   revision |-> 0, events |-> <<>>]

SnapshotRow == [characters : [Ids -> Character], aliases : Seq(Alias),
         resolved : [Segments -> Ids \cup {Nobody, "absent"}],
         voices : [Ids -> Voices \cup {NoVoice}], restored : BOOLEAN]
Tables == [characters : [Ids -> Character], aliases : Seq(Alias),
           resolved : [Segments -> Ids \cup {Nobody, "absent"}],
           conflicts : Seq(Conflict), proposals : Seq(Proposal), snapshots : Seq(SnapshotRow),
           voices : [Ids -> Voices \cup {NoVoice}], meta : BOOLEAN,
           revision : 0 .. MaxRevision, events : Seq(Event)]

TablesOK ==
  /\ store \in Tables /\ work \in Tables
  /\ holder \in Threads \cup {Nobody}
  /\ task \in [Threads -> Task]

RegistryInit ==
  /\ store = EmptyStore /\ work = EmptyStore /\ holder = Nobody
  /\ task = [t \in Threads |-> NoTask]

-----------------------------------------------------------------------------
(* Transactions *)

\* Another thread's write waits for the lock and fails after thirty seconds.
MayWrite(t) == holder \in {t, Nobody}
View(t) == IF holder = t THEN work ELSE store

Commit(s) == store' = s /\ work' = s /\ holder' = Nobody

\* A refusal leaves what was written so far in the open transaction.
Refuse(t, s) ==
  /\ s # View(t)
  /\ work' = s /\ holder' = t /\ UNCHANGED <<store, task>>

Goto(t, phase) == task' = [task EXCEPT ![t].phase = phase]

\* _ensure_meta_locked, the first write of most requests.
EnsureMeta(s) == [s EXCEPT !.meta = TRUE]

Logged(s, type) == [s EXCEPT !.events = Append(@, [type |-> type, revision |-> s.revision])]

\* Mutant: a change is stored under the revision it was made on.
SameRevisionBumped(s) == EnsureMeta(s)

\* _bump_locked, and its copies in the other requests.
Bumped(s) == [EnsureMeta(s) EXCEPT !.revision = @ + 1]

-----------------------------------------------------------------------------
(* register_ready_artifact *)

\* The characters of a set that are not in the registry are inserted
\* (_insert_character_locked).
Inserted(characters, new, status) ==
  [c \in Ids |-> IF c \in new /\ characters[c].status = "absent" THEN Fresh(status)
                 ELSE characters[c]]

\* A title is nobody's name in a whole book.
AliasRow(surface, target, scope, status) ==
  LET general == surface \in Titles /\ scope = "book" IN
  [surface |-> surface, target |-> target,
   scope |-> IF general THEN "unresolved" ELSE scope,
   status |-> IF general THEN "unresolved" ELSE status]

\* _upsert_alias_locked, for some rows one after the other: the first alias with the
\* surface, scope and target of a row takes its status, a row without one is new.
SameAlias(x, y) == [x EXCEPT !.status = y.status] = y
Upserted(aliases, rows) ==
  LET touched(i) == {k \in DOMAIN rows : /\ SameAlias(aliases[i], rows[k])
                                         /\ ~ \E j \in 1 .. i - 1 : SameAlias(aliases[j], rows[k])}
      new == {k \in DOMAIN rows : /\ ~ \E i \in DOMAIN aliases : SameAlias(aliases[i], rows[k])
                                  /\ ~ \E j \in 1 .. k - 1 : SameAlias(rows[j], rows[k])}
  IN [i \in DOMAIN aliases |-> IF touched(i) = {} THEN aliases[i]
                               ELSE rows[CHOOSE k \in touched(i) : TRUE]]
     \o [n \in 1 .. Cardinality(new) |->
           rows[CHOOSE k \in new : Cardinality({j \in new : j =< k}) = n]]

\* The newest accepted alias of a name, one of a chapter first.
Known(s, name) ==
  LET of(scope) == {i \in DOMAIN s.aliases :
        s.aliases[i].surface = name /\ s.aliases[i].status = "accepted"
        /\ s.aliases[i].target # Nobody /\ s.aliases[i].scope = scope}
  IN CASE of("chapter") # {} -> s.aliases[Max(of("chapter"))].target
       [] of("chapter") = {} /\ of("book") # {} -> s.aliases[Max(of("book"))].target
       [] OTHER -> name

\* Characters are looked up and inserted one by one; the aliases follow only if
\* one was new.
Registered(s, a) ==
  LET names == Artifact[a].names
      cast == {names[i].id : i \in DOMAIN names}
      known == [EnsureMeta(s) EXCEPT !.characters =
                  Inserted(@, {Known(s, id) : id \in cast}, "provisional")]
      rows == [i \in DOMAIN names |->
                 AliasRow(names[i].name, Known(s, names[i].id),
                          IF names[i].name \in Titles THEN "chapter" ELSE "book", "accepted")]
      bumped == IF known.characters = s.characters THEN known
                ELSE Bumped(Bumped([known EXCEPT !.aliases = Upserted(@, rows)]))
      speaker(g) == IF SourceSpeaker(g) \in cast THEN Known(s, SourceSpeaker(g)) ELSE SourceSpeaker(g)
  IN [bumped EXCEPT !.resolved = [g \in Segments |-> IF g[1] = a THEN speaker(g) ELSE @[g]]]

\* A worker whose analysis became ready.
Register(t, a) ==
  /\ task[t] = NoTask /\ MayWrite(t)
  /\ Registered(View(t), a).revision <= MaxRevision
  /\ Registered(View(t), a) # View(t)
  /\ Commit(Registered(View(t), a)) /\ UNCHANGED task

-----------------------------------------------------------------------------
(* Corrections: each names the revision it was made on *)

\* Mutant: the revision is not compared.
AnyRevision(s, expected) == TRUE

\* _check_revision_locked
SameRevision(s, expected) == expected = s.revision

\* A correction made on an older revision (any request that names one).
Stale(t) ==
  /\ task[t] = NoTask /\ MayWrite(t)
  /\ \E expected \in 0 .. MaxRevision :
       ~SameRevision(View(t), expected) /\ Refuse(t, EnsureMeta(View(t)))

Correction(t) ==
  task[t] = NoTask /\ MayWrite(t) /\ SameRevision(View(t), View(t).revision)
  /\ View(t).revision < MaxRevision

assign_alias(t, surface, target, scope) ==
  LET s == View(t)
      status == IF target # Nobody /\ scope # "unresolved" THEN "accepted" ELSE "unresolved"
  IN /\ Correction(t)
     /\ ~(scope = "book" /\ surface \in Titles)
     /\ IF target # Nobody /\ s.characters[target].status = "absent"
        THEN Refuse(t, EnsureMeta(s))
        ELSE /\ Commit(Logged(Bumped([s EXCEPT !.aliases =
                  Upserted(@, <<AliasRow(surface, target, scope, status)>>)]), "alias_assigned"))
             /\ UNCHANGED task

\* sure: the confidence is that of AUTO_ACCEPT_THRESHOLD and the evidence does
\* not contradict.
propose_reconciliation(t, source, target, sure) ==
  LET s == View(t) IN
  /\ task[t] = NoTask /\ MayWrite(t) /\ Len(s.proposals) < MaxProposals
  /\ Commit([EnsureMeta(s) EXCEPT !.proposals = Append(@,
       [source |-> source, target |-> target, sure |-> sure, revision |-> s.revision,
        status |-> "pending"])])
  /\ UNCHANGED task

OpenConflict(s, c) ==
  \E i \in DOMAIN s.conflicts : s.conflicts[i].character = c /\ s.conflicts[i].open

\* _proposal_safe_locked
proposal_safe(s, p) ==
  /\ p.sure
  /\ s.characters[p.source].status \in {"provisional", "active"}
  /\ s.characters[p.target].status = "active"
  /\ \A i \in DOMAIN s.aliases :
       s.aliases[i].target \in {p.source, p.target} => s.aliases[i].surface \notin Titles
  /\ ~OpenConflict(s, p.target)

\* accept_proposal: its first transaction judges, the merge is a second, and the
\* mark a third.
accept_proposal(t, n, forced) ==
  LET s == View(t)
      p == s.proposals[n]
  IN /\ Correction(t)
     /\ n \in DOMAIN s.proposals
     /\ IF proposal_safe(s, p) \/ forced
        THEN /\ task' = [task EXCEPT ![t] =
                  [NoTask EXCEPT !.phase = "merging", !.proposal = n, !.revision = s.revision,
                               !.forced = forced]]
             /\ UNCHANGED <<store, work, holder>>
        ELSE /\ \E status \in {"pending"} \cup (IF p.sure THEN {} ELSE {"unresolved"}) :
                  Commit([s EXCEPT !.proposals[n].status = status])
             /\ UNCHANGED task

-----------------------------------------------------------------------------
(* Merge, split, voices *)

\* Mutant: the lifecycle of the target is not looked at.
MergesAnywhere(s, source, target) ==
  s.characters[source].status \notin {"absent", "merged"} /\ s.characters[target].status # "absent"

Mergeable(s, source, target) ==
  /\ s.characters[source].status \notin {"absent", "merged"}
  /\ s.characters[target].status = "active"

\* The source, its aliases and its segments go to the target; different voices
\* are a conflict (_voice_conflict_locked).
Merged(s, source, target) ==
  LET moved(x) == IF x = source THEN target ELSE x
      differ == s.voices[source] # s.voices[target]
                /\ NoVoice \notin {s.voices[source], s.voices[target]}
      characters == [s.characters EXCEPT ![source].status = "merged", ![source].into = target,
          ![target].voice = IF differ THEN "needs_manual_voice_resolution" ELSE @]
      aliases == [i \in DOMAIN s.aliases |->
                    [s.aliases[i] EXCEPT !.target = moved(s.aliases[i].target)]]
      conflict == [character |-> target, open |-> TRUE,
                   options |-> {s.voices[source], s.voices[target]}]
  IN [s EXCEPT
       !.characters = characters, !.aliases = aliases,
       !.resolved = [g \in Segments |-> moved(@[g])],
       !.conflicts = IF differ THEN Append(@, conflict) ELSE @]

MergeCommits(s, source, target) ==
  Mergeable(s, source, target) /\ Commit(Logged(Bumped(Merged(s, source, target)), "merge"))

merge_characters(t, source, target) ==
  /\ Correction(t) /\ source # target
  /\ \/ MergeCommits(View(t), source, target) /\ UNCHANGED task
     \/ ~Mergeable(View(t), source, target) /\ Refuse(t, EnsureMeta(View(t)))

\* The merge of an accepted proposal compares the revision again.
MergeProposal(t) ==
  LET s == View(t)
      p == s.proposals[task[t].proposal]
  IN /\ task[t].phase = "merging" /\ MayWrite(t)
     /\ \/ /\ SameRevision(s, task[t].revision) /\ s.revision < MaxRevision
           /\ p.source # p.target /\ MergeCommits(s, p.source, p.target)
           /\ Goto(t, "marking")
        \/ /\ \/ ~SameRevision(s, task[t].revision) \/ p.source = p.target
              \/ ~Mergeable(s, p.source, p.target)
           /\ task' = [task EXCEPT ![t] = NoTask] /\ UNCHANGED <<store, work, holder>>

MarkAccepted(t) ==
  /\ task[t].phase = "marking" /\ MayWrite(t)
  /\ Commit([View(t) EXCEPT !.proposals[task[t].proposal].status = "accepted"])
  /\ task' = [task EXCEPT ![t] = NoTask]

\* The targets are inserted as active, and the segments of the source mapped one
\* by one.
Targeted(s, source, mapping) ==
  LET listed(c) == IF s.characters[c].status = "absent" THEN Fresh("active") ELSE s.characters[c]
      voice(c) == IF s.voices[source] = NoVoice THEN listed(c).voice
                  ELSE "voice_pending_confirmation"
  IN [s EXCEPT
       !.characters = [c \in Ids |-> IF c \in Range(mapping)
                                     THEN [listed(c) EXCEPT !.voice = voice(c)] ELSE @[c]],
       !.resolved = [g \in Segments |->
         IF g \in DOMAIN mapping /\ SourceSpeaker(g) = source /\ @[g] # "absent"
         THEN mapping[g] ELSE @[g]]]

\* A mapping without its analysis or segment is noticed after the insertions.
split_character(t, source, mapping, complete) ==
  LET s == View(t)
      split == [Targeted(s, source, mapping) EXCEPT !.characters[source].status = "split"]
  IN /\ Correction(t)
     /\ s.characters[source].status \in {"active", "merged"}
     /\ IF complete
        THEN Commit(Logged(Bumped(split), "split")) /\ UNCHANGED task
        ELSE Refuse(t, EnsureMeta(Targeted(s, source, mapping)))

resolve_voice_conflict(t, n, voice) ==
  LET s == View(t)
      c == s.conflicts[n].character
  IN /\ Correction(t)
     /\ n \in DOMAIN s.conflicts /\ s.conflicts[n].open
     /\ IF voice \notin s.conflicts[n].options
        THEN Refuse(t, EnsureMeta(s))
        ELSE /\ Commit(Logged(Bumped([s EXCEPT
                  !.conflicts[n].open = FALSE,
                  !.voices[c] = IF s.characters[c].status = "absent" THEN @ ELSE voice,
                  !.characters[c].voice =
                    IF s.characters[c].status = "absent" THEN @ ELSE "ready"]), "voice_resolved"))
             /\ UNCHANGED task

-----------------------------------------------------------------------------
(* migrate_book and rollback_migration *)

\* The book is read first, the snapshot written later.
StartMigration(t) ==
  /\ task[t] = NoTask
  /\ task' = [task EXCEPT ![t] = [NoTask EXCEPT !.phase = "snapshot", !.left = Analyses,
                                              !.voices = View(t).voices]]
  /\ UNCHANGED <<store, work, holder>>

Snapshot(s, voices) ==
  [characters |-> s.characters, aliases |-> s.aliases, resolved |-> s.resolved,
   voices |-> voices, restored |-> FALSE]

TakeSnapshot(t) ==
  LET s == View(t) IN
  /\ task[t].phase = "snapshot" /\ MayWrite(t) /\ Len(s.snapshots) < MaxSnapshots
  /\ Commit([s EXCEPT !.snapshots = Append(@, Snapshot(s, task[t].voices))])
  /\ Goto(t, "registering")

MigrateArtifact(t) ==
  /\ task[t].phase = "registering" /\ MayWrite(t)
  /\ IF task[t].left = {}
     THEN Goto(t, "legacy") /\ UNCHANGED <<store, work, holder>>
     ELSE LET a == CHOOSE x \in task[t].left : \A y \in task[t].left : x <= y IN
          /\ \/ /\ Registered(View(t), a).revision <= MaxRevision
                /\ Commit(Registered(View(t), a))
             \/ UNCHANGED <<store, work, holder>>    \* its file cannot be read
          /\ task' = [task EXCEPT ![t].left = @ \ {a}]

\* Names from before the registry become provisional characters; nothing is
\* committed when there is no new one.
MigrateLegacy(t) ==
  LET s == View(t)
      made == [EnsureMeta(s) EXCEPT !.characters = Inserted(@, Legacy, "provisional")]
  IN /\ task[t].phase = "legacy" /\ MayWrite(t)
     /\ IF made.characters # s.characters
        THEN s.revision < MaxRevision /\ Commit(Logged(Bumped(made), "migration"))
        ELSE work' = made /\ holder' = (IF made = s THEN holder ELSE t) /\ UNCHANGED store
     /\ task' = [task EXCEPT ![t] = NoTask]

Restored(s, n) ==
  [s EXCEPT !.characters = s.snapshots[n].characters, !.aliases = s.snapshots[n].aliases,
            !.resolved = s.snapshots[n].resolved, !.voices = s.snapshots[n].voices,
            !.snapshots[n].restored = TRUE]

rollback_migration(t, n) ==
  LET s == View(t) IN
  /\ task[t] = NoTask /\ MayWrite(t) /\ s.revision < MaxRevision
  /\ n \in DOMAIN s.snapshots /\ ~s.snapshots[n].restored
  /\ Commit(Logged(Bumped(Restored(s, n)), "migration_rollback")) /\ UNCHANGED task

-----------------------------------------------------------------------------
\* Whatever else the thread of a refused request writes, commits its writes, too.
CommitElsewhere(t) == holder = t /\ Commit(work) /\ UNCHANGED task

\* The process dies: open transactions are rolled back, tasks forgotten.
ProcessDies ==
  /\ holder # Nobody \/ \E t \in Threads : task[t] # NoTask
  /\ work' = store /\ holder' = Nobody /\ UNCHANGED store
  /\ task' = [t \in Threads |-> NoTask]

Correct(t) ==
  \/ Stale(t)
  \/ \E i \in Assigned : assign_alias(t, i[1], i[2], i[3])
  \/ \E i \in Pairs :
       \/ merge_characters(t, i[1], i[2])
       \/ \E sure \in BOOLEAN : propose_reconciliation(t, i[1], i[2], sure)
  \/ \E n \in 1 .. MaxProposals, forced \in BOOLEAN : accept_proposal(t, n, forced)
  \/ MergeProposal(t) \/ MarkAccepted(t)
  \/ \E i \in Pairs, g \in Segments, complete \in BOOLEAN :
       SourceSpeaker(g) = i[1] /\ split_character(t, i[1], [h \in {g} |-> i[2]], complete)
  \/ \E n \in 1 .. Len(View(t).conflicts), voice \in Voices : resolve_voice_conflict(t, n, voice)

Migrate(t) ==
  \/ StartMigration(t) \/ TakeSnapshot(t) \/ MigrateArtifact(t) \/ MigrateLegacy(t)
  \/ \E n \in 1 .. MaxSnapshots : rollback_migration(t, n)

RegistryNext ==
  \/ \E t \in Threads :
       Correct(t) \/ Migrate(t) \/ CommitElsewhere(t) \/ \E a \in Analyses : Register(t, a)
  \/ ProcessDies

RegistrySpec == RegistryInit /\ [][RegistryNext]_registry

-----------------------------------------------------------------------------
(* Properties *)

\* Every chain of merges ends in a character of the book: of any characters, one is
\* not merged into another of them.
EndsSomewhere(characters) ==
  LET merged(c) == characters[c].status = "merged"
      into(c) == characters[c].into
  IN /\ \A c \in Ids : merged(c) => into(c) \in Ids /\ characters[into(c)].status # "absent"
     /\ \A S \in (SUBSET Ids) \ {{}} : \E c \in S : ~ (merged(c) /\ into(c) \in S)

\* Whoever is merged, by an author or by an accepted proposal, before or after a
\* split or a rollback, ends in a character of the book that is not merged away:
\* merges form no cycle.
MergesEnd == EndsSomewhere(store.characters)

\* A proposal that is accepted without force merges what is safe to merge then,
\* though the judgement and the merge are two transactions.
UnforcedMergeIsSafe ==
  [][\A t \in Threads :
       task[t].phase = "merging" /\ ~task[t].forced /\ task'[t].phase = "marking"
       => proposal_safe(View(t), View(t).proposals[task[t].proposal])]_registry

\* The characters and aliases change under a new revision only (a generation is
\* finished only under the revision it was started with).  What a refused request
\* left in an open transaction is the exception.
RevisionCoversIdentity ==
  [][holder = Nobody /\ Identity(store') # Identity(store)
     => store'.revision > store.revision]_registry

=============================================================================
