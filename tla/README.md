# StoryLingo: a TLA+ verification of the backend

StoryLingo (repository root: `README.md`, `ARCHITECTURE.md`) is a web service on
which authors write serial novels and have them turned into audiobooks.  A FastAPI
backend keeps everything in one SQLite database (`backend/db.py`), runs AI analysis
and speech synthesis in worker threads that take jobs from a table
(`backend/jobs.py`), and stores artifacts as files (`backend/storage.py`).  This
directory models the parts of it whose correctness depends on the order of events
(what happens when several workers, web requests, operators, crashes and restarts
act on the same rows and files) and, as functions checked on short texts and proved
about for all, the text processing that decides what is read aloud.

- [1. The system](#1-the-system)
- [2. Modules](#2-modules)
- [3. Runs](#3-runs)
- [4. Proofs](#4-proofs)
- [5. Behaviour to know of](#5-behaviour-to-know-of)
- [6. What is not modelled](#6-what-is-not-modelled)
- [7. Plan](#7-plan)

How to run (inside this directory):

    tlc -workers 2 -config MCGenerationQueue_fence.cfg MCGenerationQueue
    tlapm GenerationQueueProofs.tla

## 1. The system

### 1.1 Components

| Component | State it keeps | Operations | Interacts with |
|---|---|---|---|
| Generation queue (`db.py` 2690-3540, `jobs.py`) | rows of `generation_jobs` and `generation_job_attempts`; `worker_instances`; per consumer thread a claim token, a heartbeat thread and an executing call | create, claim, heartbeat, finalize, requeue for a retry, request cancel, retry by an operator, delete, recover expired leases, repair orphaned analyses at startup | executors (analysis, audio generation), admin console, provider tables (capacity, cooldown), chapters (source hash) |
| Audio generation (`services/audio_generation.py`, `services/generation_pipeline.py`, `routers/books.py`) | rows of `audio_generations`, `chapters.active_audio_generation_id`, two files per generation | request or reuse by key, render, promote files, mark ready and switch the pointer, resolve what is played | queue, books, character registry, TTS rendering |
| Content requests (`services/content_requests.py`, `routers/content_requests.py`, `routers/admin.py`) | rows of `content_requests` and `content_request_events`, `books.status` | submit, cancel, claim, approve or reject, start a generation operation, emergency hide, restore | books, queue (operation), notifications, roles |
| Generation orchestration (`services/generation_orchestration.py`) | rows of `generation_operations` | dependencies of a parent job, creation of an operation | queue, content requests |
| Ownership transfer (`services/ownership_transfer.py`) | rows of `ownership_transfer_requests` and events, `books.owner_id` | submit, accept, reject, cancel, claim, approve, emergency, expiry | books, queue (non-terminal jobs refuse it), accounts |
| Chapter analysis lifecycle (`services/analysis.py`, `services/analysis_executor.py`) | rows of `chapter_analyses`, artifact files, `chapters.current_analysis_id`, the roster of the book | create, run, save ready, fail, cancel (single and whole book), orphan repair, roster projection | queue, partial cache, character registry |
| AI analysis of a chunk (`analyzer.py`, `services/structured_output.py`) | local state of a worker: budget, retries, modes | request, retry, repair, fallback, completion, validation | AI provider, partial cache |
| Analysis partial cache (`services/analysis_partials.py`) | rows of `analysis_partials`, cache files | claim under a lease, publish by token, reuse, clean up | analyzer, files |
| Character registry (`services/character_resolution.py`) | characters, aliases, proposals, revision, events, snapshots | register, alias, merge, split, migrate, roll back | analysis, audio generation (revision in the key) |
| Books, chapters and editing (`services/book_service.py`, `services/chapter_service.py`, `routers/books.py`) | rows of `books`, `chapters`, revisions; files of the book; the lock of the book | upload, edit, reorder, delete, restore a version, settings | everything |
| Accounts and sessions (`routers/auth.py`, `routers/admin.py`, `auth.py`, `services/auth_tokens.py`, `services/oauth.py`) | users, identities, session versions, one-time tokens, author applications | register, login, change of password and address, Google login and link, role and status changes | everything |
| Text (`splitter.py`, `services/source_faithful.py`, `services/tts_text.py`) | none | split a document into chapters, a chapter into segments, a segment into pieces | books, analyzer, rendering |
| TTS rendering (`tts.py`, `services/expressive_tts.py`, `services/tts_partials.py`) | cache of units, temporary files of a job | voices, expression, units, requests and retries, assembly, timing | TTS providers, audio generation |
| Notifications, announcements | rows with dedupe keys, read marks, versions | create, list, read, recover, publish | queue, requests, accounts |
| Workflow read model (`services/workflow.py`) | none | derives the state of a book | analysis, audio generation |
| Frontend (`frontend/`) | pages, saved reading position, caches of the service worker | polling, playing, editing | the HTTP interface |
| Scripts, migration, deployment | none of their own | run by an operator | database, files |

`PROJECT.json` lists each with its sources and whether it is modelled.

### 1.2 What makes it hard

- **Concurrency of consumers.** Each service type (AI, TTS) has one or more consumer
  threads per process, and more processes may share the database.  A claim is a
  transaction; everything a consumer does afterwards happens between transactions.
  Leases, heartbeats and claim tokens decide whose result counts.
- **What is atomic.** `db.WRITE_LOCK` is a lock of one process.  Python's `sqlite3`
  opens a transaction at the first *write*, so a block that reads and then writes is
  atomic against the other threads of its process, and against other processes only
  if it begins with `BEGIN IMMEDIATE`.  Claims, edits and ownership transfers do;
  content requests and the changes of accounts do not.  The character registry writes on the connection of its
  thread and commits at the end, so a refused request leaves a transaction open.
- **Crashes and restarts.** A worker may die at any step.  Recovery (expired leases,
  orphaned analyses, missed notifications) runs when a process starts.
- **Two kinds of store.** Files are written beside rows, in an order of their own:
  rename, then row, or removal, then row.
- **Stale reads.** A request, the claim and the consumer each read the chapter, the
  settings and the registry at their own time, while the author edits; a tab addresses
  a chapter by a position it was shown long ago; a handler authenticates on a row that
  changes before it writes.
- **An unreliable provider.** The answers of the AI provider may name segments twice,
  not at all or ones that do not exist, come late, or fail; each of these has a repair
  of its own with a budget shared between them.
- **Cancellation, retry and timeout** of work that goes on meanwhile.
- **Text of any shape.** Headings, blank lines, ellipses and quotes that nobody closes
  decide where chapters, segments and pieces begin; none of them may lose a character.

### 1.3 What makes each component correct

- *Queue*: an attempt belongs to one claim; a late consumer changes nothing; attempts
  are numbered without gaps and never rewritten; a cancelled job never succeeds;
  capacity holds; every job settles.
- *Audio generation*: what is rendered is the text the generation is keyed by; a
  ready generation has its files; the pointer moves to current, newest results only;
  what a reader hears is the text on the page.
- *Content requests*: nothing is public that no reviewer approved; what is approved is
  what was submitted; a claim is exclusive; a public book leaves the catalogue as
  removed only.
- *Ownership transfer*: the owner changes only by an offer its target accepted in time
  and a third account approved, from the owner who made it, of unchanged content and
  with no unfinished job, or by an emergency; the history replays to the owner.
- *Analysis*: a ready analysis has its artifact, made from the text its row names; a
  cancelled one leaves no trace; a job ends as its analysis does.
- *Partial cache*: what is taken over was made from the text that was read; a row that
  succeeded has its file.
- *Registry*: merges end somewhere; a proposal is accepted on what was judged; what a
  name means changes under a new revision only.
- *Editing*: a save that says what its tab has shown hits nothing else; an overwritten
  text is in the history; positions have no gap.
- *Accounts*: a session never outlives the
  credentials it was opened on; an address is confirmed by its own link; nobody is
  locked out by linking and unlinking.
- *Reading*: no line, character or segment is lost or repeated between the document and
  the audio, each is spoken in its voice or stands as a pause where it is replaced by
  one, and the page never runs ahead of the file.

The hazards in `PROJECT.json` give the line at which each of these could go wrong and
the property that would catch it.

## 2. Modules

| Module | Models |
|---|---|
| `GenerationQueue` | the queue and its consumers |
| `JobLifecycle` | what the queue promises of every job, the abstraction it implements |
| `GenerationQueueProofs` | theorems about `GenerationQueue` |
| `AudioGeneration` | the generations of one chapter |
| `ContentRequests` | the content requests and the publication of one book |
| `ContentRequestsProofs` | theorems about `ContentRequests` |
| `OwnershipTransfer` | the transfer requests of books and what changes beside them |
| `OwnershipAgreement` | what a transfer promises, the abstraction it implements |
| `OwnershipTransferProofs` | theorems about `OwnershipTransfer` |
| `AnalysisLifecycle` | analyses of chapters, alone and of a whole book, with their jobs, files and roster |
| `AnalysisLifecycleProofs` | theorems about `AnalysisLifecycle` |
| `ChunkAnalysis` | one chunk in the analyzer and its row in the partial cache |
| `ChunkAnalysisProofs` | theorems about `ChunkAnalysis` |
| `CharacterRegistry` | the identities of the characters of one book |
| `BookEditing` | chapters, order, versions and metadata of one book edited from several tabs |
| `BookProofs` | theorems about `BookEditing` and `CharacterRegistry` |
| `Accounts` | accounts, sessions, links, identities and applications |
| `AccountsProofs` | theorems about `Accounts` |
| `SourceSegmentation` | segments and pieces of a text (functions) |
| `ChapterSplitting` | chapters of a document (functions) |
| `SegmentAnnotation` | what is accepted from the AI provider, and the artifact (functions) |
| `SpeechPlan` | voices, expression and units (functions) |
| `ChapterReading` | a chapter from the document to the audio; extends the four above |
| `AudioProofs` | theorems about `ChapterReading`, with the four modules it extends, and about `AudioGeneration` |
| `MC...` | values for the constants of the runs |

### 2.1 GenerationQueue

One transaction of `db.py` is one action; one step of `run_pending_once` between two
transactions is one action too.  A consumer walks through `phase`: `claimed` (before
`_run` reads the row), `executing` (the provider is called), `finishing` (an outcome
is about to be finalized), `caught` (the `except` branch has the exception),
`cancelling`, `closing` (the attempt of a retry is closed), `requeueing`, `failing`.

| Variable | Code |
|---|---|
| `job` | `generation_jobs`: status, attempts, `cancel_requested`, claim token, `worker_instance_id`, `lease_until`, `next_attempt_at`, `failure_category`, `source_text_hash` |
| `attempts` | outcomes of `generation_job_attempts` of each job, by attempt number |
| `consumer` | the local variables of `run_pending_once` and whether its heartbeat thread runs |
| `process` | `down`, `starting` (recovery still to run) or `up` |
| `text`, `ready`, `enabled` | what a claim reads of chapters, dependencies and providers; they change at any time |
| `clearing` | rows an operator has read as terminal and is about to delete |

| Action | Code |
|---|---|
| `Create` | `create_generation_job` |
| `Claim` | `claim_generation_job`: marks stale candidates, promotes a gated job, checks both capacities, takes the first runnable one and opens the attempt |
| `Begin`, `Execute`, `Decide` | `_run` and the `except` branch of `run_pending_once` |
| `Finish`, `Fail`, `AcknowledgeCancel` | `finalize_generation_job` under the token, with the attempt |
| `ScheduleRetry`, `Requeue` | the two transactions of a retry |
| `Heartbeat`, `LeaseExpires`, `BecomesDue` | the lease and the schedule against the clock |
| `Crash`, `Boot`, `Recover`, `Drop` | process death, startup repair of analyses, recovery of leases, a job dropped by a database error |
| `RequestCancel`, `CancelAnalysis`, `Retry`, `CheckDelete`, `Delete`, `ClearStatus` | the operator and the author |

Time is `fresh`/`expired` for a lease and `null`/`future`/`due` for the schedule; the
claim token is the number of the attempt, which has the property the code uses a
random token for, that no two claims share it.

`ImplementsLifecycle` maps each row to `JobLifecycle` (queued, held, succeeded,
failed, abandoned, gone) with the attempts as turns.

### 2.2 AudioGeneration

The queue is reduced to what a generation sees: jobs are claimed, given back, ended
and cancelled, and a consumer may have lost its job without knowing.  The route that
serves a request and the consumer that renders it are both modelled query by query,
because nothing makes their look-up and insert one transaction.

| Variable | Code |
|---|---|
| `gen` | `audio_generations`: status, the inputs its key is a digest of, whether the key has a one-time token |
| `chapter` | text hash, effective mode, `audio_settings_version`, active pointer |
| `registry` | `character_registry_meta.revision` |
| `files` | who wrote `audio.mp3` and `timing.json` of a generation, and from which text |
| `route`, `job`, `consumer` | the request handler, its job, `run_single_generation` / `run_multi_generation` |

### 2.3 ContentRequests

The handlers that read outside of a transaction and write later (submit, restore,
delete), and those whose transaction opens at their first write (decide, start a
generation, emergency hide), are two steps each: the first reads into `call`, the
second writes.  `Reached` says which web instances the requests of an account may reach.
`LockFree` is the `WRITE_LOCK` of one instance: no other transaction of it runs between
the two steps of such a block, while one of another instance may, and `overtaken` marks
the handlers a save has come between.  A cancel and
a claim are one step because their UPDATE repeats every condition.  The revision of
a request is its content, the pair of metadata and text, in place of the digest.

| Variable | Code |
|---|---|
| `book` | the row of the book (existence, content, status) and whether its directory is intact |
| `requests` | `content_requests`, each row with its `content_request_events` |
| `ops` | `generation_operations`: the source revisions of the operations of each request |
| `call` | the pending handler of each account |
| `restores` | bound |

### 2.4 OwnershipTransfer

Every operation of the service is one action, because its transaction begins with
`BEGIN IMMEDIATE`; this makes the number of web instances irrelevant.  An operation
that is refused is rolled back, so the expiry it began with is lost with it: an
expired row is only written beside an operation that succeeds, or by a read.  The
exception is an invalidation, which is committed before the handler raises.

The router checks the role and the status of the caller before the transaction.  A
handler may be slow, so the model does not take these checks for granted: every
account starts active, could have been admitted then, and may act at any later
moment; only what the transaction checks again restrains it.  For the same reason
roles are constants: an account has the role it was admitted with.

| Variable | Code |
|---|---|
| `owner` | `books.owner_id` |
| `revision` | what `calculate_revision` returns for the book |
| `jobs` | whether `_active_generation` finds a job of the book, and whether that one is stale |
| `active` | accounts with the status active |
| `requests`, `log` | `ownership_transfer_requests` and `ownership_transfer_events` in the order of their ids |
| `due` | requests whose `expires_at` has passed |

`ImplementsAgreement` maps the open request of a book to its standing offer in
`OwnershipAgreement` (made, lapsed or accepted); every other row is history.

### 2.5 AnalysisLifecycle

A job runs one analysis, or all chapters of a book in turn, creating a row for each as
it comes to it.  A consumer walks through the phases of `analysis_executor` and of
`analysis.py`: the row is opened, the analyzer works, the source is compared, the
artifact is saved, the row published, the registry projected, the roster written and the
pointer set, each in a transaction or a file operation of its own.  Cancellations, edits,
operators and the crash of the process come between any two.  The set-up of a job and of
a child (its row, its progress, its start) is outside the `try` that catches the failure
of a chapter, so `SetUpFails` ends the whole job and may leave the child as it is.  The
queue is reduced to
what these steps read and write of a job; fencing is `GenerationQueue`.

| Variable | Code |
|---|---|
| `text` | `chapters.text_hash` |
| `row` | `chapter_analyses`: status, error, chapter, source hash, the batch it belongs to; as history in `past`, whether its text was edited back while it was read (`restored`), its consumer gave up on a changed text (`outrun`), its set-up failed (`unprepared`) |
| `artifact` | the artifact file of an analysis, as the text it was made from |
| `job` | `generation_jobs` of single analyses and of whole books |
| `current`, `roster` | `chapters.current_analysis_id`; the entries of `books.speaker_chapters` |
| `run`, `request` | the local variables of a consumer, and of a request that creates an analysis |
| `withdrawn` | history: what an author has cancelled |

### 2.6 ChunkAnalysis

What `AnalysisLifecycle` calls analysing, for one chunk: looking into the partial cache,
waiting for another worker's lease, claiming, asking the provider under the budget of a
chunk with its transient retries, the repair of JSON and of references, the fallback to
the next output mode and the completion, storing the file and publishing the row by
token; beside it a retention that takes rows first and files later.

| Variable | Code |
|---|---|
| `text` | the content of the chapter |
| `partial` | `analysis_partials` by `cache_key`: state, owner token, lease, path, analysis |
| `file` | cache files by the token in their name: the text they were made from |
| `worker` | the local variables of a worker in `analyzer.py`, with its plan and counters |
| `doomed` | files the retention has taken from their rows |

A key has the hash the analysis was recorded for, the text as it was read and the mode
planned from the capability probe (`Capability`, `OutputMode`).

### 2.7 CharacterRegistry

`store` is what is committed, `work` what the open transaction would make of it and
`holder` the thread it is open on.  A request that is refused after its first write
leaves its writes in `work` (`CommitElsewhere` is any later commit of that thread).
`Register` is the projection of a ready artifact, `Correct` every correction by an
author (alias, proposal, acceptance, merge, split, voice conflict), `Migrate` the
migration of a book from before the registry, its snapshot and its rollback.
Acceptance is two transactions, and the reads of a snapshot come before its own.  What a
transaction makes of the tables is an operator on them (`Registered`, `Merged`,
`Targeted`, `Restored`, ...), and `Upserted` says where each alias of a list ends up
instead of inserting one after the other.  The module names its specification
`RegistrySpec`, so that one module can hold theorems about it and about `BookEditing`.

### 2.8 BookEditing

A tab shows a chapter or the metadata (`tab`), sends what it shows back and may be
stale.  Whether a request carries a condition (the key, the text and the title of the
chapter, the hash or the time of the metadata) is a choice, as the code compares only
those it is sent.  Requests with the book's lock are steps of one commit each under `lock`; restoring
a version and changing the settings take no lock.  A chapter is addressed by its
position; `history` holds the versions with the position they were saved under and, as
the model's own note, the chapter whose text each was.

| Variable | Code |
|---|---|
| `chapter` | rows of `chapters`: whether it is there, `seq`, text |
| `history` | `chapter_revisions` |
| `meta`, `analysed` | category and settings of the book; whether an analysis forbids a change of language |
| `lock`, `tab`, `call` | `state.book_lock`, what each tab shows, the request of each |

### 2.9 Accounts

A request authenticates and reads in its first step and writes in later ones, each one
transaction; requests of two browsers overlap freely, as if each browser had a web
instance of its own.  A check that is read before its transaction opens and that no index
repeats (the last super admin, an address in use) is a step, `Check`, and the write it
allows another (`WriteAfter`).  A password is named by the
request that set it and a link by the request that issued it, so that a stale one can be
told from the current.  A session remembers, for the property only, the credentials it
was opened on.

| Variable | Code |
|---|---|
| `account` | `users` with `external_identities`: status, role, `session_version`, addresses, password, identity |
| `cookie`, `oauth` | session cookie and OAuth transaction of a browser |
| `req` | the request being served, with the row it read |
| `link` | `auth_tokens` |
| `applied` | status of an account's latest author application |

### 2.10 Text, annotation and speech

`SourceSegmentation`, `ChapterSplitting`, `SegmentAnnotation` and `SpeechPlan` define the
pure functions of the text pipeline over kinds of characters and lines, each from the
function its comment names: paragraphs by runs of formatting, narration and dialogue by
quotes and sentence marks, groups of segments, pieces of a long segment, the verdict on
an answer, the artifact, the voice of a speaker under its several spellings, the strict
expression, the units.  The loops of the code that cut something from left to right
(sentences, quotes, groups, pieces, chapters by characters) are all `Cuts`, a recursive
function that is given the place where each part ends; what is filtered or sorted is
`Picked` and `InOrder`.  `ChapterReading` puts them together in one run of a chapter, and
names its specification `ReadingSpec`, so that one module can hold theorems about it and
about `AudioGeneration`:

| Variable | Code |
|---|---|
| `stage` | where the chapter is, from `document` to `spoken` |
| `document`, `text` | lines of the imported document, kinds of characters of the chapter |
| `chunk`, `answer`, `annotations` | the chunk being asked for, the answer under repair or completion, what was accepted |
| `artifact` | the saved artifact, one item per segment in the order of the annotations |
| `setting` | voices, profiles, provider and policy of the request being rendered |
| `units`, `cache` | synthesis units of the job; files of `tts_partials` with or without manifest |
| `audio`, `timing` | the sounds of the file with their start and whether they were measured; the time of each segment |

What is heard is a record of the places of the text it says, the voice and the emotion,
so that a wrong voice, a lost piece and a piece said twice can be told.

Three conversions are not the identity.  The characters of `str.isspace()` are more than
those the segmentation trims (`_FORMATTING`): the kind `wide` stands for U+3000 and the
others, and a text with a segment of these alone is refused (`IsSpace`, `Readable`).
`_tts_text` makes a pause of a segment with an ellipsis and without a Chinese letter,
unless the book is in English (`IsReplaced`, `Pause`).  A file that `ffprobe` cannot measure
counts 0.0 in the timing while its sound is in the audio (`Measured`; `measured` in
`audio`).

### 2.11 How the modules fit together

The modules meet at tables that one writes and another reads.  Each models the other's
side as an environment that is free to do all the code may do and more: edits of
a text happen at any time in `AnalysisLifecycle`, `ChunkAnalysis` and
`AudioGeneration` (`BookEditing` says which edits there are); a job in
`AnalysisLifecycle` and `AudioGeneration` can be taken from its consumer at any time
(`GenerationQueue` says when); the registry's revision is a number in `AudioGeneration`
(`RevisionCoversIdentity` of `CharacterRegistry` says what it stands for); the chunks of
`AnalysisLifecycle` are right or fail (`ChunkAnalysis`), and answers a chunk is made of
are those `SegmentAnnotation` accepts.

## 3. Runs

Every run states one question.  All runs end within five minutes.  All of them pass;
where the code does not keep what its documents say, section 5 says so.

| Run | Instance | Checks |
|---|---|---|
| `fence` (`GenerationQueue`) | 1 AI job of a chapter, 2 consumers in 2 processes, 2 attempts, 2 operator retries, 2 faults, 2 texts | `RunningHasItsAttempt`, `SuccessIsOfLastAttempt`, `CancelledNeverSucceeds`, `ImplementsLifecycle`: late consumers are fenced, the history agrees with the job |
| `progress` (`GenerationQueue`) | 2 TTS jobs (1 gated) of 2 providers that are switched off and on, capacity 1 of each and of the service, 1 candidate in a scan, fair, no faults | `OpenAttemptIsLive`, `WithinCapacity`, `SubmittedJobSettles` |
| `render` (`AudioGeneration`) | 1 request and 1 batch, 2 generations, 2 texts, 2 registry revisions, 2 consumers | `RenderedFromItsText`, `SwitchIsCurrent` |
| `switch` (`AudioGeneration`) | 1 request claimed twice, 2 texts, 2 settings versions, 2 registry revisions, 2 consumers | `PlayedIsCurrent` |
| `requests` (`ContentRequests`) | 2 web instances (author and reviewer reach one, the admin the other), 2 rows, 2 texts, 1 restore | `NothingPublicUnreviewed`, `ApprovedAsSubmitted`, `ClaimIsExclusive`, `PublicBooksAreOnlyRemoved` |
| `transfer` (`OwnershipTransfer`) | an author, a reviewer, a super admin, 1 book, 3 requests, 2 contents | `HistoryReplays`, `TransfersAreAgreed`, `MovesAreSafe`, `ImplementsAgreement` |
| `analyses` (`AnalysisLifecycle`) | 2 analyses and 1 whole-book job over 2 chapters, 1 consumer, 1 request, 2 attempts, 1 crash or failure, 1 act of an operator or edit, texts edited to another and back | `CancelledHasNoEffect`, `ReadyIsOfItsSource`, `EndedBookIsSettled`, `SuccessIsReady` |
| `chunks` (`ChunkAnalysis`) | 2 workers, 2 texts, 6 requests per chunk, 2 retries, 2 claims, 1 edit, 1 retention | `ResultIsOfItsInput`, `SucceededHasItsFile` |
| `registry` (`CharacterRegistry`) | 3 characters and a title, 2 threads, 1 artifact, 1 proposal, 1 snapshot, 4 revisions | `MergesEnd`, `UnforcedMergeIsSafe`, `RevisionCoversIdentity` |
| `editing` (`BookEditing`) | 3 chapters (2 uploaded), 3 texts, 2 tabs, 2 languages, 2 versions kept, 3 writing requests, 1 crash | `ChaptersAreNumbered`, `EditIsOfWhatWasSeen`, `OldVersionIsSaved` |
| `accounts` (`Accounts`) | a super admin, an admin, an account to be made, 2 browsers, 3 addresses, 1 Google identity, 4 requests, crashes | `AcceptedSessionIsCurrent`, `VerifiedWasConfirmed`, `HasAWayIn` |
| `reading` (`ChapterReading`) | all documents of 5 lines, all texts of 4 characters, a text with nothing to say, 2 longer texts in 1 or 2 chunks with every answer, 4 settings, 2 renderings, 1 failure (of a unit or of `ffprobe`), 1 crash | `ImportKeepsTheText`, `SegmentsKeepTheText`, `AcceptedIsComplete`, `SpokenAsWritten`, `TimingFollowsTheAudio` |

**Deadlock** is checked except where the system may really stop: a book may be deleted
and the rows of a run used up (`requests`), and in `analyses`, `chunks`, `registry`,
`accounts` and `reading` every job may be ended or every bounded operation used up.
**Symmetry** is used only in runs that check no liveness, over sets whose members no
action tells apart: consumers, workers, threads, tabs and texts of `editing`, request
rows, revisions of `transfer`, browsers, and the addresses nobody owns at the start.

**Why these bounds are enough to be interesting.** Two consumers are what a race needs:
the one that lost the job and the one that has it. Two attempts let a job be lost,
recovered, retried and exhausted; `RetryBound` lets an operator retry it more. Two
faults allow a crash during the recovery of another. Two texts are a change and a change
back. Two generations in `render` are the older and the newer one; a request claimed
twice in `switch` is a consumer that lost its job beside the one that has it. Two
request rows are a request still open while another is decided, and a publish and an
unpublish in turn; with two web instances the admin decides and restores while the author
saves, and with one of the two shared by author and reviewer the lock is there as well.
Two jobs of two providers in `progress` and a scan of one candidate are a provider that is
off and hides the job of the other; of the two limits of `WithinCapacity` the service's
bites there, and `CapacityHolds` covers both for any jobs and providers. Three requests in `transfer` are one that is open while two emergency
transfers take the book away and back; three accounts let each role be a party, and the
reviewer of one request be the owner or target of another. In `analyses` a single
analysis can stand beside a child of the whole-book job or two children follow one
another; one act is enough for each cancellation, operator's act or edit at every step,
and a crash or a failure comes on top of it; an edit back to the first text is free, so
the edit that is taken back is there as well. In `chunks` six requests are the code's own
budget, and with two claims the first worker's lease is lost and its result late. Three
characters in `registry` are a merge into one that is merged itself. Three writing
requests in `editing` are a stale tab beside two changes, one of which moves the
chapter. Four requests in `accounts` are two overlapping changes after a login, or a
link, an unlink and a password after a Google login. `reading` has every document in
which a heading, front matter, a rule, a blank and text occur in any order, every text
in which a quote can open, close, fail to close and follow narration, and its
followed texts have what these cannot: two chunks, a segment of several pieces, a quote
with nothing to say, a quote that is refused for its indentation, and a segment that is a
pause in one book and spoken in another.

**Bounds of the models** (not of the code): `RetryBound`, `MaxFaults`
(`GenerationQueue`); `Versions`, `Revisions`, `MaxClaims`, `Gens`, `Requests`
(`AudioGeneration`); `Ids`, `MaxRestores` (`ContentRequests`); `MaxRequests`
(`OwnershipTransfer`, `Accounts`); `MaxFaults`, `MaxActs`, `Rewrites` (`AnalysisLifecycle`); `MaxClaims`, `MaxEdits`, `MaxCleanups` (`ChunkAnalysis`);
`MaxRevision`, `MaxProposals`, `MaxSnapshots` (`CharacterRegistry`); `MaxEdits`,
`MaxCrashes` (`BookEditing`); `MaxLines`, `MaxLength`, `Followed`, `MaxRounds`,
`MaxFailures`, `MaxCrashes` (`ChapterReading`).

**Limits of the code that the runs scale down**: 50 segments per group to 3, the
coverage floor of 16 segments and 80 % to 3 and 50 %, the diagnostic sample of 32
segments to 2, synthesis units of 3000 characters to 4, 30 characters per request of the
legacy adapter to 2, 20 versions of a chapter to 2, 100 candidates of a
claim to 1 (`progress`). What relates the first three is an
assumption, `SampleCoversWhatMayBeMissing`: wherever a completion is tried, the segments
missing are no more than the diagnostic lists. The code's numbers meet it: at most 15 of
fewer than 16 segments, and at most 10 of 50.

**Fairness** is assumed in `FairSpec` of `GenerationQueue` alone: weak fairness of
every consumer step (a consumer is a loop that polls until the process stops and is
never disabled by another thread for ever), of the passing of time
(`BecomesDue`, `LeaseExpires`), and of the two steps of a starting process.
Operators, authors, providers, dependencies and crashes are not fair.  `progress`
assumes no crash (`MaxFaults = 0`), because expired leases are recovered only when a
process starts (section 5).  The other components are driven by requests, which need
not come, or by a consumer of the queue, and have no promise of their own that something
happens; section 5 names those of their rows that may stay for ever.

Each module has a `TypeOK` (`TablesOK` in `CharacterRegistry`, `ReadingTypeOK` in
`ChapterReading`) that was checked while it was written and is proved; the runs check the
properties that say more.  Every property of a run has a mutant in `PROJECT.json`: a plausible bug of the code, written beside the
definition it changes, under which the run fails.

## 4. Proofs

TLC checks the instances above.  TLAPS proves the following for all values of the
constants that satisfy the modules' assumptions.  Each proof module has one inductive
invariant for its safety properties, one lemma per action, and the temporal theorems at
the end; what several actions share (what a consumer, a worker, a row or a request may do
in one step) is stated once as a "move" that every action is shown to make.

`GenerationQueueProofs`:

- `TypeCorrect`: `Spec => []TypeOK`.
- `RunningJobsHoldTheirAttempt`: `Spec => []RunningHasItsAttempt`.
- `OpenAttemptsAreLive`: `Spec => []OpenAttemptIsLive`.
- `HistoryIsAppendOnly`: `Spec => AttemptsAppendOnly` (a finished attempt is never
  rewritten; stated in the module and left to the proof).
- `CancellationHolds`: `Spec => CancelledNeverSucceeds`.
- `SuccessesAreOfLastAttempts`: `Spec => []SuccessIsOfLastAttempt`.
- `CapacityHolds`: `Spec => []WithinCapacity`.
- `QueueImplementsLifecycle`: `Spec => ImplementsLifecycle`, the refinement of
  `JobLifecycle`.

The inductive invariant `IInv` adds to the first three that every token a consumer
holds is the number of an attempt the job has had (`TokenIsAnAttempt`), without which
a late consumer could own a later claim by accident, and that a consumer between the
two transactions of a retry has closed the attempt it gives back
(`RequeueingIsClosed`), without which the requeue would leave an open attempt on a
pending job.  `FinalizeFacts` and `CloseAttemptFacts` say once what
`finalize_generation_job` may change; each action then has its own case.
`WithinCapacity` counts jobs: a claim adds one job to a set that was below its limit, and
no other step adds any, so the proof is about cardinalities of finite sets.  For the
refinement every step of the queue is shown to be, for each job, a step of `JobLifecycle`
or a stutter (`ConsumerMove`).

`ContentRequestsProofs`:

- `TypeCorrect`: `Spec => []TypeOK`.
- `NothingUnreviewedIsPublic`: `Spec => []NothingPublicUnreviewed`, for any number of
  web instances, although handlers act on rows they read long before.
- `ClaimsAreExclusive`: `Spec => ClaimIsExclusive`.
- `PublicBooksStayOrAreRemoved`: `Spec => PublicBooksAreOnlyRemoved`.
- `DecisionsAreOnTheSubmitted`: `Spec => ApprovedAsSubmitted`, for any number of web
  instances.

The invariant to be proved first says nothing of requests and handlers that could still
make the book public, so it is not inductive.  `LeadsFromReview` closes it:
everything that leads to a public or a restorable book (the status itself, an
unpublish request that can still be approved, a pending emergency hide, a pending
restore) exists only after a publish request has been approved.  The lemma `Lasting`
carries that across each step: rows never vanish, never change their type, and
APPROVED is final.  The action properties need that a handler which is about to decide
holds the claim it decides on (`DecidesOwnClaim`).  The last theorem says what `decide`
does guarantee: the revision it compared before its transaction is the one it approves,
unless a save of another instance has overtaken it (section 5).  Its invariant ties each
pending decision to the content of the book or to that mark (`Marked`, `OvertakenCalls`),
and the lock rules out every save of the same instance (`ReachedInstances`).

`OwnershipTransferProofs`:

- `TypeCorrect`, here of the tables (`Tables`), `TheHistoryReplays`: `Spec => []HistoryReplays`,
  `ApprovedTransfersAreAgreed`: `Spec => []TransfersAreAgreed`.
- `BooksMoveSafely`: `Spec => MovesAreSafe`.
- `TablesImplementAgreement`: `Spec => ImplementsAgreement`, the refinement of
  `OwnershipAgreement`.

`HistoryReplays` and `TransfersAreAgreed` speak of the log and of the rows; what ties them
together is `RowsAreTold` (the log says who answered, claimed and approved a row that has
come so far) and, for the refinement, the partial unique index (`OneOpen`: at most one
open request of a book) and that a request which is due has no answer
(`DueIsNotAnswered`).  The log is read by position (`EventsOf`, `MovesOf`, `IsFirst`,
`IsLast`, `Follows`) and never by recursion, so appending an event is all a step does to it.

`AnalysisLifecycleProofs`:

- `TypeCorrect`: `Spec => []TypeOK`.
- `CancellationHolds`: `Spec => []CancelledHasNoEffect`.
- `EndedBooksAreSettled`: `Spec => []EndedBookIsSettled`.
- `ReadyResultsAreOfTheirSource`: `Spec => []ReadyIsOfItsSource`.
- `SuccessesAreReady`: `Spec => []SuccessIsReady`.

The invariant `IInv` says where a consumer may be with a cancelled analysis
(`HarmlessRuns`: it will see the cancellation, or the row will refuse its result), who is
to end an active child of a whole-book job (`ChildrenEnd`: a consumer at work on it, or a
recovery still to run, unless its set-up has failed), and that no two consumers hold a job
of a book (`Alone`).  The last two theorems have a second invariant, `SInv`, for any edits
and attempts: what a consumer has read is the text of its row, or the chapter has another
text by now, or the edit was taken back, which the row remembers (`Reads`); and what it
has written and may still write (`Makes`), in the first attempt and later, leaves of each
row what the properties say (`OfAnalysis`).  The comparisons of hashes are three reads of
a text that nothing holds still, and the one order of steps they cannot tell is named in
the property itself (`restored`), in place of an assumption that it does not happen.

`ChunkAnalysisProofs`:

- `TypeCorrect`, `ResultsAreOfTheirInput`: `Spec => []ResultIsOfItsInput`,
  `SucceededRowsHaveTheirFile`: `Spec => []SucceededHasItsFile`.

A file is written, published, read and removed in steps of different workers.  The
invariant gives it one owner: a token is issued once (`TokensAreIssued`), a file belongs to
one row at most and no row keeps one that is to be removed (`FilesAreOwned`), nobody reads,
keeps or removes the file a worker may still write (`WritersAreAlone`), and what a worker
has in its hands is made from the text it read (`Sound`).

`AudioProofs`, of the generations:

- `TypeCorrect`, `FilesAreOfTheirText`: `Spec => []RenderedFromItsText`,
  `PlaybackIsCurrent`: `Spec => []PlayedIsCurrent`,
  `PointerMovesToCurrent`: `Spec => SwitchIsCurrent`.

From the moment a consumer has read the chapter it has the text of its generation, and
what it has moved into place is there (`ConsumerIsRight`); that a row keeps its inputs
(`Grows`) and a file stays or is replaced (`Stays`) carries it over the steps of others,
for any number of requests, batches and consumers.

`AudioProofs`, of the reading of a chapter:

- `ReadingIsTyped`: `ReadingSpec => []ReadingTypeOK`.
- `ImportIsFaithful`: `ReadingSpec => []ImportKeepsTheText`, for every document.
- `TextsAreKept`: `ReadingSpec => []SegmentsKeepTheText`, for every text of any length
  and every limit of a chapter; which texts are refused is part of it.
- `AcceptedAnnotatesAll`: `ReadingSpec => []AcceptedIsComplete`, for every answer.
- `AudioIsSpokenAsWritten`: `ReadingSpec => []SpokenAsWritten` and `TimingIsInTime`:
  `ReadingSpec => []TimingFollowsTheAudio`.
- `ProviderIsNotOverrun`: `ReadingSpec => []WithinConcurrency` (no more than `Capacity`
  units wait for the TTS provider at a time; stated in the module and left to the proof).

These are about data of any size, so the argument is first one about the functions.  They
are recursive functions, sums and joined sequences, and what they compute is proved by
induction: `Upward` (over the naturals) and `Inward` (over finite sets) are derived from
`WFMin` and `NatLessThanWellFounded`, as the induction theorems of the library cannot be
instantiated here.  A recursive function is a `CHOOSE`, so each of them first needs that
there is such a function (`CutExists`, `FlatteningExists`, `SumExists`).  Then:

- `CutsFacts`: the parts `Cuts` makes are in order, none is empty, and together they hold
  every place, whenever each part ends behind its beginning and not behind the end.  So
  each loop of the code only has to show where it ends a part (`DialogueEndIs`, `PieceEnds`,
  ...), and nothing is lost or repeated in any of them.
- `Tiles` is what the segments of a stretch must be: in order, within it, each saying
  something, together holding all that is said, and no narration with a quote in it.
  `TilesJoin` puts stretches together, from a sentence (`TrimmedTiles`) over narration
  (`NarrationTiles`) and paragraphs (`SplitTiles`) to the text (`SegmentsTile`).
- `SumStep`, `SumOfTwo`, `SumUpTo`: what the sums of the community modules come to, for
  the sizes of chapters and chunks and for the timing.

Three invariants carry this through the steps of a reading.  `TextsAreTyped` is what the
first two theorems need.  `Annotation`: while the provider is asked, what has been
collected is one annotation of each segment of the chunks before and of no other
(`Collected`), and a chunk that waits for a completion lacks no more than the sample lists
(`Completable`, from `SampleCoversWhatMayBeMissing`).  `AcceptedIsComplete` alone says
nothing before the last chunk.  `Speech`: the artifact is one of the text, each unit of the
plan has said the beginning of what it is to say and is done when it has said all
(`InTurn`), and every entry of the cache is the whole sound of its key (`FitsItsKey`).  The
last conjunct is the heart of it.  A key is asked for later, under other voices, by other
requests and after a crash, and `KeyIsEnough` (the key determines the sound) with
`ProviderIsItsId` makes what is found there what would have been said.  Over a whole plan
it follows that each letter is in one segment, one unit and one call (`OneSegment`,
`SaidOnce`, from `InPieces` of each segment), or that its segment is one pause
(`PausedOnce`).  The timing adds up because the units of a segment are together and in the
order of the segments (`TimesAddUp`), and what `ffprobe` did not measure is what it falls
short of the file (`SumsTogether`).

The types of a reading rest on `Speech`.  The voices of the segments are what is checked
before a rendering, and the voices of the units are what is sent and cached: that these are
among those is `UnitsOfTyped`, for every book, artifact and limit.  An unfinished sound is
the beginning of a sound of a unit (`InTurn`), so it is of the catalogue too, and so is what
a crash leaves in the cache.  With the units a finite sequence, `WithinConcurrency` is
inductive (`AskedMoves`: only `Send` adds to the units that wait, and a rendering begins
with none of them waiting).

`AccountsProofs`:

- `TypeCorrect`, `AcceptedSessionsAreCurrent`: `Spec => []AcceptedSessionIsCurrent`,
  `VerifiedAddressesWereConfirmed`: `Spec => []VerifiedWasConfirmed`,
  `AccountsHaveAWayIn`: `Spec => []HasAWayIn`.

Sessions, OAuth transactions, links and handlers all carry credentials that were read
earlier.  `ReadAt` is the one idea the invariant is made of: what was read at a version is
what the account has unless its version has grown since.  `NumbersAreFresh` makes the link
of a request its own.  That a check is a step before its write costs these properties
nothing: what a session, a link or an address relies on is looked at by the write itself.

`BookProofs`, of the chapters:

- `TypeCorrect`, `PositionsHaveNoGap`: `Spec => []ChaptersAreNumbered`,
  `EditsAreOfWhatWasSeen`: `Spec => EditIsOfWhatWasSeen`,
  `OverwrittenTextsAreKept`: `Spec => OldVersionIsSaved`.

`ChaptersAreNumbered` is about moments when nobody holds the lock.  The invariant says
what a request that holds it may rely on until it is done (`Adding`, `Removing`,
`Renumbering`, `Ordering`: the next position is behind all others, the order it read lists
the chapters that are there), that positions are distinct even where an interrupted removal
left a gap, and that unlocked requests leave every row in its place (`InPlace`).  The order
of chapters and the pruned history are choices of a sequence; that there is one to choose
follows from `Ranks`: elements with numbers of their own have the ranks 1, 2, ... up to
the size of their set, proved with a cardinality argument in place of an induction.

`EditsAreOfWhatWasSeen` is about saves that carry the key and the text of the chapter, or
the hash of the metadata: each condition is compared under the lock and in the transaction
of the write, so what the tab was loaded with is what it overwrites.  Saves without them
are steps of the model like the others, and the theorem claims nothing of them.

`OldVersionIsSaved` has an invariant of its own, `Versions`: no position has more versions
than are kept, and the text a restore has saved stays until as many newer versions of the
position are there.  That is why the property excepts a full history: other tabs can save
20 versions of the position, and the text the restore has read last, before it writes.

`BookProofs`, of the characters:

- `TablesAreTyped`: `RegistrySpec => []TablesOK`.
- `EveryMergeEnds`: `RegistrySpec => []MergesEnd`.
- `UnforcedMergesAreSafe`: `RegistrySpec => UnforcedMergeIsSafe`.
- `RevisionsCoverIdentities`: `RegistrySpec => RevisionCoversIdentity`.

`MergesEnd` is stated without following a chain: any characters include one that is not
merged into another of them.  A merge keeps that because its target is `active`, and no
other operation makes a merged character.  It is not inductive: a rollback brings back
characters of a snapshot, and a commit publishes what a refused request left in an open
transaction, so the invariant (`RegistryInv`, `Sound`) says it of every snapshot and of
both tables.  Each operation is then a lemma on the tables it starts from (`Goes`,
`Covers`): it loses no proposal, and at the same revision it keeps the aliases, the
conflicts and the status of every character that was there.  This is what makes the two
transactions of an acceptance safe (`InHand`): a proposal judged safe at a revision is safe
as long as the revision is the same, also after a split that was refused half way.

**Assumptions.** The only ones are the `ASSUME`s of the modules, on constants, and TLC
evaluates them in every run: ids are positive numbers, each job has a service, a provider
and a chapter, the values that stand for nobody and nothing (`NoBody`, `None`, `Nobody`,
`Free`) are not members of the sets they are added to, the owner of `ContentRequests` is
neither a reviewer nor an admin, the chapters of a book are finite in number, the accounts
at the start are such as `create_user` makes (`InitialAssumption`), an offer is not the
absence of one (`NoneIsNoOffer`), the characters of a book and its artifacts are finite in
number, a title is no character's own name, what an artifact or a correction names is a
character, a title or nobody (`ArtifactAssumption`, `InputAssumption`), a name an annotation
gives is one the registry knows (`SayingsAreKnown`), the bounds are numbers
(`BoundsAreNumbers`), the followed texts are texts (`FollowedAreTexts`).  Four say what the
code guarantees of its own constants and inputs.  `SampleCoversWhatMayBeMissing` is discussed in
section 3.  `LimitsArePositive`: `split_text_for_synthesis` refuses a limit that is not
positive, and the others are literals of the code.  `PolicyIsOfNumbers`: so are the
coverage floor and the sample.  `ProviderIsItsId`: the cache identity holds the provider's
id, configuration version, adapter key and version, and capabilities hash
(`tts_partials.py:28`), so two settings with
the same identity have the same provider.

**Model-checked only**: `SubmittedJobSettles`.  Liveness under fairness needs `ENABLED`,
which is out of the prover's reach.  All other properties of the runs are theorems.

## 5. Behaviour to know of

What the code does and a reader may not expect.  It is all in the models unless it says
otherwise; no run states it as a property, and the properties are worded so that they
hold beside it.

**Queue**
- A cancellation requested during a run survives the requeue of a retry: the job goes
  back to pending with `cancel_requested = 1`, where no claim takes it and no second
  request cancels it (`db.py:3403`, `db.py:3447`).
- A lease that expires while the process lives is not recovered before a restart
  (`main.py:44`).
- `delete_generation_job` checks and deletes in two transactions, so a job retried in
  between is deleted while queued or running (`db.py:3006`).
- A job asked to cancel leaves the provider's count while its call goes on
  (`db.py:3232`); a dependency that disappears while a job is pending does not stop the
  claim.
- A claim looks at 100 candidates (`db.py:3182`).  As many of a provider that is off, or
  of parents that wait, in front of a runnable job hide it for as long as they are there:
  `SubmittedJobSettles` excepts the hidden job (`Hidden`), and `progress` reaches the case
  with a scan of one candidate.

**Audio generation**
- A generation marked failed between the checks and the transaction of its success
  becomes the active one; what is played is still complete and of the right text
  (`audio_generation.py:221`, `:235`).
- Two in-flight generations of the same inputs are possible after a failure or a forced
  request (`audio_generation.py:133`); a reused one gets a second job and may be rendered
  twice at a time (`books.py:1007`).
- A ready generation that is reused after edits A, B, A is returned without being
  activated again (`generation_pipeline.py:207`); one that a registry conflict abandons
  stays running and blocks its key (`audio_generation.py:218`).

**Content requests**
- The checks of the service rest on `WRITE_LOCK`.  With a second web instance two
  submissions or two starts can pass the same check, and a save committed between the
  comparison of the revision and the UPDATE of an approval is published unseen
  (`content_requests.py:269`).  The run has two instances and meets both;
  `ApprovedAsSubmitted` excepts the decision that was overtaken so, and nothing else.
- A book with requests loses its files to a deletion that its row survives: the foreign
  key of the requests refuses the row after the files are gone (`book_service.py:843`).
- A claimed request can be decided by its reviewer only, also after that account is
  suspended (`content_requests.py:263`); an approved audiobook request is started from
  the content there is then, which may differ from the approved revision
  (`content_requests.py:393`); `restore_book` writes on a status it read before.

**Ownership transfer**
- A stale job can be neither retried, cancelled nor deleted, and refuses every transfer
  of its book from then on, the emergency transfer included (`ownership_transfer.py:192`).
- An emergency transfer leaves the open request of the book as it is: the new owner
  cannot open one until the old request is answered, cancelled by the former owner or
  expired, and one that was already accepted waits for a reviewer.  Should another
  emergency give the book back in between, the request can still be completed
  (`OwnershipAgreement` says so).
- An account without the capability to manage books, a reader for example, can be the
  target of a transfer; it then owns a book it can neither edit nor pass on.

**Analysis**
- A crash or a failed finalize after `ready` runs the job again, which removes the file of
  the ready analysis first and then fails its row (`analysis.py:1303`); an operator's retry
  of a failed analysis job can never succeed, and the note of a failure may overwrite a
  ready row.  `ReadyIsOfItsSource` and `SuccessIsReady` cover later attempts and name these
  two outcomes of theirs.
- A job ends successful though its analysis is still running when the source had changed
  at the aggregate check (`analysis_executor.py:188`, `:206`).
- The set-up of a child is outside the `try` of its chapter (`analysis_executor.py:253`):
  when its progress cannot be initialised, for instance because `segment_source` refuses
  the text, the whole job fails or is retried, and the child stays queued or running for
  good.
- A pending job that an administrator cancels, or that a claim marks stale, leaves its
  row queued for ever; a whole-book job cancelled before a crash leaves its child active,
  as recovery passes over cancelled jobs; the deletion of a cancelled whole-book job lets
  its worker go on with the next chapters.
- Two analyses of a chapter may be active at one time, created by two requests that both
  found none.  The note of a retry overwrites the mark of a cancellation.
- An edit that is taken back cannot be told from no edit (the hash is compared): when the
  text is edited before the analyzer reads it and edited back before the comparison, the
  analysis is ready with an artifact of the other text.  The roster is written back whole as it was read (a lost update between two analyses).

**Chunks**
- A lease is 600 s and a chunk may take six calls of up to 300 s: the loser's publication
  is rejected and its paid answer lost.  After a crash the chunk stays claimed until the
  lease ends, and whoever needs it meanwhile fails with `PartialClaimBusy`.
- `analyzer.py:1164` says that an answer given in the fallback mode is not published under
  the key of the strict one.  It is: the mode that is compared is that of the last call,
  and a completion in the planned mode sets it back (`analyzer.py:574`), so an answer half
  of which is from the fallback is stored under the strict key; and a repair of JSON is
  asked for as a plain object under any key (`analyzer.py:739`).  The model has these
  calls; no property speaks of the mode of a stored answer.
- `cleanup_expired_partials` is called by tests only; a row published again after it was
  stale leaves its old file without an owner.

**Registry**
- No operation makes a character `active`, so a merge or a split can only succeed on
  characters made so outside of the service (`Confirmed`).
- A refused correction leaves its transaction open on the connection of its thread: until
  that thread commits something else no other thread can write, and its writes are
  committed then (`RevisionCoversIdentity` excepts them).
- Migrated and split characters get no alias, so a merged one is resolved to itself by
  later artifacts.  After a crash between the merge and its mark a proposal stays pending.

**Editing**
- The lock of the book is of one process; with two instances `ChaptersAreNumbered` would
  fail.  A crash between the deletion of a chapter and the renumbering leaves a gap.
- The conditions of a save are optional (`books.py:308`, `:177`; `ARCHITECTURE.md`, section
  4.1, says so): a caller that leaves them out overwrites whatever is at the position.
  `EditIsOfWhatWasSeen` speaks of the saves that carry them, as the frontend's editors do.
- `restore_revision` takes neither the lock nor a transaction (`books.py:637`): a text
  saved between its read and its write is overwritten and in no version
  (`OldVersionIsSaved` excepts it).
- The history is keyed by position (`db.py:2404`): after a reordering, restoring a
  version may give a chapter the text of another.  `Version.of` shows it.
- The settings are written back whole as they were read, over a newer `hasPrologue`.

**Accounts**
- The last super admin is not protected as `ARCHITECTURE.md` (line 105) says.  The count of
  active super admins is taken before the transaction opens and under the lock of one
  process (`db.py:1623`, `:1916`, `:1931`): through two web instances, one request
  disables a super admin while another demotes the other, and none is left.
  The approval of an author application does not count at all, and looks neither at the
  application's status nor at the applicant's role: it makes whoever applied an author,
  an admin or the last super admin included (`db.py:2178`).  TLC refutes
  `[][ActiveSupers # {} => ActiveSupers' # {}]_vars` in five steps of the instance of
  `accounts` (by an approval), and of two super admins in ten (by two requests that both
  pass the check).
- The routes check the target on a row they read before: a concurrent change can revive a
  deleted account (`admin.py:427`), or let a plain admin act on an account made super
  admin since.
- The rehash at login overwrites a password changed meanwhile; an account without
  an address that starts a change and loses the link cannot log in by address; a failed
  delivery restores an older pending address; two requests for a link leave two live ones.

**Text and reading**
- A completion puts the missing segments after the rest of their chunk, and
  `apply_annotations` keeps the order of the annotations while `validate_v4_artifact`
  sorts a copy: such a chapter is read aloud out of its order (`analyzer.py:631`,
  `source_faithful.py:304`).  `SpokenAsWritten` says that each letter is spoken once, not
  when.
- The first line of a document without a title is taken for the title of the book and
  dropped, and a first chapter without a body is removed (`splitter.py:47`, `:80`);
  `ImportKeepsTheText` excepts the first line.
- The strict expressive policy can hardly accept a chapter with narration: the voice of
  the narrator is looked up as `speaker:narrator` and stored under the name the page shows
  (`expressive_tts.py:232`, `:176`); a character written in two ways has the voice of its
  last spelling there and of its first in the audio (`generation_pipeline.py:113`,
  `analysis.py:1010`).  Under best effort, the emotion recorded as applied is not
  what is sent.
- A quote whose line is indented with ideographic spaces (U+3000, not in `_FORMATTING`)
  makes `segment_source` refuse the whole chapter: the indentation is a piece of its own
  and `_make_span` takes no piece of spaces (`source_faithful.py:84`).
  `SegmentsKeepTheText` says that nothing else is refused.
- Unless a book is in English, a segment with an ellipsis and without a Chinese letter
  becomes a pause, its Latin letters included (`tts.py:43`).
- When `ffprobe` fails, a unit counts 0.0 in `timing.json` while its sound is in the file
  (`tts.py:166`): from there on the page is late by that unit.  `TimingFollowsTheAudio`
  says that it is late by nothing more, and never early.
- An annotation without `segment_id` beside wrong ones is dropped by the repair without a
  word; its segment is then missing and asked for again.
- A damaged cache entry is never replaced, since publishing returns when the file is
  there; a crash between the two renames leaves a file without a manifest, which is
  accepted unchecked.

## 6. What is not modelled

In the modelled components:

- *Queue*: progress and usage metrics of a running job; `worker_instances` rows other
  than what recovery reads; the wording of failures.  The reads of one claim are one
  step, as its transaction begins with `BEGIN IMMEDIATE`.
- *Audio generation*: voices, expressive profiles and provider versions (further
  parts of the key, which behave like `version`); a batch over several chapters (each
  chapter of a batch is generated like the one modelled); missing analyses and voices are
  a nondeterministic failure of `Load` (`SpeechPlan` says when).
- *Content requests*: roles, account status and owner are constants (a changed role
  takes effect at the next request); an account has one multi-step handler at a time;
  notifications and audit rows, which no guard reads; reviewing of chapters one by
  one; the payload of an audiobook request.
- *Ownership transfer*: the deletion of a book (the foreign key of the requests refuses
  it once a request exists) and of an account (it is disabled for good, which `Disable`
  covers); the recent login an emergency asks for; notices and audit rows.
- *Analysis*: progress figures and metrics; the legacy analyzer, which keeps neither
  partial results nor segments; prompts and parsing; whether an answer passes its JSON
  schema is a choice.  In `ChunkAnalysis` the output mode is `strict_json_schema` in the
  run (one supported probe); `legacy_json` is planned only for injected capabilities.
- *Registry*: the look-up of a surface and the lists are reads; surfaces stand for their
  normalized form.
- *Editing*: titles (that a save gives one, and whether it fits, is a choice) and character
  counts; the publication of single chapters, covers and
  voices.
- *Accounts*: the legacy `ADMIN_PASSWORD` login, the bootstrap script, profiles and
  avatars, expiry times, the login throttle, CSRF, the demand for a recent login, several
  applications of one account (the latest counts), cryptography.
- *Reading*: vocabulary and bilingual segments, loudness and fades, the replacement of
  words before they are spoken (`ttsCorrect`), the rounding of
  the timing to milliseconds, fields of an answer other than the segment, the name and
  the emotion.  The cache look-up of all units is part of `Begin` and a unit is published
  by its last `Hear`.  The characters of a document's lines and of the chapter's text are
  two abstractions: `Import` takes any followed text.
- Reading of the database inside one transaction is one step; SQLite itself is
  assumed correct.

The components with status `not_modelled` in `PROJECT.json` have their reason there.
*Notifications* are inserts made idempotent by a dedupe key, which no other component
reads; their recovery at startup looks at the first 100 ended jobs only
(`notifications.py:292`), so a notice may be missed when more ended unnoticed.
*Announcements* are single compare-and-sets on a version.  The *workflow read model* and
the *admin console* derive what they show from rows the modules own.  Provider calls,
mail, rendering of pages, cryptography and one-off migration scripts are left out for
good.

## 7. Plan

The modules of the plan are written, and every property of a run is a theorem but the one
of section 4 under "model-checked only".

Abstract specifications still worth stating: a *single-writer register* for the active
pointer of a chapter (`AudioGeneration`), a *publication gate* for a book
(`ContentRequests`), a *lease* shared by the queue and the chunk cache.
