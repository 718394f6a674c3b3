--------------------------- MODULE ContentRequests ---------------------------
(***************************************************************************)
(* The content requests of one book: an author asks that the book be       *)
(* published, taken down or turned into an audiobook, a reviewer claims    *)
(* the request and decides it, and the decision changes the publication of *)
(* the book or authorises one generation operation.  Beside the requests   *)
(* the book is hidden in an emergency, restored, edited and deleted.       *)
(*                                                                         *)
(* A web instance runs the transactions of this service one at a time: its *)
(* data layer holds a lock of the process.  Between two instances on the   *)
(* same database only the SQL statements exclude each other, so what a     *)
(* transaction reads before its first write may be old when it writes.     *)
(***************************************************************************)
EXTENDS SequencesExt, FiniteSets

CONSTANTS
  Instances,   \* web processes that share the database
  Reached,     \* the instances that the requests of an account may reach
  Ids,         \* rows the request table may get (bound)
  Owner,       \* the account that owns the book: an author
  Reviewers,   \* accounts with the role reviewer
  Admins,      \* accounts with the role admin or super_admin
  Metas,       \* values of the book's metadata
  Texts,       \* values of its chapters
  MaxRestores, \* restores an admin may begin (bound)
  NoBody       \* no reviewer yet

ASSUME OwnerIsAnAuthor == Owner \notin Reviewers \cup Admins
ASSUME ReachedAreInstances == Reached \in [Reviewers \cup Admins \cup {Owner} -> SUBSET Instances]
ASSUME MaxRestoresIsNat == MaxRestores \in Nat
ASSUME NoBodyIsNobody == NoBody \notin Reviewers \cup Admins \cup {Owner}

VARIABLES
  book,      \* the row of the book
  requests,  \* the table content_requests, with the events of each row
  ops,       \* generation_operations: request -> source revisions of its rows
  call,      \* user -> the request handler that runs for this user
  restores   \* restores begun so far
vars == <<book, requests, ops, call, restores>>

RequestTypes == {"publish", "unpublish", "audiobook"}
Active == {"SUBMITTED", "IN_REVIEW"}
States == Active \cup {"APPROVED", "REJECTED", "CANCELLED", "INVALIDATED"}
Revisions == [meta: Metas, text: Texts]
CanReview == Reviewers \cup Admins
CanRequest == {Owner} \cup Admins
Users == CanReview \cup CanRequest

EventTypes == {"submitted", "review_started", "approved", "rejected",
               "cancelled", "invalidated", "privileged_override"}
Event == [kind: EventTypes, from: States \cup {"none"},
          to: States \cup {"none"}, by: Users]
Row == [type: RequestTypes, by: Users, status: States, revision: Revisions,
        reviewer: CanReview \cup {NoBody}, authorized: BOOLEAN,
        linked: BOOLEAN, events: Seq(Event)]
Absent == [status |-> "none"]

Book == [exists: BOOLEAN, meta: Metas, text: Texts,
         status: {"draft", "rejected", "approved", "removed"}]

Idle == [op |-> "idle"]
Calls ==
  {Idle}
  \cup [op: {"loaded"}, at: Instances, type: RequestTypes, meta: Metas]
  \cup [op: {"revised"}, at: Instances, type: RequestTypes, revision: Revisions]
  \cup [op: {"deciding"}, at: Instances, req: Ids,
        verdict: {"approve", "reject"}, fresh: BOOLEAN, overtaken: BOOLEAN]
  \cup [op: {"operating"}, at: Instances, req: Ids, revision: Revisions]
  \cup [op: {"hiding"}, at: Instances]
  \cup [op: {"restoring"}, at: Instances]
  \cup [op: {"deleting"}, at: Instances]

(* calculate_revision: a digest of the metadata and the chapters.          *)
CurrentRevision == [meta |-> book.meta, text |-> book.text]

(* A book is public once it is approved: published_at is set with it and   *)
(* never cleared.                                                          *)
Public == book.exists /\ book.status = "approved"

Rows == {r \in Ids : requests[r] # Absent}
ActiveOf(type) == {r \in Rows : requests[r].type = type
                                /\ requests[r].status \in Active}

(* WRITE_LOCK of an instance is free: no handler there is between the      *)
(* reads and the writes of a db.atomic() block.                            *)
InTransaction == {"deciding", "operating", "hiding"}
LockFree(i) == \A u \in Users : call[u].op \in InTransaction => call[u].at # i

Ends(u) == call' = [call EXCEPT ![u] = Idle]
Begins(u, c) == call[u] = Idle /\ call' = [call EXCEPT ![u] = c]

Moved(row, kind, to, by) ==
  [row EXCEPT !.status = to,
              !.events = Append(@, [kind |-> kind, from |-> row.status,
                                    to |-> to, by |-> by])]

Init ==
  /\ book \in [exists: {TRUE}, meta: Metas, text: Texts,
               status: {"draft"}]
  /\ requests = [r \in Ids |-> Absent]
  /\ ops = [r \in Ids |-> << >>]
  /\ call = [u \in Users |-> Idle]
  /\ restores = 0

-----------------------------------------------------------------------------
(* Submitting: the router reads the row of the book and the service checks *)
(* on that row whether the type is allowed; it then reads the chapters for *)
(* the revision; the transaction comes last.                               *)

Eligible(type) == CASE type = "publish" -> ~Public
                    [] type = "unpublish" -> Public
                    [] OTHER -> TRUE

Load(u, i, type) ==
  /\ u \in CanRequest /\ book.exists /\ Eligible(type)
  /\ Begins(u, [op |-> "loaded", at |-> i, type |-> type, meta |-> book.meta])
  /\ UNCHANGED <<book, requests, ops, restores>>

Revise(u) ==
  /\ call[u].op = "loaded"
  /\ call' = [call EXCEPT ![u] =
       [op |-> "revised", at |-> call[u].at, type |-> call[u].type,
        revision |-> [meta |-> call[u].meta, text |-> book.text]]]
  /\ UNCHANGED <<book, requests, ops, restores>>

NewRow(u, type, revision) ==
  [type |-> type, by |-> u, status |-> "SUBMITTED", revision |-> revision,
   reviewer |-> NoBody, authorized |-> FALSE, linked |-> FALSE,
   events |-> <<[kind |-> "submitted", from |-> "none", to |-> "SUBMITTED",
                 by |-> u]>>]

(* One active request per book and type: the SELECT of the transaction and *)
(* the partial unique index behind it.  A deleted book breaks the foreign  *)
(* key, and the insert fails.                                              *)
MayInsert(type) == book.exists /\ ActiveOf(type) = {}

Insert(u) ==
  /\ call[u].op = "revised" /\ LockFree(call[u].at)
  /\ \/ /\ MayInsert(call[u].type)
        /\ \E r \in Ids \ Rows :
             requests' = [requests EXCEPT ![r] =
                            NewRow(u, call[u].type, call[u].revision)]
     \/ ~MayInsert(call[u].type) /\ UNCHANGED requests
  /\ Ends(u)
  /\ UNCHANGED <<book, ops, restores>>

(* Mutant: any active request can be cancelled. *)
ActiveIsCancellable(r) == requests[r].status \in Active

Cancellable(r) == requests[r].status = "SUBMITTED" /\ requests[r].reviewer = NoBody

Cancel(u, i, r) ==
  /\ u \in CanRequest /\ LockFree(i) /\ call[u] = Idle
  /\ r \in Rows /\ requests[r].by = u /\ Cancellable(r)
  /\ requests' = [requests EXCEPT ![r] = Moved(@, "cancelled", "CANCELLED", u)]
  /\ UNCHANGED <<book, ops, call, restores>>

-----------------------------------------------------------------------------
(* Reviewing.                                                              *)

(* start_review: the UPDATE of the claim repeats every condition.          *)
StartReview(u, i, r) ==
  /\ u \in CanReview /\ LockFree(i) /\ call[u] = Idle
  /\ r \in Rows /\ requests[r].by # u
  /\ requests[r].status = "SUBMITTED" /\ requests[r].reviewer = NoBody
  /\ requests' = [requests EXCEPT ![r] =
       [Moved(@, "review_started", "IN_REVIEW", u) EXCEPT !.reviewer = u]]
  /\ UNCHANGED <<book, ops, call, restores>>

MayDecide(u, r) ==
  /\ r \in Rows /\ requests[r].by # u
  /\ requests[r].status = "IN_REVIEW" /\ requests[r].reviewer = u

(* Mutant: the decision does not compare the content. *)
AlwaysFresh(r) == TRUE

Fresh(r) == CurrentRevision = requests[r].revision

(* decide reads the request, the book and the chapters.                    *)
ReadForDecision(u, i, r, verdict) ==
  /\ u \in CanReview /\ LockFree(i) /\ MayDecide(u, r)
  /\ Begins(u, [op |-> "deciding", at |-> i, req |-> r, verdict |-> verdict,
                fresh |-> Fresh(r), overtaken |-> FALSE])
  /\ UNCHANGED <<book, requests, ops, restores>>

(* The content was not the submitted one: the request is invalidated, and  *)
(* this is committed before the conflict is raised.                        *)
Invalidate(u) ==
  /\ call[u].op = "deciding" /\ ~call[u].fresh
  /\ LET r == call[u].req
     IN requests' = IF requests[r].status = "IN_REVIEW"
                    THEN [requests EXCEPT ![r] =
                            Moved(@, "invalidated", "INVALIDATED", u)]
                    ELSE requests
  /\ Ends(u)
  /\ UNCHANGED <<book, ops, restores>>

StillMine(u, r) == requests[r].status = "IN_REVIEW" /\ requests[r].reviewer = u

(* Mutant: a rejection marks the book whatever its status is. *)
CarelessStatusAfter(type, verdict) ==
  CASE verdict = "approve" /\ type = "publish" -> "approved"
    [] verdict = "approve" /\ type = "unpublish" -> "removed"
    [] verdict = "reject" /\ type = "publish" -> "rejected"
    [] OTHER -> book.status

StatusAfter(type, verdict) ==
  CASE verdict = "approve" /\ type = "publish" -> "approved"
    [] verdict = "approve" /\ type = "unpublish" -> "removed"
    [] verdict = "reject" /\ type = "publish" /\ book.status # "approved" -> "rejected"
    [] OTHER -> book.status

Decide(u) ==
  /\ call[u].op = "deciding" /\ call[u].fresh
  /\ LET r == call[u].req
         v == call[u].verdict
         type == requests[r].type
     IN \/ /\ StillMine(u, r)
           /\ requests' = [requests EXCEPT ![r] =
                [IF v = "approve" THEN Moved(@, "approved", "APPROVED", u)
                                  ELSE Moved(@, "rejected", "REJECTED", u)
                 EXCEPT !.authorized = (v = "approve" /\ type = "audiobook")]]
           /\ book' = [book EXCEPT !.status = StatusAfter(type, v)]
        \/ ~StillMine(u, r) /\ UNCHANGED <<requests, book>>
  /\ Ends(u)
  /\ UNCHANGED <<ops, restores>>

-----------------------------------------------------------------------------
(* The generation operation of an approved audiobook request.              *)

ReadForOperation(u, i, r) ==
  /\ u \in CanReview /\ LockFree(i)
  /\ r \in Rows /\ requests[r].by # u
  /\ requests[r].type = "audiobook" /\ requests[r].status = "APPROVED"
  /\ requests[r].authorized /\ ~requests[r].linked
  /\ Begins(u, [op |-> "operating", at |-> i, req |-> r,
                revision |-> CurrentRevision])
  /\ UNCHANGED <<book, requests, ops, restores>>

(* generation_operations.request_id is UNIQUE: a second insert fails and   *)
(* the transaction with it.                                                *)
MayOperate(r) == ops[r] = << >> /\ ~requests[r].linked

Linked(row, u) ==
  [row EXCEPT !.linked = TRUE,
              !.events = Append(@, [kind |-> "privileged_override",
                                    from |-> "none", to |-> "none", by |-> u])]

Operate(u) ==
  /\ call[u].op = "operating"
  /\ LET r == call[u].req
     IN \/ /\ MayOperate(r)
           /\ ops' = [ops EXCEPT ![r] = Append(@, call[u].revision)]
           /\ requests' = [requests EXCEPT ![r] = Linked(@, u)]
        \/ ~MayOperate(r) /\ UNCHANGED <<ops, requests>>
  /\ Ends(u)
  /\ UNCHANGED <<book, restores>>

-----------------------------------------------------------------------------
(* Beside the requests.                                                    *)

ReadForHide(u, i) ==
  /\ u \in Admins /\ LockFree(i) /\ Public
  /\ Begins(u, [op |-> "hiding", at |-> i])
  /\ UNCHANGED <<book, requests, ops, restores>>

Overridden(row, u) ==
  LET gone == Moved(row, "invalidated", "INVALIDATED", u)
  IN [gone EXCEPT !.events = Append(@, [kind |-> "privileged_override",
                                        from |-> "none", to |-> "none", by |-> u])]

(* emergency_hide: the book is removed and every active request of it ends. *)
Hide(u) ==
  /\ call[u].op = "hiding"
  /\ book' = [book EXCEPT !.status = "removed"]
  /\ requests' = [r \in Ids |-> IF r \in Rows /\ requests[r].status \in Active
                                THEN Overridden(requests[r], u)
                                ELSE requests[r]]
  /\ Ends(u)
  /\ UNCHANGED <<ops, restores>>

(* Mutant: any book that is not public can be restored. *)
AnyIsRestorable == book.exists /\ ~Public

(* restore_book reads the book in the router and writes it outside of any  *)
(* transaction that covers the read.                                       *)
Restorable == book.exists /\ book.status = "removed"

ReadForRestore(u, i) ==
  /\ u \in Admins /\ restores < MaxRestores /\ Restorable
  /\ Begins(u, [op |-> "restoring", at |-> i])
  /\ restores' = restores + 1
  /\ UNCHANGED <<book, requests, ops>>

Restore(u) ==
  /\ call[u].op = "restoring" /\ LockFree(call[u].at)
  /\ book' = [book EXCEPT !.status = "approved"]
  /\ Ends(u)
  /\ UNCHANGED <<requests, ops, restores>>

(* The lock of the book in an instance: a deletion there holds it.         *)
BookUnlocked(i) == \A u \in Users : call[u].op = "deleting" => call[u].at # i

(* History, which only ApprovedAsSubmitted reads: a save overtakes the      *)
(* decisions under way on other instances.                                 *)
Overtaken(i) ==
  [u \in Users |-> IF call[u].op = "deciding" /\ call[u].fresh /\ call[u].at # i
                   THEN [call[u] EXCEPT !.overtaken = TRUE] ELSE call[u]]

(* An author or an admin saves the metadata or the chapters.               *)
Edit(u, i) ==
  /\ u \in CanRequest /\ LockFree(i) /\ BookUnlocked(i)
  /\ call[u] = Idle /\ book.exists
  /\ \/ \E m \in Metas \ {book.meta} : book' = [book EXCEPT !.meta = m]
     \/ \E t \in Texts \ {book.text} : book' = [book EXCEPT !.text = t]
  /\ call' = Overtaken(i)
  /\ UNCHANGED <<requests, ops, restores>>

(* delete_book removes the directory of the book, which nothing here reads, *)
(* then its row; a request that refers to the row makes the second step     *)
(* fail (ON DELETE RESTRICT).                                              *)
DeleteFiles(u, i) ==
  /\ u \in CanRequest /\ BookUnlocked(i) /\ book.exists
  /\ Begins(u, [op |-> "deleting", at |-> i])
  /\ UNCHANGED <<book, requests, ops, restores>>

DeleteRow(u) ==
  /\ call[u].op = "deleting" /\ LockFree(call[u].at)
  /\ book' = [book EXCEPT !.exists = @ /\ Rows # {}]
  /\ Ends(u)
  /\ UNCHANGED <<requests, ops, restores>>

Next ==
  \E u \in Users :
    \/ \E i \in Reached[u] :
         \/ \E type \in RequestTypes : Load(u, i, type)
         \/ \E r \in Ids :
              \/ Cancel(u, i, r)
              \/ StartReview(u, i, r)
              \/ \E verdict \in {"approve", "reject"} :
                   ReadForDecision(u, i, r, verdict)
              \/ ReadForOperation(u, i, r)
         \/ ReadForHide(u, i)
         \/ ReadForRestore(u, i)
         \/ Edit(u, i)
         \/ DeleteFiles(u, i)
    \/ Revise(u) \/ Insert(u)
    \/ Invalidate(u) \/ Decide(u)
    \/ Operate(u)
    \/ Hide(u) \/ Restore(u)
    \/ DeleteRow(u)

Spec == Init /\ [][Next]_vars

-----------------------------------------------------------------------------
(* Properties.                                                             *)

TypeOK ==
  /\ book \in Book
  /\ requests \in [Ids -> Row \cup {Absent}]
  /\ ops \in [Ids -> Seq(Revisions)]
  /\ call \in [Users -> Calls]
  /\ restores \in 0 .. MaxRestores

(* No book is public, and none has ever been, that a reviewer did not      *)
(* approve for publication: whatever the order of decisions, emergency     *)
(* hides and restores, and with handlers that act on an old row.           *)
NothingPublicUnreviewed ==
  book.status \in {"approved", "removed"} =>
    \E r \in Rows : requests[r].type = "publish" /\ requests[r].status = "APPROVED"

(* What a reviewer approves is what was submitted: at the step that        *)
(* approves a request, the metadata and the chapters of the book are those *)
(* of the submitted revision.  decide compares them before its transaction *)
(* begins, so a save through another instance may come in between, and     *)
(* nothing else may, however many instances, edits and requests there are. *)
ApprovedAsSubmitted ==
  [][\A r \in Rows :
       requests[r].status # "APPROVED" /\ requests'[r].status = "APPROVED"
         => \/ requests[r].revision = CurrentRevision
            \/ \E u \in Users : call[u].op = "deciding" /\ call[u].req = r
                               /\ call'[u] = Idle /\ call[u].overtaken]_vars

(* Taking a public book down removes it; no decision on a publish request  *)
(* that is still open, or was filed before a restore, turns a public book  *)
(* into a rejected one (content_requests.decide).                          *)
PublicBooksAreOnlyRemoved ==
  [][Public /\ book'.exists /\ book'.status # "approved"
       => book'.status = "removed"]_vars

(* A claimed request belongs to its reviewer: it leaves the review by a    *)
(* decision of that account or by an emergency hide, nobody else's.        *)
ClaimIsExclusive ==
  [][\A r \in Rows :
       requests[r].status = "IN_REVIEW" /\ requests'[r].status # "IN_REVIEW"
         => LET end == Last(requests'[r].events)
            IN end.by = requests[r].reviewer \/ end.kind = "privileged_override"]_vars
=============================================================================
