------------------------- MODULE OwnershipTransfer --------------------------
(***************************************************************************)
(* The transfer of a book to another account: the owner asks, the target   *)
(* accepts, a reviewer claims and approves, and books.owner_id moves; or a *)
(* super admin moves it at once.  Every operation is one transaction that  *)
(* begins with BEGIN IMMEDIATE, so it is one action here, for any number   *)
(* of web instances; one that is refused is rolled back and is no step.    *)
(*                                                                         *)
(* The router checks the role and the account of the caller before the     *)
(* transaction, and both may change in between.  A handler may be that     *)
(* slow, so what the transaction itself checks is all that counts: the     *)
(* role of an account below is the one it was admitted with.               *)
(***************************************************************************)
EXTENDS Naturals, Sequences, FiniteSets

CONSTANTS
  Books,
  Users,
  FirstOwner,   \* who creates the books
  Managers,     \* accounts admitted to manage books they own
  Reviewers,    \* accounts admitted to review
  Supers,       \* accounts admitted as super admin
  Revisions,    \* values of calculate_revision
  MaxRequests,  \* rows of the request table (bound)
  None          \* no account

ASSUME RolesAreOfUsers ==
  FirstOwner \in Users /\ Managers \cup Reviewers \cup Supers \subseteq Users
ASSUME NoneIsNobody == None \notin Users
ASSUME MaxRequestsIsNat == MaxRequests \in Nat

VARIABLES
  owner,     \* books.owner_id
  revision,  \* what calculate_revision returns for the book now
  jobs,      \* of the generation jobs of a book: none unfinished, some, a stale one
  active,    \* accounts whose status is active
  requests,  \* the table ownership_transfer_requests, by id
  due,       \* requests whose seven days are over
  log        \* the table ownership_transfer_events, by id
vars == <<owner, revision, jobs, active, requests, due, log>>

ACTIVE_STATES == {"REQUESTED", "TARGET_ACCEPTED", "IN_REVIEW"}
TERMINAL_STATES ==
  {"REJECTED", "CANCELLED", "EXPIRED", "INVALIDATED", "COMPLETED"}
STATES == ACTIVE_STATES \cup TERMINAL_STATES
EVENT_TYPES ==
  {"submitted", "target_accepted", "target_rejected", "review_started",
   "approved", "rejected", "cancelled", "expired", "invalidated",
   "emergency_transfer"}

Row == [book: Books, requester: Users, owner: Users, target: Users,
        status: STATES, mode: {"normal", "emergency"}, revision: Revisions,
        reviewer: Users \cup {None}]
Event == [req: 1..MaxRequests, kind: EVENT_TYPES,
          from: STATES \cup {"none"}, to: STATES, by: Users \cup {None},
          prev: Users \cup {None}, new: Users \cup {None}]

Init ==
  /\ owner = [b \in Books |-> FirstOwner]
  /\ revision \in [Books -> Revisions]
  /\ jobs = [b \in Books |-> "none"]
  /\ active = Users
  /\ requests = << >>
  /\ due = {}
  /\ log = << >>

Ids == DOMAIN requests
Expires(r) == requests[r].status = "REQUESTED" /\ r \in due

(* _expire_due_locked opens every transaction but the emergency one; what  *)
(* it writes is kept only when the operation does not raise.               *)
Expired ==
  [r \in Ids |-> IF Expires(r) THEN [requests[r] EXCEPT !.status = "EXPIRED"]
                 ELSE requests[r]]
Entry(r, kind, from, to, by, prev, new) ==
  [req |-> r, kind |-> kind, from |-> from, to |-> to, by |-> by,
   prev |-> prev, new |-> new]
Expiry(r) == Entry(r, "expired", "REQUESTED", "EXPIRED", None, None, None)

(* Its SELECT is ordered by id; what the operation appends comes after it. *)
Due == {r \in Ids : Expires(r)}
ById == {ids \in [1..Cardinality(Due) -> Due] :
           \A i, j \in DOMAIN ids : i < j => ids[i] < ids[j]}
Logs(events) ==
  \E ids \in ById : log' = log \o [k \in DOMAIN ids |-> Expiry(ids[k])] \o events

(* The row r is written and an event appended, after the expiry.           *)
Moves(r, row, kind, by, prev, new) ==
  /\ requests' = [Expired EXCEPT ![r] = row]
  /\ Logs(<<Entry(r, kind, requests[r].status, row.status, by, prev, new)>>)
Becomes(r, status, kind, by) ==
  Moves(r, [requests[r] EXCEPT !.status = status], kind, by, None, None)

(* _invalidate_locked: it is committed, and the handler raises after it.   *)
Invalidate(r, by) == Becomes(r, "INVALIDATED", "invalidated", by)

(* Mutant: whoever is not the target may review. *)
NotTheTarget(r, u) == u # requests[r].target

(* The requester and the target have no part in the review.                *)
Impartial(r, u) == u \notin {requests[r].requester, requests[r].target}

SameRevision(r) == revision[requests[r].book] = requests[r].revision
-----------------------------------------------------------------------------
(* One active request per book: the SELECT and the unique index behind it. *)
MayOpen(b) ==
  \A r \in Ids : requests[r].book = b =>
    Expires(r) \/ requests[r].status \in TERMINAL_STATES

NewRow(b, requester, target, status, mode) ==
  [book |-> b, requester |-> requester, owner |-> owner[b], target |-> target,
   status |-> status, mode |-> mode, revision |-> revision[b],
   reviewer |-> None]

submit(u, b, t) ==
  /\ u \in Managers /\ owner[b] = u
  /\ {u, t} \subseteq active /\ t # u
  /\ MayOpen(b)
  /\ Len(requests) < MaxRequests
  /\ requests' = Append(Expired, NewRow(b, u, t, "REQUESTED", "normal"))
  /\ Logs(<<Entry(Len(requests) + 1, "submitted", "none", "REQUESTED", u, u, t)>>)
  /\ UNCHANGED <<owner, revision, jobs, active, due>>

(* Mutant: the answer of the target does not look at the clock. *)
Unanswered(r) == requests[r].status = "REQUESTED"

(* What has expired is no longer REQUESTED when the operation reads it.    *)
AwaitsTarget(r) == requests[r].status = "REQUESTED" /\ ~Expires(r)

accept_target(u, r) ==
  /\ AwaitsTarget(r) /\ requests[r].target = u /\ u \in active
  /\ IF SameRevision(r)
       THEN Becomes(r, "TARGET_ACCEPTED", "target_accepted", u)
       ELSE Invalidate(r, u)
  /\ UNCHANGED <<owner, revision, jobs, active, due>>

reject_target(u, r) ==
  /\ AwaitsTarget(r) /\ requests[r].target = u /\ u \in active
  /\ Becomes(r, "REJECTED", "target_rejected", u)
  /\ UNCHANGED <<owner, revision, jobs, active, due>>

cancel(u, r) ==
  /\ AwaitsTarget(r) /\ requests[r].requester = u
  /\ Becomes(r, "CANCELLED", "cancelled", u)
  /\ UNCHANGED <<owner, revision, jobs, active, due>>

Claimed(r, u) == [requests[r] EXCEPT !.status = "IN_REVIEW", !.reviewer = u]

start_review(u, r) ==
  /\ u \in Reviewers
  /\ requests[r].status = "TARGET_ACCEPTED" /\ Impartial(r, u)
  /\ IF SameRevision(r)
       THEN Moves(r, Claimed(r, u), "review_started", u, None, None)
       ELSE Invalidate(r, u)
  /\ UNCHANGED <<owner, revision, jobs, active, due>>

Decides(u, r) ==
  /\ u \in Reviewers /\ Impartial(r, u)
  /\ requests[r].status = "IN_REVIEW" /\ requests[r].reviewer = u

reject_review(u, r) ==
  /\ Decides(u, r)
  /\ Becomes(r, "REJECTED", "rejected", u)
  /\ UNCHANGED <<owner, revision, jobs, active, due>>

(* Mutant: a stale job counts as finished. *)
OnlyLiveIsUnfinished(b) == jobs[b] = "live"

(* _active_generation: a job that is not success, failed or cancelled.     *)
active_generation(b) == jobs[b] # "none"

(* Mutant: the approval does not compare the owner. *)
AnyOwner(r) == owner[requests[r].book] \in Users

SameOwner(r) == owner[requests[r].book] = requests[r].owner

(* An unfinished job refuses the approval without a trace.                 *)
approve(u, r) ==
  LET row == requests[r] IN
  /\ Decides(u, r)
  /\ {row.owner, row.target} \subseteq active
  /\ \/ ~SameRevision(r) /\ Invalidate(r, u) /\ UNCHANGED owner
     \/ /\ SameRevision(r) /\ ~active_generation(row.book) /\ ~SameOwner(r)
        /\ Invalidate(r, u) /\ UNCHANGED owner
     \/ /\ SameRevision(r) /\ ~active_generation(row.book) /\ SameOwner(r)
        /\ owner' = [owner EXCEPT ![row.book] = row.target]
        /\ Moves(r, [row EXCEPT !.status = "COMPLETED"], "approved", u,
                 row.owner, row.target)
  /\ UNCHANGED <<revision, jobs, active, due>>

(* The emergency transfer expires nothing and leaves open requests alone.  *)
emergency(u, b, t) ==
  /\ u \in Supers /\ {u, t} \subseteq active /\ owner[b] # t
  /\ ~active_generation(b)
  /\ Len(requests) < MaxRequests
  /\ requests' = Append(requests, NewRow(b, u, t, "COMPLETED", "emergency"))
  /\ owner' = [owner EXCEPT ![b] = t]
  /\ log' = Append(log, Entry(Len(requests) + 1, "emergency_transfer", "none",
                              "COMPLETED", u, owner[b], t))
  /\ UNCHANGED <<revision, jobs, active, due>>

(* get_request, list_for_user and list_queue expire what is due and read.  *)
Read ==
  /\ \E r \in Ids : Expires(r)
  /\ requests' = Expired /\ Logs(<< >>)
  /\ UNCHANGED <<owner, revision, jobs, active, due>>
-----------------------------------------------------------------------------
(* Beside the requests: the clock, the book, its jobs and the accounts.    *)

(* Seven days pass for the oldest request that is not answered.            *)
SevenDaysPass(r) ==
  /\ requests[r].status = "REQUESTED" /\ r \notin due
  /\ \A q \in 1..(r - 1) : requests[q].status = "REQUESTED" => q \in due
  /\ due' = due \cup {r}
  /\ UNCHANGED <<owner, revision, jobs, active, requests, log>>

Edit(b) ==
  /\ \E v \in Revisions \ {revision[b]} : revision' = [revision EXCEPT ![b] = v]
  /\ UNCHANGED <<owner, jobs, active, requests, due, log>>

JobMoves(b, from, to) ==
  /\ jobs[b] = from /\ jobs' = [jobs EXCEPT ![b] = to]
  /\ UNCHANGED <<owner, revision, active, requests, due, log>>
StartJob(b) == JobMoves(b, "none", "live")
EndJob(b) == JobMoves(b, "live", "none")
(* The text of a chapter changed before its job was claimed; a stale job   *)
(* can be neither retried, cancelled nor deleted.                          *)
StaleJob(b) == JobMoves(b, "live", "stale")

(* The last active super admin cannot be disabled or deleted.              *)
Disable(u) ==
  /\ u \in active /\ (u \in Supers => active \cap Supers # {u})
  /\ active' = active \ {u}
  /\ UNCHANGED <<owner, revision, jobs, requests, due, log>>
Enable(u) ==
  /\ u \notin active /\ active' = active \cup {u}
  /\ UNCHANGED <<owner, revision, jobs, requests, due, log>>

Next ==
  \/ \E u \in Users, b \in Books, t \in Users :
       submit(u, b, t) \/ emergency(u, b, t)
  \/ \E u \in Users, r \in Ids :
       \/ accept_target(u, r) \/ reject_target(u, r) \/ cancel(u, r)
       \/ start_review(u, r) \/ reject_review(u, r) \/ approve(u, r)
  \/ Read
  \/ \E r \in Ids : SevenDaysPass(r)
  \/ \E b \in Books : Edit(b) \/ StartJob(b) \/ EndJob(b) \/ StaleJob(b)
  \/ \E u \in Users : Disable(u) \/ Enable(u)

Spec == Init /\ [][Next]_vars
-----------------------------------------------------------------------------
(* The tables hold rows of their columns, and an open request of review    *)
(* has its reviewer.                                                       *)
TypeOK ==
  /\ owner \in [Books -> Users]
  /\ revision \in [Books -> Revisions]
  /\ jobs \in [Books -> {"none", "live", "stale"}]
  /\ active \subseteq Users
  /\ requests \in Seq(Row) /\ Len(requests) <= MaxRequests
  /\ due \subseteq Ids
  /\ log \in Seq(Event)
  /\ \A r \in Ids :
       /\ requests[r].target # requests[r].owner
       /\ requests[r].status = "IN_REVIEW" => requests[r].reviewer \in Reviewers

(* The positions in the log of the events of a request, and of those that  *)
(* moved a book.                                                           *)
EventsOf(r) == {i \in DOMAIN log : log[i].req = r}
MovesOf(b) == {i \in DOMAIN log : /\ log[i].kind \in {"approved", "emergency_transfer"}
                                  /\ requests[log[i].req].book = b}

IsFirst(i, set) == i \in set /\ \A k \in set : i <= k
IsLast(i, set) == i \in set /\ \A k \in set : k <= i
Follows(j, i, set) == i < j /\ \A k \in set : k <= i \/ j <= k

(* The log replays to the rows (ownership_transfer_events is append-only    *)
(* and all an auditor sees).  The events of a request start with its       *)
(* submission, each goes on from where the one before ended, none follows  *)
(* an end, and the last is its status, also when its expiry and its        *)
(* invalidation are written by somebody else's operation.  Those that move *)
(* an owner form one chain for each book, from its creator to its owner:   *)
(* no approval and no emergency transfer moves the book from an account    *)
(* that had lost it, and none is missing.                                  *)
HistoryReplays ==
  /\ \A r \in Ids :
       LET es == EventsOf(r) IN
       /\ \E i \in es : IsLast(i, es) /\ log[i].to = requests[r].status
       /\ \A j \in es : IsFirst(j, es) => log[j].from = "none"
       /\ \A i, j \in es : Follows(j, i, es) =>
            log[j].from = log[i].to /\ log[j].from \in ACTIVE_STATES
  /\ \A b \in Books :
       LET moves == MovesOf(b) IN
       /\ \/ moves = {} /\ owner[b] = FirstOwner
          \/ \E i \in moves : IsLast(i, moves) /\ log[i].new = owner[b]
       /\ \A j \in moves : IsFirst(j, moves) => log[j].prev = FirstOwner
       /\ \A i, j \in moves : Follows(j, i, moves) => log[j].prev = log[i].new

(* Every approved transfer was asked for by the owner it took the book     *)
(* from, accepted by the account it gave it to, and claimed by the         *)
(* reviewer who approved it, who is neither of the two.                    *)
TransfersAreAgreed ==
  \A i \in DOMAIN log : log[i].kind = "approved" =>
    /\ log[i].by \notin {log[i].prev, log[i].new}
    /\ \A step \in {<<"submitted", log[i].prev>>, <<"target_accepted", log[i].new>>,
                    <<"review_started", log[i].by>>} :
         \E j \in EventsOf(log[i].req) : <<log[j].kind, log[j].by>> = step

(* A book changes hands only while none of its generation jobs is          *)
(* unfinished, and only to an active account; by an approval, only as its  *)
(* owner submitted it, seven days not having passed without an answer.     *)
MovesAreSafe ==
  [][\A b \in Books : owner'[b] # owner[b] =>
       /\ jobs[b] = "none" /\ owner'[b] \in active
       /\ LET r == log'[Len(log')].req IN
          \/ requests'[r].mode = "emergency"
          \/ revision[b] = requests[r].revision /\ r \notin due]_vars

(* The open request of a book is its standing offer.                       *)
OpenOf(b) == {r \in Ids : requests[r].book = b
                          /\ requests[r].status \in ACTIVE_STATES}
OfferOf(b) ==
  IF OpenOf(b) = {} THEN None
  ELSE LET r == CHOOSE q \in OpenOf(b) : TRUE IN
       [from |-> requests[r].owner, to |-> requests[r].target,
        stage |-> IF requests[r].status # "REQUESTED" THEN "accepted"
                  ELSE IF r \in due THEN "lapsed" ELSE "made"]

Agreement == INSTANCE OwnershipAgreement
               WITH holder <- owner, offer <- [b \in Books |-> OfferOf(b)]

ASSUME NoneIsNoOffer == None \notin Agreement!Offer

(* The tables implement the agreement: one offer of a book at a time, that *)
(* its target accepts before it lapses, completed from the owner who made  *)
(* it; an emergency transfer leaves the standing offer as it is.           *)
ImplementsAgreement == Agreement!Spec
=============================================================================
