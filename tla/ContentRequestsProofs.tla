------------------------ MODULE ContentRequestsProofs ------------------------
(***************************************************************************)
(* No book is public that a reviewer did not approve: for any accounts,    *)
(* web instances and number of requests.                                   *)
(***************************************************************************)
EXTENDS ContentRequests, SequenceTheorems, TLAPS

(* Some publish request of the book has been approved.                     *)
Reviewed == \E r \in Rows : /\ requests[r].type = "publish"
                            /\ requests[r].status = "APPROVED"

(* Everything that leads to a public book, or to a book that can be        *)
(* restored, starts from an approved publish request: also a handler that  *)
(* is still to write what it decided on an older state.                    *)
Leading(u) == \/ call[u].op \in {"restoring", "hiding"}
              \/ call[u].op \in {"loaded", "revised"} /\ call[u].type = "unpublish"
LeadsFromReview ==
  /\ book.status \in {"approved", "removed"} => Reviewed
  /\ \A u \in Users : Leading(u) => Reviewed
  /\ \A r \in Rows : requests[r].type = "unpublish" => Reviewed

(* The operation a handler is about to link belongs to a row: rows are     *)
(* never deleted.                                                          *)
OperatesOnRows == \A u \in Users : call[u].op = "operating" => call[u].req \in Rows

TypeInv == TypeOK /\ OperatesOnRows

-----------------------------------------------------------------------------
(* What a handler holds, by the step it is at.                             *)

LoadedCall == [op: {"loaded"}, at: Instances, type: RequestTypes, meta: Metas]
RevisedCall == [op: {"revised"}, at: Instances, type: RequestTypes, revision: Revisions]
DecidingCall == [op: {"deciding"}, at: Instances, req: Ids,
                 verdict: {"approve", "reject"}, fresh: BOOLEAN, overtaken: BOOLEAN]
OperatingCall == [op: {"operating"}, at: Instances, req: Ids, revision: Revisions]

LEMMA CallFields ==
  ASSUME NEW c \in Calls
  PROVE  /\ c.op = "loaded" => c \in LoadedCall
         /\ c.op = "revised" => c \in RevisedCall
         /\ c.op = "deciding" => c \in DecidingCall
         /\ c.op = "operating" => c \in OperatingCall
BY SMT DEF Calls, Idle, LoadedCall, RevisedCall, DecidingCall, OperatingCall

LEMMA CallKinds ==
  /\ Idle \in Calls /\ LoadedCall \subseteq Calls /\ RevisedCall \subseteq Calls
  /\ DecidingCall \subseteq Calls /\ OperatingCall \subseteq Calls
  /\ \A i \in Instances :
       /\ [op |-> "hiding", at |-> i] \in Calls
       /\ [op |-> "restoring", at |-> i] \in Calls
       /\ [op |-> "deleting", at |-> i] \in Calls
BY SMT DEF Calls, Idle, LoadedCall, RevisedCall, DecidingCall, OperatingCall

(* A handler that begins, goes on or ends leaves the others as they are.   *)
LEMMA CallStep ==
  ASSUME NEW u \in Users, NEW c \in Calls, call \in [Users -> Calls],
         call' = [call EXCEPT ![u] = c]
  PROVE  /\ call' \in [Users -> Calls]
         /\ call'[u] = c
         /\ \A w \in Users : w # u => call'[w] = call[w]
BY SMT

-----------------------------------------------------------------------------
(* A longer log changes nothing else in a row.                             *)
LEMMA LoggedRow ==
  ASSUME NEW row \in Row, NEW log \in Seq(Event)
  PROVE  /\ [row EXCEPT !.events = log] \in Row
         /\ [row EXCEPT !.events = log].type = row.type
         /\ [row EXCEPT !.events = log].status = row.status
<1>1. [row EXCEPT !.events = log] \in Row
  BY SMT DEF Row
<1>2. [row EXCEPT !.events = log].type = row.type
  BY SMT DEF Row
<1>3. [row EXCEPT !.events = log].status = row.status
  BY SMT DEF Row
<1> QED BY <1>1, <1>2, <1>3

LEMMA Vocabulary ==
  /\ "cancelled" \in EventTypes /\ "CANCELLED" \in States
  /\ "review_started" \in EventTypes /\ "IN_REVIEW" \in States
  /\ "invalidated" \in EventTypes /\ "INVALIDATED" \in States
  /\ "approved" \in EventTypes /\ "APPROVED" \in States
  /\ "rejected" \in EventTypes /\ "REJECTED" \in States
BY SMT DEF EventTypes, States, Active

(* A transition of a request changes its status, logs it and keeps what    *)
(* the request is about.                                                   *)
LEMMA MovedRow ==
  ASSUME NEW row \in Row, NEW kind \in EventTypes, NEW to \in States, NEW by \in Users
  PROVE  /\ Moved(row, kind, to, by) \in Row
         /\ Moved(row, kind, to, by).type = row.type
         /\ Moved(row, kind, to, by).status = to
<1> DEFINE e == [kind |-> kind, from |-> row.status, to |-> to, by |-> by]
           log == Append(row.events, e)
<1>1. e \in Event
  BY SMT DEF Event, Row
<1>2. log \in Seq(Event)
  <2>1. row.events \in Seq(Event)
    BY SMT DEF Row
  <2> HIDE DEF e
  <2> QED BY <1>1, <2>1, AppendProperties
<1> DEFINE placed == [row EXCEPT !.status = to]
<1>3. /\ placed \in Row
      /\ placed.type = row.type
      /\ placed.status = to
  BY SMT DEF Row
<1>4. Moved(row, kind, to, by) = [placed EXCEPT !.events = log]
  BY DEF Moved
<1> HIDE DEF log, placed
<1> QED BY <1>2, <1>3, <1>4, LoggedRow

(* The transitions of the service.                                         *)
LEMMA Moves ==
  ASSUME NEW row \in Row, NEW u \in Users
  PROVE  /\ LET moved == Moved(row, "cancelled", "CANCELLED", u)
            IN moved \in Row /\ moved.type = row.type /\ moved.status = "CANCELLED"
         /\ LET moved == Moved(row, "review_started", "IN_REVIEW", u)
            IN moved \in Row /\ moved.type = row.type /\ moved.status = "IN_REVIEW"
         /\ LET moved == Moved(row, "invalidated", "INVALIDATED", u)
            IN moved \in Row /\ moved.type = row.type /\ moved.status = "INVALIDATED"
         /\ LET moved == Moved(row, "approved", "APPROVED", u)
            IN moved \in Row /\ moved.type = row.type /\ moved.status = "APPROVED"
         /\ LET moved == Moved(row, "rejected", "REJECTED", u)
            IN moved \in Row /\ moved.type = row.type /\ moved.status = "REJECTED"
<1>1. LET moved == Moved(row, "cancelled", "CANCELLED", u)
      IN moved \in Row /\ moved.type = row.type /\ moved.status = "CANCELLED"
  BY Vocabulary, MovedRow
<1>2. LET moved == Moved(row, "review_started", "IN_REVIEW", u)
      IN moved \in Row /\ moved.type = row.type /\ moved.status = "IN_REVIEW"
  BY Vocabulary, MovedRow
<1>3. LET moved == Moved(row, "invalidated", "INVALIDATED", u)
      IN moved \in Row /\ moved.type = row.type /\ moved.status = "INVALIDATED"
  BY Vocabulary, MovedRow
<1>4. LET moved == Moved(row, "approved", "APPROVED", u)
      IN moved \in Row /\ moved.type = row.type /\ moved.status = "APPROVED"
  BY Vocabulary, MovedRow
<1>5. LET moved == Moved(row, "rejected", "REJECTED", u)
      IN moved \in Row /\ moved.type = row.type /\ moved.status = "REJECTED"
  BY Vocabulary, MovedRow
<1> QED BY <1>1, <1>2, <1>3, <1>4, <1>5

LEMMA OverriddenRow ==
  ASSUME NEW row \in Row, NEW u \in Users
  PROVE  /\ Overridden(row, u) \in Row
         /\ Overridden(row, u).type = row.type
         /\ Overridden(row, u).status = "INVALIDATED"
<1> DEFINE gone == Moved(row, "invalidated", "INVALIDATED", u)
           e == [kind |-> "privileged_override", from |-> "none", to |-> "none", by |-> u]
           log == Append(gone.events, e)
<1>1. gone \in Row /\ gone.type = row.type /\ gone.status = "INVALIDATED"
  BY Moves
<1>2. e \in Event
  BY SMT DEF Event, EventTypes
<1>3. Overridden(row, u) = [gone EXCEPT !.events = log]
  BY DEF Overridden
<1> HIDE DEF gone, e
<1>4. gone.events \in Seq(Event)
  BY <1>1, SMT DEF Row
<1>5. log \in Seq(Event)
  BY <1>2, <1>4, AppendProperties
<1> HIDE DEF log
<1> QED BY <1>1, <1>3, <1>5, LoggedRow

(* A change of one row of the table.                                       *)
LEMMA RowStep ==
  ASSUME NEW r \in Ids, NEW row \in Row,
         requests \in [Ids -> Row \cup {Absent}],
         requests' = [requests EXCEPT ![r] = row]
  PROVE  /\ requests' \in [Ids -> Row \cup {Absent}]
         /\ requests'[r] = row
         /\ \A s \in Ids : s # r => requests'[s] = requests[s]
BY SMT

LEMMA RowsAreRows ==
  ASSUME TypeOK
  PROVE  \A r \in Rows : r \in Ids /\ requests[r] \in Row
BY SMT DEF TypeOK, Rows

LEMMA NewRowIsARow ==
  ASSUME NEW u \in Users, NEW type \in RequestTypes, NEW revision \in Revisions
  PROVE  NewRow(u, type, revision) \in Row
<1> DEFINE e == [kind |-> "submitted", from |-> "none", to |-> "SUBMITTED", by |-> u]
           log == <<e>>
<1>1. e \in Event
  BY SMT DEF Event, EventTypes, States, Active
<1> HIDE DEF e
<1>2. log \in Seq(Event)
  BY <1>1, SMT
<1> HIDE DEF log
<1>3. NewRow(u, type, revision) =
       [type |-> type, by |-> u, status |-> "SUBMITTED", revision |-> revision,
        reviewer |-> NoBody, authorized |-> FALSE, linked |-> FALSE, events |-> log]
  BY DEF NewRow, log, e
<1> QED BY <1>2, <1>3, SMT DEF Row, States, Active

-----------------------------------------------------------------------------
(* The steps of the specification, by what they do to the table.           *)

(* Every row keeps its type, and an approved request stays approved.       *)
Lasting ==
  \A r \in Rows :
    /\ r \in Rows'
    /\ requests'[r].type = requests[r].type
    /\ requests[r].status = "APPROVED" => requests'[r].status = "APPROVED"

LEMMA ReviewedLasts ==
  ASSUME Lasting, Reviewed
  PROVE  Reviewed'
<1>1. PICK r \in Rows : requests[r].type = "publish" /\ requests[r].status = "APPROVED"
  BY DEF Reviewed
<1>2. r \in Rows' /\ requests'[r].type = "publish" /\ requests'[r].status = "APPROVED"
  BY <1>1 DEF Lasting
<1> QED BY <1>2 DEF Reviewed

LEMMA LastingIfSame ==
  ASSUME requests' = requests
  PROVE  Lasting
BY DEF Lasting, Rows

(* A row that keeps its type and was not approved, or stays so, lets every *)
(* request last.                                                           *)
LEMMA LastingRow ==
  ASSUME TypeOK, NEW r \in Rows, NEW row \in Row, row.type = requests[r].type,
         requests[r].status = "APPROVED" => row.status = "APPROVED",
         requests' = [requests EXCEPT ![r] = row]
  PROVE  /\ Lasting
         /\ requests' \in [Ids -> Row \cup {Absent}]
         /\ \A s \in Rows' : s \in Rows
<1>1. r \in Ids /\ requests \in [Ids -> Row \cup {Absent}]
  BY SMT DEF TypeOK, Rows
<1>2. /\ requests' \in [Ids -> Row \cup {Absent}]
      /\ requests'[r] = row
      /\ \A s \in Ids : s # r => requests'[s] = requests[s]
  BY <1>1, RowStep
<1>3. row # Absent
  <2>1. row.status \in States /\ "none" \notin States
    BY SMT DEF Row, States, Active
  <2>2. Absent.status = "none"
    BY DEF Absent
  <2> QED BY <2>1, <2>2
<1>4. Lasting
  BY <1>1, <1>2, <1>3 DEF Lasting, Rows
<1>5. \A s \in Rows' : s \in Rows
  BY <1>1, <1>2 DEF Rows
<1> QED BY <1>2, <1>4, <1>5

(* What a step may do to the table, the book and the handlers, one lemma   *)
(* for each action.  A read changes the handler alone.                     *)
Typed == /\ TypeOK'
         /\ Lasting

LEMMA ReadStep ==
  ASSUME TypeOK, NEW u \in Users, NEW c \in Calls, Begins(u, c),
         UNCHANGED <<book, requests, ops>>, restores' \in 0 .. MaxRestores
  PROVE  Typed /\ call'[u] = c /\ \A w \in Users : w # u => call'[w] = call[w]
<1>1. call' = [call EXCEPT ![u] = c] /\ call \in [Users -> Calls]
  BY DEF Begins, TypeOK
<1>2. /\ call' \in [Users -> Calls]
      /\ call'[u] = c
      /\ \A w \in Users : w # u => call'[w] = call[w]
  BY <1>1, CallStep
<1>3. Lasting
  BY LastingIfSame
<1> QED BY <1>2, <1>3 DEF Typed, TypeOK

LEMMA EndStep ==
  ASSUME TypeOK, NEW u \in Users, Ends(u)
  PROVE  /\ call' \in [Users -> Calls]
         /\ call'[u] = Idle
         /\ \A w \in Users : w # u => call'[w] = call[w]
BY CallKinds, CallStep DEF Ends, TypeOK

LEMMA LoadTyped ==
  ASSUME TypeOK, NEW u \in Users, NEW i \in Instances, NEW type \in RequestTypes,
         Load(u, i, type)
  PROVE  Typed
<1> DEFINE c == [op |-> "loaded", at |-> i, type |-> type, meta |-> book.meta]
<1>1. c \in LoadedCall
  BY SMT DEF LoadedCall, TypeOK, Book
<1>2. c \in Calls
  BY <1>1, CallKinds
<1>3. Begins(u, c) /\ UNCHANGED <<book, requests, ops, restores>>
  BY DEF Load
<1>4. restores' \in 0 .. MaxRestores
  BY <1>3 DEF TypeOK
<1> HIDE DEF c
<1> QED BY <1>2, <1>3, <1>4, ReadStep

LEMMA ReviseTyped ==
  ASSUME TypeOK, NEW u \in Users, Revise(u)
  PROVE  Typed
<1> DEFINE c == [op |-> "revised", at |-> call[u].at, type |-> call[u].type,
                 revision |-> [meta |-> call[u].meta, text |-> book.text]]
<1>1. call[u] \in LoadedCall /\ call \in [Users -> Calls]
  <2>1. call[u] \in Calls /\ call[u].op = "loaded"
    BY DEF TypeOK, Revise
  <2> QED BY <2>1, CallFields DEF TypeOK
<1>2. book.text \in Texts
  BY SMT DEF TypeOK, Book
<1>3. c \in RevisedCall
  BY <1>1, <1>2, SMT DEF LoadedCall, RevisedCall, Revisions
<1>4. c \in Calls
  BY <1>3, CallKinds
<1>5. call' = [call EXCEPT ![u] = c] /\ UNCHANGED <<book, requests, ops, restores>>
  BY DEF Revise
<1> HIDE DEF c
<1>6. call' \in [Users -> Calls]
  BY <1>1, <1>4, <1>5, CallStep
<1>7. Lasting
  BY <1>5, LastingIfSame
<1> QED BY <1>5, <1>6, <1>7 DEF Typed, TypeOK

LEMMA InsertTyped ==
  ASSUME TypeOK, NEW u \in Users, Insert(u)
  PROVE  /\ Typed
         /\ \A s \in Rows' : s \in Rows \/ requests'[s].type = call[u].type
<1>1. call[u] \in RevisedCall
  <2>1. call[u] \in Calls /\ call[u].op = "revised"
    BY DEF TypeOK, Insert
  <2> QED BY <2>1, CallFields
<1>2. call' \in [Users -> Calls] /\ UNCHANGED <<book, ops, restores>>
  BY EndStep DEF Insert
<1>3. CASE UNCHANGED requests
  <2>1. Lasting
    BY <1>3, LastingIfSame
  <2>2. TypeOK'
    BY <1>2, <1>3 DEF TypeOK
  <2> QED BY <1>3, <2>1, <2>2 DEF Typed, Rows
<1>4. ASSUME NEW r \in Ids \ Rows,
             requests' = [requests EXCEPT ![r] = NewRow(u, call[u].type, call[u].revision)]
      PROVE  Typed /\ \A s \in Rows' : s \in Rows \/ requests'[s].type = call[u].type
  <2> DEFINE row == NewRow(u, call[u].type, call[u].revision)
  <2>1. call[u].type \in RequestTypes /\ call[u].revision \in Revisions
    BY <1>1, SMT DEF RevisedCall
  <2>2. row \in Row
    BY <2>1, NewRowIsARow
  <2>3. row.type = call[u].type
    BY DEF NewRow
  <2>4. requests \in [Ids -> Row \cup {Absent}] /\ r \in Ids
    BY DEF TypeOK
  <2> HIDE DEF row
  <2>5. /\ requests' \in [Ids -> Row \cup {Absent}]
        /\ requests'[r] = row
        /\ \A s \in Ids : s # r => requests'[s] = requests[s]
    BY <1>4, <2>2, <2>4, RowStep DEF row
  <2>6. Lasting
    BY <1>4, <2>5 DEF Lasting, Rows
  <2>7. TypeOK'
    BY <1>2, <2>5 DEF TypeOK
  <2>8. \A s \in Rows' : s \in Rows \/ requests'[s].type = call[u].type
    BY <2>3, <2>5 DEF Rows
  <2> QED BY <2>6, <2>7, <2>8 DEF Typed
<1> QED BY <1>3, <1>4 DEF Insert

(* A single transition of a request that is not approved.                  *)
LEMMA TransitionTyped ==
  ASSUME TypeOK, NEW u \in Users, NEW r \in Rows, requests[r].status # "APPROVED",
         NEW row \in Row, row.type = requests[r].type,
         requests' = [requests EXCEPT ![r] = row],
         book' \in Book, ops' = ops, restores' = restores,
         call' \in [Users -> Calls]
  PROVE  Typed /\ \A s \in Rows' : s \in Rows
<1>1. /\ Lasting
      /\ requests' \in [Ids -> Row \cup {Absent}]
      /\ \A s \in Rows' : s \in Rows
  BY LastingRow
<1> QED BY <1>1 DEF Typed, TypeOK

LEMMA CancelTyped ==
  ASSUME TypeOK, NEW u \in Users, NEW i \in Instances, NEW r \in Ids, Cancel(u, i, r)
  PROVE  Typed /\ \A s \in Rows' : s \in Rows
<1> DEFINE row == Moved(requests[r], "cancelled", "CANCELLED", u)
<1>1. /\ r \in Rows /\ requests[r].status = "SUBMITTED"
      /\ requests' = [requests EXCEPT ![r] = row]
      /\ UNCHANGED <<book, ops, call, restores>>
  BY DEF Cancel, Cancellable
<1>2. requests[r] \in Row
  BY <1>1, RowsAreRows
<1>3. row \in Row /\ row.type = requests[r].type
  BY <1>2, Moves
<1>4. book' \in Book /\ call' \in [Users -> Calls]
  BY <1>1 DEF TypeOK
<1> HIDE DEF row
<1> QED BY <1>1, <1>3, <1>4, TransitionTyped

LEMMA StartReviewTyped ==
  ASSUME TypeOK, NEW u \in Users, NEW i \in Instances, NEW r \in Ids, StartReview(u, i, r)
  PROVE  Typed /\ \A s \in Rows' : s \in Rows
<1> DEFINE gone == Moved(requests[r], "review_started", "IN_REVIEW", u)
           row == [gone EXCEPT !.reviewer = u]
<1>1. /\ r \in Rows /\ requests[r].status = "SUBMITTED" /\ u \in CanReview
      /\ requests' = [requests EXCEPT ![r] = row]
      /\ UNCHANGED <<book, ops, call, restores>>
  BY DEF StartReview
<1>2. requests[r] \in Row
  BY <1>1, RowsAreRows
<1>3. gone \in Row /\ gone.type = requests[r].type
  BY <1>2, Moves
<1> HIDE DEF gone
<1>4. row \in Row
  BY <1>1, <1>3, SMT DEF Row
<1>5. row.type = requests[r].type
  BY <1>3, SMT DEF Row
<1>6. book' \in Book /\ call' \in [Users -> Calls]
  BY <1>1 DEF TypeOK
<1> HIDE DEF row
<1> QED BY <1>1, <1>4, <1>5, <1>6, TransitionTyped

(* A handler that decides holds a request and a verdict; the request is in *)
(* the table, for the guards compare its status with IN_REVIEW.            *)
LEMMA InReviewIsARow ==
  ASSUME TypeOK, NEW r \in Ids, requests[r].status = "IN_REVIEW"
  PROVE  r \in Rows /\ requests[r] \in Row
<1>1. requests[r] # Absent
  BY SMT DEF Absent
<1> QED BY <1>1, RowsAreRows DEF Rows

LEMMA DecidingFields ==
  ASSUME TypeOK, NEW u \in Users, call[u].op = "deciding"
  PROVE  /\ call[u].req \in Ids
         /\ call[u].verdict \in {"approve", "reject"}
<1>1. call[u] \in DecidingCall
  BY CallFields DEF TypeOK
<1> QED BY <1>1, SMT DEF DecidingCall

LEMMA InvalidateTyped ==
  ASSUME TypeOK, NEW u \in Users, Invalidate(u)
  PROVE  Typed /\ \A s \in Rows' : s \in Rows
<1> DEFINE r == call[u].req
           row == Moved(requests[r], "invalidated", "INVALIDATED", u)
<1>1. /\ call' \in [Users -> Calls]
      /\ UNCHANGED <<book, ops, restores>>
  BY EndStep DEF Invalidate
<1>2. r \in Ids
  BY DecidingFields DEF Invalidate
<1>3. CASE requests' = requests
  <2>1. Lasting
    BY <1>3, LastingIfSame
  <2>2. TypeOK'
    BY <1>1, <1>3 DEF TypeOK
  <2> QED BY <1>3, <2>1, <2>2 DEF Typed, Rows
<1>4. CASE requests[r].status = "IN_REVIEW" /\ requests' = [requests EXCEPT ![r] = row]
  <2>1. r \in Rows /\ requests[r] \in Row
    BY <1>2, <1>4, InReviewIsARow
  <2>2. row \in Row /\ row.type = requests[r].type
    BY <2>1, Moves
  <2>3. book' \in Book
    BY <1>1 DEF TypeOK
  <2> HIDE DEF row
  <2> QED BY <1>1, <1>4, <2>1, <2>2, <2>3, TransitionTyped
<1> QED BY <1>3, <1>4 DEF Invalidate

LEMMA DecidedStatus ==
  ASSUME TypeOK, NEW type \in RequestTypes, NEW v \in {"approve", "reject"},
         book' = [book EXCEPT !.status = StatusAfter(type, v)]
  PROVE  book' \in Book /\ book'.status = StatusAfter(type, v)
<1>1. book \in Book
  BY DEF TypeOK
<1>2. StatusAfter(type, v) \in {"draft", "rejected", "approved", "removed"}
  BY <1>1, SMT DEF StatusAfter, Book
<1> QED BY <1>1, <1>2, SMT DEF Book

(* The row a decision writes.                                              *)
Decided(row, v, u) ==
  [IF v = "approve" THEN Moved(row, "approved", "APPROVED", u)
                    ELSE Moved(row, "rejected", "REJECTED", u)
   EXCEPT !.authorized = (v = "approve" /\ row.type = "audiobook")]

LEMMA DecidedRow ==
  ASSUME NEW row \in Row, NEW v \in {"approve", "reject"}, NEW u \in Users
  PROVE  /\ Decided(row, v, u) \in Row
         /\ Decided(row, v, u).type = row.type
         /\ v = "approve" => Decided(row, v, u).status = "APPROVED"
<1> DEFINE moved == IF v = "approve" THEN Moved(row, "approved", "APPROVED", u)
                                     ELSE Moved(row, "rejected", "REJECTED", u)
           flag == v = "approve" /\ row.type = "audiobook"
<1>1. /\ moved \in Row
      /\ moved.type = row.type
      /\ v = "approve" => moved.status = "APPROVED"
  BY Moves
<1>2. flag \in BOOLEAN
  OBVIOUS
<1>3. Decided(row, v, u) = [moved EXCEPT !.authorized = flag]
  BY DEF Decided
<1> HIDE DEF moved, flag
<1>4. [moved EXCEPT !.authorized = flag] \in Row
  BY <1>1, <1>2, SMT DEF Row
<1>5. /\ [moved EXCEPT !.authorized = flag].type = moved.type
      /\ [moved EXCEPT !.authorized = flag].status = moved.status
  BY <1>1, SMT DEF Row
<1> QED BY <1>1, <1>3, <1>4, <1>5

LEMMA DecideTyped ==
  ASSUME TypeOK, NEW u \in Users, Decide(u)
  PROVE  /\ Typed /\ \A s \in Rows' : s \in Rows
         /\ \/ UNCHANGED <<requests, book>>
            \/ \E r \in Rows, v \in {"approve", "reject"} :
                 /\ book'.status = StatusAfter(requests[r].type, v)
                 /\ v = "approve" => requests'[r].status = "APPROVED"
<1> DEFINE r == call[u].req
           v == call[u].verdict
           row == Decided(requests[r], v, u)
<1>1. /\ call' \in [Users -> Calls]
      /\ UNCHANGED <<ops, restores>>
  BY EndStep DEF Decide
<1>2. r \in Ids /\ v \in {"approve", "reject"}
  BY DecidingFields DEF Decide
<1>3. CASE UNCHANGED <<requests, book>>
  <2>1. Lasting
    BY <1>3, LastingIfSame
  <2>2. TypeOK'
    BY <1>1, <1>3 DEF TypeOK
  <2> QED BY <1>3, <2>1, <2>2 DEF Typed, Rows
<1>4. CASE /\ StillMine(u, r)
           /\ requests' = [requests EXCEPT ![r] = row]
           /\ book' = [book EXCEPT !.status = StatusAfter(requests[r].type, v)]
  <2>1. r \in Rows /\ requests[r] \in Row /\ requests[r].status = "IN_REVIEW"
    BY <1>2, <1>4, InReviewIsARow DEF StillMine
  <2>2. /\ row \in Row
        /\ row.type = requests[r].type
        /\ v = "approve" => row.status = "APPROVED"
    BY <1>2, <2>1, DecidedRow
  <2>3. requests[r].type \in RequestTypes
    BY <2>1, SMT DEF Row
  <2>4. book' \in Book /\ book'.status = StatusAfter(requests[r].type, v)
    BY <1>2, <1>4, <2>3, DecidedStatus
  <2> HIDE DEF row
  <2>5. Typed /\ \A s \in Rows' : s \in Rows
    BY <1>1, <1>4, <2>1, <2>2, <2>4, TransitionTyped
  <2>6. v = "approve" => requests'[r].status = "APPROVED"
    BY <1>2, <1>4, <2>2, RowStep DEF TypeOK
  <2> QED BY <1>2, <2>1, <2>4, <2>5, <2>6
<1> QED BY <1>3, <1>4 DEF Decide, Decided

LEMMA ReadForDecisionTyped ==
  ASSUME TypeOK, NEW u \in Users, NEW i \in Instances, NEW r \in Ids,
         NEW v \in {"approve", "reject"}, ReadForDecision(u, i, r, v)
  PROVE  Typed
<1> DEFINE c == [op |-> "deciding", at |-> i, req |-> r, verdict |-> v,
                 fresh |-> Fresh(r), overtaken |-> FALSE]
<1>1. c \in DecidingCall
  <2>1. Fresh(r) \in BOOLEAN
    BY DEF Fresh
  <2> QED BY <2>1, SMT DEF DecidingCall
<1>2. c \in Calls
  BY <1>1, CallKinds
<1>3. Begins(u, c) /\ UNCHANGED <<book, requests, ops, restores>>
  BY DEF ReadForDecision
<1>4. restores' \in 0 .. MaxRestores
  BY <1>3 DEF TypeOK
<1> HIDE DEF c
<1> QED BY <1>2, <1>3, <1>4, ReadStep

LEMMA ReadForOperationTyped ==
  ASSUME TypeOK, NEW u \in Users, NEW i \in Instances, NEW r \in Ids,
         ReadForOperation(u, i, r)
  PROVE  Typed
<1> DEFINE c == [op |-> "operating", at |-> i, req |-> r, revision |-> CurrentRevision]
<1>1. c \in OperatingCall
  <2>1. CurrentRevision \in Revisions
    BY SMT DEF CurrentRevision, Revisions, TypeOK, Book
  <2> QED BY <2>1, SMT DEF OperatingCall
<1>2. c \in Calls
  BY <1>1, CallKinds
<1>3. Begins(u, c) /\ UNCHANGED <<book, requests, ops, restores>>
  BY DEF ReadForOperation
<1>4. restores' \in 0 .. MaxRestores
  BY <1>3 DEF TypeOK
<1> HIDE DEF c
<1> QED BY <1>2, <1>3, <1>4, ReadStep

LEMMA LinkedRow ==
  ASSUME NEW row \in Row, NEW b \in BOOLEAN
  PROVE  /\ [row EXCEPT !.linked = b] \in Row
         /\ [row EXCEPT !.linked = b].type = row.type
         /\ [row EXCEPT !.linked = b].status = row.status
<1>1. [row EXCEPT !.linked = b] \in Row
  BY SMT DEF Row
<1>2. [row EXCEPT !.linked = b].type = row.type
  BY SMT DEF Row
<1>3. [row EXCEPT !.linked = b].status = row.status
  BY SMT DEF Row
<1> QED BY <1>1, <1>2, <1>3

LEMMA OperateTyped ==
  ASSUME TypeOK, NEW u \in Users, call[u].req \in Rows, Operate(u)
  PROVE  Typed /\ \A s \in Rows' : s \in Rows
<1> DEFINE r == call[u].req
           e == [kind |-> "privileged_override", from |-> "none", to |-> "none", by |-> u]
           linked == [requests[r] EXCEPT !.linked = TRUE]
           log == Append(linked.events, e)
           row == [linked EXCEPT !.events = log]
<1>1. call' \in [Users -> Calls] /\ UNCHANGED <<book, restores>>
  BY EndStep DEF Operate
<1>2. call[u] \in OperatingCall
  BY CallFields DEF TypeOK, Operate
<1>3. r \in Ids /\ call[u].revision \in Revisions
  BY <1>2, SMT DEF OperatingCall
<1>4. CASE UNCHANGED <<ops, requests>>
  <2>1. Lasting
    BY <1>4, LastingIfSame
  <2>2. TypeOK'
    BY <1>1, <1>4 DEF TypeOK
  <2> QED BY <1>4, <2>1, <2>2 DEF Typed, Rows
<1>5. CASE /\ ops' = [ops EXCEPT ![r] = Append(@, call[u].revision)]
           /\ requests' = [requests EXCEPT ![r] = row]
  <2>1. requests[r] \in Row
    BY RowsAreRows
  <2>2. linked \in Row
    BY <2>1, LinkedRow
  <2>3. linked.type = requests[r].type /\ linked.status = requests[r].status
    BY <2>1, LinkedRow
  <2>4. e \in Event
    BY SMT DEF Event, EventTypes
  <2> HIDE DEF e, linked
  <2>5. log \in Seq(Event)
    <3>1. linked.events \in Seq(Event)
      BY <2>2, SMT DEF Row
    <3> QED BY <2>4, <3>1, AppendProperties
  <2> HIDE DEF log
  <2>6. row \in Row /\ row.type = requests[r].type /\ row.status = requests[r].status
    BY <2>2, <2>3, <2>5, LoggedRow
  <2> HIDE DEF row
  <2>7. /\ Lasting
        /\ requests' \in [Ids -> Row \cup {Absent}]
        /\ \A s \in Rows' : s \in Rows
    BY <1>5, <2>6, LastingRow
  <2>8. ops' \in [Ids -> Seq(Revisions)]
    <3>1. ops \in [Ids -> Seq(Revisions)]
      BY DEF TypeOK
    <3> DEFINE longer == Append(ops[r], call[u].revision)
    <3>2. longer \in Seq(Revisions)
      BY <1>3, <3>1, AppendProperties
    <3>3. ops' = [ops EXCEPT ![r] = longer]
      BY <1>5
    <3> HIDE DEF longer, r
    <3> QED BY <1>3, <3>1, <3>2, <3>3
  <2> QED BY <1>1, <2>7, <2>8 DEF Typed, TypeOK
<1>6. \/ UNCHANGED <<ops, requests>>
      \/ /\ ops' = [ops EXCEPT ![r] = Append(@, call[u].revision)]
         /\ requests' = [requests EXCEPT ![r] = row]
  <2>1. requests[r] \in Row
    BY RowsAreRows
  <2>2. linked.events = requests[r].events
    BY <2>1, SMT DEF Row
  <2>3. [requests[r] EXCEPT !.linked = TRUE, !.events = Append(@, e)] = row
    BY <2>1, <2>2
  <2>4. Linked(requests[r], u) = row
    BY <2>3 DEF Linked
  <2> HIDE DEF row
  <2> QED BY <2>4 DEF Operate
<1> QED BY <1>4, <1>5, <1>6

LEMMA HideTyped ==
  ASSUME TypeOK, NEW u \in Users, Hide(u)
  PROVE  Typed /\ \A s \in Rows' : s \in Rows
<1>1. call' \in [Users -> Calls] /\ UNCHANGED <<ops, restores>>
  BY EndStep DEF Hide
<1>2. book' \in Book
  BY SMTT(25) DEF Hide, TypeOK, Book
<1>3. \A s \in Ids : requests[s] \in Row => Overridden(requests[s], u) \in Row
  BY OverriddenRow
<1>4. requests' = [s \in Ids |-> IF s \in Rows /\ requests[s].status \in Active
                                 THEN Overridden(requests[s], u) ELSE requests[s]]
  BY DEF Hide
<1>5. \A s \in Ids : requests'[s] \in Row \cup {Absent}
  BY <1>3, <1>4, RowsAreRows DEF TypeOK
<1>6. requests' \in [Ids -> Row \cup {Absent}]
  BY <1>4, <1>5
<1>7. \A s \in Rows' : s \in Rows
  BY <1>4 DEF Rows
<1>8. Lasting
  <2>1. SUFFICES ASSUME NEW s \in Rows
                 PROVE  /\ s \in Rows'
                        /\ requests'[s].type = requests[s].type
                        /\ requests[s].status = "APPROVED" => requests'[s].status = "APPROVED"
    BY DEF Lasting
  <2>2. s \in Ids /\ requests[s] \in Row /\ requests[s] # Absent
    BY RowsAreRows DEF Rows
  <2>3. CASE requests[s].status \notin Active
    BY <1>4, <2>2, <2>3 DEF Rows
  <2>4. CASE requests[s].status \in Active
    <3>1. /\ requests'[s] = Overridden(requests[s], u)
          /\ requests'[s].type = requests[s].type
          /\ requests'[s].status = "INVALIDATED"
      BY <1>4, <2>2, <2>4, OverriddenRow
    <3>2. requests'[s] # Absent
      BY <3>1, SMT DEF Absent
    <3>3. requests[s].status # "APPROVED"
      BY <2>4, SMT DEF Active
    <3> QED BY <2>2, <3>1, <3>2, <3>3 DEF Rows
  <2> QED BY <2>3, <2>4
<1> QED BY <1>1, <1>2, <1>6, <1>7, <1>8 DEF Typed, TypeOK

(* The steps that leave the table alone and change the book or nothing.    *)
LEMMA BookStepTyped ==
  ASSUME TypeOK, book' \in Book, UNCHANGED <<requests, ops, restores>>,
         call' \in [Users -> Calls]
  PROVE  Typed
<1>1. Lasting
  BY LastingIfSame
<1> QED BY <1>1 DEF Typed, TypeOK

LEMMA RestoreTyped ==
  ASSUME TypeOK, NEW u \in Users, Restore(u)
  PROVE  Typed
<1>1. book' \in Book /\ UNCHANGED <<requests, ops, restores>>
  BY SMT DEF Restore, TypeOK, Book
<1> QED BY <1>1, EndStep, BookStepTyped DEF Restore

(* A save leaves the handlers alone, but for the mark on the decisions it    *)
(* overtakes.                                                              *)
Marked(w) == /\ call[w].op = "deciding"
             /\ call'[w].op = "deciding" /\ call'[w].req = call[w].req
             /\ call'[w].overtaken

LEMMA OvertakenCalls ==
  ASSUME TypeOK, NEW i \in Instances, call' = Overtaken(i)
  PROVE  /\ call' \in [Users -> Calls]
         /\ \A w \in Users : call'[w] = call[w] \/ Marked(w)
<1>1. ASSUME NEW w \in Users
      PROVE  call'[w] \in Calls /\ (call'[w] = call[w] \/ Marked(w))
  <2>1. call[w] \in Calls
    BY DEF TypeOK
  <2>2. CASE call[w].op = "deciding" /\ call[w].fresh /\ call[w].at # i
    <3> DEFINE c == call[w]
               marked == [c EXCEPT !.overtaken = TRUE]
    <3>1. c \in DecidingCall
      BY <2>1, <2>2, CallFields
    <3>2. call'[w] = marked
      BY <2>2 DEF Overtaken
    <3> HIDE DEF c
    <3>3. marked \in DecidingCall
      BY <3>1, Zenon DEF DecidingCall
    <3>4. marked.op = c.op /\ marked.req = c.req
      BY <3>1, SMT DEF DecidingCall
    <3>5. marked.overtaken
      BY <3>1, SMT DEF DecidingCall
    <3> HIDE DEF marked
    <3> QED BY <2>2, <3>2, <3>3, <3>4, <3>5, CallKinds DEF Marked, c
  <2>3. CASE ~(call[w].op = "deciding" /\ call[w].fresh /\ call[w].at # i)
    BY <2>1, <2>3 DEF Overtaken
  <2> QED BY <2>2, <2>3
<1>2. call' = [w \in Users |-> call'[w]]
  BY DEF Overtaken
<1> QED BY <1>1, <1>2

LEMMA EditTyped ==
  ASSUME TypeOK, NEW u \in Users, NEW i \in Instances, Edit(u, i)
  PROVE  Typed /\ book'.status = book.status
<1>1. book' \in Book /\ book'.status = book.status
  <2>1. book \in Book
    BY DEF TypeOK
  <2>2. CASE \E m \in Metas : book' = [book EXCEPT !.meta = m]
    <3>1. PICK m \in Metas : book' = [book EXCEPT !.meta = m]
      BY <2>2
    <3>2. [book EXCEPT !.meta = m] \in Book /\ [book EXCEPT !.meta = m].status = book.status
      BY <2>1, SMT DEF Book
    <3> QED BY <3>1, <3>2
  <2>3. CASE \E t \in Texts : book' = [book EXCEPT !.text = t]
    <3>1. PICK t \in Texts : book' = [book EXCEPT !.text = t]
      BY <2>3
    <3>2. [book EXCEPT !.text = t] \in Book /\ [book EXCEPT !.text = t].status = book.status
      BY <2>1, SMT DEF Book
    <3> QED BY <3>1, <3>2
  <2> QED BY <2>2, <2>3 DEF Edit
<1>2. call' \in [Users -> Calls] /\ UNCHANGED <<requests, ops, restores>>
  BY OvertakenCalls DEF Edit
<1> QED BY <1>1, <1>2, BookStepTyped

LEMMA DeleteFilesTyped ==
  ASSUME TypeOK, NEW u \in Users, NEW i \in Instances, DeleteFiles(u, i)
  PROVE  Typed /\ book'.status = book.status
<1> DEFINE c == [op |-> "deleting", at |-> i]
<1>1. book' \in Book /\ book'.status = book.status
  BY DEF DeleteFiles, TypeOK
<1>2. c \in Calls
  BY CallKinds
<1>3. call' = [call EXCEPT ![u] = c] /\ UNCHANGED <<requests, ops, restores>>
  BY DEF DeleteFiles, Begins
<1> HIDE DEF c
<1>4. call' \in [Users -> Calls]
  BY <1>2, <1>3, CallStep DEF TypeOK
<1> QED BY <1>1, <1>3, <1>4, BookStepTyped

LEMMA DeleteRowTyped ==
  ASSUME TypeOK, NEW u \in Users, DeleteRow(u)
  PROVE  Typed /\ book'.status = book.status
<1>1. book' \in Book /\ book'.status = book.status
  <2>1. book.exists \in BOOLEAN /\ book \in Book
    BY SMT DEF TypeOK, Book
  <2>2. (book.exists /\ Rows # {}) \in BOOLEAN
    OBVIOUS
  <2>3. PICK b \in BOOLEAN : book' = [book EXCEPT !.exists = b]
    BY <2>2 DEF DeleteRow
  <2> QED BY <2>1, <2>3, SMT DEF Book
<1> QED BY <1>1, EndStep, BookStepTyped DEF DeleteRow

-----------------------------------------------------------------------------
(* The handlers still refer to rows, and everything still starts from a    *)
(* review, when a handler other than u has not moved.                      *)

LEMMA OthersOperate ==
  ASSUME OperatesOnRows, Lasting, NEW u \in Users,
         \A w \in Users : w # u => call'[w] = call[w],
         call'[u].op = "operating" => call'[u].req \in Rows'
  PROVE  OperatesOnRows'
BY DEF OperatesOnRows, Lasting

LEMMA CallAfter ==
  ASSUME TypeOK, NEW u \in Users, NEW c, call' = [call EXCEPT ![u] = c]
  PROVE  call'[u] = c /\ \A w \in Users : w # u => call'[w] = call[w]
BY DEF TypeOK

(* A step that ends a handler, or that leaves them all alone.              *)
LEMMA EndOperates ==
  ASSUME TypeInv, Lasting, NEW u \in Users, Ends(u) \/ UNCHANGED call
  PROVE  OperatesOnRows'
<1>1. CASE Ends(u)
  <2>1. /\ call'[u] = Idle
        /\ \A w \in Users : w # u => call'[w] = call[w]
    BY <1>1, EndStep DEF TypeInv
  <2>2. call'[u].op # "operating"
    BY <2>1 DEF Idle
  <2> QED BY <2>1, <2>2, OthersOperate DEF TypeInv
<1>2. CASE UNCHANGED call
  BY <1>2 DEF OperatesOnRows, Lasting, TypeInv
<1> QED BY <1>1, <1>2

(* A step that begins a handler, or moves it on, other than the one that   *)
(* reads for an operation.                                                 *)
LEMMA MoveOperates ==
  ASSUME TypeInv, Lasting, NEW u \in Users, NEW c,
         call' = [call EXCEPT ![u] = c],
         c.op = "operating" => c.req \in Rows'
  PROVE  OperatesOnRows'
BY CallAfter, OthersOperate DEF TypeInv

(* The requests of an account reach instances.                             *)
LEMMA ReachedInstances ==
  ASSUME NEW u \in Users, NEW i \in Reached[u]
  PROVE  i \in Instances
<1>1. u \in Reviewers \cup Admins \cup {Owner}
  BY DEF Users, CanReview, CanRequest
<1> QED BY <1>1, ReachedAreInstances

LEMMA NextTyped ==
  ASSUME TypeInv, [Next]_vars
  PROVE  TypeInv' /\ Lasting
<1> SUFFICES Typed /\ OperatesOnRows'
  BY DEF Typed, TypeInv
<1> USE DEF TypeInv
<1>1. ASSUME NEW u \in Users, NEW i \in Instances, NEW type \in RequestTypes,
             Load(u, i, type)
      PROVE  Typed /\ OperatesOnRows'
  <2>1. Typed
    BY <1>1, LoadTyped
  <2>2. call' = [call EXCEPT ![u] = [op |-> "loaded", at |-> i, type |-> type,
                                     meta |-> book.meta]]
    BY <1>1 DEF Load, Begins
  <2> QED BY <2>1, <2>2, MoveOperates DEF Typed
<1>2. ASSUME NEW u \in Users, NEW i \in Instances, NEW r \in Ids, Cancel(u, i, r)
      PROVE  Typed /\ OperatesOnRows'
  BY <1>2, CancelTyped, EndOperates DEF Cancel, Typed
<1>3. ASSUME NEW u \in Users, NEW i \in Instances, NEW r \in Ids, StartReview(u, i, r)
      PROVE  Typed /\ OperatesOnRows'
  BY <1>3, StartReviewTyped, EndOperates DEF StartReview, Typed
<1>4. ASSUME NEW u \in Users, NEW i \in Instances, NEW r \in Ids,
             NEW v \in {"approve", "reject"}, ReadForDecision(u, i, r, v)
      PROVE  Typed /\ OperatesOnRows'
  <2>1. Typed
    BY <1>4, ReadForDecisionTyped
  <2>2. call' = [call EXCEPT ![u] = [op |-> "deciding", at |-> i, req |-> r,
                                     verdict |-> v, fresh |-> Fresh(r), overtaken |-> FALSE]]
    BY <1>4 DEF ReadForDecision, Begins
  <2> QED BY <2>1, <2>2, MoveOperates DEF Typed
<1>5. ASSUME NEW u \in Users, NEW i \in Instances, NEW r \in Ids, ReadForOperation(u, i, r)
      PROVE  Typed /\ OperatesOnRows'
  <2>1. Typed
    BY <1>5, ReadForOperationTyped
  <2>2. call' = [call EXCEPT ![u] = [op |-> "operating", at |-> i, req |-> r,
                                     revision |-> CurrentRevision]]
    BY <1>5 DEF ReadForOperation, Begins
  <2>3. r \in Rows'
    BY <1>5, <2>1 DEF ReadForOperation, Typed, Lasting
  <2> QED BY <2>1, <2>2, <2>3, MoveOperates DEF Typed
<1>6. ASSUME NEW u \in Users, NEW i \in Instances, ReadForHide(u, i)
      PROVE  Typed /\ OperatesOnRows'
  <2> DEFINE c == [op |-> "hiding", at |-> i]
  <2>1. c \in Calls /\ Begins(u, c) /\ UNCHANGED <<book, requests, ops, restores>>
    BY <1>6, CallKinds DEF ReadForHide
  <2>2. restores' \in 0 .. MaxRestores
    BY <2>1 DEF TypeOK
  <2>3. call' = [call EXCEPT ![u] = c] /\ c.op # "operating"
    BY <2>1 DEF Begins
  <2> HIDE DEF c
  <2>4. Typed
    BY <2>1, <2>2, ReadStep
  <2> QED BY <2>3, <2>4, MoveOperates DEF Typed
<1>7. ASSUME NEW u \in Users, NEW i \in Instances, ReadForRestore(u, i)
      PROVE  Typed /\ OperatesOnRows'
  <2> DEFINE c == [op |-> "restoring", at |-> i]
  <2>1. c \in Calls /\ Begins(u, c) /\ UNCHANGED <<book, requests, ops>>
    BY <1>7, CallKinds DEF ReadForRestore
  <2>2. restores' \in 0 .. MaxRestores
    BY <1>7, MaxRestoresIsNat, SMT DEF ReadForRestore, TypeOK
  <2>3. call' = [call EXCEPT ![u] = c] /\ c.op # "operating"
    BY <2>1 DEF Begins
  <2> HIDE DEF c
  <2>4. Typed
    BY <2>1, <2>2, ReadStep
  <2> QED BY <2>3, <2>4, MoveOperates DEF Typed
<1>8. ASSUME NEW u \in Users, NEW i \in Instances, Edit(u, i)
      PROVE  Typed /\ OperatesOnRows'
  <2>1. Typed
    BY <1>8, EditTyped
  <2>2. \A w \in Users : call'[w] = call[w] \/ Marked(w)
    BY <1>8, OvertakenCalls DEF Edit
  <2>3. \A w \in Users : call'[w].op = "operating" => call'[w] = call[w]
    BY <2>2 DEF Marked
  <2> QED BY <2>1, <2>3 DEF Typed, OperatesOnRows, Lasting
<1>9. ASSUME NEW u \in Users, NEW i \in Instances, DeleteFiles(u, i)
      PROVE  Typed /\ OperatesOnRows'
  <2>1. Typed
    BY <1>9, DeleteFilesTyped
  <2>2. call' = [call EXCEPT ![u] = [op |-> "deleting", at |-> i]]
    BY <1>9 DEF DeleteFiles, Begins
  <2> QED BY <2>1, <2>2, MoveOperates DEF Typed
<1>10. ASSUME NEW u \in Users, Revise(u)
       PROVE  Typed /\ OperatesOnRows'
  <2>1. Typed
    BY <1>10, ReviseTyped
  <2>2. call' = [call EXCEPT ![u] =
                   [op |-> "revised", at |-> call[u].at, type |-> call[u].type,
                    revision |-> [meta |-> call[u].meta, text |-> book.text]]]
    BY <1>10 DEF Revise
  <2> QED BY <2>1, <2>2, MoveOperates DEF Typed
<1>11. ASSUME NEW u \in Users, Insert(u)
       PROVE  Typed /\ OperatesOnRows'
  BY <1>11, InsertTyped, EndOperates DEF Insert, Typed
<1>12. ASSUME NEW u \in Users, Invalidate(u)
       PROVE  Typed /\ OperatesOnRows'
  BY <1>12, InvalidateTyped, EndOperates DEF Invalidate, Typed
<1>13. ASSUME NEW u \in Users, Decide(u)
       PROVE  Typed /\ OperatesOnRows'
  BY <1>13, DecideTyped, EndOperates DEF Decide, Typed
<1>14. ASSUME NEW u \in Users, Operate(u)
       PROVE  Typed /\ OperatesOnRows'
  <2>1. call[u].req \in Rows
    BY <1>14 DEF Operate, OperatesOnRows
  <2> QED BY <1>14, <2>1, OperateTyped, EndOperates DEF Operate, Typed
<1>15. ASSUME NEW u \in Users, Hide(u)
       PROVE  Typed /\ OperatesOnRows'
  BY <1>15, HideTyped, EndOperates DEF Hide, Typed
<1>16. ASSUME NEW u \in Users, Restore(u)
       PROVE  Typed /\ OperatesOnRows'
  BY <1>16, RestoreTyped, EndOperates DEF Restore, Typed
<1>17. ASSUME NEW u \in Users, DeleteRow(u)
       PROVE  Typed /\ OperatesOnRows'
  BY <1>17, DeleteRowTyped, EndOperates DEF DeleteRow, Typed
<1>18. CASE UNCHANGED vars
  <2>1. Lasting
    BY <1>18, LastingIfSame DEF vars
  <2> QED BY <1>18, <2>1 DEF vars, Typed, TypeOK, OperatesOnRows, Rows
<1> QED
  BY <1>1, <1>2, <1>3, <1>4, <1>5, <1>6, <1>7, <1>8, <1>9, <1>10, <1>11,
     <1>12, <1>13, <1>14, <1>15, <1>16, <1>17, <1>18,
     ReachedInstances DEF Next

LEMMA InitTyped ==
  ASSUME Init
  PROVE  TypeInv /\ Rows = {} /\ book.status = "draft" /\ \A u \in Users : call[u] = Idle
<1>1. book \in Book /\ book.status = "draft"
  <2>1. book \in [exists: {TRUE}, meta: Metas, text: Texts, status: {"draft"}]
    BY DEF Init
  <2>2. PICK b \in BOOLEAN, m \in Metas, t \in Texts :
          book = [exists |-> b, meta |-> m, text |-> t, status |-> "draft"]
    BY <2>1
  <2> QED BY <2>2, SMT DEF Book
<1>2. requests \in [Ids -> Row \cup {Absent}] /\ Rows = {}
  BY DEF Init, Rows
<1>3. ops \in [Ids -> Seq(Revisions)]
  <2>1. << >> \in Seq(Revisions)
    OBVIOUS
  <2> QED BY <2>1 DEF Init
<1>4. call \in [Users -> Calls] /\ \A u \in Users : call[u] = Idle
  <2>1. Idle \in Calls
    BY CallKinds
  <2> QED BY <2>1 DEF Init
<1>5. restores \in 0 .. MaxRestores
  <2>1. restores = 0
    BY DEF Init
  <2> QED BY <2>1, MaxRestoresIsNat, SMT
<1>6. OperatesOnRows
  BY <1>4 DEF OperatesOnRows, Idle
<1> QED BY <1>1, <1>2, <1>3, <1>4, <1>5, <1>6 DEF TypeInv, TypeOK

(* The variables keep their types: the tables of the service, its          *)
(* handlers and the book (content_requests.py).                            *)
THEOREM TypesHold == Spec => []TypeInv
<1>1. Init => TypeInv
  BY InitTyped
<1>2. TypeInv /\ [Next]_vars => TypeInv'
  BY NextTyped
<1> QED BY <1>1, <1>2, PTL DEF Spec

THEOREM TypeCorrect == Spec => []TypeOK
<1>1. TypeInv => TypeOK
  BY DEF TypeInv
<1> QED BY <1>1, TypesHold, PTL

-----------------------------------------------------------------------------
(* Nothing is public that was not reviewed.                                *)

(* A step that adds no row and leaves the status of the book: what every   *)
(* other handler has decided still starts from a review.                   *)
LEMMA LeadsOn ==
  ASSUME LeadsFromReview, Lasting,
         book'.status \in {"approved", "removed"} => Reviewed \/ Reviewed',
         \A s \in Rows' : s \in Rows \/ (requests'[s].type = "unpublish" => Reviewed),
         \A w \in Users : call'[w] = call[w] \/ (Leading(w)' => Reviewed)
  PROVE  LeadsFromReview'
<1>1. Reviewed => Reviewed'
  BY ReviewedLasts
<1>2. book'.status \in {"approved", "removed"} => Reviewed'
  BY <1>1
<1>3. \A w \in Users : Leading(w)' => Reviewed'
  BY <1>1 DEF LeadsFromReview, Leading
<1>4. \A s \in Rows' : requests'[s].type = "unpublish" => Reviewed'
  BY <1>1 DEF LeadsFromReview, Lasting
<1> QED BY <1>2, <1>3, <1>4 DEF LeadsFromReview

(* A step that leaves the book and the rows alone, but for one handler.    *)
LEMMA HandlerLeads ==
  ASSUME TypeInv, LeadsFromReview, Lasting, NEW u \in Users, NEW c,
         call' = [call EXCEPT ![u] = c], book'.status = book.status,
         UNCHANGED requests, Leading(u)' => Reviewed
  PROVE  LeadsFromReview'
<1>1. \A w \in Users : w # u => call'[w] = call[w]
  BY CallAfter DEF TypeInv
<1>2. Rows' = Rows
  BY DEF Rows
<1>3. book'.status \in {"approved", "removed"} => Reviewed
  BY DEF LeadsFromReview
<1> QED BY <1>1, <1>2, <1>3, LeadsOn

(* A step that ends a handler, or leaves them alone, and adds no row.      *)
LEMMA EndLeads ==
  ASSUME TypeInv, LeadsFromReview, Lasting, NEW u \in Users,
         Ends(u) \/ UNCHANGED call,
         \A s \in Rows' : s \in Rows \/ (requests'[s].type = "unpublish" => Reviewed),
         book'.status \in {"approved", "removed"} => Reviewed \/ Reviewed'
  PROVE  LeadsFromReview'
<1>1. \A w \in Users : call'[w] = call[w] \/ (Leading(w)' => Reviewed)
  <2>1. CASE Ends(u)
    <3>1. /\ call'[u] = Idle
          /\ \A w \in Users : w # u => call'[w] = call[w]
      BY <2>1, EndStep DEF TypeInv
    <3>2. ~Leading(u)'
      BY <3>1 DEF Leading, Idle
    <3> QED BY <3>1, <3>2
  <2>2. CASE UNCHANGED call
    BY <2>2
  <2> QED BY <2>1, <2>2
<1> QED BY <1>1, LeadsOn

LEMMA NextLeads ==
  ASSUME TypeInv, LeadsFromReview, [Next]_vars
  PROVE  LeadsFromReview'
<1>0. Lasting /\ TypeInv'
  BY NextTyped
<1>old. book.status \in {"approved", "removed"} => Reviewed
  BY DEF LeadsFromReview
<1>1. ASSUME NEW u \in Users, NEW i \in Instances, NEW type \in RequestTypes,
             Load(u, i, type)
      PROVE  LeadsFromReview'
  <2> DEFINE c == [op |-> "loaded", at |-> i, type |-> type, meta |-> book.meta]
  <2>1. call' = [call EXCEPT ![u] = c] /\ UNCHANGED <<book, requests>>
    BY <1>1 DEF Load, Begins
  <2>2. call'[u] = c
    BY ZenonT(40), <2>1, CallAfter DEF TypeInv
  <2>3. type = "unpublish" => Reviewed
    BY <1>1, <1>old DEF Load, Eligible, Public
  <2>4. Leading(u)' => Reviewed
    BY <2>2, <2>3 DEF Leading
  <2> HIDE DEF c
  <2> QED BY <1>0, <2>1, <2>4, HandlerLeads
<1>2. ASSUME NEW u \in Users, NEW i \in Instances, NEW r \in Ids, Cancel(u, i, r)
      PROVE  LeadsFromReview'
  <2>1. UNCHANGED <<book, call>>
    BY <1>2 DEF Cancel
  <2>2. \A s \in Rows' : s \in Rows
    BY <1>2, CancelTyped DEF TypeInv
  <2> QED BY <1>0, <1>old, <2>1, <2>2, EndLeads
<1>3. ASSUME NEW u \in Users, NEW i \in Instances, NEW r \in Ids, StartReview(u, i, r)
      PROVE  LeadsFromReview'
  <2>1. UNCHANGED <<book, call>>
    BY <1>3 DEF StartReview
  <2>2. \A s \in Rows' : s \in Rows
    BY <1>3, StartReviewTyped DEF TypeInv
  <2> QED BY <1>0, <1>old, <2>1, <2>2, EndLeads
<1>4. ASSUME NEW u \in Users, NEW i \in Instances, NEW r \in Ids,
             NEW v \in {"approve", "reject"}, ReadForDecision(u, i, r, v)
      PROVE  LeadsFromReview'
  <2> DEFINE c == [op |-> "deciding", at |-> i, req |-> r, verdict |-> v,
                   fresh |-> Fresh(r), overtaken |-> FALSE]
  <2>1. call' = [call EXCEPT ![u] = c] /\ UNCHANGED <<book, requests>>
    BY <1>4 DEF ReadForDecision, Begins
  <2>2. call'[u] = c
    BY <2>1, CallAfter DEF TypeInv
  <2>3. ~Leading(u)'
    BY <2>2 DEF Leading
  <2> HIDE DEF c
  <2> QED BY <1>0, <2>1, <2>3, HandlerLeads
<1>5. ASSUME NEW u \in Users, NEW i \in Instances, NEW r \in Ids, ReadForOperation(u, i, r)
      PROVE  LeadsFromReview'
  <2> DEFINE c == [op |-> "operating", at |-> i, req |-> r, revision |-> CurrentRevision]
  <2>1. call' = [call EXCEPT ![u] = c] /\ UNCHANGED <<book, requests>>
    BY <1>5 DEF ReadForOperation, Begins
  <2>2. call'[u] = c
    BY <2>1, CallAfter DEF TypeInv
  <2>3. ~Leading(u)'
    BY <2>2 DEF Leading
  <2> HIDE DEF c
  <2> QED BY <1>0, <2>1, <2>3, HandlerLeads
<1>6. ASSUME NEW u \in Users, NEW i \in Instances, ReadForHide(u, i)
      PROVE  LeadsFromReview'
  <2>1. call' = [call EXCEPT ![u] = [op |-> "hiding", at |-> i]]
        /\ UNCHANGED <<book, requests>> /\ Reviewed
    BY <1>6, <1>old DEF ReadForHide, Begins, Public
  <2> QED BY <1>0, <2>1, HandlerLeads
<1>7. ASSUME NEW u \in Users, NEW i \in Instances, ReadForRestore(u, i)
      PROVE  LeadsFromReview'
  <2>1. call' = [call EXCEPT ![u] = [op |-> "restoring", at |-> i]]
        /\ UNCHANGED <<book, requests>> /\ Reviewed
    BY <1>7, <1>old DEF ReadForRestore, Begins, Restorable
  <2> QED BY <1>0, <2>1, HandlerLeads
<1>8. ASSUME NEW u \in Users, NEW i \in Instances, Edit(u, i)
      PROVE  LeadsFromReview'
  <2>1. book'.status = book.status
    BY <1>8, EditTyped DEF TypeInv
  <2>2. Rows' = Rows
    BY <1>8 DEF Edit, Rows
  <2>3. \A w \in Users : call'[w] = call[w] \/ Marked(w)
    BY <1>8, OvertakenCalls DEF Edit, TypeInv
  <2>4. \A w \in Users : call'[w] = call[w] \/ (Leading(w)' => Reviewed)
    BY <2>3 DEF Leading, Marked
  <2> QED BY <1>0, <1>old, <2>1, <2>2, <2>4, LeadsOn
<1>9. ASSUME NEW u \in Users, NEW i \in Instances, DeleteFiles(u, i)
      PROVE  LeadsFromReview'
  <2> DEFINE c == [op |-> "deleting", at |-> i]
  <2>1. call' = [call EXCEPT ![u] = c] /\ UNCHANGED requests
    BY <1>9 DEF DeleteFiles, Begins
  <2>2. book'.status = book.status
    BY <1>9, DeleteFilesTyped DEF TypeInv
  <2>3. call'[u] = c
    BY <2>1, CallAfter DEF TypeInv
  <2>4. ~Leading(u)'
    BY <2>3 DEF Leading
  <2> HIDE DEF c
  <2> QED BY <1>0, <2>1, <2>2, <2>4, HandlerLeads
<1>10. ASSUME NEW u \in Users, Revise(u)
       PROVE  LeadsFromReview'
  <2> DEFINE c == [op |-> "revised", at |-> call[u].at, type |-> call[u].type,
                   revision |-> [meta |-> call[u].meta, text |-> book.text]]
  <2>1. call' = [call EXCEPT ![u] = c] /\ UNCHANGED <<book, requests>>
    BY <1>10 DEF Revise
  <2>2. c.op = "revised" /\ c.type = call[u].type
    OBVIOUS
  <2> HIDE DEF c
  <2>3. call'[u] = c
    BY <2>1, CallAfter DEF TypeInv
  <2>4. call[u].op = "loaded"
    BY <1>10 DEF Revise
  <2>5. Leading(u)' => Leading(u)
    BY <2>2, <2>3, <2>4 DEF Leading
  <2>6. Leading(u)' => Reviewed
    BY <2>5 DEF LeadsFromReview
  <2> QED BY <1>0, <2>1, <2>6, HandlerLeads
<1>11. ASSUME NEW u \in Users, Insert(u)
       PROVE  LeadsFromReview'
  <2>1. UNCHANGED book /\ Ends(u)
    BY <1>11 DEF Insert
  <2>2. call[u].type = "unpublish" => Reviewed
    BY <1>11 DEF Insert, LeadsFromReview, Leading
  <2>3. \A s \in Rows' : s \in Rows \/ requests'[s].type = call[u].type
    BY <1>11, InsertTyped DEF TypeInv
  <2> QED BY <1>0, <1>old, <2>1, <2>2, <2>3, EndLeads
<1>12. ASSUME NEW u \in Users, Invalidate(u)
       PROVE  LeadsFromReview'
  <2>1. UNCHANGED book /\ Ends(u)
    BY <1>12 DEF Invalidate
  <2>2. \A s \in Rows' : s \in Rows
    BY <1>12, InvalidateTyped DEF TypeInv
  <2> QED BY <1>0, <1>old, <2>1, <2>2, EndLeads
<1>13. ASSUME NEW u \in Users, Decide(u)
       PROVE  LeadsFromReview'
  <2>1. Ends(u)
    BY <1>13 DEF Decide
  <2>2. /\ \A s \in Rows' : s \in Rows
        /\ \/ UNCHANGED <<requests, book>>
           \/ \E r \in Rows, v \in {"approve", "reject"} :
                /\ book'.status = StatusAfter(requests[r].type, v)
                /\ v = "approve" => requests'[r].status = "APPROVED"
    BY <1>13, DecideTyped DEF TypeInv
  <2>3. book'.status \in {"approved", "removed"} => Reviewed \/ Reviewed'
    <3>1. CASE UNCHANGED <<requests, book>>
      BY <1>old, <3>1
    <3>2. ASSUME NEW r \in Rows, NEW v \in {"approve", "reject"},
                 book'.status = StatusAfter(requests[r].type, v),
                 v = "approve" => requests'[r].status = "APPROVED"
          PROVE  book'.status \in {"approved", "removed"} => Reviewed \/ Reviewed'
      <4>1. CASE v = "approve" /\ requests[r].type = "publish"
        <5>1. r \in Rows' /\ requests'[r].type = "publish" /\ requests'[r].status = "APPROVED"
          BY <1>0, <3>2, <4>1 DEF Lasting
        <5> QED BY <5>1 DEF Reviewed
      <4>2. CASE requests[r].type = "unpublish"
        BY <4>2 DEF LeadsFromReview
      <4>3. CASE v = "reject" /\ requests[r].type # "unpublish"
        BY <1>old, <3>2, <4>3 DEF StatusAfter
      <4>4. CASE requests[r].type \notin {"publish", "unpublish"}
        BY <1>old, <3>2, <4>4 DEF StatusAfter
      <4> QED BY <4>1, <4>2, <4>3, <4>4
    <3> QED BY <2>2, <3>1, <3>2
  <2> QED BY <1>0, <2>1, <2>2, <2>3, EndLeads
<1>14. ASSUME NEW u \in Users, Operate(u)
       PROVE  LeadsFromReview'
  <2>1. UNCHANGED book /\ Ends(u)
    BY <1>14 DEF Operate
  <2>2. call[u].req \in Rows
    BY <1>14 DEF Operate, TypeInv, OperatesOnRows
  <2>3. \A s \in Rows' : s \in Rows
    BY <1>14, <2>2, OperateTyped DEF TypeInv
  <2> QED BY <1>0, <1>old, <2>1, <2>3, EndLeads
<1>15. ASSUME NEW u \in Users, Hide(u)
       PROVE  LeadsFromReview'
  <2>1. Ends(u) /\ Reviewed
    BY <1>15 DEF Hide, LeadsFromReview, Leading
  <2>2. \A s \in Rows' : s \in Rows
    BY <1>15, HideTyped DEF TypeInv
  <2> QED BY <1>0, <2>1, <2>2, EndLeads
<1>16. ASSUME NEW u \in Users, Restore(u)
       PROVE  LeadsFromReview'
  <2>1. Ends(u) /\ Reviewed
    BY <1>16 DEF Restore, LeadsFromReview, Leading
  <2>2. Rows' = Rows
    BY <1>16 DEF Restore, Rows
  <2> QED BY <1>0, <2>1, <2>2, EndLeads
<1>17. ASSUME NEW u \in Users, DeleteRow(u)
       PROVE  LeadsFromReview'
  <2>1. Ends(u) /\ Rows' = Rows
    BY <1>17 DEF DeleteRow, Rows
  <2>2. book'.status = book.status
    BY <1>17, DeleteRowTyped DEF TypeInv
  <2> QED BY <1>0, <1>old, <2>1, <2>2, EndLeads
<1>18. CASE UNCHANGED vars
  BY <1>18 DEF vars, LeadsFromReview, Leading, Reviewed, Rows
<1> QED
  BY <1>1, <1>2, <1>3, <1>4, <1>5, <1>6, <1>7, <1>8, <1>9, <1>10, <1>11,
     <1>12, <1>13, <1>14, <1>15, <1>16, <1>17, <1>18,
     ReachedInstances DEF Next

(* Whatever the order of submissions, decisions, emergency hides and       *)
(* restores, over any number of web instances, a book is public, or can be *)
(* restored, only if a reviewer once approved a publish request for it.    *)
THEOREM NothingUnreviewedIsPublic == Spec => []NothingPublicUnreviewed
<1>1. Init => TypeInv /\ LeadsFromReview
  <2>1. ASSUME Init
        PROVE  TypeInv /\ LeadsFromReview
    <3>1. /\ TypeInv
          /\ Rows = {}
          /\ book.status = "draft"
          /\ \A u \in Users : call[u] = Idle
      BY <2>1, InitTyped
    <3>2. \A u \in Users : ~Leading(u)
      BY <3>1 DEF Leading, Idle
    <3> QED BY <3>1, <3>2 DEF LeadsFromReview
  <2> QED BY <2>1
<1>2. TypeInv /\ LeadsFromReview /\ [Next]_vars => TypeInv' /\ LeadsFromReview'
  BY NextTyped, NextLeads
<1>3. LeadsFromReview => NothingPublicUnreviewed
  BY DEF LeadsFromReview, NothingPublicUnreviewed, Reviewed
<1> QED BY <1>1, <1>2, <1>3, PTL DEF Spec

-----------------------------------------------------------------------------
(* What a step may do to a request, and who does it.                       *)

LastBy(row, u) == Last(row.events).by = u

(* What no transition of the service touches.                              *)
SameMatter(row, old) == row.revision = old.revision /\ row.reviewer = old.reviewer

LEMMA LoggedMatter ==
  ASSUME NEW row \in Row, NEW e \in Event
  PROVE  LET moved == [row EXCEPT !.events = Append(@, e)] IN
         /\ SameMatter(moved, row) /\ moved.status = row.status
         /\ moved.events = Append(row.events, e) /\ Last(moved.events) = e
<1> DEFINE log == Append(row.events, e)
           moved == [row EXCEPT !.events = Append(@, e)]
<1>1. row.events \in Seq(Event)
  BY SMT DEF Row
<1>2. log \in Seq(Event) /\ Len(log) = Len(row.events) + 1 /\ log[Len(row.events) + 1] = e
  BY <1>1, AppendProperties
<1>3. Last(log) = e
  BY <1>2 DEF Last
<1>4. moved = [row EXCEPT !.events = log]
  OBVIOUS
<1> HIDE DEF log, moved
<1>5. moved.revision = row.revision /\ moved.reviewer = row.reviewer
  BY <1>4, SMT DEF Row
<1>6. moved.status = row.status /\ moved.events = log
  BY <1>4, SMT DEF Row
<1> QED BY <1>3, <1>5, <1>6 DEF SameMatter, log, moved

LEMMA MovedMatter ==
  ASSUME NEW row \in Row, NEW kind \in EventTypes, NEW to \in States, NEW by \in Users
  PROVE  LET moved == Moved(row, kind, to, by) IN
         /\ SameMatter(moved, row) /\ moved.status = to
         /\ LastBy(moved, by) /\ Last(moved.events).kind = kind
<1> DEFINE e == [kind |-> kind, from |-> row.status, to |-> to, by |-> by]
           placed == [row EXCEPT !.status = to]
<1>1. e \in Event /\ e.by = by /\ e.kind = kind
  BY SMT DEF Event, Row
<1>2. placed \in Row /\ placed.status = to /\ placed.events = row.events
  BY SMT DEF Row
<1>3. SameMatter(placed, row)
  BY SMT DEF Row, SameMatter
<1>4. Moved(row, kind, to, by) = [placed EXCEPT !.events = Append(@, e)]
  BY <1>2 DEF Moved
<1> HIDE DEF e, placed
<1>5. LET moved == [placed EXCEPT !.events = Append(@, e)] IN
      /\ SameMatter(moved, placed) /\ moved.status = placed.status
      /\ Last(moved.events) = e
  BY <1>1, <1>2, LoggedMatter
<1> QED BY <1>1, <1>2, <1>3, <1>4, <1>5 DEF SameMatter, LastBy

(* How the request s moves when u acts.                                    *)
Waited(s) == /\ requests[s].status = "SUBMITTED" /\ requests'[s].status # "APPROVED"
             /\ requests'[s].revision = requests[s].revision
Lapsed(u, s) == /\ requests[s].status = "IN_REVIEW" /\ requests'[s].status = "INVALIDATED"
                /\ call[u].op = "deciding" /\ call[u].req = s /\ LastBy(requests'[s], u)
Answered(u, s) == /\ StillMine(u, s) /\ requests'[s].status \in {"APPROVED", "REJECTED"}
                  /\ call[u].op = "deciding" /\ call[u].req = s /\ call[u].fresh
                  /\ call'[u] = Idle
                  /\ LastBy(requests'[s], u)
Overruled(s) == /\ requests[s].status \in Active /\ requests'[s].status = "INVALIDATED"
                /\ Last(requests'[s].events).kind = "privileged_override"
RowMoves(u, s) ==
  \/ requests'[s] = requests[s]
  \/ Waited(s)
  \/ /\ SameMatter(requests'[s], requests[s])
     /\ \/ requests'[s].status = requests[s].status
        \/ Lapsed(u, s) \/ Answered(u, s) \/ Overruled(s)

(* One row moves, the others stay.                                         *)
LEMMA OneMoves ==
  ASSUME TypeOK, NEW r \in Rows, NEW row, requests' = [requests EXCEPT ![r] = row]
  PROVE  requests'[r] = row /\ \A s \in Rows : s # r => requests'[s] = requests[s]
BY DEF TypeOK, Rows

LEMMA CancelMoves ==
  ASSUME TypeOK, NEW u \in Users, NEW i \in Instances, NEW r \in Ids, Cancel(u, i, r)
  PROVE  \A s \in Rows : RowMoves(u, s)
<1> DEFINE row == Moved(requests[r], "cancelled", "CANCELLED", u)
<1>1. /\ r \in Rows /\ requests[r].status = "SUBMITTED"
      /\ requests' = [requests EXCEPT ![r] = row]
  BY DEF Cancel, Cancellable
<1>2. SameMatter(row, requests[r]) /\ row.status = "CANCELLED"
  BY <1>1, RowsAreRows, Vocabulary, MovedMatter
<1> HIDE DEF row
<1> QED BY <1>1, <1>2, OneMoves DEF RowMoves, Waited, SameMatter

LEMMA StartReviewMoves ==
  ASSUME TypeOK, NEW u \in Users, NEW i \in Instances, NEW r \in Ids, StartReview(u, i, r)
  PROVE  \A s \in Rows : RowMoves(u, s)
<1> DEFINE moved == Moved(requests[r], "review_started", "IN_REVIEW", u)
           row == [moved EXCEPT !.reviewer = u]
<1>1. /\ r \in Rows /\ requests[r].status = "SUBMITTED"
      /\ requests' = [requests EXCEPT ![r] = row]
  BY DEF StartReview
<1>a. requests[r] \in Row
  BY <1>1, RowsAreRows
<1>b. moved \in Row /\ moved.status = "IN_REVIEW"
  BY <1>a, Moves
<1>c. SameMatter(moved, requests[r])
  BY <1>a, Vocabulary, MovedMatter
<1>2. /\ moved \in Row /\ SameMatter(moved, requests[r]) /\ moved.status = "IN_REVIEW"
  BY <1>b, <1>c
<1> HIDE DEF moved
<1>3. row.status = moved.status /\ row.revision = moved.revision
  BY <1>2, SMT DEF Row
<1> HIDE DEF row
<1> QED BY <1>1, <1>2, <1>3, OneMoves DEF RowMoves, Waited, SameMatter

LEMMA InvalidateMoves ==
  ASSUME TypeOK, NEW u \in Users, Invalidate(u)
  PROVE  \A s \in Rows : RowMoves(u, s)
<1> DEFINE r == call[u].req
           row == Moved(requests[r], "invalidated", "INVALIDATED", u)
<1>1. CASE requests' = requests
  BY <1>1 DEF RowMoves
<1>2. CASE requests[r].status = "IN_REVIEW" /\ requests' = [requests EXCEPT ![r] = row]
  <2>1. r \in Rows /\ requests[r] \in Row /\ call[u].op = "deciding"
    BY <1>2, DecidingFields, InReviewIsARow DEF Invalidate
  <2>2. SameMatter(row, requests[r]) /\ row.status = "INVALIDATED" /\ LastBy(row, u)
    BY <2>1, Vocabulary, MovedMatter
  <2> HIDE DEF row
  <2> QED BY <1>2, <2>1, <2>2, OneMoves DEF RowMoves, Lapsed
<1> QED BY <1>1, <1>2 DEF Invalidate

LEMMA DecideMoves ==
  ASSUME TypeOK, NEW u \in Users, Decide(u)
  PROVE  \A s \in Rows : RowMoves(u, s)
<1> DEFINE r == call[u].req
           v == call[u].verdict
           moved == IF v = "approve" THEN Moved(requests[r], "approved", "APPROVED", u)
                                     ELSE Moved(requests[r], "rejected", "REJECTED", u)
           flag == v = "approve" /\ requests[r].type = "audiobook"
           row == [moved EXCEPT !.authorized = flag]
<1>1. CASE requests' = requests
  BY <1>1 DEF RowMoves
<1>2. CASE StillMine(u, r) /\ requests' = [requests EXCEPT ![r] = row]
  <2>1. /\ r \in Rows /\ requests[r] \in Row /\ call[u].op = "deciding" /\ call[u].fresh
    BY <1>2, DecidingFields, InReviewIsARow DEF Decide, StillMine
  <2> DEFINE approved == Moved(requests[r], "approved", "APPROVED", u)
             rejected == Moved(requests[r], "rejected", "REJECTED", u)
  <2>a. approved \in Row /\ approved.status = "APPROVED"
    BY <2>1, Moves
  <2>b. SameMatter(approved, requests[r]) /\ LastBy(approved, u)
    BY <2>1, Vocabulary, MovedMatter
  <2>c. rejected \in Row /\ rejected.status = "REJECTED"
    BY <2>1, Moves
  <2>d. SameMatter(rejected, requests[r]) /\ LastBy(rejected, u)
    BY <2>1, Vocabulary, MovedMatter
  <2> HIDE DEF approved, rejected
  <2>e. moved = approved \/ moved = rejected
    BY DEF approved, rejected
  <2>2. /\ moved \in Row /\ SameMatter(moved, requests[r]) /\ LastBy(moved, u)
        /\ moved.status \in {"APPROVED", "REJECTED"}
    BY <2>a, <2>b, <2>c, <2>d, <2>e
  <2> HIDE DEF moved, flag
  <2>3. row.revision = moved.revision /\ row.reviewer = moved.reviewer
    BY <2>2, SMT DEF Row
  <2>4. row.status = moved.status /\ row.events = moved.events
    BY <2>2, SMT DEF Row
  <2>5. call'[u] = Idle
    BY EndStep DEF Decide
  <2> HIDE DEF row
  <2> QED BY <1>2, <2>1, <2>2, <2>3, <2>4, <2>5, OneMoves DEF RowMoves, Answered, SameMatter, LastBy
<1> QED BY <1>1, <1>2 DEF Decide

LEMMA OperateMoves ==
  ASSUME TypeOK, NEW u \in Users, call[u].req \in Rows, Operate(u)
  PROVE  \A s \in Rows : RowMoves(u, s)
<1> DEFINE r == call[u].req
           e == [kind |-> "privileged_override", from |-> "none", to |-> "none", by |-> u]
           linked == [requests[r] EXCEPT !.linked = TRUE]
           row == [linked EXCEPT !.events = Append(@, e)]
<1>1. CASE requests' = requests
  BY <1>1 DEF RowMoves
<1>2. CASE requests' = [requests EXCEPT ![r] = Linked(@, u)]
  <2>1. requests[r] \in Row
    BY RowsAreRows
  <2>2. linked \in Row /\ linked.status = requests[r].status
    BY <2>1, LinkedRow
  <2>3. linked.events = requests[r].events /\ linked.reviewer = requests[r].reviewer
    BY <2>1, SMT DEF Row
  <2>4. linked.revision = requests[r].revision
    BY <2>1, SMT DEF Row
  <2>5. Linked(requests[r], u) = row
    BY <2>1, <2>3 DEF Linked
  <2>6. e \in Event
    BY SMT DEF Event, EventTypes
  <2> HIDE DEF linked, e
  <2>7. SameMatter(row, linked) /\ row.status = linked.status
    BY <2>2, <2>6, LoggedMatter
  <2>8. requests' = [requests EXCEPT ![r] = row]
    BY <1>2, <2>5
  <2> HIDE DEF row
  <2> QED BY <2>2, <2>3, <2>4, <2>7, <2>8, OneMoves DEF RowMoves, SameMatter
<1> QED BY <1>1, <1>2 DEF Operate

LEMMA HideMoves ==
  ASSUME TypeOK, NEW u \in Users, Hide(u)
  PROVE  \A s \in Rows : RowMoves(u, s)
<1> SUFFICES ASSUME NEW s \in Rows PROVE RowMoves(u, s)
  OBVIOUS
<1>1. s \in Ids /\ requests[s] \in Row
  BY RowsAreRows
<1> DEFINE gone == Moved(requests[s], "invalidated", "INVALIDATED", u)
           e == [kind |-> "privileged_override", from |-> "none", to |-> "none", by |-> u]
           row == [gone EXCEPT !.events = Append(@, e)]
<1>2. CASE requests[s].status \notin Active
  BY <1>1, <1>2 DEF Hide, RowMoves
<1>3. CASE requests[s].status \in Active
  <2>1. requests'[s] = row
    BY <1>1, <1>3 DEF Hide, Overridden
  <2>a. gone \in Row /\ gone.status = "INVALIDATED"
    BY <1>1, Moves
  <2>2. SameMatter(gone, requests[s])
    BY <1>1, Vocabulary, MovedMatter
  <2>3. e \in Event /\ e.kind = "privileged_override"
    BY SMT DEF Event, EventTypes
  <2> HIDE DEF gone, e
  <2>4. /\ SameMatter(row, gone) /\ row.status = gone.status /\ Last(row.events) = e
    BY <2>a, <2>3, LoggedMatter
  <2> HIDE DEF row
  <2> QED BY <1>3, <2>1, <2>a, <2>2, <2>3, <2>4 DEF RowMoves, SameMatter, Overruled
<1> QED BY <1>2, <1>3

-----------------------------------------------------------------------------
(* A step moves the rows only as above, no handler but the one that reads  *)
(* for a decision starts to decide, the content changes only by an edit,   *)
(* which waits for the lock of its instance and overtakes the decisions of *)
(* the others, and a public book that stays can only be removed.           *)

RowsMove == \A s \in Rows : \E u \in Users : RowMoves(u, s)

ReadsForDecision(w) ==
  \E i \in Instances, r \in Ids, v \in {"approve", "reject"} : ReadForDecision(w, i, r, v)

CallsMove == \A w \in Users : call'[w].op = "deciding" =>
                                call'[w] = call[w] \/ ReadsForDecision(w) \/ Marked(w)

ContentMoves == \/ CurrentRevision' = CurrentRevision
                \/ \E i \in Instances : LockFree(i) /\ call' = Overtaken(i)

Removes == Public /\ book'.status # "approved" => book'.status = "removed"

StepMoves == RowsMove /\ CallsMove /\ ContentMoves /\ Removes

LEMMA RowsMoveBy ==
  ASSUME NEW u \in Users, \A s \in Rows : RowMoves(u, s)
  PROVE  RowsMove
BY DEF RowsMove

LEMMA RowsStay ==
  ASSUME TypeOK, NEW u \in Users, UNCHANGED requests
  PROVE  RowsMove
<1>1. \A s \in Rows : RowMoves(u, s)
  BY DEF RowMoves
<1> QED BY <1>1, RowsMoveBy

LEMMA CallsMoveBy ==
  ASSUME TypeOK, NEW u \in Users, NEW c, call' = [call EXCEPT ![u] = c],
         c.op # "deciding" \/ ReadsForDecision(u)
  PROVE  CallsMove
BY CallAfter DEF CallsMove

LEMMA CallsEnd ==
  ASSUME TypeOK, NEW u \in Users, Ends(u) \/ UNCHANGED call
  PROVE  CallsMove
<1>1. CASE Ends(u)
  <2>1. call' = [call EXCEPT ![u] = Idle]
    BY <1>1 DEF Ends
  <2>2. Idle.op # "deciding"
    BY DEF Idle
  <2> QED BY <2>1, <2>2, CallsMoveBy
<1>2. CASE UNCHANGED call
  BY <1>2 DEF CallsMove
<1> QED BY <1>1, <1>2

(* A step that leaves the content as it is.                                *)
LEMMA ContentStays ==
  ASSUME book'.meta = book.meta, book'.text = book.text
  PROVE  ContentMoves
BY DEF ContentMoves, CurrentRevision

LEMMA BookStays ==
  ASSUME UNCHANGED book
  PROVE  ContentMoves /\ Removes
BY DEF ContentMoves, Removes, CurrentRevision, Public

LEMMA StatusMoves ==
  ASSUME TypeOK, NEW status, book' = [book EXCEPT !.status = status],
         Public => status \in {"approved", "removed"}
  PROVE  ContentMoves /\ Removes
<1>1. book'.meta = book.meta /\ book'.text = book.text /\ book'.status = status
  BY SMT DEF TypeOK, Book
<1> QED BY <1>1, ContentStays DEF Removes

LEMMA EditMoves ==
  ASSUME TypeOK, NEW u \in Users, NEW i \in Instances, Edit(u, i)
  PROVE  ContentMoves /\ Removes
<1>1. ContentMoves
  BY DEF Edit, ContentMoves
<1>2. book'.status = book.status
  BY SMT DEF Edit, TypeOK, Book
<1> QED BY <1>1, <1>2 DEF Removes, Public

(* The decision on a publish request never takes a public book down, the   *)
(* one on an unpublish request removes it.                                 *)
LEMMA DecisionRemoves ==
  ASSUME NEW type, NEW verdict, Public
  PROVE  StatusAfter(type, verdict) \in {"approved", "removed"}
BY DEF StatusAfter, Public

LEMMA InsertMoves ==
  ASSUME TypeOK, NEW u \in Users, Insert(u)
  PROVE  RowsMove
<1>1. CASE UNCHANGED requests
  BY <1>1, RowsStay
<1>2. ASSUME NEW r \in Ids \ Rows, NEW row, requests' = [requests EXCEPT ![r] = row]
      PROVE  RowsMove
  <2>1. \A s \in Rows : s # r /\ s \in Ids
    BY DEF Rows
  <2>2. \A s \in Rows : requests'[s] = requests[s]
    BY <1>2, <2>1 DEF TypeOK
  <2>3. \A s \in Rows : RowMoves(u, s)
    BY <2>2 DEF RowMoves
  <2> QED BY <2>3, RowsMoveBy
<1> QED BY <1>1, <1>2 DEF Insert

LEMMA NextMoves ==
  ASSUME TypeInv, [Next]_vars
  PROVE  StepMoves
<1> USE DEF TypeInv
<1>1. ASSUME NEW u \in Users, NEW i \in Instances, NEW type \in RequestTypes,
             Load(u, i, type)
      PROVE  StepMoves
  <2> DEFINE c == [op |-> "loaded", at |-> i, type |-> type, meta |-> book.meta]
  <2>1. /\ UNCHANGED <<requests, book>>
        /\ call' = [call EXCEPT ![u] = c] /\ c.op # "deciding"
    BY <1>1 DEF Load, Begins
  <2> HIDE DEF c
  <2> QED BY <2>1, RowsStay, BookStays, CallsMoveBy DEF StepMoves
<1>2. ASSUME NEW u \in Users, NEW i \in Instances, NEW r \in Ids, Cancel(u, i, r)
      PROVE  StepMoves
  <2>1. RowsMove
    BY <1>2, CancelMoves, RowsMoveBy
  <2>2. UNCHANGED call /\ UNCHANGED book
    BY <1>2 DEF Cancel
  <2> QED BY <2>1, <2>2, BookStays, CallsEnd DEF StepMoves
<1>3. ASSUME NEW u \in Users, NEW i \in Instances, NEW r \in Ids, StartReview(u, i, r)
      PROVE  StepMoves
  <2>1. RowsMove
    BY <1>3, StartReviewMoves, RowsMoveBy
  <2>2. UNCHANGED call /\ UNCHANGED book
    BY <1>3 DEF StartReview
  <2> QED BY <2>1, <2>2, BookStays, CallsEnd DEF StepMoves
<1>4. ASSUME NEW u \in Users, NEW i \in Instances, NEW r \in Ids,
             NEW v \in {"approve", "reject"}, ReadForDecision(u, i, r, v)
      PROVE  StepMoves
  <2> DEFINE c == [op |-> "deciding", at |-> i, req |-> r, verdict |-> v,
                   fresh |-> Fresh(r), overtaken |-> FALSE]
  <2>1. /\ UNCHANGED <<requests, book>>
        /\ call' = [call EXCEPT ![u] = c]
    BY <1>4 DEF ReadForDecision, Begins
  <2>2. ReadsForDecision(u)
    BY <1>4 DEF ReadsForDecision
  <2> HIDE DEF c
  <2> QED BY <2>1, <2>2, RowsStay, BookStays, CallsMoveBy DEF StepMoves
<1>5. ASSUME NEW u \in Users, NEW i \in Instances, NEW r \in Ids, ReadForOperation(u, i, r)
      PROVE  StepMoves
  <2> DEFINE c == [op |-> "operating", at |-> i, req |-> r, revision |-> CurrentRevision]
  <2>1. /\ UNCHANGED <<requests, book>>
        /\ call' = [call EXCEPT ![u] = c] /\ c.op # "deciding"
    BY <1>5 DEF ReadForOperation, Begins
  <2> HIDE DEF c
  <2> QED BY <2>1, RowsStay, BookStays, CallsMoveBy DEF StepMoves
<1>6. ASSUME NEW u \in Users, NEW i \in Instances, ReadForHide(u, i)
      PROVE  StepMoves
  <2> DEFINE c == [op |-> "hiding", at |-> i]
  <2>1. /\ UNCHANGED <<requests, book>>
        /\ call' = [call EXCEPT ![u] = c] /\ c.op # "deciding"
    BY <1>6 DEF ReadForHide, Begins
  <2> HIDE DEF c
  <2> QED BY <2>1, RowsStay, BookStays, CallsMoveBy DEF StepMoves
<1>7. ASSUME NEW u \in Users, NEW i \in Instances, ReadForRestore(u, i)
      PROVE  StepMoves
  <2> DEFINE c == [op |-> "restoring", at |-> i]
  <2>1. /\ UNCHANGED <<requests, book>>
        /\ call' = [call EXCEPT ![u] = c] /\ c.op # "deciding"
    BY <1>7 DEF ReadForRestore, Begins
  <2> HIDE DEF c
  <2> QED BY <2>1, RowsStay, BookStays, CallsMoveBy DEF StepMoves
<1>8. ASSUME NEW u \in Users, NEW i \in Instances, Edit(u, i)
      PROVE  StepMoves
  <2>1. UNCHANGED requests /\ call' = Overtaken(i)
    BY <1>8 DEF Edit
  <2>2. CallsMove
    BY <2>1, OvertakenCalls DEF CallsMove
  <2> QED BY <1>8, <2>1, <2>2, RowsStay, EditMoves DEF StepMoves
<1>9. ASSUME NEW u \in Users, NEW i \in Instances, DeleteFiles(u, i)
      PROVE  StepMoves
  <2> DEFINE c == [op |-> "deleting", at |-> i]
  <2>1. /\ UNCHANGED requests
        /\ call' = [call EXCEPT ![u] = c] /\ c.op # "deciding"
    BY <1>9 DEF DeleteFiles, Begins
  <2>2. book'.meta = book.meta /\ book'.text = book.text /\ book'.status = book.status
    BY <1>9 DEF DeleteFiles
  <2>3. ContentMoves /\ Removes
    BY <2>2, ContentStays DEF Removes, Public
  <2> HIDE DEF c
  <2> QED BY <2>1, <2>3, RowsStay, CallsMoveBy DEF StepMoves
<1>10. ASSUME NEW u \in Users, Revise(u)
       PROVE  StepMoves
  <2> DEFINE c == [op |-> "revised", at |-> call[u].at, type |-> call[u].type,
                   revision |-> [meta |-> call[u].meta, text |-> book.text]]
  <2>1. /\ UNCHANGED <<requests, book>>
        /\ call' = [call EXCEPT ![u] = c] /\ c.op # "deciding"
    BY <1>10 DEF Revise
  <2> HIDE DEF c
  <2> QED BY <2>1, RowsStay, BookStays, CallsMoveBy DEF StepMoves
<1>11. ASSUME NEW u \in Users, Insert(u)
       PROVE  StepMoves
  <2>1. Ends(u) /\ UNCHANGED book
    BY <1>11 DEF Insert
  <2> QED BY <1>11, <2>1, InsertMoves, BookStays, CallsEnd DEF StepMoves
<1>12. ASSUME NEW u \in Users, Invalidate(u)
       PROVE  StepMoves
  <2>1. Ends(u) /\ UNCHANGED book
    BY <1>12 DEF Invalidate
  <2> QED BY <1>12, <2>1, InvalidateMoves, RowsMoveBy, BookStays, CallsEnd DEF StepMoves
<1>13. ASSUME NEW u \in Users, Decide(u)
       PROVE  StepMoves
  <2>1. Ends(u)
    BY <1>13 DEF Decide
  <2>2. CASE UNCHANGED book
    BY <1>13, <2>1, <2>2, DecideMoves, RowsMoveBy, BookStays, CallsEnd DEF StepMoves
  <2>3. ASSUME NEW type, NEW v, book' = [book EXCEPT !.status = StatusAfter(type, v)]
        PROVE  StepMoves
    <3>1. ContentMoves /\ Removes
      BY <2>3, DecisionRemoves, StatusMoves
    <3> QED BY <1>13, <2>1, <3>1, DecideMoves, RowsMoveBy, CallsEnd DEF StepMoves
  <2> QED BY <1>13, <2>2, <2>3 DEF Decide
<1>14. ASSUME NEW u \in Users, Operate(u)
       PROVE  StepMoves
  <2>1. Ends(u) /\ UNCHANGED book /\ call[u].req \in Rows
    BY <1>14 DEF Operate, OperatesOnRows
  <2> QED BY <1>14, <2>1, OperateMoves, RowsMoveBy, BookStays, CallsEnd DEF StepMoves
<1>15. ASSUME NEW u \in Users, Hide(u)
       PROVE  StepMoves
  <2>1. Ends(u) /\ book' = [book EXCEPT !.status = "removed"]
    BY <1>15 DEF Hide
  <2>2. ContentMoves /\ Removes
    BY <2>1, StatusMoves
  <2> QED BY <1>15, <2>1, <2>2, HideMoves, RowsMoveBy, CallsEnd DEF StepMoves
<1>16. ASSUME NEW u \in Users, Restore(u)
       PROVE  StepMoves
  <2>1. Ends(u) /\ UNCHANGED requests /\ book' = [book EXCEPT !.status = "approved"]
    BY <1>16 DEF Restore
  <2>2. ContentMoves /\ Removes
    BY <2>1, StatusMoves
  <2> QED BY <2>1, <2>2, RowsStay, CallsEnd DEF StepMoves
<1>17. ASSUME NEW u \in Users, DeleteRow(u)
       PROVE  StepMoves
  <2>1. Ends(u) /\ UNCHANGED requests
    BY <1>17 DEF DeleteRow
  <2>2. book'.meta = book.meta /\ book'.text = book.text /\ book'.status = book.status
    BY <1>17, SMT DEF DeleteRow, TypeOK, Book
  <2>3. ContentMoves /\ Removes
    BY <2>2, ContentStays DEF Removes, Public
  <2> QED BY <2>1, <2>3, RowsStay, CallsEnd DEF StepMoves
<1>18. CASE UNCHANGED vars
  <2>1. UNCHANGED book /\ UNCHANGED call /\ UNCHANGED requests
    BY <1>18 DEF vars
  <2>2. Owner \in Users
    BY DEF Users, CanRequest
  <2> QED BY <2>1, <2>2, RowsStay, BookStays, CallsEnd DEF StepMoves
<1> QED
  BY <1>1, <1>2, <1>3, <1>4, <1>5, <1>6, <1>7, <1>8, <1>9, <1>10, <1>11,
     <1>12, <1>13, <1>14, <1>15, <1>16, <1>17, <1>18,
     ReachedInstances DEF Next

-----------------------------------------------------------------------------
(* The claims.                                                             *)

(* A handler that decides a request has claimed it: the row exists, has    *)
(* left SUBMITTED for good and carries the handler's account, even when    *)
(* the request ended in the meantime.                                      *)
DecidesOwnClaim ==
  \A u \in Users : call[u].op = "deciding" =>
    /\ call[u].req \in Rows
    /\ requests[call[u].req].status # "SUBMITTED"
    /\ requests[call[u].req].reviewer = u

(* What a handler found fresh is still the content of the book, unless a   *)
(* save on another instance has overtaken it.                              *)
FreshIsCurrent ==
  \A u \in Users : call[u].op = "deciding" /\ call[u].fresh /\ ~call[u].overtaken =>
    requests[call[u].req].revision = CurrentRevision

(* A row that has left SUBMITTED keeps what it is about and who claimed it. *)
LEMMA ClaimLasts ==
  ASSUME TypeInv, StepMoves, Lasting, NEW s \in Rows, requests[s].status # "SUBMITTED"
  PROVE  /\ SameMatter(requests'[s], requests[s])
         /\ requests'[s].status # "SUBMITTED" /\ s \in Rows'
<1>1. PICK u \in Users : RowMoves(u, s)
  BY DEF StepMoves, RowsMove
<1>2. s \in Rows'
  BY DEF Lasting
<1> QED BY <1>1, <1>2 DEF RowMoves, Waited, Lapsed, Answered, Overruled, SameMatter

LEMMA ClaimsHold ==
  ASSUME TypeInv, StepMoves, Lasting, DecidesOwnClaim
  PROVE  DecidesOwnClaim'
<1> SUFFICES ASSUME NEW w \in Users, call'[w].op = "deciding"
             PROVE  /\ call'[w].req \in Rows'
                    /\ requests'[call'[w].req].status # "SUBMITTED"
                    /\ requests'[call'[w].req].reviewer = w
  BY DEF DecidesOwnClaim
<1>1. CASE call'[w] = call[w]
  <2> DEFINE s == call[w].req
  <2>1. s \in Rows /\ requests[s].status # "SUBMITTED" /\ requests[s].reviewer = w
    BY <1>1 DEF DecidesOwnClaim
  <2>2. SameMatter(requests'[s], requests[s]) /\ requests'[s].status # "SUBMITTED" /\ s \in Rows'
    BY <2>1, ClaimLasts
  <2> QED BY <1>1, <2>1, <2>2 DEF SameMatter
<1>2. CASE ReadsForDecision(w)
  <2>1. PICK i \in Instances, r \in Ids, v \in {"approve", "reject"} : ReadForDecision(w, i, r, v)
    BY <1>2 DEF ReadsForDecision
  <2>2. /\ r \in Rows /\ requests[r].status = "IN_REVIEW" /\ requests[r].reviewer = w
        /\ UNCHANGED requests
        /\ call' = [call EXCEPT ![w] = [op |-> "deciding", at |-> i, req |-> r, verdict |-> v,
                                        fresh |-> Fresh(r), overtaken |-> FALSE]]
    BY <2>1 DEF ReadForDecision, MayDecide, Begins
  <2>3. call'[w].req = r
    BY <2>2 DEF TypeInv, TypeOK
  <2>4. r \in Rows'
    BY <2>2 DEF Rows
  <2> QED BY <2>2, <2>3, <2>4
<1>3. CASE Marked(w)
  <2> DEFINE s == call[w].req
  <2>1. /\ s \in Rows /\ requests[s].status # "SUBMITTED" /\ requests[s].reviewer = w
        /\ call'[w].req = s
    BY <1>3 DEF DecidesOwnClaim, Marked
  <2>2. SameMatter(requests'[s], requests[s]) /\ requests'[s].status # "SUBMITTED" /\ s \in Rows'
    BY <2>1, ClaimLasts
  <2> QED BY <2>1, <2>2 DEF SameMatter
<1> QED BY <1>1, <1>2, <1>3 DEF StepMoves, CallsMove

LEMMA FreshHolds ==
  ASSUME TypeInv, StepMoves, Lasting, DecidesOwnClaim, FreshIsCurrent
  PROVE  FreshIsCurrent'
<1> SUFFICES ASSUME NEW w \in Users, call'[w].op = "deciding", call'[w].fresh,
                    ~call'[w].overtaken
             PROVE  requests'[call'[w].req].revision = CurrentRevision'
  BY DEF FreshIsCurrent
<1>1. CASE call'[w] = call[w]
  <2> DEFINE s == call[w].req
  <2>1. /\ s \in Rows /\ requests[s].status # "SUBMITTED"
        /\ requests[s].revision = CurrentRevision
    BY <1>1 DEF DecidesOwnClaim, FreshIsCurrent
  <2>2. SameMatter(requests'[s], requests[s])
    BY <2>1, ClaimLasts
  <2>3. ASSUME NEW i \in Instances, LockFree(i), call' = Overtaken(i)
        PROVE  FALSE
    <3>1. call[w].op = "deciding" /\ call[w].fresh /\ call[w].at # i
      BY <1>1, <2>3 DEF LockFree, InTransaction
    <3>2. call'[w] = [call[w] EXCEPT !.overtaken = TRUE]
      BY <2>3, <3>1 DEF Overtaken
    <3>3. call[w] \in DecidingCall
      BY <3>1, CallFields DEF TypeInv, TypeOK
    <3>4. call'[w].overtaken
      <4> DEFINE c == call[w]
      <4> HIDE DEF c
      <4>1. c \in DecidingCall => [c EXCEPT !.overtaken = TRUE].overtaken
        BY SMT DEF DecidingCall
      <4> QED BY <3>2, <3>3, <4>1 DEF c
    <3> QED BY <3>4
  <2>4. CurrentRevision' = CurrentRevision
    BY <2>3 DEF StepMoves, ContentMoves
  <2> QED BY <1>1, <2>1, <2>2, <2>4 DEF SameMatter
<1>2. CASE ReadsForDecision(w)
  <2>1. PICK i \in Instances, r \in Ids, v \in {"approve", "reject"} : ReadForDecision(w, i, r, v)
    BY <1>2 DEF ReadsForDecision
  <2>2. /\ UNCHANGED <<book, requests>>
        /\ call' = [call EXCEPT ![w] = [op |-> "deciding", at |-> i, req |-> r, verdict |-> v,
                                        fresh |-> Fresh(r), overtaken |-> FALSE]]
    BY <2>1 DEF ReadForDecision, Begins
  <2>3. call'[w].req = r /\ call'[w].fresh = Fresh(r)
    BY <2>2 DEF TypeInv, TypeOK
  <2>4. CurrentRevision = requests[r].revision
    BY <2>3 DEF Fresh
  <2> QED BY <2>2, <2>3, <2>4 DEF CurrentRevision
<1>3. CASE Marked(w)
  BY <1>3 DEF Marked
<1> QED BY <1>1, <1>2, <1>3 DEF StepMoves, CallsMove

ClaimInv == TypeInv /\ DecidesOwnClaim

LEMMA ClaimsInductive ==
  /\ Init => ClaimInv
  /\ ClaimInv /\ [Next]_vars => ClaimInv'
<1>1. ASSUME Init PROVE ClaimInv
  <2>1. TypeInv /\ \A u \in Users : call[u] = Idle
    BY <1>1, InitTyped
  <2> QED BY <2>1 DEF ClaimInv, DecidesOwnClaim, Idle
<1>2. ASSUME ClaimInv, [Next]_vars PROVE ClaimInv'
  BY <1>2, NextTyped, NextMoves, ClaimsHold DEF ClaimInv
<1> QED BY <1>1, <1>2

(* A claimed request leaves the review only by an act of the account that  *)
(* claimed it, or by an emergency hide: on any number of web instances,    *)
(* whatever the handlers read before their transactions.                   *)
THEOREM ClaimsAreExclusive == Spec => ClaimIsExclusive
<1>1. ASSUME ClaimInv, [Next]_vars,
             NEW r \in Rows, requests[r].status = "IN_REVIEW", requests'[r].status # "IN_REVIEW"
      PROVE  LET end == Last(requests'[r].events)
             IN end.by = requests[r].reviewer \/ end.kind = "privileged_override"
  <2>1. PICK u \in Users : RowMoves(u, r)
    BY <1>1, NextMoves DEF ClaimInv, StepMoves, RowsMove
  <2>2. Lapsed(u, r) \/ Answered(u, r) \/ Overruled(r)
    BY <1>1, <2>1 DEF RowMoves, Waited
  <2>3. call[u].op = "deciding" /\ call[u].req = r => requests[r].reviewer = u
    BY <1>1 DEF ClaimInv, DecidesOwnClaim
  <2> QED BY <2>2, <2>3 DEF Lapsed, Answered, Overruled, LastBy
<1>2. ClaimInv /\ [Next]_vars =>
        [\A r \in Rows :
           requests[r].status = "IN_REVIEW" /\ requests'[r].status # "IN_REVIEW"
             => LET end == Last(requests'[r].events)
                IN end.by = requests[r].reviewer \/ end.kind = "privileged_override"]_vars
  BY <1>1
<1> QED BY <1>2, ClaimsInductive, PTL DEF Spec, ClaimIsExclusive

(* No decision, hide, restore or edit turns a public book that stays into  *)
(* anything but a removed one: in particular a late rejection of a publish *)
(* request does not, on any number of web instances.                       *)
THEOREM PublicBooksStayOrAreRemoved == Spec => PublicBooksAreOnlyRemoved
<1>1. TypeInv /\ [Next]_vars =>
        [Public /\ book'.exists /\ book'.status # "approved" => book'.status = "removed"]_vars
  BY NextMoves DEF StepMoves, Removes
<1>2. Init => TypeInv
  BY InitTyped
<1>3. TypeInv /\ [Next]_vars => TypeInv'
  BY NextTyped
<1> QED BY <1>1, <1>2, <1>3, PTL DEF Spec, PublicBooksAreOnlyRemoved

(* A reviewer approves exactly the revision that was submitted, on any     *)
(* number of web instances and with any number of edits and requests: the  *)
(* lock of the process keeps its own editors out between the comparison    *)
(* and the decision, and what escapes is one order only, a save that       *)
(* another instance commits between the two.                               *)
THEOREM DecisionsAreOnTheSubmitted == Spec => ApprovedAsSubmitted
<1> DEFINE Inv == ClaimInv /\ FreshIsCurrent
<1>1. Init => Inv
  <2> SUFFICES ASSUME Init PROVE Inv
    OBVIOUS
  <2>1. \A u \in Users : call[u] = Idle
    BY InitTyped
  <2>2. FreshIsCurrent
    BY <2>1 DEF FreshIsCurrent, Idle
  <2> QED BY <2>2, ClaimsInductive
<1>2. Inv /\ [Next]_vars => Inv'
  BY ClaimsInductive, NextTyped, NextMoves, FreshHolds DEF ClaimInv
<1>3. ASSUME Inv, [Next]_vars,
             NEW r \in Rows, requests[r].status # "APPROVED", requests'[r].status = "APPROVED"
      PROVE  \/ requests[r].revision = CurrentRevision
             \/ \E u \in Users : call[u].op = "deciding" /\ call[u].req = r
                                /\ call'[u] = Idle /\ call[u].overtaken
  <2>1. PICK u \in Users : RowMoves(u, r)
    BY <1>3, NextMoves DEF ClaimInv, StepMoves, RowsMove
  <2>2. Answered(u, r)
    BY <1>3, <2>1 DEF RowMoves, Waited, Lapsed, Overruled
  <2>3. CASE call[u].overtaken
    BY <2>2, <2>3 DEF Answered
  <2>4. CASE ~call[u].overtaken
    BY <1>3, <2>2, <2>4 DEF Answered, FreshIsCurrent
  <2> QED BY <2>3, <2>4
<1>4. Inv /\ [Next]_vars =>
        [\A r \in Rows :
           requests[r].status # "APPROVED" /\ requests'[r].status = "APPROVED"
             => \/ requests[r].revision = CurrentRevision
                \/ \E u \in Users : call[u].op = "deciding" /\ call[u].req = r
                                   /\ call'[u] = Idle /\ call[u].overtaken]_vars
  BY <1>3
<1> HIDE DEF Inv
<1> QED BY <1>1, <1>2, <1>4, PTL DEF Spec, ApprovedAsSubmitted
=============================================================================
