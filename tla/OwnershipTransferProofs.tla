---------------------- MODULE OwnershipTransferProofs -----------------------
(***************************************************************************)
(* Theorems about OwnershipTransfer, for every set of books and accounts,  *)
(* every assignment of roles and any number of requests.                   *)
(***************************************************************************)
EXTENDS OwnershipTransfer, FiniteSetTheorems, SequenceTheorems, TLAPS

-----------------------------------------------------------------------------
(* The inductive invariant *)

Tables ==
  /\ TypeOK
  /\ \A i \in DOMAIN log : log[i].req \in Ids

\* Requests as _expire_due_locked leaves them: what nobody answered in time was
\* not answered.
DueIsNotAnswered ==
  \A r \in due : requests[r].status \notin {"TARGET_ACCEPTED", "IN_REVIEW"}

\* The unique index.
OneOpen ==
  \A q, r \in Ids :
    /\ requests[q].book = requests[r].book
    /\ requests[q].status \in ACTIVE_STATES /\ requests[r].status \in ACTIVE_STATES
    => q = r

\* The log tells who did what the row has come to.
Told(events, r, kind, u) ==
  \E i \in DOMAIN events : events[i].req = r /\ events[i].kind = kind /\ events[i].by = u

RowsAreTold ==
  \A r \in Ids :
    LET row == requests[r] IN
    /\ row.mode = "normal" => row.requester = row.owner /\ Told(log, r, "submitted", row.owner)
    /\ row.mode = "emergency" => row.status = "COMPLETED"
    /\ row.status \in {"TARGET_ACCEPTED", "IN_REVIEW"} => Told(log, r, "target_accepted", row.target)
    /\ row.status = "IN_REVIEW" => Told(log, r, "review_started", row.reviewer)

IInv == Tables /\ DueIsNotAnswered /\ OneOpen /\ RowsAreTold /\ HistoryReplays /\ TransfersAreAgreed

-----------------------------------------------------------------------------
(* What an operation writes: the expiry of some requests, then one row and its *)
(* event, or none.                                                          *)

\* The columns that are written once.
SameRequest(row, next) ==
  /\ next.book = row.book /\ next.requester = row.requester /\ next.owner = row.owner
  /\ next.target = row.target /\ next.mode = row.mode /\ next.revision = row.revision

Lapsed(r) == [requests[r] EXCEPT !.status = "EXPIRED"]

New == (Len(log) + 1) .. Len(log')

Written(lapsed, changed, row, event) ==
  /\ requests' \in Seq(Row) /\ Len(requests') <= MaxRequests /\ Ids' = Ids \cup changed
  /\ \A r \in lapsed : r \in Ids /\ Expires(r) /\ requests'[r] = Lapsed(r)
  /\ \A r \in changed : requests'[r] = row /\ event.req = r
  /\ \A r \in Ids \ (lapsed \cup changed) : requests'[r] = requests[r]
  /\ log' \in Seq(Event) /\ Len(log) <= Len(log')
  /\ \A i \in DOMAIN log : log'[i] = log[i]
  /\ \A i \in New :
       \/ log'[i].req \in lapsed /\ log'[i] = Expiry(log'[i].req)
       \/ log'[i].req \in changed /\ log'[i] = event /\ i = Len(log')
  /\ \A i, j \in New : log'[i].req = log'[j].req => i = j
  /\ \A r \in lapsed \cup changed : \E i \in New : log'[i].req = r

LEMMA RowFacts ==
  ASSUME TypeOK, NEW r \in Ids
  PROVE  /\ requests[r] \in Row /\ Lapsed(r) \in Row
         /\ SameRequest(requests[r], Lapsed(r)) /\ Lapsed(r).reviewer = requests[r].reviewer
         /\ Lapsed(r).status = "EXPIRED"
<1>1. requests[r] \in Row
  BY DEF TypeOK, Ids
<1> QED BY <1>1 DEF Row, Lapsed, SameRequest, STATES, TERMINAL_STATES

LEMMA TableFacts ==
  ASSUME TypeOK
  PROVE  /\ Len(requests) \in Nat /\ Ids = 1 .. Len(requests) /\ Len(requests) <= MaxRequests
         /\ Len(log) \in Nat /\ DOMAIN log = 1 .. Len(log) /\ MaxRequests \in Nat
         /\ \A i \in DOMAIN log : log[i] \in Event
         /\ IsFiniteSet(Ids) /\ Due \subseteq Ids /\ Cardinality(Due) \in Nat
<1>1. /\ Len(requests) \in Nat /\ Ids = 1 .. Len(requests) /\ Len(requests) <= MaxRequests
      /\ Len(log) \in Nat /\ DOMAIN log = 1 .. Len(log) /\ MaxRequests \in Nat
      /\ \A i \in DOMAIN log : log[i] \in Event
  BY MaxRequestsIsNat DEF TypeOK, Ids
<1>2. IsFiniteSet(Ids)
  BY <1>1, FS_Interval
<1>3. Due \subseteq Ids
  BY DEF Due
<1>4. Cardinality(Due) \in Nat
  BY <1>2, <1>3, FS_Subset, FS_CardinalityType
<1> QED BY <1>1, <1>2, <1>3, <1>4

\* The ids of a list in their order, each once; every request that is due has one,
\* as there are as many of them.
LEMMA ByIdFacts ==
  ASSUME TypeOK, NEW ids \in ById
  PROVE  /\ ids \in Seq(Due) /\ Len(ids) = Cardinality(Due) /\ DOMAIN ids = 1 .. Cardinality(Due)
         /\ \A i, j \in DOMAIN ids : ids[i] = ids[j] => i = j
         /\ \A r \in Due : \E i \in DOMAIN ids : ids[i] = r
<1> DEFINE n == Cardinality(Due)
<1>1. n \in Nat /\ (\A r \in Due : r \in Nat) /\ IsFiniteSet(Due)
  BY TableFacts, FS_Subset
<1>2. ids \in [1 .. n -> Due] /\ \A i, j \in 1 .. n : i < j => ids[i] < ids[j]
  BY DEF ById
<1> HIDE DEF n
<1>3. \A i, j \in 1 .. n : ids[i] = ids[j] => i = j
  <2>1. \A i \in 1 .. n : ids[i] \in Nat /\ i \in Nat
    BY <1>1, <1>2
  <2> QED BY <1>2, <2>1
<1>4. ids \in Injection(1 .. n, Due)
  BY <1>2, <1>3 DEF Injection, IsInjective
<1>5. IsFiniteSet(1 .. n) /\ Cardinality(1 .. n) = n
  BY <1>1, FS_Interval
<1>6. ids \in Surjection(1 .. n, Due)
  BY <1>1, <1>4, <1>5, FS_Injection DEF n
<1>7. \A r \in Due : \E i \in 1 .. n : ids[i] = r
  BY <1>6 DEF Surjection
<1>8. ids \in Seq(Due) /\ Len(ids) = n /\ DOMAIN ids = 1 .. n
  <2>1. DOMAIN ids = 1 .. n
    BY <1>2
  <2>2. ids \in Seq(Due)
    BY <1>1, <1>2, SeqDef
  <2>3. Len(ids) \in Nat /\ DOMAIN ids = 1 .. Len(ids)
    BY <2>2, LenProperties
  <2> QED BY <1>1, <2>1, <2>2, <2>3
<1> QED BY <1>3, <1>7, <1>8 DEF n

LEMMA ExpiryFacts ==
  ASSUME TypeOK, NEW r \in Ids
  PROVE  Expiry(r) \in Event /\ Expiry(r).req = r
<1>1. r \in 1 .. MaxRequests
  BY TableFacts
<1> QED BY <1>1 DEF Expiry, Entry, Event, EVENT_TYPES, STATES, ACTIVE_STATES, TERMINAL_STATES

LEMMA LogsFacts ==
  ASSUME TypeOK, NEW events \in Seq(Event), Logs(events)
  PROVE  LET n == Len(log) + Cardinality(Due) IN
         /\ n \in Nat /\ Len(log) <= n
         /\ log' \in Seq(Event) /\ Len(log') = n + Len(events) /\ DOMAIN log' = 1 .. Len(log')
         /\ \A i \in DOMAIN log : log'[i] = log[i]
         /\ \A i \in (Len(log) + 1) .. n : log'[i].req \in Due /\ log'[i] = Expiry(log'[i].req)
         /\ \A i, j \in (Len(log) + 1) .. n : log'[i].req = log'[j].req => i = j
         /\ \A r \in Due : \E i \in (Len(log) + 1) .. n : log'[i].req = r
         /\ \A i \in 1 .. Len(events) : log'[n + i] = events[i]
<1>1. PICK ids \in ById :
        log' = log \o [k \in DOMAIN ids |-> Expiry(ids[k])] \o events
  BY DEF Logs
<1> DEFINE m == Cardinality(Due)
           l == Len(log)
           n == l + m
           expiries == [k \in DOMAIN ids |-> Expiry(ids[k])]
<1>2. /\ l \in Nat /\ m \in Nat /\ DOMAIN log = 1 .. l /\ log \in Seq(Event)
      /\ Len(events) \in Nat
  BY TableFacts DEF TypeOK
<1>3. /\ DOMAIN ids = 1 .. m
      /\ \A k \in 1 .. m : ids[k] \in Due /\ Expiry(ids[k]) \in Event /\ Expiry(ids[k]).req = ids[k]
      /\ \A i, j \in 1 .. m : ids[i] = ids[j] => i = j
      /\ \A r \in Due : \E i \in 1 .. m : ids[i] = r
  <2>1. \A k \in 1 .. m : ids[k] \in Due
    BY ByIdFacts
  <2> QED BY SMTT(25), <2>1, ByIdFacts, ExpiryFacts, TableFacts
<1>4. /\ expiries \in Seq(Event) /\ Len(expiries) = m
      /\ \A k \in 1 .. m : expiries[k] = Expiry(ids[k])
  <2>1. expiries \in [1 .. m -> Event] /\ \A k \in 1 .. m : expiries[k] = Expiry(ids[k])
    BY <1>3
  <2> HIDE DEF expiries
  <2>2. expiries \in Seq(Event) /\ DOMAIN expiries = 1 .. m
    BY <1>2, <2>1, SeqDef
  <2>3. Len(expiries) \in Nat /\ DOMAIN expiries = 1 .. Len(expiries)
    BY <2>2, LenProperties
  <2> QED BY <1>2, <2>1, <2>2, <2>3
<1>5. log' = (log \o expiries) \o events
  BY <1>1
<1> HIDE DEF m, l, expiries
<1> DEFINE first == log \o expiries
<1>6. /\ first \in Seq(Event) /\ Len(first) = l + m
      /\ \A i \in 1 .. l + m : first[i] = IF i <= l THEN log[i] ELSE expiries[i - l]
  BY <1>2, <1>4, ConcatProperties DEF l
<1> HIDE DEF first
<1>7. /\ log' \in Seq(Event) /\ Len(log') = (l + m) + Len(events)
      /\ \A i \in 1 .. (l + m) + Len(events) :
           log'[i] = IF i <= l + m THEN first[i] ELSE events[i - (l + m)]
  BY <1>5, <1>6, ConcatProperties DEF first
<1>8. DOMAIN log' = 1 .. Len(log')
  BY <1>7, LenProperties
<1>9. \A i \in 1 .. l : log'[i] = log[i]
  BY <1>2, <1>6, <1>7
<1>10. \A k \in 1 .. m : log'[l + k] = Expiry(ids[k]) /\ log'[l + k].req = ids[k]
  <2> SUFFICES ASSUME NEW k \in 1 .. m
               PROVE  log'[l + k] = Expiry(ids[k]) /\ log'[l + k].req = ids[k]
    OBVIOUS
  <2>1. l + k \in 1 .. l + m /\ ~(l + k <= l) /\ (l + k) - l = k
    BY <1>2
  <2>2. first[l + k] = expiries[k]
    BY <1>6, <2>1
  <2>3. log'[l + k] = first[l + k]
    BY <1>2, <1>7, <2>1
  <2> QED BY <1>3, <1>4, <2>2, <2>3
<1>11. \A i \in (l + 1) .. (l + m) : i - l \in 1 .. m /\ i = l + (i - l)
  BY <1>2
<1>12. \A i \in (l + 1) .. (l + m) : log'[i].req = ids[i - l] /\ log'[i] = Expiry(ids[i - l])
  <2> SUFFICES ASSUME NEW i \in (l + 1) .. (l + m)
               PROVE  log'[i].req = ids[i - l] /\ log'[i] = Expiry(ids[i - l])
    OBVIOUS
  <2>1. PICK k \in 1 .. m : k = i - l /\ l + k = i
    BY <1>11
  <2> QED BY <1>10, <2>1
<1>13. \A i \in (l + 1) .. (l + m) : log'[i].req \in Due /\ log'[i] = Expiry(log'[i].req)
  BY <1>3, <1>11, <1>12
<1>14. \A i, j \in (l + 1) .. (l + m) : log'[i].req = log'[j].req => i = j
  <2> SUFFICES ASSUME NEW i \in (l + 1) .. (l + m), NEW j \in (l + 1) .. (l + m),
                      log'[i].req = log'[j].req
               PROVE  i = j
    OBVIOUS
  <2>1. i - l = j - l
    BY <1>3, <1>11, <1>12
  <2> QED BY <1>2, <2>1
<1>15. \A r \in Due : \E i \in (l + 1) .. (l + m) : log'[i].req = r
  <2> SUFFICES ASSUME NEW r \in Due PROVE \E i \in (l + 1) .. (l + m) : log'[i].req = r
    OBVIOUS
  <2>1. PICK k \in 1 .. m : ids[k] = r
    BY <1>3
  <2>2. l + k \in (l + 1) .. (l + m)
    BY <1>2
  <2> QED BY <1>10, <2>1, <2>2
<1>16. \A i \in 1 .. Len(events) : log'[(l + m) + i] = events[i]
  <2> SUFFICES ASSUME NEW i \in 1 .. Len(events) PROVE log'[(l + m) + i] = events[i]
    OBVIOUS
  <2>1. (l + m) + i \in 1 .. (l + m) + Len(events) /\ ~((l + m) + i <= l + m)
        /\ ((l + m) + i) - (l + m) = i
    BY <1>2
  <2> QED BY <1>7, <2>1
<1>17. l + m \in Nat /\ l <= l + m
  BY <1>2
<1> QED BY <1>2, <1>7, <1>8, <1>9, <1>13, <1>14, <1>15, <1>16, <1>17 DEF l, m, n

\* One event is appended after the expiries, or none.
LEMMA LogsOne ==
  ASSUME TypeOK, NEW event \in Event, event.req \notin Due, Logs(<<event>>)
  PROVE  /\ log' \in Seq(Event) /\ Len(log) <= Len(log') /\ Len(log') \in New
         /\ \A i \in DOMAIN log : log'[i] = log[i]
         /\ \A i \in New : \/ log'[i].req \in Due /\ log'[i] = Expiry(log'[i].req)
                           \/ log'[i] = event /\ i = Len(log')
         /\ \A i, j \in New : log'[i].req = log'[j].req => i = j
         /\ \A r \in Due \cup {event.req} : \E i \in New : log'[i].req = r
<1> DEFINE n == Len(log) + Cardinality(Due)
           events == <<event>>
<1>1. events \in Seq(Event) /\ Len(events) = 1 /\ events[1] = event /\ Len(log) \in Nat
  BY TableFacts
<1> HIDE DEF events
<1>2. /\ n \in Nat /\ Len(log) <= n /\ log' \in Seq(Event) /\ Len(log') = n + 1
      /\ \A i \in DOMAIN log : log'[i] = log[i]
      /\ \A i \in (Len(log) + 1) .. n : log'[i].req \in Due /\ log'[i] = Expiry(log'[i].req)
      /\ \A i, j \in (Len(log) + 1) .. n : log'[i].req = log'[j].req => i = j
      /\ \A r \in Due : \E i \in (Len(log) + 1) .. n : log'[i].req = r
      /\ log'[n + 1] = event
  <2>1. /\ n \in Nat /\ Len(log) <= n /\ log' \in Seq(Event) /\ Len(log') = n + Len(events)
        /\ \A i \in DOMAIN log : log'[i] = log[i]
        /\ \A i \in (Len(log) + 1) .. n : log'[i].req \in Due /\ log'[i] = Expiry(log'[i].req)
        /\ \A i, j \in (Len(log) + 1) .. n : log'[i].req = log'[j].req => i = j
        /\ \A r \in Due : \E i \in (Len(log) + 1) .. n : log'[i].req = r
        /\ \A i \in 1 .. Len(events) : log'[n + i] = events[i]
    <3>1. Logs(events)
      BY DEF events
    <3> QED BY <1>1, <3>1, LogsFacts
  <2>2. 1 \in 1 .. Len(events)
    BY <1>1
  <2> HIDE DEF n
  <2> QED BY <1>1, <2>1, <2>2
<1> HIDE DEF n
<1>3. New = ((Len(log) + 1) .. n) \cup {n + 1}
  BY <1>1, <1>2 DEF New
<1>4. \A i, j \in New : log'[i].req = log'[j].req => i = j
  BY <1>2, <1>3
<1>5. \A r \in Due \cup {event.req} : \E i \in New : log'[i].req = r
  BY <1>2, <1>3
<1>6. Len(log) <= Len(log')
  BY <1>1, <1>2
<1> QED BY <1>2, <1>3, <1>4, <1>5, <1>6

LEMMA LogsNone ==
  ASSUME TypeOK, Logs(<< >>)
  PROVE  /\ log' \in Seq(Event) /\ Len(log) <= Len(log')
         /\ \A i \in DOMAIN log : log'[i] = log[i]
         /\ \A i \in New : log'[i].req \in Due /\ log'[i] = Expiry(log'[i].req)
         /\ \A i, j \in New : log'[i].req = log'[j].req => i = j
         /\ \A r \in Due : \E i \in New : log'[i].req = r
<1> DEFINE events == << >>
<1>1. events \in Seq(Event) /\ Len(events) = 0
  OBVIOUS
<1> HIDE DEF events
<1>2. Logs(events)
  BY DEF events
<1> DEFINE n == Len(log) + Cardinality(Due)
<1>3. /\ n \in Nat /\ Len(log) <= n /\ log' \in Seq(Event) /\ Len(log') = n + Len(events)
      /\ \A i \in DOMAIN log : log'[i] = log[i]
      /\ \A i \in (Len(log) + 1) .. n : log'[i].req \in Due /\ log'[i] = Expiry(log'[i].req)
      /\ \A i, j \in (Len(log) + 1) .. n : log'[i].req = log'[j].req => i = j
      /\ \A r \in Due : \E i \in (Len(log) + 1) .. n : log'[i].req = r
  BY <1>1, <1>2, LogsFacts
<1> HIDE DEF n
<1>4. Len(log') = n
  BY <1>1, <1>3
<1> QED BY <1>3, <1>4 DEF New

LEMMA ExpiredFacts ==
  ASSUME TypeOK
  PROVE  /\ Expired \in Seq(Row) /\ Len(Expired) = Len(requests) /\ DOMAIN Expired = Ids
         /\ \A r \in Due : r \in Ids /\ Expires(r) /\ Expired[r] = Lapsed(r)
         /\ \A r \in Ids \ Due : ~Expires(r) /\ Expired[r] = requests[r]
<1>1. Len(requests) \in Nat /\ Ids = 1 .. Len(requests)
  BY TableFacts
<1>2. \A r \in Ids : Expired[r] \in Row
  BY RowFacts DEF Expired, Lapsed
<1>3. DOMAIN Expired = Ids /\ Expired \in [1 .. Len(requests) -> Row]
  BY <1>1, <1>2 DEF Expired
<1>4. Expired \in Seq(Row)
  BY <1>1, <1>3, SeqDef
<1>5. Len(Expired) = Len(requests)
  BY <1>1, <1>3, <1>4, LenProperties
<1> QED BY <1>3, <1>4, <1>5 DEF Expired, Due, Lapsed

LEMMA MovesWrites ==
  ASSUME TypeOK, NEW r \in Ids, ~Expires(r), NEW row \in Row, NEW kind \in EVENT_TYPES,
         NEW by \in Users \cup {None}, NEW prev \in Users \cup {None}, NEW new \in Users \cup {None},
         Moves(r, row, kind, by, prev, new)
  PROVE  Written(Due, {r}, row, Entry(r, kind, requests[r].status, row.status, by, prev, new))
<1> DEFINE event == Entry(r, kind, requests[r].status, row.status, by, prev, new)
<1>1. r \in 1 .. MaxRequests /\ Len(requests) <= MaxRequests
  BY TableFacts
<1>2. requests[r].status \in STATES /\ row.status \in STATES
  BY RowFacts DEF Row
<1>3. event \in Event /\ event.req = r /\ r \notin Due
  BY <1>1, <1>2 DEF Entry, Event, Due
<1> HIDE DEF event
<1>4. Logs(<<event>>)
  BY DEF Moves, event
<1>5. requests' = [Expired EXCEPT ![r] = row]
  BY DEF Moves
<1>6. requests' \in Seq(Row) /\ Len(requests') = Len(requests)
      /\ \A q \in Ids : requests'[q] = IF q = r THEN row ELSE Expired[q]
  BY <1>5, ExpiredFacts, TableFacts, ExceptSeq
<1>7. Ids' = Ids
  BY <1>5, ExpiredFacts DEF Ids
<1>8. \A q \in Due : q \in Ids /\ Expires(q) /\ requests'[q] = Lapsed(q)
  BY <1>3, <1>6, ExpiredFacts
<1>9. \A q \in Ids \ (Due \cup {r}) : requests'[q] = requests[q]
  BY <1>6, ExpiredFacts
<1>10. Written(Due, {r}, row, event)
  BY <1>1, <1>3, <1>4, <1>6, <1>7, <1>8, <1>9, LogsOne DEF Written
<1> QED BY <1>10 DEF event

LEMMA AppendWrites ==
  ASSUME TypeOK, Len(requests) < MaxRequests, NEW row \in Row, NEW event \in Event,
         event.req = Len(requests) + 1,
         requests' = Append(Expired, row), Logs(<<event>>)
  PROVE  Written(Due, {Len(requests) + 1}, row, event)
<1> DEFINE r == Len(requests) + 1
<1>1. /\ Len(requests) \in Nat /\ MaxRequests \in Nat /\ Ids = 1 .. Len(requests)
      /\ Due \subseteq Ids /\ r \notin Ids
  BY TableFacts
<1>2. /\ requests' \in Seq(Row) /\ Len(requests') = r /\ requests'[r] = row
      /\ \A q \in Ids : requests'[q] = Expired[q]
  BY <1>1, ExpiredFacts
<1>3. Ids' = Ids \cup {r} /\ Len(requests') <= MaxRequests
  <2>1. DOMAIN requests' = 1 .. Len(requests')
    BY <1>2, LenProperties
  <2> QED BY <1>1, <1>2, <2>1 DEF Ids
<1>4. \A q \in Due : q \in Ids /\ Expires(q) /\ requests'[q] = Lapsed(q)
  BY <1>2, ExpiredFacts
<1>5. \A q \in Ids \ (Due \cup {r}) : requests'[q] = requests[q]
  BY <1>2, ExpiredFacts
<1>6. event.req \notin Due
  BY <1>1
<1> QED BY ZenonT(40), <1>2, <1>3, <1>4, <1>5, <1>6, LogsOne DEF Written

LEMMA ReadWrites ==
  ASSUME TypeOK, Read, NEW row, NEW event
  PROVE  Written(Due, {}, row, event)
<1>1. requests' = Expired /\ Logs(<< >>)
  BY DEF Read
<1>2. Ids' = Ids
  BY <1>1, ExpiredFacts DEF Ids
<1> QED BY <1>1, <1>2, ExpiredFacts, TableFacts, LogsNone DEF Written

LEMMA EmergencyWrites ==
  ASSUME TypeOK, Len(requests) < MaxRequests, NEW row \in Row, NEW event \in Event,
         event.req = Len(requests) + 1,
         requests' = Append(requests, row), log' = Append(log, event)
  PROVE  Written({}, {Len(requests) + 1}, row, event)
<1> DEFINE r == Len(requests) + 1
           l == Len(log) + 1
<1>1. /\ Len(requests) \in Nat /\ MaxRequests \in Nat /\ Ids = 1 .. Len(requests)
      /\ r \notin Ids /\ requests \in Seq(Row) /\ log \in Seq(Event) /\ Len(log) \in Nat
  BY TableFacts DEF TypeOK
<1>2. /\ requests' \in Seq(Row) /\ Len(requests') = r /\ requests'[r] = row
      /\ \A q \in Ids : requests'[q] = requests[q]
  BY <1>1
<1>3. Ids' = Ids \cup {r} /\ Len(requests') <= MaxRequests
  <2>1. DOMAIN requests' = 1 .. Len(requests')
    BY <1>2, LenProperties
  <2> QED BY <1>1, <1>2, <2>1 DEF Ids
<1>4. /\ log' \in Seq(Event) /\ Len(log') = l /\ log'[l] = event
      /\ \A i \in DOMAIN log : log'[i] = log[i]
  BY <1>1
<1>5. New = {l} /\ Len(log) <= l
  BY <1>1, <1>4 DEF New
<1> QED BY <1>2, <1>3, <1>4, <1>5 DEF Written

-----------------------------------------------------------------------------
(* The history *)

\* A row that changes, changes from what it is and only while it is open; a new
\* one comes from nothing.
Steps(changed, row, event) ==
  \A r \in changed :
    /\ r \in Ids => /\ SameRequest(requests[r], row) /\ requests[r].status \in ACTIVE_STATES
                    /\ event.from = requests[r].status
    /\ r \notin Ids => event.from = "none"
    /\ event.to = row.status

LEMMA Positions ==
  ASSUME TypeOK, NEW lapsed, NEW changed, NEW row, NEW event, Written(lapsed, changed, row, event)
  PROVE  /\ DOMAIN log' = DOMAIN log \cup New
         /\ \A i \in DOMAIN log : i \in Nat /\ i \notin New /\ \A j \in New : i < j
         /\ \A i \in New : i \in Nat
         /\ \A i \in DOMAIN log' : log'[i] \in Event
<1>1. /\ Len(log) \in Nat /\ DOMAIN log = 1 .. Len(log)
      /\ log' \in Seq(Event) /\ Len(log) <= Len(log')
  BY TableFacts DEF Written
<1>2. Len(log') \in Nat /\ DOMAIN log' = 1 .. Len(log') /\ \A i \in DOMAIN log' : log'[i] \in Event
  BY <1>1, LenProperties, ElementOfSeq
<1> QED BY <1>1, <1>2 DEF New

RequestReplays(r) ==
  LET es == EventsOf(r) IN
  /\ \E i \in es : IsLast(i, es) /\ log[i].to = requests[r].status
  /\ \A j \in es : IsFirst(j, es) => log[j].from = "none"
  /\ \A i, j \in es : Follows(j, i, es) =>
       log[j].from = log[i].to /\ log[j].from \in ACTIVE_STATES

\* What is written of a request goes on from what was written of it.
LEMMA RequestsReplay ==
  ASSUME IInv, NEW lapsed, NEW changed, NEW row, NEW event,
         Written(lapsed, changed, row, event), lapsed \cap changed = {},
         Steps(changed, row, event)
  PROVE  \A r \in Ids' : RequestReplays(r)'
<1>1. /\ TypeOK /\ \A i \in DOMAIN log : log[i].req \in Ids
      /\ \A r \in Ids : RequestReplays(r)
  BY DEF IInv, Tables, HistoryReplays, RequestReplays
<1>2. /\ DOMAIN log' = DOMAIN log \cup New
      /\ \A i \in DOMAIN log : i \in Nat /\ i \notin New /\ \A j \in New : i < j
      /\ \A i \in New : i \in Nat
  BY <1>1, Positions
<1>3. \A i \in DOMAIN log : log'[i] = log[i]
  BY DEF Written
<1> SUFFICES ASSUME NEW r \in Ids' PROVE RequestReplays(r)'
  OBVIOUS
<1> DEFINE es == EventsOf(r)
           later == EventsOf(r)'
<1>4. es \subseteq DOMAIN log /\ \A i \in es : i \in Nat /\ log'[i] = log[i]
  BY <1>2, <1>3 DEF EventsOf
<1>5. later = es \cup {i \in New : log'[i].req = r}
  BY <1>2, <1>3 DEF EventsOf
<1>6. r \in Ids => RequestReplays(r)
  BY <1>1
<1>7. CASE r \notin lapsed \cup changed
  <2>1. r \in Ids /\ requests'[r] = requests[r]
    BY <1>7 DEF Written
  <2>2. later = es
    BY <1>5, <1>7 DEF Written
  <2>3. RequestReplays(r)
    BY <1>6, <2>1
  <2> HIDE DEF es, later
  <2>4. /\ \E i \in es : IsLast(i, es) /\ log[i].to = requests[r].status
        /\ \A j \in es : IsFirst(j, es) => log[j].from = "none"
        /\ \A i, j \in es : Follows(j, i, es) =>
             log[j].from = log[i].to /\ log[j].from \in ACTIVE_STATES
    BY <2>3 DEF RequestReplays, es
  <2>5. /\ \E i \in es : IsLast(i, later) /\ log'[i].to = requests'[r].status
        /\ \A j \in es : IsFirst(j, later) => log'[j].from = "none"
        /\ \A i, j \in es : Follows(j, i, later) =>
             log'[j].from = log'[i].to /\ log'[j].from \in ACTIVE_STATES
    BY <1>4, <2>1, <2>2, <2>4
  <2> QED BY <2>2, <2>5 DEF RequestReplays, later
<1>8. CASE r \in lapsed \cup changed
  <2>1. PICK n \in New : log'[n].req = r
    BY <1>8 DEF Written
  <2>2. later = es \cup {n} /\ n \in Nat /\ \A i \in es : i < n /\ i # n
    BY <1>2, <1>4, <1>5, <2>1 DEF Written
  <2>3. log'[n].to = requests'[r].status
    <3>1. CASE r \in lapsed
      <4>1. log'[n] = Expiry(r) /\ requests'[r].status = "EXPIRED"
        BY <2>1, <3>1, <1>1, RowFacts DEF Written
      <4> QED BY <4>1 DEF Expiry, Entry
    <3>2. CASE r \in changed
      BY <2>1, <3>2 DEF Written, Steps
    <3> QED BY <1>8, <3>1, <3>2
  <2>4. r \in Ids => log'[n].from = requests[r].status /\ requests[r].status \in ACTIVE_STATES
    <3>1. CASE r \in lapsed
      <4>1. log'[n] = Expiry(r) /\ requests[r].status = "REQUESTED"
        BY <2>1, <3>1 DEF Written, Expires
      <4> QED BY <4>1 DEF Expiry, Entry, ACTIVE_STATES
    <3>2. CASE r \in changed
      BY <2>1, <3>2 DEF Written, Steps
    <3> QED BY <1>8, <3>1, <3>2
  <2>5. r \notin Ids => es = {} /\ log'[n].from = "none"
    BY <1>1, <1>8, <2>1 DEF Written, Steps, EventsOf
  <2>6. r \in Ids =>
          /\ \E i \in es : IsLast(i, es) /\ log[i].to = requests[r].status
          /\ \A j \in es : IsFirst(j, es) => log[j].from = "none"
          /\ \A i, j \in es : Follows(j, i, es) =>
               log[j].from = log[i].to /\ log[j].from \in ACTIVE_STATES
    BY <1>6 DEF RequestReplays
  <2> HIDE DEF es, later
  <2>7. IsLast(n, later)
    BY <1>4, <2>2 DEF IsLast
  <2>8. ASSUME NEW j \in later, IsFirst(j, later) PROVE log'[j].from = "none"
    <3>1. CASE j = n
      <4>1. es = {}
        BY <1>4, <2>2, <2>8, <3>1 DEF IsFirst
      <4> QED BY <2>5, <2>6, <3>1, <4>1
    <3>2. CASE j # n
      <4>1. j \in es /\ IsFirst(j, es)
        BY <2>2, <2>8, <3>2 DEF IsFirst
      <4> QED BY <1>4, <2>5, <2>6, <4>1
    <3> QED BY <3>1, <3>2
  <2>9. ASSUME NEW i \in later, NEW j \in later, Follows(j, i, later)
        PROVE  log'[j].from = log'[i].to /\ log'[j].from \in ACTIVE_STATES
    <3>1. i \in es
      BY <1>4, <2>2, <2>9 DEF Follows
    <3>2. r \in Ids
      BY <2>5, <3>1
    <3>3. CASE j = n
      <4>1. IsLast(i, es)
        BY <1>4, <2>2, <2>9, <3>1, <3>3 DEF Follows, IsLast
      <4>2. PICK k \in es : IsLast(k, es) /\ log[k].to = requests[r].status
        BY <2>6, <3>2
      <4>3. k = i
        BY <1>4, <4>1, <4>2 DEF IsLast
      <4> QED BY <1>4, <2>4, <3>1, <3>2, <3>3, <4>2, <4>3
    <3>4. CASE j # n
      <4>1. j \in es /\ Follows(j, i, es)
        BY <2>2, <2>9, <3>4 DEF Follows
      <4> QED BY <1>4, <2>6, <3>1, <3>2, <4>1
    <3> QED BY <3>3, <3>4
  <2> QED BY <2>2, <2>3, <2>7, <2>8, <2>9 DEF RequestReplays, later
<1> QED BY <1>7, <1>8

BookReplays(b) ==
  LET moves == MovesOf(b) IN
  /\ \/ moves = {} /\ owner[b] = FirstOwner
     \/ \E i \in moves : IsLast(i, moves) /\ log[i].new = owner[b]
  /\ \A j \in moves : IsFirst(j, moves) => log[j].prev = FirstOwner
  /\ \A i, j \in moves : Follows(j, i, moves) => log[j].prev = log[i].new

\* The event moves the book of its row from its owner, and no other book moves.
MovesAsTold(changed, row, event) ==
  \A b \in Books :
    IF changed # {} /\ event.kind \in {"approved", "emergency_transfer"} /\ row.book = b
    THEN event.prev = owner[b] /\ event.new = owner'[b]
    ELSE owner'[b] = owner[b]

LEMMA BooksReplay ==
  ASSUME IInv, NEW lapsed, NEW changed, NEW row, NEW event,
         Written(lapsed, changed, row, event), lapsed \cap changed = {},
         Steps(changed, row, event), MovesAsTold(changed, row, event)
  PROVE  \A b \in Books : BookReplays(b)'
<1>1. /\ TypeOK /\ \A i \in DOMAIN log : log[i].req \in Ids
      /\ \A b \in Books : BookReplays(b)
  BY DEF IInv, Tables, HistoryReplays, BookReplays
<1>2. /\ DOMAIN log' = DOMAIN log \cup New
      /\ \A i \in DOMAIN log : i \in Nat /\ i \notin New /\ \A j \in New : i < j
      /\ \A i \in New : i \in Nat
  BY <1>1, Positions
<1>3. \A i \in DOMAIN log : log'[i] = log[i] /\ log[i].req \in Ids
  BY <1>1 DEF Written
<1>4. \A r \in Ids : requests'[r].book = requests[r].book
  <2> SUFFICES ASSUME NEW r \in Ids PROVE requests'[r].book = requests[r].book
    OBVIOUS
  <2>1. CASE r \in lapsed
    BY <1>1, <2>1, RowFacts DEF Written, SameRequest
  <2>2. CASE r \in changed
    BY <2>2 DEF Written, Steps, SameRequest
  <2> QED BY <2>1, <2>2 DEF Written
<1> SUFFICES ASSUME NEW b \in Books PROVE BookReplays(b)'
  OBVIOUS
<1> DEFINE moves == MovesOf(b)
           later == MovesOf(b)'
           mine == {i \in New : /\ log'[i].kind \in {"approved", "emergency_transfer"}
                                /\ requests'[log'[i].req].book = b}
           told == /\ changed # {} /\ event.kind \in {"approved", "emergency_transfer"}
                   /\ row.book = b
<1>5. \A i \in moves : i \in Nat /\ i \in DOMAIN log /\ log'[i] = log[i]
  BY <1>2, <1>3 DEF MovesOf
<1>6. later = moves \cup mine
  BY <1>2, <1>3, <1>4 DEF MovesOf
<1>7. \A i \in mine : i = Len(log') /\ log'[i] = event /\ told
  <2> SUFFICES ASSUME NEW i \in mine PROVE i = Len(log') /\ log'[i] = event /\ told
    OBVIOUS
  <2>1. log'[i] # Expiry(log'[i].req)
    BY DEF Expiry, Entry
  <2>2. log'[i].req \in changed /\ log'[i] = event /\ i = Len(log')
    BY <2>1 DEF Written
  <2>3. requests'[log'[i].req] = row
    BY <2>2 DEF Written
  <2> QED BY <2>2, <2>3
<1>8. /\ \/ moves = {} /\ owner[b] = FirstOwner
         \/ \E i \in moves : IsLast(i, moves) /\ log[i].new = owner[b]
      /\ \A j \in moves : IsFirst(j, moves) => log[j].prev = FirstOwner
      /\ \A i, j \in moves : Follows(j, i, moves) => log[j].prev = log[i].new
  BY <1>1 DEF BookReplays
<1>9. CASE ~told
  <2>1. later = moves
    BY <1>6, <1>7, <1>9
  <2>2. owner'[b] = owner[b]
    BY <1>9 DEF MovesAsTold
  <2> HIDE DEF moves, later, mine, told
  <2>3. /\ \/ later = {} /\ owner'[b] = FirstOwner
           \/ \E i \in later : IsLast(i, later) /\ log'[i].new = owner'[b]
        /\ \A j \in later : IsFirst(j, later) => log'[j].prev = FirstOwner
        /\ \A i, j \in later : Follows(j, i, later) => log'[j].prev = log'[i].new
    BY <1>5, <1>8, <2>1, <2>2
  <2> QED BY <2>3 DEF BookReplays, later
<1>10. CASE told
  <2>1. PICK n \in New : log'[n] = event /\ n = Len(log')
    <3>1. PICK r \in changed : TRUE
      BY <1>10
    <3>2. PICK i \in New : log'[i].req = r
      BY DEF Written
    <3>3. log'[i].req \notin lapsed
      BY <3>1, <3>2
    <3> QED BY <3>2, <3>3 DEF Written
  <2>2. n \in mine
    <3>1. log'[n].req \in changed
      <4>1. log'[n] # Expiry(log'[n].req)
        BY <1>10, <2>1 DEF Expiry, Entry
      <4> QED BY <2>1, <4>1 DEF Written
    <3>2. requests'[log'[n].req] = row
      BY <3>1 DEF Written
    <3> QED BY <1>10, <2>1, <3>2
  <2>3. later = moves \cup {n} /\ n \in Nat /\ \A i \in moves : i < n /\ i # n
    BY <1>2, <1>5, <1>6, <1>7, <2>1, <2>2
  <2>4. log'[n].prev = owner[b] /\ log'[n].new = owner'[b]
    BY <1>10, <2>1 DEF MovesAsTold
  <2> HIDE DEF moves, later, mine, told
  <2>5. IsLast(n, later)
    BY <1>5, <2>3 DEF IsLast
  <2>6. ASSUME NEW j \in later, IsFirst(j, later) PROVE log'[j].prev = FirstOwner
    <3>1. CASE j = n
      <4>1. moves = {}
        BY <1>5, <2>3, <2>6, <3>1 DEF IsFirst
      <4> QED BY <1>8, <2>4, <3>1, <4>1
    <3>2. CASE j # n
      <4>1. j \in moves /\ IsFirst(j, moves)
        BY <2>3, <2>6, <3>2 DEF IsFirst
      <4> QED BY <1>5, <1>8, <4>1
    <3> QED BY <3>1, <3>2
  <2>7. ASSUME NEW i \in later, NEW j \in later, Follows(j, i, later)
        PROVE  log'[j].prev = log'[i].new
    <3>1. i \in moves
      BY <1>5, <2>3, <2>7 DEF Follows
    <3>2. CASE j = n
      <4>1. IsLast(i, moves)
        BY <1>5, <2>3, <2>7, <3>1, <3>2 DEF Follows, IsLast
      <4>2. PICK k \in moves : IsLast(k, moves) /\ log[k].new = owner[b]
        BY <1>8, <3>1
      <4>3. k = i
        BY <1>5, <4>1, <4>2 DEF IsLast
      <4> QED BY <1>5, <2>4, <3>1, <3>2, <4>2, <4>3
    <3>3. CASE j # n
      <4>1. j \in moves /\ Follows(j, i, moves)
        BY <2>3, <2>7, <3>3 DEF Follows
      <4> QED BY <1>5, <1>8, <3>1, <4>1
    <3> QED BY <3>2, <3>3
  <2> QED BY <2>3, <2>4, <2>5, <2>6, <2>7 DEF BookReplays, later
<1> QED BY <1>9, <1>10

-----------------------------------------------------------------------------
(* An operation keeps the invariant *)

\* The event of the step tells this, or the log did before.
Tells(r, event, kind, u) == Told(log, r, kind, u) \/ (event.kind = kind /\ event.by = u)

RowIsSound(r, row, event) ==
  /\ row.target # row.owner
  /\ row.status = "IN_REVIEW" => row.reviewer \in Reviewers
  /\ r \in due => row.status \notin {"TARGET_ACCEPTED", "IN_REVIEW"}
  /\ row.mode = "normal" => row.requester = row.owner /\ Tells(r, event, "submitted", row.owner)
  /\ row.mode = "emergency" => row.status = "COMPLETED"
  /\ row.status \in {"TARGET_ACCEPTED", "IN_REVIEW"} =>
       Tells(r, event, "target_accepted", row.target)
  /\ row.status = "IN_REVIEW" => Tells(r, event, "review_started", row.reviewer)
  /\ event.kind = "approved" =>
       /\ event.by \notin {event.prev, event.new}
       /\ Told(log, r, "submitted", event.prev) /\ Told(log, r, "target_accepted", event.new)
       /\ Told(log, r, "review_started", event.by)

\* A new row is open only if nothing else of its book is, now that what is due
\* has expired.
OpensAlone(lapsed, changed, row) ==
  \A r \in changed \ Ids : row.status \in ACTIVE_STATES => lapsed = Due /\ MayOpen(row.book)

LEMMA ToldStays ==
  ASSUME TypeOK, NEW lapsed, NEW changed, NEW row, NEW event,
         Written(lapsed, changed, row, event)
  PROVE  /\ \A r, kind, u : Told(log, r, kind, u) => Told(log', r, kind, u)
         /\ \A r \in changed \ lapsed : \A kind, u : Tells(r, event, kind, u) => Told(log', r, kind, u)
<1>1. \A i \in DOMAIN log : i \in DOMAIN log' /\ log'[i] = log[i]
  <2>1. \A i \in DOMAIN log : i \in DOMAIN log'
    BY Positions
  <2> QED BY <2>1 DEF Written
<1>2. \A r, kind, u : Told(log, r, kind, u) => Told(log', r, kind, u)
  BY <1>1 DEF Told
<1>3. ASSUME NEW r \in changed \ lapsed, NEW kind, NEW u, event.kind = kind, event.by = u
      PROVE  Told(log', r, kind, u)
  <2>1. PICK i \in New : log'[i].req = r
    BY DEF Written
  <2>2. i \in DOMAIN log'
    BY Positions
  <2>3. log'[i] = event
    BY <2>1 DEF Written
  <2> QED BY <1>3, <2>1, <2>2, <2>3 DEF Told
<1> QED BY <1>2, <1>3 DEF Tells

LEMMA WriteKeeps ==
  ASSUME IInv, NEW lapsed, NEW changed, NEW row, NEW event,
         Written(lapsed, changed, row, event), lapsed \cap changed = {},
         Steps(changed, row, event), MovesAsTold(changed, row, event),
         \A r \in changed : RowIsSound(r, row, event),
         OpensAlone(lapsed, changed, row),
         owner' \in [Books -> Users], UNCHANGED <<revision, jobs, active, due>>,
         \A q, r \in changed : q = r
  PROVE  IInv'
<1>1. /\ TypeOK /\ \A i \in DOMAIN log : log[i].req \in Ids
  BY DEF IInv, Tables
<1>2. /\ DOMAIN log' = DOMAIN log \cup New
      /\ \A i \in DOMAIN log : log'[i] = log[i]
      /\ \A i \in DOMAIN log' : log'[i] \in Event
  <2>1. /\ DOMAIN log' = DOMAIN log \cup New
        /\ \A i \in DOMAIN log' : log'[i] \in Event
    BY <1>1, Positions
  <2> QED BY <2>1 DEF Written
<1>3. /\ \A r \in lapsed : r \in Ids /\ Expires(r) /\ requests'[r] = Lapsed(r)
      /\ \A r \in changed : requests'[r] = row
      /\ \A r \in Ids \ (lapsed \cup changed) : requests'[r] = requests[r]
      /\ Ids' = Ids \cup changed
  BY DEF Written
<1>4. \A r \in Ids : /\ requests[r] \in Row /\ Lapsed(r) \in Row
                     /\ SameRequest(requests[r], Lapsed(r)) /\ Lapsed(r).status = "EXPIRED"
                     /\ Lapsed(r).reviewer = requests[r].reviewer
  BY <1>1, RowFacts
<1>5. Tables'
  <2>1. \A r \in Ids' : /\ requests'[r].target # requests'[r].owner
                        /\ requests'[r].status = "IN_REVIEW" => requests'[r].reviewer \in Reviewers
    <3> SUFFICES ASSUME NEW r \in Ids'
                 PROVE  /\ requests'[r].target # requests'[r].owner
                        /\ requests'[r].status = "IN_REVIEW" => requests'[r].reviewer \in Reviewers
      OBVIOUS
    <3>1. CASE r \in changed
      BY <1>3, <3>1 DEF RowIsSound
    <3>2. CASE r \in lapsed
      BY <1>1, <1>3, <1>4, <3>2 DEF SameRequest, TypeOK
    <3>3. CASE r \in Ids \ (lapsed \cup changed)
      BY <1>1, <1>3, <3>3 DEF TypeOK
    <3> QED BY <1>3, <3>1, <3>2, <3>3
  <2>2. due' \subseteq Ids'
    BY <1>1, <1>3 DEF TypeOK
  <2>3. /\ requests' \in Seq(Row) /\ Len(requests') <= MaxRequests /\ log' \in Seq(Event)
    BY DEF Written
  <2>4. TypeOK'
    BY <1>1, <2>1, <2>2, <2>3 DEF TypeOK
  <2>5. \A i \in DOMAIN log' : log'[i].req \in Ids'
    BY <1>1, <1>2, <1>3 DEF Written
  <2> QED BY <2>4, <2>5 DEF Tables
<1>6. DueIsNotAnswered'
  <2> SUFFICES ASSUME NEW r \in due
               PROVE  requests'[r].status \notin {"TARGET_ACCEPTED", "IN_REVIEW"}
    BY DEF DueIsNotAnswered
  <2>1. r \in Ids
    BY <1>1 DEF TypeOK
  <2>2. CASE r \in changed
    BY <1>3, <2>2 DEF RowIsSound
  <2>3. CASE r \in lapsed
    BY <1>3, <1>4, <2>3
  <2>4. CASE r \notin lapsed \cup changed
    BY <1>3, <2>1, <2>4 DEF IInv, DueIsNotAnswered
  <2> QED BY <2>2, <2>3, <2>4
<1>7. OneOpen'
  <2>1. ASSUME NEW r \in Ids', requests'[r].status \in ACTIVE_STATES
        PROVE  /\ r \notin lapsed
               /\ r \in Ids => /\ requests[r].status \in ACTIVE_STATES
                               /\ requests'[r].book = requests[r].book
               /\ r \notin Ids => r \in changed /\ lapsed = Due /\ MayOpen(requests'[r].book)
    <3>1. r \notin lapsed
      BY <1>3, <1>4, <2>1 DEF ACTIVE_STATES
    <3>2. r \in Ids => requests[r].status \in ACTIVE_STATES /\ requests'[r].book = requests[r].book
      BY <1>3, <2>1, <3>1 DEF Steps, SameRequest
    <3>3. r \notin Ids => r \in changed /\ lapsed = Due /\ MayOpen(requests'[r].book)
      BY <1>3, <2>1 DEF OpensAlone
    <3> QED BY <3>1, <3>2, <3>3
  <2>2. ASSUME NEW q \in Ids', NEW r \in Ids', requests'[q].book = requests'[r].book,
               requests'[q].status \in ACTIVE_STATES, requests'[r].status \in ACTIVE_STATES,
               r \notin Ids, q \in Ids
        PROVE  FALSE
    <3>1. /\ MayOpen(requests'[r].book) /\ lapsed = Due
          /\ q \notin lapsed /\ requests[q].status \in ACTIVE_STATES
          /\ requests[q].book = requests'[r].book
      BY <2>1, <2>2
    <3>2. Expires(q)
      BY <2>2, <3>1 DEF MayOpen, ACTIVE_STATES, TERMINAL_STATES
    <3> QED BY <2>2, <3>1, <3>2 DEF Due
  <2>3. ASSUME NEW q \in Ids', NEW r \in Ids', requests'[q].book = requests'[r].book,
               requests'[q].status \in ACTIVE_STATES, requests'[r].status \in ACTIVE_STATES
        PROVE  q = r
    <3>1. CASE q \in Ids /\ r \in Ids
      BY <2>1, <2>3, <3>1 DEF IInv, OneOpen
    <3>2. CASE q \notin Ids /\ r \notin Ids
      BY <1>3, <3>2
    <3> QED BY <2>2, <2>3, <3>1, <3>2
  <2> QED BY <2>3 DEF OneOpen
<1>8. /\ \A r, kind, u : Told(log, r, kind, u) => Told(log', r, kind, u)
      /\ \A r \in changed : \A kind, u : Tells(r, event, kind, u) => Told(log', r, kind, u)
  BY <1>1, ToldStays
<1>9. RowsAreTold'
  <2> SUFFICES ASSUME NEW r \in Ids'
               PROVE  LET next == requests'[r] IN
                      /\ next.mode = "normal" => /\ next.requester = next.owner
                                                 /\ Told(log', r, "submitted", next.owner)
                      /\ next.mode = "emergency" => next.status = "COMPLETED"
                      /\ next.status \in {"TARGET_ACCEPTED", "IN_REVIEW"} =>
                           Told(log', r, "target_accepted", next.target)
                      /\ next.status = "IN_REVIEW" => Told(log', r, "review_started", next.reviewer)
    BY DEF RowsAreTold
  <2>1. CASE r \in changed
    BY <1>3, <1>8, <2>1 DEF RowIsSound
  <2>2. CASE r \in lapsed
    <3>1. requests[r].status = "REQUESTED" /\ r \in Ids
      BY <1>3, <2>2 DEF Expires
    <3>2. requests[r].mode # "emergency"
      BY <3>1 DEF IInv, RowsAreTold
    <3> QED BY <1>3, <1>4, <1>8, <2>2, <3>1, <3>2 DEF IInv, RowsAreTold, SameRequest
  <2>3. CASE r \in Ids \ (lapsed \cup changed)
    BY <1>3, <1>8, <2>3 DEF IInv, RowsAreTold
  <2> QED BY <1>3, <2>1, <2>2, <2>3
<1>10. HistoryReplays'
  BY RequestsReplay, BooksReplay DEF HistoryReplays, RequestReplays, BookReplays
<1>11. TransfersAreAgreed'
  <2> SUFFICES ASSUME NEW i \in DOMAIN log', log'[i].kind = "approved"
               PROVE  /\ log'[i].by \notin {log'[i].prev, log'[i].new}
                      /\ Told(log', log'[i].req, "submitted", log'[i].prev)
                      /\ Told(log', log'[i].req, "target_accepted", log'[i].new)
                      /\ Told(log', log'[i].req, "review_started", log'[i].by)
    BY DEF TransfersAreAgreed, Told, EventsOf
  <2>1. CASE i \in DOMAIN log
    <3>1. /\ log[i].by \notin {log[i].prev, log[i].new}
          /\ Told(log, log[i].req, "submitted", log[i].prev)
          /\ Told(log, log[i].req, "target_accepted", log[i].new)
          /\ Told(log, log[i].req, "review_started", log[i].by)
      BY <1>2, <2>1 DEF IInv, TransfersAreAgreed, Told, EventsOf
    <3> QED BY <1>2, <1>8, <2>1, <3>1
  <2>2. CASE i \in New
    <3>1. log'[i] # Expiry(log'[i].req)
      BY DEF Expiry, Entry
    <3>2. log'[i].req \in changed /\ log'[i] = event
      BY <2>2, <3>1 DEF Written
    <3> QED BY <1>8, <3>2 DEF RowIsSound
  <2> QED BY <1>2, <2>1, <2>2
<1> QED BY <1>5, <1>6, <1>7, <1>9, <1>10, <1>11 DEF IInv

LEMMA StatusFacts ==
  ASSUME TypeOK, NEW r \in Ids, NEW status \in STATES
  PROVE  LET row == [requests[r] EXCEPT !.status = status] IN
         /\ row \in Row /\ row.status = status /\ SameRequest(requests[r], row)
         /\ row.reviewer = requests[r].reviewer
BY RowFacts DEF Row, SameRequest

\* The answers, the claim, the rejections and the invalidations.
LEMMA MoveKeeps ==
  ASSUME IInv, NEW r \in Ids, ~Expires(r), requests[r].status \in ACTIVE_STATES,
         NEW row \in Row, SameRequest(requests[r], row),
         NEW kind \in EVENT_TYPES \ {"approved", "emergency_transfer"}, NEW u \in Users,
         Moves(r, row, kind, u, None, None), UNCHANGED <<owner, revision, jobs, active, due>>,
         \/ row.status \in TERMINAL_STATES
         \/ row.status = "TARGET_ACCEPTED" /\ kind = "target_accepted" /\ u = row.target
            /\ requests[r].status = "REQUESTED"
         \/ row.status = "IN_REVIEW" /\ kind = "review_started" /\ u = row.reviewer
            /\ u \in Reviewers /\ requests[r].status = "TARGET_ACCEPTED"
  PROVE  IInv'
<1> DEFINE event == Entry(r, kind, requests[r].status, row.status, u, None, None)
<1>1. TypeOK /\ r \notin Due /\ r \notin Due \cap {r}
  BY DEF IInv, Tables, Due
<1>2. Written(Due, {r}, row, event)
  BY <1>1, MovesWrites
<1>3. /\ event.kind = kind /\ event.by = u /\ event.from = requests[r].status
      /\ event.to = row.status
  BY DEF Entry
<1> HIDE DEF event
<1>4. Steps({r}, row, event)
  BY <1>3 DEF Steps
<1>5. MovesAsTold({r}, row, event)
  BY <1>3 DEF MovesAsTold
<1>6. /\ requests[r].mode = "normal" /\ row.mode = "normal" /\ row.target # row.owner
      /\ row.requester = row.owner /\ Told(log, r, "submitted", row.owner)
      /\ requests[r].status = "TARGET_ACCEPTED" => Told(log, r, "target_accepted", row.target)
  <2>1. requests[r].mode = "normal"
    BY <1>1, RowFacts DEF IInv, RowsAreTold, Row, ACTIVE_STATES
  <2> QED BY <1>1, <2>1 DEF IInv, RowsAreTold, SameRequest, TypeOK
<1>7. r \in due => requests[r].status # "TARGET_ACCEPTED" /\ requests[r].status # "REQUESTED"
  BY DEF IInv, DueIsNotAnswered, Expires
<1>8. RowIsSound(r, row, event)
  BY <1>3, <1>6, <1>7 DEF RowIsSound, Tells, TERMINAL_STATES
<1>9. OpensAlone(Due, {r}, row) /\ owner' \in [Books -> Users]
  BY <1>1 DEF OpensAlone, TypeOK
<1> QED BY <1>1, <1>2, <1>4, <1>5, <1>8, <1>9, WriteKeeps

LEMMA BecomesKeeps ==
  ASSUME IInv, NEW r \in Ids, ~Expires(r), requests[r].status \in ACTIVE_STATES,
         NEW status \in STATES, NEW u \in Users,
         NEW kind \in EVENT_TYPES \ {"approved", "emergency_transfer"},
         Becomes(r, status, kind, u), UNCHANGED <<owner, revision, jobs, active, due>>,
         \/ status \in TERMINAL_STATES
         \/ status = "TARGET_ACCEPTED" /\ kind = "target_accepted" /\ u = requests[r].target
            /\ requests[r].status = "REQUESTED"
  PROVE  IInv'
<1> DEFINE row == [requests[r] EXCEPT !.status = status]
<1>1. /\ row \in Row /\ row.status = status /\ SameRequest(requests[r], row)
  BY StatusFacts DEF IInv, Tables
<1>2. Moves(r, row, kind, u, None, None)
  BY DEF Becomes
<1> HIDE DEF row
<1>3. row.target = requests[r].target
  BY <1>1 DEF SameRequest
<1> QED BY <1>1, <1>2, <1>3, MoveKeeps

LEMMA InvalidateKeeps ==
  ASSUME IInv, NEW r \in Ids, ~Expires(r), requests[r].status \in ACTIVE_STATES,
         NEW u \in Users, Invalidate(r, u), UNCHANGED <<owner, revision, jobs, active, due>>
  PROVE  IInv'
<1>1. Becomes(r, "INVALIDATED", "invalidated", u)
  BY DEF Invalidate
<1>2. /\ "INVALIDATED" \in STATES /\ "INVALIDATED" \in TERMINAL_STATES
      /\ "invalidated" \in EVENT_TYPES \ {"approved", "emergency_transfer"}
  BY DEF STATES, TERMINAL_STATES, EVENT_TYPES
<1> QED BY <1>1, <1>2, BecomesKeeps

LEMMA NewRowFacts ==
  ASSUME TypeOK, NEW b \in Books, NEW u \in Users, NEW t \in Users, NEW status \in STATES,
         NEW mode \in {"normal", "emergency"}
  PROVE  LET row == NewRow(b, u, t, status, mode) IN
         /\ row \in Row /\ row.book = b /\ row.requester = u /\ row.owner = owner[b]
         /\ row.target = t /\ row.status = status /\ row.mode = mode
         /\ row.revision = revision[b]
BY DEF TypeOK, NewRow, Row

LEMMA SubmitKeeps ==
  ASSUME IInv, NEW u \in Users, NEW b \in Books, NEW t \in Users, submit(u, b, t)
  PROVE  IInv'
<1> DEFINE r == Len(requests) + 1
           row == NewRow(b, u, t, "REQUESTED", "normal")
           event == Entry(r, "submitted", "none", "REQUESTED", u, u, t)
<1>1. /\ TypeOK /\ Len(requests) \in Nat /\ Ids = 1 .. Len(requests) /\ MaxRequests \in Nat
      /\ due \subseteq Ids /\ Due \subseteq Ids
  BY TableFacts DEF IInv, Tables, TypeOK
<1>2. /\ owner[b] = u /\ t # u /\ MayOpen(b) /\ Len(requests) < MaxRequests
      /\ requests' = Append(Expired, row) /\ Logs(<<event>>)
      /\ UNCHANGED <<owner, revision, jobs, active, due>>
  BY DEF submit
<1>3. r \notin Ids /\ r \in 1 .. MaxRequests
  BY <1>1, <1>2
<1>4. "REQUESTED" \in STATES /\ "submitted" \in EVENT_TYPES
  BY DEF STATES, ACTIVE_STATES, EVENT_TYPES
<1>5. /\ row \in Row /\ row.book = b /\ row.requester = u /\ row.owner = u
      /\ row.target = t /\ row.status = "REQUESTED" /\ row.mode = "normal"
  BY <1>1, <1>2, <1>4, NewRowFacts
<1>6. /\ event \in Event /\ event.req = r /\ event.kind = "submitted" /\ event.by = u
      /\ event.from = "none" /\ event.to = "REQUESTED"
  BY <1>3, <1>4 DEF Entry, Event
<1> HIDE DEF row, event
<1>7. Written(Due, {r}, row, event)
  BY <1>1, <1>2, <1>5, <1>6, AppendWrites
<1> HIDE DEF r
<1>8. Steps({r}, row, event) /\ MovesAsTold({r}, row, event) /\ OpensAlone(Due, {r}, row)
  BY <1>2, <1>3, <1>5, <1>6 DEF Steps, MovesAsTold, OpensAlone
<1>9. RowIsSound(r, row, event)
  BY <1>1, <1>2, <1>3, <1>5, <1>6 DEF RowIsSound, Tells
<1>10. owner' \in [Books -> Users] /\ Due \cap {r} = {}
  BY <1>1, <1>2, <1>3 DEF TypeOK
<1> QED BY <1>2, <1>7, <1>8, <1>9, <1>10, WriteKeeps

LEMMA EmergencyKeeps ==
  ASSUME IInv, NEW u \in Users, NEW b \in Books, NEW t \in Users, emergency(u, b, t)
  PROVE  IInv'
<1> DEFINE r == Len(requests) + 1
           row == NewRow(b, u, t, "COMPLETED", "emergency")
           event == Entry(r, "emergency_transfer", "none", "COMPLETED", u, owner[b], t)
<1>1. /\ TypeOK /\ Len(requests) \in Nat /\ Ids = 1 .. Len(requests) /\ MaxRequests \in Nat
      /\ due \subseteq Ids
  BY TableFacts DEF IInv, Tables, TypeOK
<1>2. /\ owner[b] # t /\ Len(requests) < MaxRequests
      /\ requests' = Append(requests, row) /\ log' = Append(log, event)
      /\ owner' = [owner EXCEPT ![b] = t]
      /\ UNCHANGED <<revision, jobs, active, due>>
  BY DEF emergency
<1>3. r \notin Ids /\ r \in 1 .. MaxRequests
  BY <1>1, <1>2
<1>4. "COMPLETED" \in STATES /\ "COMPLETED" \notin ACTIVE_STATES
      /\ "emergency_transfer" \in EVENT_TYPES
  BY DEF STATES, ACTIVE_STATES, TERMINAL_STATES, EVENT_TYPES
<1>5. /\ row \in Row /\ row.book = b /\ row.requester = u /\ row.owner = owner[b]
      /\ row.target = t /\ row.status = "COMPLETED" /\ row.mode = "emergency"
  BY <1>1, <1>4, NewRowFacts
<1>6. /\ event \in Event /\ event.req = r /\ event.kind = "emergency_transfer" /\ event.by = u
      /\ event.from = "none" /\ event.to = "COMPLETED" /\ event.prev = owner[b] /\ event.new = t
  BY <1>1, <1>3, <1>4 DEF Entry, Event, TypeOK
<1> HIDE DEF row, event
<1>7. Written({}, {r}, row, event)
  BY <1>1, <1>2, <1>5, <1>6, EmergencyWrites
<1> HIDE DEF r
<1>8. Steps({r}, row, event) /\ OpensAlone({}, {r}, row)
  BY <1>3, <1>4, <1>5, <1>6 DEF Steps, OpensAlone
<1>9. MovesAsTold({r}, row, event) /\ owner' \in [Books -> Users]
  BY <1>1, <1>2, <1>5, <1>6 DEF MovesAsTold, TypeOK
<1>10. RowIsSound(r, row, event)
  BY <1>1, <1>2, <1>3, <1>5, <1>6 DEF RowIsSound, Tells
<1> QED BY <1>2, <1>7, <1>8, <1>9, <1>10, WriteKeeps

\* The approval that moves the book.
LEMMA ApprovalKeeps ==
  ASSUME IInv, NEW u \in Users, NEW r \in Ids, Decides(u, r), SameOwner(r),
         owner' = [owner EXCEPT ![requests[r].book] = requests[r].target],
         Moves(r, [requests[r] EXCEPT !.status = "COMPLETED"], "approved", u,
               requests[r].owner, requests[r].target),
         UNCHANGED <<revision, jobs, active, due>>
  PROVE  IInv'
<1> DEFINE row == [requests[r] EXCEPT !.status = "COMPLETED"]
           b == requests[r].book
           event == Entry(r, "approved", requests[r].status, row.status, u,
                          requests[r].owner, requests[r].target)
<1>1. /\ TypeOK /\ requests[r] \in Row /\ b \in Books /\ requests[r].owner \in Users
      /\ requests[r].target \in Users
  BY RowFacts DEF IInv, Tables, Row
<1>2. /\ requests[r].status = "IN_REVIEW" /\ requests[r].reviewer = u
      /\ u \notin {requests[r].requester, requests[r].target} /\ owner[b] = requests[r].owner
  BY DEF Decides, Impartial, SameOwner
<1>3. ~Expires(r) /\ r \notin Due /\ requests[r].status \in ACTIVE_STATES
  BY <1>2 DEF Expires, Due, ACTIVE_STATES
<1>4. "COMPLETED" \in STATES /\ "approved" \in EVENT_TYPES
  BY DEF STATES, TERMINAL_STATES, EVENT_TYPES
<1>5. row \in Row /\ row.status = "COMPLETED" /\ SameRequest(requests[r], row)
  BY <1>1, <1>4, StatusFacts
<1> HIDE DEF row
<1>6. Moves(r, row, "approved", u, requests[r].owner, requests[r].target)
  BY DEF row
<1>7. Written(Due, {r}, row, event)
  BY <1>1, <1>3, <1>4, <1>5, <1>6, MovesWrites
<1>8. /\ event.kind = "approved" /\ event.by = u /\ event.from = requests[r].status
      /\ event.to = row.status /\ event.prev = requests[r].owner
      /\ event.new = requests[r].target
  BY DEF Entry
<1> HIDE DEF event
<1>9. Steps({r}, row, event) /\ OpensAlone(Due, {r}, row)
  BY <1>3, <1>5, <1>8 DEF Steps, OpensAlone
<1>10. MovesAsTold({r}, row, event) /\ owner' \in [Books -> Users]
  BY <1>1, <1>2, <1>5, <1>8 DEF MovesAsTold, TypeOK, SameRequest
<1>11. /\ requests[r].mode = "normal" /\ requests[r].requester = requests[r].owner
       /\ requests[r].target # requests[r].owner
       /\ Told(log, r, "submitted", requests[r].owner)
       /\ Told(log, r, "target_accepted", requests[r].target)
       /\ Told(log, r, "review_started", u)
  <2>1. requests[r].mode = "normal"
    BY <1>1, <1>2 DEF IInv, RowsAreTold, Row
  <2> QED BY <1>1, <1>2, <2>1 DEF IInv, RowsAreTold, TypeOK
<1>12. RowIsSound(r, row, event)
  BY <1>2, <1>5, <1>8, <1>11 DEF RowIsSound, SameRequest, Tells
<1> QED BY <1>3, <1>7, <1>9, <1>10, <1>12, WriteKeeps

\* Each answer.
LEMMA AnswerKeeps ==
  ASSUME IInv, NEW u \in Users, NEW r \in Ids,
         accept_target(u, r) \/ reject_target(u, r) \/ cancel(u, r)
  PROVE  IInv'
<1>1. /\ requests[r].status = "REQUESTED" /\ ~Expires(r) /\ requests[r].status \in ACTIVE_STATES
      /\ UNCHANGED <<owner, revision, jobs, active, due>>
  BY DEF accept_target, reject_target, cancel, AwaitsTarget, ACTIVE_STATES
<1>2. /\ {"TARGET_ACCEPTED", "REJECTED", "CANCELLED"} \subseteq STATES
      /\ {"REJECTED", "CANCELLED"} \subseteq TERMINAL_STATES
      /\ {"target_accepted", "target_rejected", "cancelled"}
           \subseteq EVENT_TYPES \ {"approved", "emergency_transfer"}
  BY DEF STATES, ACTIVE_STATES, TERMINAL_STATES, EVENT_TYPES
<1>3. CASE accept_target(u, r)
  <2>1. CASE SameRevision(r)
    <3>1. Becomes(r, "TARGET_ACCEPTED", "target_accepted", u) /\ requests[r].target = u
      BY <1>3, <2>1 DEF accept_target
    <3> QED BY <1>1, <1>2, <3>1, BecomesKeeps
  <2>2. CASE ~SameRevision(r)
    <3>1. Invalidate(r, u)
      BY <1>3, <2>2 DEF accept_target
    <3> QED BY <1>1, <3>1, InvalidateKeeps
  <2> QED BY <2>1, <2>2
<1>4. CASE reject_target(u, r)
  <2>1. Becomes(r, "REJECTED", "target_rejected", u)
    BY <1>4 DEF reject_target
  <2> QED BY <1>1, <1>2, <2>1, BecomesKeeps
<1>5. CASE cancel(u, r)
  <2>1. Becomes(r, "CANCELLED", "cancelled", u)
    BY <1>5 DEF cancel
  <2> QED BY <1>1, <1>2, <2>1, BecomesKeeps
<1> QED BY <1>3, <1>4, <1>5

\* Each step of the review.
LEMMA ReviewKeeps ==
  ASSUME IInv, NEW u \in Users, NEW r \in Ids,
         start_review(u, r) \/ reject_review(u, r) \/ approve(u, r)
  PROVE  IInv'
<1>1. /\ requests[r].status \in {"TARGET_ACCEPTED", "IN_REVIEW"} /\ ~Expires(r)
      /\ requests[r].status \in ACTIVE_STATES /\ UNCHANGED <<revision, jobs, active, due>>
  BY DEF start_review, reject_review, approve, Decides, Expires, ACTIVE_STATES
<1>2. /\ "IN_REVIEW" \in STATES /\ "REJECTED" \in STATES /\ "REJECTED" \in TERMINAL_STATES
      /\ {"review_started", "rejected"} \subseteq EVENT_TYPES \ {"approved", "emergency_transfer"}
  BY DEF STATES, ACTIVE_STATES, TERMINAL_STATES, EVENT_TYPES
<1>3. CASE start_review(u, r)
  <2>1. CASE SameRevision(r)
    <3> DEFINE row == Claimed(r, u)
    <3>1. /\ Moves(r, row, "review_started", u, None, None) /\ UNCHANGED owner
          /\ u \in Reviewers /\ requests[r].status = "TARGET_ACCEPTED"
      BY <1>3, <2>1 DEF start_review
    <3>2. /\ row \in Row /\ row.status = "IN_REVIEW" /\ row.reviewer = u
          /\ SameRequest(requests[r], row)
      <4>1. requests[r] \in Row
        BY RowFacts DEF IInv, Tables
      <4> QED BY <1>2, <4>1 DEF Row, Claimed, SameRequest
    <3> HIDE DEF row
    <3> QED BY <1>1, <1>2, <3>1, <3>2, MoveKeeps
  <2>2. CASE ~SameRevision(r)
    <3>1. Invalidate(r, u) /\ UNCHANGED owner
      BY <1>3, <2>2 DEF start_review
    <3> QED BY <1>1, <3>1, InvalidateKeeps
  <2> QED BY <2>1, <2>2
<1>4. CASE reject_review(u, r)
  <2>1. Becomes(r, "REJECTED", "rejected", u) /\ UNCHANGED owner
    BY <1>4 DEF reject_review
  <2> QED BY <1>1, <1>2, <2>1, BecomesKeeps
<1>5. CASE approve(u, r)
  <2>1. CASE Invalidate(r, u) /\ UNCHANGED owner
    BY <1>1, <2>1, InvalidateKeeps
  <2>2. CASE /\ SameOwner(r)
             /\ owner' = [owner EXCEPT ![requests[r].book] = requests[r].target]
             /\ Moves(r, [requests[r] EXCEPT !.status = "COMPLETED"], "approved", u,
                      requests[r].owner, requests[r].target)
    <3>1. Decides(u, r)
      BY <1>5 DEF approve
    <3> QED BY <1>1, <2>2, <3>1, ApprovalKeeps
  <2> QED BY <1>5, <2>1, <2>2 DEF approve
<1> QED BY <1>3, <1>4, <1>5

\* A read writes the expiries only.
LEMMA ReadKeeps ==
  ASSUME IInv, Read
  PROVE  IInv'
<1> DEFINE any == [kind |-> "expired"]
<1>1. TypeOK /\ UNCHANGED <<owner, revision, jobs, active, due>>
  BY DEF IInv, Tables, Read
<1>2. Written(Due, {}, any, any)
  BY <1>1, ReadWrites
<1> HIDE DEF any
<1>3. Steps({}, any, any) /\ OpensAlone(Due, {}, any) /\ Due \cap {} = {}
  BY DEF Steps, OpensAlone
<1>4. MovesAsTold({}, any, any) /\ owner' \in [Books -> Users]
  BY <1>1 DEF MovesAsTold, TypeOK
<1> QED BY <1>1, <1>2, <1>3, <1>4, WriteKeeps

\* What leaves the requests, the log and the owners alone.
LEMMA AsideKeeps ==
  ASSUME IInv, UNCHANGED <<owner, requests, log>>, TypeOK',
         \A r \in due' \ due : requests[r].status = "REQUESTED"
  PROVE  IInv'
<1>1. Ids' = Ids /\ (\A r : EventsOf(r)' = EventsOf(r)) /\ (\A b : MovesOf(b)' = MovesOf(b))
  BY DEF Ids, EventsOf, MovesOf
<1>2. Tables'
  BY <1>1 DEF IInv, Tables
<1>3. DueIsNotAnswered'
  BY DEF IInv, DueIsNotAnswered
<1>4. OneOpen' /\ RowsAreTold'
  BY <1>1 DEF IInv, OneOpen, RowsAreTold
<1>5. HistoryReplays' /\ TransfersAreAgreed'
  BY <1>1 DEF IInv, HistoryReplays, TransfersAreAgreed
<1> QED BY <1>2, <1>3, <1>4, <1>5 DEF IInv

LEMMA BesideKeeps ==
  ASSUME IInv,
         \/ \E r \in Ids : SevenDaysPass(r)
         \/ \E b \in Books : Edit(b) \/ StartJob(b) \/ EndJob(b) \/ StaleJob(b)
         \/ \E u \in Users : Disable(u) \/ Enable(u)
         \/ UNCHANGED vars
  PROVE  IInv'
<1>1. TypeOK
  BY DEF IInv, Tables
<1>2. ASSUME NEW r \in Ids, SevenDaysPass(r) PROVE IInv'
  <2>1. TypeOK'
    BY <1>1, <1>2 DEF SevenDaysPass, TypeOK, Ids
  <2> QED BY <1>2, <2>1, AsideKeeps DEF SevenDaysPass
<1>3. ASSUME NEW b \in Books, Edit(b) PROVE IInv'
  <2>1. TypeOK'
    BY <1>1, <1>3 DEF Edit, TypeOK, Ids
  <2> QED BY <1>3, <2>1, AsideKeeps DEF Edit
<1>4. ASSUME NEW b \in Books, StartJob(b) \/ EndJob(b) \/ StaleJob(b) PROVE IInv'
  <2>1. TypeOK'
    BY <1>1, <1>4 DEF StartJob, EndJob, StaleJob, JobMoves, TypeOK, Ids
  <2> QED BY <1>4, <2>1, AsideKeeps DEF StartJob, EndJob, StaleJob, JobMoves
<1>5. ASSUME NEW u \in Users, Disable(u) \/ Enable(u) PROVE IInv'
  <2>1. TypeOK'
    BY <1>1, <1>5 DEF Disable, Enable, TypeOK, Ids
  <2> QED BY <1>5, <2>1, AsideKeeps DEF Disable, Enable
<1>6. ASSUME UNCHANGED vars PROVE IInv'
  <2>1. TypeOK'
    BY <1>1, <1>6 DEF vars, TypeOK, Ids
  <2> QED BY <1>6, <2>1, AsideKeeps DEF vars
<1> QED BY <1>2, <1>3, <1>4, <1>5, <1>6

LEMMA IInvInit == Init => IInv
<1> SUFFICES ASSUME Init PROVE IInv
  OBVIOUS
<1>1. Ids = {} /\ DOMAIN log = {} /\ due = {}
  BY DEF Init, Ids
<1>2. TypeOK
  BY <1>1, RolesAreOfUsers, MaxRequestsIsNat DEF Init, TypeOK
<1>3. \A b \in Books : MovesOf(b) = {} /\ owner[b] = FirstOwner
  BY <1>1 DEF Init, MovesOf
<1> QED BY <1>1, <1>2, <1>3 DEF IInv, Tables, DueIsNotAnswered, OneOpen, RowsAreTold,
                               HistoryReplays, TransfersAreAgreed

LEMMA IInvStep ==
  ASSUME IInv, [Next]_vars
  PROVE  IInv'
<1>1. ASSUME NEW u \in Users, NEW b \in Books, NEW t \in Users, submit(u, b, t) \/ emergency(u, b, t)
      PROVE  IInv'
  BY <1>1, SubmitKeeps, EmergencyKeeps
<1>2. ASSUME NEW u \in Users, NEW r \in Ids,
             \/ accept_target(u, r) \/ reject_target(u, r) \/ cancel(u, r)
             \/ start_review(u, r) \/ reject_review(u, r) \/ approve(u, r)
      PROVE  IInv'
  BY <1>2, AnswerKeeps, ReviewKeeps
<1> QED BY <1>1, <1>2, ReadKeeps, BesideKeeps DEF Next

LEMMA Inductive == Spec => []IInv
BY IInvInit, IInvStep, PTL DEF Spec

\* The tables only ever hold rows of their columns, and no account is both the
\* target and the owner of a request.
THEOREM TypeCorrect == Spec => []TypeOK
<1>1. IInv => TypeOK
  BY DEF IInv, Tables
<1> QED BY <1>1, Inductive, PTL

\* The append-only log tells all there is to tell: it replays to the status of
\* every request and to the owner of every book.
THEOREM TheHistoryReplays == Spec => []HistoryReplays
<1>1. IInv => HistoryReplays
  BY DEF IInv
<1> QED BY <1>1, Inductive, PTL

\* No book is approved over to an account but what its owner asked for it, the
\* account accepted it, and the reviewer who claimed it approved it.
THEOREM ApprovedTransfersAreAgreed == Spec => []TransfersAreAgreed
<1>1. IInv => TransfersAreAgreed
  BY DEF IInv
<1> QED BY <1>1, Inductive, PTL

-----------------------------------------------------------------------------
(* A book changes hands as was agreed *)

LEMMA MovesAreSafeStep ==
  ASSUME IInv, [Next]_vars, NEW b \in Books, owner'[b] # owner[b]
  PROVE  /\ jobs[b] = "none" /\ owner'[b] \in active
         /\ LET r == log'[Len(log')].req IN
            \/ requests'[r].mode = "emergency"
            \/ revision[b] = requests[r].revision /\ r \notin due
<1>1. TypeOK
  BY DEF IInv, Tables
<1>2. ASSUME NEW u \in Users, NEW c \in Books, NEW t \in Users, emergency(u, c, t)
      PROVE  jobs[b] = "none" /\ owner'[b] \in active /\ requests'[log'[Len(log')].req].mode = "emergency"
  <2> DEFINE r == Len(requests) + 1
             row == NewRow(c, u, t, "COMPLETED", "emergency")
             event == Entry(r, "emergency_transfer", "none", "COMPLETED", u, owner[c], t)
  <2>1. /\ jobs[c] = "none" /\ t \in active /\ owner' = [owner EXCEPT ![c] = t]
        /\ requests' = Append(requests, row) /\ log' = Append(log, event)
    BY <1>2 DEF emergency, active_generation
  <2>2. row.mode = "emergency" /\ event.req = r
    BY DEF NewRow, Entry
  <2>3. b = c
    BY <1>1, <2>1 DEF TypeOK
  <2> HIDE DEF row, event
  <2>4. log'[Len(log')] = event /\ requests'[r] = row
    BY <1>1, <2>1 DEF TypeOK
  <2> QED BY <1>1, <2>1, <2>2, <2>3, <2>4 DEF TypeOK
<1>3. ASSUME NEW u \in Users, NEW r \in Ids, approve(u, r)
      PROVE  /\ jobs[b] = "none" /\ owner'[b] \in active /\ log'[Len(log')].req = r
             /\ revision[b] = requests[r].revision /\ r \notin due
  <2> DEFINE row == [requests[r] EXCEPT !.status = "COMPLETED"]
             event == Entry(r, "approved", requests[r].status, row.status, u,
                            requests[r].owner, requests[r].target)
  <2>1. /\ Decides(u, r) /\ SameRevision(r) /\ jobs[requests[r].book] = "none"
        /\ requests[r].target \in active
        /\ owner' = [owner EXCEPT ![requests[r].book] = requests[r].target]
        /\ Moves(r, row, "approved", u, requests[r].owner, requests[r].target)
    BY <1>3 DEF approve, active_generation
  <2>2. b = requests[r].book /\ owner'[b] = requests[r].target
    BY <1>1, <2>1 DEF TypeOK
  <2>3. requests[r].status = "IN_REVIEW" /\ r \notin Due
    BY <2>1 DEF Decides, Due, Expires
  <2>4. r \notin due
    BY <2>3 DEF IInv, DueIsNotAnswered
  <2>5. requests[r].owner \in Users /\ requests[r].target \in Users /\ u \in Users
    BY <1>1, RowFacts DEF Row
  <2>6. "COMPLETED" \in STATES /\ "approved" \in EVENT_TYPES
    BY DEF STATES, TERMINAL_STATES, EVENT_TYPES
  <2>7. row \in Row
    BY <1>1, <2>6, StatusFacts
  <2> HIDE DEF row
  <2>8. Written(Due, {r}, row, event)
    BY <1>1, <2>1, <2>3, <2>5, <2>6, <2>7, MovesWrites DEF Due
  <2>9. log'[Len(log')].req = r
    <3>1. PICK i \in New : log'[i].req = r
      BY <2>8 DEF Written
    <3> QED BY <2>3, <2>8, <3>1 DEF Written
  <2> QED BY <2>1, <2>2, <2>4, <2>9 DEF SameRevision
<1>4. CASE \E u \in Users, c \in Books, t \in Users : emergency(u, c, t)
  BY <1>2, <1>4
<1>5. CASE \E u \in Users, r \in Ids : approve(u, r)
  BY <1>3, <1>5
<1>6. CASE ~(\E u \in Users, c \in Books, t \in Users : emergency(u, c, t))
           /\ ~(\E u \in Users, r \in Ids : approve(u, r))
  <2>1. owner' = owner
    BY <1>6 DEF Next, vars, submit, accept_target, reject_target, cancel, start_review,
                reject_review, Read, SevenDaysPass, Edit, StartJob, EndJob, StaleJob, JobMoves,
                Disable, Enable
  <2> QED BY <2>1
<1> QED BY <1>4, <1>5, <1>6

\* A book changes hands only while none of its generation jobs is unfinished, only
\* to an active account, and by an approval only in the revision its owner
\* submitted and its target accepted in time.
THEOREM BooksMoveSafely == Spec => MovesAreSafe
<1>1. ASSUME IInv, [Next]_vars
      PROVE  [\A b \in Books : owner'[b] # owner[b] =>
                /\ jobs[b] = "none" /\ owner'[b] \in active
                /\ LET r == log'[Len(log')].req IN
                   \/ requests'[r].mode = "emergency"
                   \/ revision[b] = requests[r].revision /\ r \notin due]_vars
  BY <1>1, MovesAreSafeStep
<1> QED BY <1>1, Inductive, PTL DEF Spec, MovesAreSafe

-----------------------------------------------------------------------------
(* The tables implement the agreement *)

Open(rows, b) == {r \in DOMAIN rows : rows[r].book = b /\ rows[r].status \in ACTIVE_STATES}

Offered(rows, late, r) ==
  [from |-> rows[r].owner, to |-> rows[r].target,
   stage |-> IF rows[r].status # "REQUESTED" THEN "accepted"
             ELSE IF r \in late THEN "lapsed" ELSE "made"]

LEMMA TheOffer ==
  ASSUME NEW rows, NEW late, NEW b, \A q, r \in Open(rows, b) : q = r
  PROVE  LET offer == IF Open(rows, b) = {} THEN None
                      ELSE Offered(rows, late, CHOOSE q \in Open(rows, b) : TRUE) IN
         \A r \in Open(rows, b) : offer = Offered(rows, late, r)
<1> SUFFICES ASSUME NEW r \in Open(rows, b)
             PROVE  (CHOOSE q \in Open(rows, b) : TRUE) = r
  OBVIOUS
<1>1. (CHOOSE q \in Open(rows, b) : TRUE) \in Open(rows, b)
  OBVIOUS
<1> QED BY <1>1

LEMMA OfferFacts ==
  ASSUME IInv, NEW b \in Books
  PROVE  /\ OpenOf(b) = {} => OfferOf(b) = None
         /\ \A r \in OpenOf(b) : /\ OfferOf(b) = Offered(requests, due, r)
                                 /\ OfferOf(b) \in Agreement!Offer
<1>1. OpenOf(b) = Open(requests, b) /\ \A q, r \in Open(requests, b) : q = r
  BY DEF IInv, OneOpen, OpenOf, Open, Ids
<1>2. \A r \in OpenOf(b) : OfferOf(b) = Offered(requests, due, r)
  BY <1>1, TheOffer DEF OfferOf, Offered
<1>3. \A r \in OpenOf(b) : Offered(requests, due, r) \in Agreement!Offer
  <2>1. \A r \in Ids : requests[r].owner \in Users /\ requests[r].target \in Users
    BY RowFacts DEF IInv, Tables, Row
  <2> QED BY <2>1 DEF Offered, Agreement!Offer, OpenOf
<1> QED BY <1>2, <1>3 DEF OfferOf

LEMMA NextOfferFacts ==
  ASSUME IInv', NEW b \in Books
  PROVE  /\ OpenOf(b)' = {} => OfferOf(b)' = None
         /\ \A r \in OpenOf(b)' : /\ OfferOf(b)' = Offered(requests', due', r)
                                  /\ OfferOf(b)' \in Agreement!Offer
<1>1. OpenOf(b)' = Open(requests', b) /\ \A q, r \in Open(requests', b) : q = r
  BY DEF IInv, OneOpen, OpenOf, Open, Ids
<1>2. \A r \in OpenOf(b)' : OfferOf(b)' = Offered(requests', due', r)
  BY <1>1, TheOffer DEF OfferOf, Offered
<1>3. \A r \in OpenOf(b)' : Offered(requests', due', r) \in Agreement!Offer
  <2>1. requests' \in Seq(Row)
    BY DEF IInv, Tables, TypeOK
  <2>2. \A r \in Ids' : requests'[r] \in Row
    BY <2>1, LenProperties, ElementOfSeq DEF Ids
  <2>3. \A r \in Ids' : requests'[r].owner \in Users /\ requests'[r].target \in Users
    BY <2>2 DEF Row
  <2> QED BY <2>3 DEF Offered, Agreement!Offer, OpenOf
<1> QED BY <1>2, <1>3 DEF OfferOf

\* What a write does to the offer of each book.
LEMMA OffersWritten ==
  ASSUME IInv, IInv', NEW lapsed, NEW changed, NEW row, NEW event,
         Written(lapsed, changed, row, event), lapsed \cap changed = {},
         Steps(changed, row, event), due' = due, \A q, r \in changed : q = r, NEW b \in Books
  PROVE  /\ (\A r \in changed : row.book # b) =>
              \/ OfferOf(b)' = OfferOf(b)
              \/ OfferOf(b) \in Agreement!Offer /\ OfferOf(b)' = None
         /\ \A r \in changed \cap Ids : row.book = b =>
              /\ OfferOf(b) = Offered(requests, due, r) /\ OfferOf(b) \in Agreement!Offer
              /\ OfferOf(b)' = IF row.status \in ACTIVE_STATES THEN Offered(requests', due, r)
                               ELSE None
         /\ \A r \in changed \ Ids : row.book = b =>
              IF row.status \in ACTIVE_STATES
              THEN OfferOf(b)' = Offered(requests', due, r)
              ELSE lapsed = {} => OfferOf(b)' = OfferOf(b)
<1>1. /\ \A r \in lapsed : r \in Ids /\ requests'[r].status = "EXPIRED"
      /\ \A r \in changed : requests'[r] = row
      /\ \A r \in Ids \ (lapsed \cup changed) : requests'[r] = requests[r]
      /\ Ids' = Ids \cup changed
      /\ \A r \in changed \cap Ids : /\ row.book = requests[r].book
                                     /\ requests[r].status \in ACTIVE_STATES
  <2>1. \A r \in lapsed : requests'[r].status = "EXPIRED"
    BY RowFacts DEF Written, IInv, Tables
  <2> QED BY <2>1 DEF Written, Steps, SameRequest
<1>2. /\ \A r : r \in OpenOf(b) <=> /\ r \in Ids /\ requests[r].book = b
                                    /\ requests[r].status \in ACTIVE_STATES
      /\ \A r : r \in OpenOf(b)' <=> /\ r \in Ids' /\ requests'[r].book = b
                                     /\ requests'[r].status \in ACTIVE_STATES
      /\ \A q, r \in OpenOf(b) : q = r
      /\ "EXPIRED" \notin ACTIVE_STATES
  BY DEF OpenOf, IInv, OneOpen, ACTIVE_STATES
<1>3. /\ OpenOf(b) = {} => OfferOf(b) = None
      /\ \A r \in OpenOf(b) : OfferOf(b) = Offered(requests, due, r) /\ OfferOf(b) \in Agreement!Offer
      /\ OpenOf(b)' = {} => OfferOf(b)' = None
      /\ \A r \in OpenOf(b)' : OfferOf(b)' = Offered(requests', due, r)
  BY OfferFacts, NextOfferFacts
<1>4. \A r \in Ids \ (lapsed \cup changed) : Offered(requests', due, r) = Offered(requests, due, r)
  BY <1>1 DEF Offered
<1>5. ASSUME \A r \in changed : row.book # b
      PROVE  \/ OfferOf(b)' = OfferOf(b)
             \/ OfferOf(b) \in Agreement!Offer /\ OfferOf(b)' = None
  <2>1. \A r \in OpenOf(b)' : r \in OpenOf(b) /\ r \notin lapsed \cup changed
    BY <1>1, <1>2, <1>5
  <2>2. CASE OpenOf(b)' = {}
    BY <1>3, <2>2
  <2>3. CASE OpenOf(b)' # {}
    BY <1>2, <1>3, <1>4, <2>1, <2>3
  <2> QED BY <2>2, <2>3
<1>6. ASSUME NEW r \in changed \cap Ids, row.book = b
      PROVE  /\ OfferOf(b) = Offered(requests, due, r) /\ OfferOf(b) \in Agreement!Offer
             /\ OfferOf(b)' = IF row.status \in ACTIVE_STATES THEN Offered(requests', due, r)
                              ELSE None
  <2>1. r \in OpenOf(b)
    BY <1>1, <1>2, <1>6
  <2>2. row.status \in ACTIVE_STATES => r \in OpenOf(b)'
    BY <1>1, <1>2, <1>6
  <2>3. row.status \notin ACTIVE_STATES => OpenOf(b)' = {}
    BY <1>1, <1>2, <2>1
  <2> QED BY <1>3, <2>1, <2>2, <2>3
<1>7. ASSUME NEW r \in changed \ Ids, row.book = b
      PROVE  IF row.status \in ACTIVE_STATES
             THEN OfferOf(b)' = Offered(requests', due, r)
             ELSE lapsed = {} => OfferOf(b)' = OfferOf(b)
  <2>1. CASE row.status \in ACTIVE_STATES
    <3>1. r \in OpenOf(b)'
      BY <1>1, <1>2, <1>7, <2>1
    <3> QED BY <1>3, <2>1, <3>1
  <2>2. CASE row.status \notin ACTIVE_STATES /\ lapsed = {}
    <3>1. \A q \in Ids : q \notin lapsed \cup changed
      BY <1>7, <2>2
    <3>2. OpenOf(b)' = OpenOf(b)
      <4>1. \A q : q \in OpenOf(b)' <=> q \in OpenOf(b)
        BY <1>1, <1>2, <1>7, <2>2, <3>1
      <4> QED BY <4>1 DEF OpenOf
    <3>3. \A q \in OpenOf(b) : q \in Ids
      BY <1>2
    <3>4. CASE OpenOf(b) = {}
      BY <1>3, <2>2, <3>2, <3>4
    <3>5. CASE OpenOf(b) # {}
      BY <1>3, <1>4, <2>2, <3>1, <3>2, <3>3, <3>5
    <3> QED BY <3>4, <3>5
  <2> QED BY <2>1, <2>2
<1> QED BY <1>5, <1>6, <1>7

\* The moves of the agreement, of the offer of one book.
LEMMA AgreementMoves ==
  ASSUME NEW b \in Books
  PROVE  /\ OfferOf(b)' = OfferOf(b) /\ owner'[b] = owner[b] => Agreement!Move(b)
         /\ OfferOf(b) \in Agreement!Offer /\ OfferOf(b)' = None /\ owner'[b] = owner[b]
              => Agreement!Move(b)
         /\ \A to \in Users \ {owner[b]} :
              /\ OfferOf(b) \in Agreement!Offer => OfferOf(b).stage = "lapsed"
              /\ OfferOf(b)' = [from |-> owner[b], to |-> to, stage |-> "made"]
              /\ owner'[b] = owner[b]
              => Agreement!Move(b)
         /\ \A stage \in {"lapsed", "accepted"} :
              /\ OfferOf(b) \in Agreement!Offer /\ OfferOf(b).stage = "made"
              /\ OfferOf(b)' = [OfferOf(b) EXCEPT !.stage = stage] /\ owner'[b] = owner[b]
              => Agreement!Move(b)
         /\ /\ OfferOf(b) \in Agreement!Offer /\ OfferOf(b).stage = "accepted"
            /\ OfferOf(b).from = owner[b] /\ owner'[b] = OfferOf(b).to /\ OfferOf(b)' = None
            => Agreement!Move(b)
         /\ owner'[b] \in Users \ {owner[b]} /\ OfferOf(b)' = OfferOf(b) => Agreement!Move(b)
<1> DEFINE o == OfferOf(b)
           n == OfferOf(b)'
<1>1. [c \in Books |-> OfferOf(c)][b] = o /\ [c \in Books |-> OfferOf(c)]'[b] = n
  OBVIOUS
<1> HIDE DEF o, n
<1>2. /\ n = o /\ owner'[b] = owner[b] => Agreement!Move(b)
      /\ o \in Agreement!Offer /\ n = None /\ owner'[b] = owner[b] => Agreement!Move(b)
  BY <1>1 DEF Agreement!Move, Agreement!Kept, Agreement!Drop, Agreement!Standing
<1>3. \A to \in Users \ {owner[b]} :
        /\ o \in Agreement!Offer => o.stage = "lapsed"
        /\ n = [from |-> owner[b], to |-> to, stage |-> "made"]
        /\ owner'[b] = owner[b]
        => Agreement!Move(b)
  BY <1>1 DEF Agreement!Move, Agreement!Kept, Agreement!Make, Agreement!Standing
<1>4. \A stage \in {"lapsed", "accepted"} :
        /\ o \in Agreement!Offer /\ o.stage = "made"
        /\ n = [o EXCEPT !.stage = stage] /\ owner'[b] = owner[b]
        => Agreement!Move(b)
  BY <1>1 DEF Agreement!Move, Agreement!Kept, Agreement!Lapse, Agreement!Accept, Agreement!Standing
<1>5. /\ o \in Agreement!Offer /\ o.stage = "accepted"
      /\ o.from = owner[b] /\ owner'[b] = o.to /\ n = None
      => Agreement!Move(b)
  BY <1>1 DEF Agreement!Move, Agreement!Complete, Agreement!Standing
<1>6. owner'[b] \in Users \ {owner[b]} /\ n = o => Agreement!Move(b)
  BY <1>1 DEF Agreement!Move, Agreement!Override
<1> QED BY <1>2, <1>3, <1>4, <1>5, <1>6 DEF o, n

\* How the change of a row shows in the offer of its book.
Agreed(r, row) ==
  LET b == row.book IN
  \/ row.status \in TERMINAL_STATES /\ owner'[b] = owner[b]
  \/ row.status = "TARGET_ACCEPTED" /\ requests[r].status = "REQUESTED" /\ r \notin due
     /\ owner'[b] = owner[b]
  \/ row.status = "IN_REVIEW" /\ requests[r].status = "TARGET_ACCEPTED" /\ owner'[b] = owner[b]
  \/ row.status = "COMPLETED" /\ requests[r].status = "IN_REVIEW"
     /\ owner[b] = requests[r].owner /\ owner'[b] = requests[r].target

LEMMA MoveIsAgreed ==
  ASSUME IInv, IInv', NEW r \in Ids, ~Expires(r), requests[r].status \in ACTIVE_STATES,
         NEW row \in Row, SameRequest(requests[r], row), NEW kind \in EVENT_TYPES,
         NEW u \in Users, NEW prev \in Users \cup {None}, NEW new \in Users \cup {None},
         Moves(r, row, kind, u, prev, new), due' = due,
         \A c \in Books \ {row.book} : owner'[c] = owner[c],
         Agreed(r, row), NEW b \in Books
  PROVE  Agreement!Move(b)
<1> DEFINE event == Entry(r, kind, requests[r].status, row.status, u, prev, new)
<1>1. TypeOK /\ r \notin Due /\ Due \cap {r} = {}
  BY DEF IInv, Tables, Due
<1>2. Written(Due, {r}, row, event)
  BY <1>1, MovesWrites
<1>3. Steps({r}, row, event)
  BY DEF Steps, Entry
<1> HIDE DEF event
<1>4. /\ row.book # b => \/ OfferOf(b)' = OfferOf(b)
                         \/ OfferOf(b) \in Agreement!Offer /\ OfferOf(b)' = None
      /\ row.book = b =>
           /\ OfferOf(b) = Offered(requests, due, r) /\ OfferOf(b) \in Agreement!Offer
           /\ OfferOf(b)' = IF row.status \in ACTIVE_STATES THEN Offered(requests', due, r)
                            ELSE None
  BY <1>1, <1>2, <1>3, OffersWritten
<1>5. CASE row.book # b
  BY <1>4, <1>5, AgreementMoves
<1>6. CASE row.book = b
  <2>1. requests'[r] = row /\ row.owner = requests[r].owner /\ row.target = requests[r].target
    BY <1>2 DEF Written, SameRequest
  <2>2. CASE row.status \in TERMINAL_STATES /\ owner'[b] = owner[b]
    <3>1. OfferOf(b)' = None
      BY <1>4, <1>6, <2>2 DEF ACTIVE_STATES, TERMINAL_STATES
    <3> QED BY <1>4, <1>6, <2>2, <3>1, AgreementMoves
  <2>3. CASE row.status = "TARGET_ACCEPTED" /\ requests[r].status = "REQUESTED" /\ r \notin due
             /\ owner'[b] = owner[b]
    <3>1. OfferOf(b).stage = "made" /\ OfferOf(b)' = [OfferOf(b) EXCEPT !.stage = "accepted"]
      BY <1>4, <1>6, <2>1, <2>3 DEF Offered, ACTIVE_STATES
    <3> QED BY <1>4, <1>6, <2>3, <3>1, AgreementMoves
  <2>4. CASE row.status = "IN_REVIEW" /\ requests[r].status = "TARGET_ACCEPTED"
             /\ owner'[b] = owner[b]
    <3>1. OfferOf(b)' = OfferOf(b)
      BY <1>4, <1>6, <2>1, <2>4 DEF Offered, ACTIVE_STATES
    <3> QED BY <2>4, <3>1, AgreementMoves
  <2>5. CASE row.status = "COMPLETED" /\ requests[r].status = "IN_REVIEW"
             /\ owner[b] = requests[r].owner /\ owner'[b] = requests[r].target
    <3>1. /\ OfferOf(b).stage = "accepted" /\ OfferOf(b).from = owner[b]
          /\ owner'[b] = OfferOf(b).to
      BY <1>4, <1>6, <2>5 DEF Offered
    <3>2. OfferOf(b)' = None
      BY <1>4, <1>6, <2>5 DEF ACTIVE_STATES
    <3> QED BY <1>4, <1>6, <3>1, <3>2, AgreementMoves
  <2> QED BY <1>6, <2>2, <2>3, <2>4, <2>5 DEF Agreed
<1> QED BY <1>5, <1>6

LEMMA BecomesIsAgreed ==
  ASSUME IInv, IInv', NEW r \in Ids, ~Expires(r), requests[r].status \in ACTIVE_STATES,
         NEW status \in STATES, NEW u \in Users, NEW kind \in EVENT_TYPES,
         Becomes(r, status, kind, u), due' = due, owner' = owner,
         \/ status \in TERMINAL_STATES
         \/ status = "TARGET_ACCEPTED" /\ requests[r].status = "REQUESTED" /\ r \notin due,
         NEW b \in Books
  PROVE  Agreement!Move(b)
<1> DEFINE row == [requests[r] EXCEPT !.status = status]
<1>1. /\ row \in Row /\ row.status = status /\ SameRequest(requests[r], row)
  BY StatusFacts DEF IInv, Tables
<1>2. Moves(r, row, kind, u, None, None)
  BY DEF Becomes
<1> HIDE DEF row
<1>3. Agreed(r, row)
  BY <1>1 DEF Agreed
<1> QED BY <1>1, <1>2, <1>3, MoveIsAgreed

LEMMA InvalidateIsAgreed ==
  ASSUME IInv, IInv', NEW r \in Ids, ~Expires(r), requests[r].status \in ACTIVE_STATES,
         NEW u \in Users, Invalidate(r, u), due' = due, owner' = owner, NEW b \in Books
  PROVE  Agreement!Move(b)
<1>1. /\ Becomes(r, "INVALIDATED", "invalidated", u) /\ "INVALIDATED" \in STATES
      /\ "INVALIDATED" \in TERMINAL_STATES /\ "invalidated" \in EVENT_TYPES
  BY DEF Invalidate, STATES, TERMINAL_STATES, EVENT_TYPES
<1> QED BY <1>1, BecomesIsAgreed

LEMMA AnswerIsAgreed ==
  ASSUME IInv, IInv', NEW u \in Users, NEW r \in Ids,
         accept_target(u, r) \/ reject_target(u, r) \/ cancel(u, r), NEW b \in Books
  PROVE  Agreement!Move(b)
<1>1. /\ requests[r].status = "REQUESTED" /\ ~Expires(r) /\ requests[r].status \in ACTIVE_STATES
      /\ due' = due /\ owner' = owner /\ r \notin due
  BY DEF accept_target, reject_target, cancel, AwaitsTarget, ACTIVE_STATES, Expires
<1>2. /\ {"TARGET_ACCEPTED", "REJECTED", "CANCELLED"} \subseteq STATES
      /\ {"REJECTED", "CANCELLED"} \subseteq TERMINAL_STATES
      /\ {"target_accepted", "target_rejected", "cancelled"} \subseteq EVENT_TYPES
  BY DEF STATES, ACTIVE_STATES, TERMINAL_STATES, EVENT_TYPES
<1>3. CASE Invalidate(r, u)
  BY <1>1, <1>3, InvalidateIsAgreed
<1>4. CASE Becomes(r, "TARGET_ACCEPTED", "target_accepted", u)
  BY <1>1, <1>2, <1>4, BecomesIsAgreed
<1>5. CASE Becomes(r, "REJECTED", "target_rejected", u)
  BY <1>1, <1>2, <1>5, BecomesIsAgreed
<1>6. CASE Becomes(r, "CANCELLED", "cancelled", u)
  BY <1>1, <1>2, <1>6, BecomesIsAgreed
<1> QED BY <1>3, <1>4, <1>5, <1>6 DEF accept_target, reject_target, cancel

LEMMA ReviewIsAgreed ==
  ASSUME IInv, IInv', NEW u \in Users, NEW r \in Ids,
         start_review(u, r) \/ reject_review(u, r) \/ approve(u, r), NEW b \in Books
  PROVE  Agreement!Move(b)
<1>1. /\ requests[r].status \in {"TARGET_ACCEPTED", "IN_REVIEW"} /\ ~Expires(r)
      /\ requests[r].status \in ACTIVE_STATES /\ due' = due
  BY DEF start_review, reject_review, approve, Decides, Expires, ACTIVE_STATES
<1>2. /\ {"IN_REVIEW", "REJECTED", "COMPLETED"} \subseteq STATES /\ "REJECTED" \in TERMINAL_STATES
      /\ {"review_started", "rejected", "approved"} \subseteq EVENT_TYPES
  BY DEF STATES, ACTIVE_STATES, TERMINAL_STATES, EVENT_TYPES
<1>3. TypeOK /\ requests[r] \in Row
  BY RowFacts DEF IInv, Tables
<1>4. CASE Invalidate(r, u) /\ UNCHANGED owner
  BY <1>1, <1>4, InvalidateIsAgreed
<1>5. CASE reject_review(u, r)
  <2>1. Becomes(r, "REJECTED", "rejected", u) /\ owner' = owner
    BY <1>5 DEF reject_review
  <2> QED BY <1>1, <1>2, <2>1, BecomesIsAgreed
<1>6. CASE start_review(u, r) /\ SameRevision(r)
  <2> DEFINE row == Claimed(r, u)
  <2>1. /\ Moves(r, row, "review_started", u, None, None) /\ owner' = owner
        /\ requests[r].status = "TARGET_ACCEPTED"
    BY <1>6 DEF start_review
  <2>2. row \in Row /\ row.status = "IN_REVIEW" /\ SameRequest(requests[r], row)
    BY <1>2, <1>3 DEF Row, Claimed, SameRequest
  <2> HIDE DEF row
  <2>3. Agreed(r, row)
    BY <2>1, <2>2 DEF Agreed
  <2> QED BY <1>1, <1>2, <2>1, <2>2, <2>3, MoveIsAgreed
<1>7. CASE /\ Decides(u, r) /\ SameOwner(r)
           /\ owner' = [owner EXCEPT ![requests[r].book] = requests[r].target]
           /\ Moves(r, [requests[r] EXCEPT !.status = "COMPLETED"], "approved", u,
                    requests[r].owner, requests[r].target)
  <2> DEFINE row == [requests[r] EXCEPT !.status = "COMPLETED"]
  <2>1. row \in Row /\ row.status = "COMPLETED" /\ SameRequest(requests[r], row)
    BY <1>2, <1>3, StatusFacts
  <2>2. Moves(r, row, "approved", u, requests[r].owner, requests[r].target)
    BY <1>7
  <2> HIDE DEF row
  <2>3. /\ requests[r].status = "IN_REVIEW" /\ owner[row.book] = requests[r].owner
        /\ owner'[row.book] = requests[r].target
        /\ \A c \in Books \ {row.book} : owner'[c] = owner[c]
        /\ requests[r].owner \in Users /\ requests[r].target \in Users
    BY <1>3, <1>7, <2>1 DEF Decides, SameOwner, SameRequest, TypeOK, Row
  <2>4. Agreed(r, row)
    BY <2>1, <2>3 DEF Agreed
  <2> QED BY <1>1, <1>2, <2>1, <2>2, <2>3, <2>4, MoveIsAgreed
<1>8. CASE start_review(u, r)
  BY <1>4, <1>6, <1>8 DEF start_review
<1>9. CASE approve(u, r)
  BY <1>4, <1>7, <1>9 DEF approve
<1> QED BY <1>5, <1>8, <1>9

LEMMA SubmitIsAgreed ==
  ASSUME IInv, IInv', NEW u \in Users, NEW c \in Books, NEW t \in Users, submit(u, c, t),
         NEW b \in Books
  PROVE  Agreement!Move(b)
<1> DEFINE r == Len(requests) + 1
           row == NewRow(c, u, t, "REQUESTED", "normal")
           event == Entry(r, "submitted", "none", "REQUESTED", u, u, t)
<1>1. /\ TypeOK /\ Len(requests) \in Nat /\ Ids = 1 .. Len(requests) /\ MaxRequests \in Nat
      /\ due \subseteq Ids /\ Due \subseteq Ids
  BY TableFacts DEF IInv, Tables, TypeOK
<1>2. /\ owner[c] = u /\ t # u /\ MayOpen(c) /\ Len(requests) < MaxRequests
      /\ requests' = Append(Expired, row) /\ Logs(<<event>>) /\ due' = due /\ owner' = owner
  BY DEF submit
<1>3. r \notin Ids /\ r \in 1 .. MaxRequests
  BY <1>1, <1>2
<1>4. "REQUESTED" \in STATES /\ "submitted" \in EVENT_TYPES /\ "REQUESTED" \in ACTIVE_STATES
  BY DEF STATES, ACTIVE_STATES, EVENT_TYPES
<1>5. /\ row \in Row /\ row.book = c /\ row.owner = u /\ row.target = t /\ row.status = "REQUESTED"
  BY <1>1, <1>2, <1>4, NewRowFacts
<1>6. event \in Event /\ event.req = r /\ event.from = "none" /\ event.to = "REQUESTED"
  BY <1>3, <1>4 DEF Entry, Event
<1> HIDE DEF row, event
<1>7. Written(Due, {r}, row, event)
  BY <1>1, <1>2, <1>5, <1>6, AppendWrites
<1> HIDE DEF r
<1>8. Steps({r}, row, event) /\ Due \cap {r} = {}
  BY <1>1, <1>3, <1>5, <1>6 DEF Steps
<1>9. /\ c # b => \/ OfferOf(b)' = OfferOf(b)
                  \/ OfferOf(b) \in Agreement!Offer /\ OfferOf(b)' = None
      /\ c = b => OfferOf(b)' = Offered(requests', due, r)
  BY <1>2, <1>3, <1>4, <1>5, <1>7, <1>8, OffersWritten
<1>10. CASE c # b
  BY <1>2, <1>9, <1>10, AgreementMoves
<1>11. CASE c = b
  <2>1. OfferOf(b)' = [from |-> owner[b], to |-> t, stage |-> "made"]
    <3>1. requests'[r] = row /\ r \notin due
      BY <1>1, <1>3, <1>7 DEF Written
    <3> QED BY <1>2, <1>5, <1>9, <1>11, <3>1 DEF Offered
  <2>2. OfferOf(b) \in Agreement!Offer => OfferOf(b).stage = "lapsed"
    <3>1. \A q \in OpenOf(b) : q \in Ids /\ Expires(q)
      BY <1>2, <1>11 DEF OpenOf, MayOpen, ACTIVE_STATES, TERMINAL_STATES
    <3>2. CASE OpenOf(b) = {}
      BY <3>2, OfferFacts, NoneIsNoOffer
    <3>3. CASE OpenOf(b) # {}
      BY <3>1, <3>3, OfferFacts DEF Offered, Expires
    <3> QED BY <3>2, <3>3
  <2> QED BY <1>2, <1>11, <2>1, <2>2, AgreementMoves
<1> QED BY <1>10, <1>11

LEMMA EmergencyIsAgreed ==
  ASSUME IInv, IInv', NEW u \in Users, NEW c \in Books, NEW t \in Users, emergency(u, c, t),
         NEW b \in Books
  PROVE  Agreement!Move(b)
<1> DEFINE r == Len(requests) + 1
           row == NewRow(c, u, t, "COMPLETED", "emergency")
           event == Entry(r, "emergency_transfer", "none", "COMPLETED", u, owner[c], t)
<1>1. /\ TypeOK /\ Len(requests) \in Nat /\ Ids = 1 .. Len(requests) /\ MaxRequests \in Nat
  BY TableFacts DEF IInv, Tables
<1>2. /\ owner[c] # t /\ Len(requests) < MaxRequests
      /\ requests' = Append(requests, row) /\ log' = Append(log, event)
      /\ owner' = [owner EXCEPT ![c] = t] /\ due' = due
  BY DEF emergency
<1>3. r \notin Ids /\ r \in 1 .. MaxRequests
  BY <1>1, <1>2
<1>4. "COMPLETED" \in STATES /\ "COMPLETED" \notin ACTIVE_STATES
      /\ "emergency_transfer" \in EVENT_TYPES
  BY DEF STATES, ACTIVE_STATES, TERMINAL_STATES, EVENT_TYPES
<1>5. row \in Row /\ row.book = c /\ row.status = "COMPLETED"
  BY <1>1, <1>4, NewRowFacts
<1>6. event \in Event /\ event.req = r /\ event.from = "none" /\ event.to = "COMPLETED"
  BY <1>1, <1>3, <1>4 DEF Entry, Event, TypeOK
<1> HIDE DEF row, event
<1>7. Written({}, {r}, row, event)
  BY <1>1, <1>2, <1>5, <1>6, EmergencyWrites
<1> HIDE DEF r
<1>8. Steps({r}, row, event)
  BY <1>3, <1>5, <1>6 DEF Steps
<1>9. /\ c # b => \/ OfferOf(b)' = OfferOf(b)
                  \/ OfferOf(b) \in Agreement!Offer /\ OfferOf(b)' = None
      /\ c = b => OfferOf(b)' = OfferOf(b)
  BY <1>2, <1>3, <1>4, <1>5, <1>7, <1>8, OffersWritten
<1>10. owner'[b] = IF c = b THEN t ELSE owner[b]
  BY <1>1, <1>2 DEF TypeOK
<1> QED BY <1>2, <1>9, <1>10, AgreementMoves

LEMMA ReadIsAgreed ==
  ASSUME IInv, IInv', Read, NEW b \in Books
  PROVE  Agreement!Move(b)
<1> DEFINE any == [kind |-> "expired"]
<1>1. TypeOK /\ UNCHANGED <<owner, due>>
  BY DEF IInv, Tables, Read
<1>2. Written(Due, {}, any, any)
  BY <1>1, ReadWrites
<1> HIDE DEF any
<1>3. Steps({}, any, any) /\ Due \cap {} = {}
  BY DEF Steps
<1>4. \/ OfferOf(b)' = OfferOf(b)
      \/ OfferOf(b) \in Agreement!Offer /\ OfferOf(b)' = None
  BY <1>1, <1>2, <1>3, OffersWritten
<1> QED BY <1>1, <1>4, AgreementMoves

LEMMA LapseIsAgreed ==
  ASSUME IInv, IInv', NEW r \in Ids, SevenDaysPass(r), NEW b \in Books
  PROVE  Agreement!Move(b)
<1>1. /\ requests[r].status = "REQUESTED" /\ r \notin due /\ due' = due \cup {r}
      /\ UNCHANGED <<owner, requests>>
  BY DEF SevenDaysPass
<1>2. OpenOf(b)' = OpenOf(b)
  BY <1>1 DEF OpenOf, Ids
<1>3. /\ OpenOf(b) = {} => OfferOf(b) = None /\ OfferOf(b)' = None
      /\ \A q \in OpenOf(b) : /\ OfferOf(b) = Offered(requests, due, q)
                              /\ OfferOf(b) \in Agreement!Offer
                              /\ OfferOf(b)' = Offered(requests, due \cup {r}, q)
  BY <1>1, <1>2, OfferFacts, NextOfferFacts
<1>4. CASE r \in OpenOf(b)
  <2>1. OfferOf(b).stage = "made" /\ OfferOf(b)' = [OfferOf(b) EXCEPT !.stage = "lapsed"]
    BY <1>1, <1>3, <1>4 DEF Offered
  <2> QED BY <1>1, <1>3, <1>4, <2>1, AgreementMoves
<1>5. CASE r \notin OpenOf(b)
  <2>1. OfferOf(b)' = OfferOf(b)
    <3>1. CASE OpenOf(b) = {}
      BY <1>3, <3>1
    <3>2. CASE OpenOf(b) # {}
      <4>1. PICK q \in OpenOf(b) : TRUE
        BY <3>2
      <4>2. q # r
        BY <1>5
      <4>3. Offered(requests, due \cup {r}, q) = Offered(requests, due, q)
        BY <4>2 DEF Offered
      <4> QED BY <1>3, <4>1, <4>3
    <3> QED BY <3>1, <3>2
  <2> QED BY <1>1, <2>1, AgreementMoves
<1> QED BY <1>4, <1>5

\* One offer of a book stands at a time; it is made by the owner, accepted by its
\* target before it lapses and completed from the owner who made it, and apart
\* from that the owner changes by an emergency transfer only.
THEOREM TablesImplementAgreement == Spec => ImplementsAgreement
<1>1. Init => Agreement!Init
  <2> SUFFICES ASSUME Init PROVE Agreement!Init
    OBVIOUS
  <2>1. \A b \in Books : OfferOf(b) = None
    BY IInvInit, OfferFacts DEF Init, OpenOf, Ids
  <2> QED BY <2>1 DEF Init, Agreement!Init
<1>2. ASSUME IInv, IInv', [Next]_vars
      PROVE  [Agreement!Next]_(<<owner, [b \in Books |-> OfferOf(b)]>>)
  <2> DEFINE Agrees == \A b \in Books : Agreement!Move(b)
  <2>1. CASE \/ \E u \in Users, b \in Books, t \in Users : submit(u, b, t) \/ emergency(u, b, t)
             \/ \E u \in Users, r \in Ids :
                  \/ accept_target(u, r) \/ reject_target(u, r) \/ cancel(u, r)
                  \/ start_review(u, r) \/ reject_review(u, r) \/ approve(u, r)
             \/ Read
             \/ \E r \in Ids : SevenDaysPass(r)
    <3>1. Agrees
      BY <1>2, <2>1, SubmitIsAgreed, EmergencyIsAgreed, AnswerIsAgreed, ReviewIsAgreed,
         ReadIsAgreed, LapseIsAgreed
    <3>2. owner' \in [Books -> Users]
      BY <1>2 DEF IInv, Tables, TypeOK
    <3>3. \A b \in Books : OfferOf(b)' \in Agreement!Offer \cup {None}
      BY <1>2, NextOfferFacts
    <3>4. [b \in Books |-> OfferOf(b)]' \in [Books -> Agreement!Offer \cup {None}]
      BY <3>3
    <3> QED BY <3>1, <3>2, <3>4 DEF Agreement!Next
  <2>2. CASE \/ \E b \in Books : Edit(b) \/ StartJob(b) \/ EndJob(b) \/ StaleJob(b)
             \/ \E u \in Users : Disable(u) \/ Enable(u)
             \/ UNCHANGED vars
    <3>1. UNCHANGED <<owner, requests, due>>
      BY <2>2 DEF Edit, StartJob, EndJob, StaleJob, JobMoves, Disable, Enable, vars
    <3>2. \A b \in Books : OfferOf(b)' = OfferOf(b)
      BY <3>1 DEF OfferOf, OpenOf, Ids
    <3> QED BY <3>1, <3>2
  <2> QED BY <1>2, <2>1, <2>2 DEF Next
<1> QED BY <1>1, <1>2, Inductive, PTL DEF Spec, ImplementsAgreement, Agreement!Spec
=============================================================================
