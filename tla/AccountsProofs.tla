--------------------------- MODULE AccountsProofs ---------------------------
(***************************************************************************)
(* Theorems about Accounts, for every set of accounts, browsers, addresses  *)
(* and identities and every number of requests: the sessions that are       *)
(* accepted, the addresses that are confirmed, and the ways into an account. *)
(***************************************************************************)
EXTENDS Accounts, TLAPS

-----------------------------------------------------------------------------
(* The inductive invariant.  Its parts take the rows and the links they speak *)
(* of as parameters, so that a step can be described by what it does to them. *)

\* These credentials of an account were read at this version: they are those of
\* the account unless its version has grown since.
ReadAt(rows, a, version, seen) ==
  /\ a \in Accounts /\ rows[a].status # "absent"
  /\ version \in Nat /\ version <= rows[a].version
  /\ version = rows[a].version => seen = Credentials(rows[a])

Confirmed(links, a, e) ==
  \E l \in Ids : /\ links[l].account = a /\ links[l].purpose = "verify"
                 /\ links[l].state = "opened" /\ links[l].target = e

RowIsRight(rows, links, a) ==
  /\ rows[a].status # "absent" => rows[a].password # 0 \/ rows[a].identity # None
  /\ rows[a].verified => rows[a].email = rows[a].given \/ Confirmed(links, a, rows[a].email)

SessionIsRight(rows, session) ==
  session = None \/ ReadAt(rows, session.account, session.version, session.seen)

OAuthIsRight(rec) ==
  rec.stage = "pending" => rec.subject \in Subjects

LinkIsRight(rec) ==
  rec.state # "none" => rec.account \in Accounts

\* Before its link is sent.
Sending == {"register", "pending", "setPending", "issue", "send"}

RequestIsRight(rows, links, rec) ==
  /\ rec.kind # "idle" => rec.id # 0 /\ rec.target \in Accounts /\ rec.row \in Row
  /\ rec.kind \notin {"idle", "register", "enrol"} => rows[rec.target].status # "absent"
  /\ rec.kind = "cookie" =>
       ReadAt(rows, rec.target, rec.row.version, Credentials(rec.row))
  /\ rec.kind \in {"status", "setStatus"} => rec.value \in {"active", "disabled"}
  /\ rec.kind \in {"role", "setRole"} => rec.value \in Roles
  /\ rec.kind = "decide" => rec.value \in {"pending", "approved", "rejected"}
  /\ rec.kind \in Sending \cup {"promote"} => rec.value \in Emails
  /\ rec.kind = "link" => rec.value \in Subjects
  /\ rec.kind = "enrol" => rec.value \in [subject : Subjects, email : Emails]
  /\ rec.kind = "rehash" => rec.row.password # 0
  /\ rec.kind = "unlink" => rows[rec.target].password # 0
  /\ rec.kind = "promote" => Confirmed(links, rec.target, rec.value)

\* A link is written once: its number is that of one request, which is no other's.
NumbersAreFresh ==
  /\ \A b, c \in Browsers :
       req[b].kind # "idle" /\ req[c].kind # "idle" /\ req[b].id = req[c].id => b = c
  /\ \A b \in Browsers : req[b].id <= served
  /\ \A l \in Ids : link[l].state # "none" => l <= served
  /\ \A b \in Browsers : req[b].kind \in Sending => link[req[b].id].state = "none"

IInv ==
  /\ TypeOK
  /\ \A a \in Accounts : RowIsRight(account, link, a)
  /\ \A b \in Browsers : SessionIsRight(account, cookie[b])
  /\ \A b \in Browsers : OAuthIsRight(oauth[b])
  /\ \A l \in Ids : LinkIsRight(link[l])
  /\ \A b \in Browsers : RequestIsRight(account, link, req[b])
  /\ \A a \in Accounts : applied[a] # "none" => account[a].status # "absent"
  /\ NumbersAreFresh

LEMMA IdleFacts ==
  /\ Idle \in RequestOf(Idle.value) /\ Idle.kind = "idle" /\ Idle.id = 0
  /\ \A rows, links : RequestIsRight(rows, links, Idle)
<1>1. Idle \in RequestOf(Idle.value) /\ Idle.kind = "idle" /\ Idle.id = 0
  BY BoundAssumption DEF Idle, RequestOf, Kinds
<1> QED BY <1>1 DEF RequestIsRight, Sending

-----------------------------------------------------------------------------
(* What no step undoes *)

\* An account that exists goes on to exist and to have a password if it had one,
\* and what its sessions were opened on changes with their version only.
RowGrows(row, next) ==
  row.status # "absent" =>
    /\ next.status # "absent" /\ row.version <= next.version
    /\ row.version = next.version => Credentials(next) = Credentials(row)
    /\ row.password # 0 => next.password # 0

RowsGrow(rows, next) == \A a \in Accounts : RowGrows(rows[a], next[a])

\* A link that was opened stays so.
LinksKeep(links, next) == \A l \in Ids : links[l].state = "opened" => next[l] = links[l]

LEMMA RightStays ==
  ASSUME NEW rows \in [Accounts -> Row], NEW next \in [Accounts -> Row], RowsGrow(rows, next),
         NEW links, NEW later, LinksKeep(links, later)
  PROVE  /\ \A a, e : Confirmed(links, a, e) => Confirmed(later, a, e)
         /\ \A a, version, seen : ReadAt(rows, a, version, seen) => ReadAt(next, a, version, seen)
         /\ \A session : SessionIsRight(rows, session) => SessionIsRight(next, session)
         /\ \A rec : RequestIsRight(rows, links, rec) => RequestIsRight(next, later, rec)
<1>1. \A a, e : Confirmed(links, a, e) => Confirmed(later, a, e)
  BY DEF LinksKeep, Confirmed
<1>2. ASSUME NEW a, NEW version, NEW seen, ReadAt(rows, a, version, seen)
      PROVE  ReadAt(next, a, version, seen)
  <2>1. /\ a \in Accounts /\ rows[a].status # "absent" /\ version \in Nat
        /\ version <= rows[a].version /\ (version = rows[a].version => seen = Credentials(rows[a]))
    BY <1>2 DEF ReadAt
  <2>2. rows[a].version \in Nat /\ next[a].version \in Nat
    BY <2>1 DEF Row
  <2>3. /\ next[a].status # "absent" /\ rows[a].version <= next[a].version
        /\ rows[a].version = next[a].version => Credentials(next[a]) = Credentials(rows[a])
    BY <2>1 DEF RowsGrow, RowGrows
  <2>4. version <= next[a].version
        /\ (version = next[a].version => version = rows[a].version /\ rows[a].version = next[a].version)
    BY <2>1, <2>2, <2>3
  <2> QED BY <2>1, <2>3, <2>4 DEF ReadAt
<1>3. \A session : SessionIsRight(rows, session) => SessionIsRight(next, session)
  BY <1>2 DEF SessionIsRight
<1>4. ASSUME NEW rec, RequestIsRight(rows, links, rec) PROVE RequestIsRight(next, later, rec)
  <2>1. rec.kind \notin {"idle", "register", "enrol"} =>
          /\ rows[rec.target].status # "absent" /\ next[rec.target].status # "absent"
          /\ rows[rec.target].password # 0 => next[rec.target].password # 0
    BY <1>4 DEF RequestIsRight, RowsGrow, RowGrows
  <2> QED BY <1>1, <1>2, <1>4, <2>1 DEF RequestIsRight
<1> QED BY <1>1, <1>2, <1>3, <1>4

-----------------------------------------------------------------------------
(* The parts of a step *)

RowsMove ==
  /\ account' \in [Accounts -> Row] /\ RowsGrow(account, account')
  /\ \A a \in Accounts : RowIsRight(account', link', a)

LinksMove ==
  /\ link' \in [Ids -> EmailLink] /\ LinksKeep(link, link')
  /\ \A l \in Ids : LinkIsRight(link'[l])

NothingSent == \A l \in Ids : link'[l].state # "none" => link[l].state # "none"

CookiesMove ==
  /\ cookie' \in [Browsers -> CookieOf \cup {None}]
  /\ \A b \in Browsers : SessionIsRight(account', cookie'[b])

OAuthMove ==
  /\ oauth' \in [Browsers -> OAuth]
  /\ \A b \in Browsers : OAuthIsRight(oauth'[b])

RequestsMove ==
  /\ DOMAIN req' = Browsers
  /\ \A b \in Browsers : /\ req'[b] \in RequestOf(req'[b].value)
                         /\ RequestIsRight(account', link', req'[b])
  /\ NumbersAreFresh' /\ served' \in 0 .. MaxRequests

AppliedMove ==
  /\ applied' \in [Accounts -> {"none", "pending", "approved", "rejected"}]
  /\ \A a \in Accounts : applied'[a] # "none" => account'[a].status # "absent"

LEMMA MovesKeepIInv ==
  ASSUME RowsMove, LinksMove, CookiesMove, OAuthMove, RequestsMove, AppliedMove
  PROVE  IInv'
<1>1. TypeOK'
  BY DEF RowsMove, LinksMove, CookiesMove, OAuthMove, RequestsMove, AppliedMove, TypeOK
<1> QED BY <1>1
        DEF RowsMove, LinksMove, CookiesMove, OAuthMove, RequestsMove, AppliedMove, IInv

LEMMA SameRows ==
  ASSUME IInv, UNCHANGED account, LinksMove
  PROVE  RowsMove
<1>1. account' \in [Accounts -> Row]
  BY DEF IInv, TypeOK
<1>2. RowsGrow(account, account')
  BY <1>1 DEF RowsGrow, RowGrows, Row
<1>3. \A a, e : Confirmed(link, a, e) => Confirmed(link', a, e)
  BY DEF LinksMove, LinksKeep, Confirmed
<1>4. \A a \in Accounts : RowIsRight(account', link', a)
  BY <1>3 DEF IInv, RowIsRight
<1> QED BY <1>1, <1>2, <1>4 DEF RowsMove

LEMMA SameLinks ==
  ASSUME IInv, UNCHANGED link
  PROVE  LinksMove /\ NothingSent
BY DEF IInv, TypeOK, LinksMove, LinksKeep, NothingSent

LEMMA SameCookies ==
  ASSUME IInv, RowsMove, LinksMove, UNCHANGED cookie
  PROVE  CookiesMove
<1>1. account \in [Accounts -> Row] /\ account' \in [Accounts -> Row]
  BY DEF IInv, TypeOK, RowsMove
<1>2. \A session : SessionIsRight(account, session) => SessionIsRight(account', session)
  BY <1>1, RightStays DEF RowsMove, LinksMove
<1> QED BY <1>2 DEF IInv, TypeOK, CookiesMove

LEMMA SameOAuth ==
  ASSUME IInv, UNCHANGED oauth
  PROVE  OAuthMove
BY DEF IInv, TypeOK, OAuthMove

LEMMA SameApplied ==
  ASSUME IInv, RowsMove, UNCHANGED applied
  PROVE  AppliedMove
BY DEF IInv, TypeOK, RowsMove, RowsGrow, RowGrows, AppliedMove

LEMMA RequestStays ==
  ASSUME IInv, RowsMove, LinksMove, NEW b \in Browsers
  PROVE  /\ req[b] \in RequestOf(req[b].value)
         /\ RequestIsRight(account', link', req[b])
<1>1. account \in [Accounts -> Row] /\ account' \in [Accounts -> Row]
  BY DEF IInv, TypeOK, RowsMove
<1>2. \A rec : RequestIsRight(account, link, rec) => RequestIsRight(account', link', rec)
  BY <1>1, RightStays DEF RowsMove, LinksMove
<1> QED BY <1>2 DEF IInv, TypeOK

\* The requests that were there, of which one may have gone on or ended.
LEMMA NumbersStay ==
  ASSUME IInv, NothingSent, served' = served,
         \A b \in Browsers :
           \/ req'[b] = req[b] \/ req'[b] = Idle
           \/ /\ req'[b].id = req[b].id /\ req[b].kind # "idle"
              /\ req'[b].kind \in Sending => req[b].kind \in Sending
  PROVE  NumbersAreFresh'
<1>1. served \in Nat /\ 0 <= served
  BY BoundAssumption DEF IInv, TypeOK
<1>2. \A b \in Browsers : req'[b].kind # "idle" =>
        req[b].kind # "idle" /\ req'[b].id = req[b].id
        /\ (req'[b].kind \in Sending => req[b].kind \in Sending)
  BY IdleFacts
<1>3. \A b \in Browsers : req'[b].id \in {req[b].id, 0}
  BY IdleFacts
<1>4. \A b \in Browsers : req'[b].kind \in Sending => req[b].id \in Ids
  <2> SUFFICES ASSUME NEW b \in Browsers, req'[b].kind \in Sending PROVE req[b].id \in Ids
    OBVIOUS
  <2>1. req[b].kind # "idle" /\ RequestIsRight(account, link, req[b])
    BY <1>2 DEF IInv, Sending
  <2>2. req[b].id \in 0 .. MaxRequests
    BY DEF IInv, TypeOK, RequestOf
  <2> QED BY <2>1, <2>2, BoundAssumption DEF RequestIsRight, Ids
<1>5. \A b \in Browsers : req'[b].kind \in Sending => link'[req'[b].id].state = "none"
  <2> SUFFICES ASSUME NEW b \in Browsers, req'[b].kind \in Sending
               PROVE  link'[req'[b].id].state = "none"
    OBVIOUS
  <2>1. req'[b].id = req[b].id /\ req[b].kind \in Sending
    BY <1>2 DEF Sending
  <2>2. link[req[b].id].state = "none"
    BY <2>1 DEF IInv, NumbersAreFresh
  <2> QED BY <1>4, <2>1, <2>2 DEF NothingSent
<1>6. \A b, c \in Browsers :
        req'[b].kind # "idle" /\ req'[c].kind # "idle" /\ req'[b].id = req'[c].id => b = c
  BY <1>2 DEF IInv, NumbersAreFresh
<1>7. \A b \in Browsers : req'[b].id <= served'
  BY <1>1, <1>3 DEF IInv, NumbersAreFresh
<1>8. \A l \in Ids : link'[l].state # "none" => l <= served'
  BY DEF NothingSent, IInv, NumbersAreFresh
<1> QED BY <1>5, <1>6, <1>7, <1>8 DEF NumbersAreFresh

LEMMA StayMoves ==
  ASSUME IInv, RowsMove, LinksMove, NothingSent, UNCHANGED <<req, served>>
  PROVE  RequestsMove
<1>1. NumbersAreFresh'
  BY NumbersStay
<1> QED BY <1>1, RequestStays DEF IInv, TypeOK, RequestsMove

LEMMA EndMoves ==
  ASSUME IInv, RowsMove, LinksMove, NothingSent, UNCHANGED served,
         NEW b \in Browsers, Ends(b)
  PROVE  RequestsMove
<1>1. DOMAIN req' = Browsers /\ req'[b] = Idle /\ \A c \in Browsers \ {b} : req'[c] = req[c]
  BY DEF IInv, TypeOK, Ends
<1>2. NumbersAreFresh'
  BY <1>1, NumbersStay
<1>3. \A c \in Browsers : /\ req'[c] \in RequestOf(req'[c].value)
                          /\ RequestIsRight(account', link', req'[c])
  BY <1>1, RequestStays, IdleFacts
<1> QED BY <1>1, <1>2, <1>3 DEF IInv, TypeOK, RequestsMove

LEMMA GoesFacts ==
  ASSUME IInv, NEW b \in Browsers, NEW kind \in Kinds
  PROVE  LET next == [req[b] EXCEPT !.kind = kind] IN
           /\ next \in RequestOf(next.value) /\ next.kind = kind /\ next.id = req[b].id
           /\ next.target = req[b].target /\ next.value = req[b].value /\ next.row = req[b].row
           /\ next.purpose = req[b].purpose
<1>1. req[b] \in RequestOf(req[b].value)
  BY DEF IInv, TypeOK
<1> QED BY <1>1 DEF RequestOf

LEMMA GoesMoves ==
  ASSUME IInv, RowsMove, LinksMove, NothingSent, UNCHANGED served,
         NEW b \in Browsers, req[b].kind # "idle", NEW kind \in Kinds, Goes(b, kind),
         kind \in Sending => req[b].kind \in Sending,
         RequestIsRight(account', link', [req[b] EXCEPT !.kind = kind])
  PROVE  RequestsMove
<1> DEFINE next == [req[b] EXCEPT !.kind = kind]
<1>1. next \in RequestOf(next.value) /\ next.kind = kind /\ next.id = req[b].id
  BY GoesFacts
<1>2. req' = [req EXCEPT ![b] = next]
  BY DEF Goes
<1>3. RequestIsRight(account', link', next)
  OBVIOUS
<1> HIDE DEF next
<1>4. DOMAIN req' = Browsers /\ req'[b] = next /\ \A c \in Browsers \ {b} : req'[c] = req[c]
  BY <1>2 DEF IInv, TypeOK
<1>5. NumbersAreFresh'
  BY <1>1, <1>4, NumbersStay
<1>6. \A c \in Browsers : /\ req'[c] \in RequestOf(req'[c].value)
                          /\ RequestIsRight(account', link', req'[c])
  BY <1>1, <1>3, <1>4, RequestStays
<1> QED BY <1>4, <1>5, <1>6 DEF IInv, TypeOK, RequestsMove

\* A new request has a number that no request and no link has.
LEMMA BeginMoves ==
  ASSUME IInv, UNCHANGED account, RowsMove, LinksMove, NothingSent, NEW b \in Browsers, Begins(b),
         NEW kind \in Kinds \ {"idle"},
         NEW purpose \in {"login", "admin", "verify", "change", "reset"},
         NEW a \in Accounts, NEW value, Request(b, kind, purpose, a, value),
         \A rec : /\ rec.kind = kind /\ rec.target = a /\ rec.value = value /\ rec.id # 0
                  /\ rec.row = account[a] /\ rec.row \in Row
                  => RequestIsRight(account, link', rec)
  PROVE  RequestsMove
<1> DEFINE next == [kind |-> kind, id |-> served + 1, target |-> a, value |-> value,
                    row |-> account[a], purpose |-> purpose]
<1>1. /\ TypeOK /\ account[a] \in Row /\ served < MaxRequests /\ served' = served + 1
      /\ served \in 0 .. MaxRequests /\ MaxRequests \in Nat
  BY BoundAssumption DEF IInv, TypeOK, Begins
<1>2. served + 1 \in 0 .. MaxRequests /\ served + 1 \in Ids
  BY <1>1 DEF Ids
<1>3. next \in RequestOf(next.value) /\ next.kind = kind /\ next.id = served + 1
  BY <1>1, <1>2 DEF RequestOf
<1>4. req' = [req EXCEPT ![b] = next]
  BY NoneAssumption DEF Request
<1>5. RequestIsRight(account', link', next)
  <2>1. next.target = a /\ next.value = value /\ next.row = account[a] /\ next.id # 0
    BY <1>1
  <2> HIDE DEF next
  <2> QED BY <1>1, <1>3, <2>1
<1> HIDE DEF next
<1>6. DOMAIN req' = Browsers /\ req'[b] = next /\ \A c \in Browsers \ {b} : req'[c] = req[c]
  BY <1>1, <1>4 DEF TypeOK
<1>7. \A c \in Browsers : /\ req'[c] \in RequestOf(req'[c].value)
                          /\ RequestIsRight(account', link', req'[c])
  BY <1>3, <1>5, <1>6, RequestStays
<1>8. \A c \in Browsers \ {b} : req'[c].id <= served /\ req'[c].id \in Nat
  BY <1>6 DEF IInv, NumbersAreFresh, TypeOK, RequestOf
<1>9. \A l \in Ids : link'[l].state # "none" => l <= served /\ l \in Nat
  BY DEF NothingSent, IInv, NumbersAreFresh, Ids
<1>10. \A c \in Browsers \ {b} : req[c].kind \in Sending => link'[req[c].id].state = "none"
  <2> SUFFICES ASSUME NEW c \in Browsers \ {b}, req[c].kind \in Sending
               PROVE  link'[req[c].id].state = "none"
    OBVIOUS
  <2>1. RequestIsRight(account, link, req[c]) /\ req[c].id \in 0 .. MaxRequests
    BY DEF IInv, TypeOK, RequestOf
  <2>2. req[c].id # 0
    BY <2>1 DEF RequestIsRight, Sending
  <2>3. req[c].id \in Ids /\ link[req[c].id].state = "none"
    BY <1>1, <2>1, <2>2 DEF IInv, NumbersAreFresh, Ids
  <2> QED BY <2>3 DEF NothingSent
<1>11. link'[served + 1].state = "none"
  BY <1>1, <1>2, <1>9
<1>12. \A c, d \in Browsers :
         req'[c].kind # "idle" /\ req'[d].kind # "idle" /\ req'[c].id = req'[d].id => c = d
  <2>1. \A c \in Browsers \ {b} : req'[c].id # req'[b].id
    BY <1>1, <1>3, <1>6, <1>8
  <2>2. \A c, d \in Browsers \ {b} :
          req'[c].kind # "idle" /\ req'[d].kind # "idle" /\ req'[c].id = req'[d].id => c = d
    BY <1>6 DEF IInv, NumbersAreFresh
  <2> QED BY <2>1, <2>2
<1>13. NumbersAreFresh'
  <2>1. \A c \in Browsers : req'[c].id <= served'
    BY <1>1, <1>3, <1>6, <1>8
  <2>2. \A l \in Ids : link'[l].state # "none" => l <= served'
    BY <1>1, <1>9
  <2>3. \A c \in Browsers : req'[c].kind \in Sending => link'[req'[c].id].state = "none"
    BY <1>3, <1>6, <1>10, <1>11
  <2> QED BY <1>12, <2>1, <2>2, <2>3 DEF NumbersAreFresh
<1> QED BY <1>1, <1>2, <1>6, <1>7, <1>13 DEF RequestsMove

\* A request that comes to nothing is counted.
LEMMA CountMoves ==
  ASSUME IInv, RowsMove, LinksMove, NothingSent, NEW b \in Browsers, Begins(b), UNCHANGED req
  PROVE  RequestsMove
<1>1. /\ TypeOK /\ served < MaxRequests /\ served' = served + 1
      /\ served \in 0 .. MaxRequests /\ MaxRequests \in Nat
  BY BoundAssumption DEF IInv, TypeOK, Begins
<1>2. served' \in 0 .. MaxRequests
  BY <1>1
<1>3. NumbersAreFresh'
  <2>1. \A c \in Browsers : req[c].id <= served' /\ req[c].id \in Nat
    BY <1>1 DEF IInv, NumbersAreFresh, TypeOK, RequestOf
  <2>2. \A l \in Ids : link'[l].state # "none" => l <= served'
    BY <1>1 DEF IInv, NumbersAreFresh, NothingSent, Ids
  <2>3. \A c \in Browsers : req[c].kind \in Sending => req[c].id \in Ids
    <3> SUFFICES ASSUME NEW c \in Browsers, req[c].kind \in Sending PROVE req[c].id \in Ids
      OBVIOUS
    <3>1. RequestIsRight(account, link, req[c]) /\ req[c].id \in 0 .. MaxRequests
      BY DEF IInv, TypeOK, RequestOf
    <3> QED BY <1>1, <3>1 DEF RequestIsRight, Sending, Ids
  <2>4. \A c \in Browsers : req[c].kind \in Sending => link'[req[c].id].state = "none"
    BY <2>3 DEF IInv, NumbersAreFresh, NothingSent
  <2> QED BY <2>1, <2>2, <2>4 DEF IInv, NumbersAreFresh
<1> QED BY <1>1, <1>2, <1>3, RequestStays DEF TypeOK, RequestsMove

-----------------------------------------------------------------------------
(* The rows *)

LEMMA OneRow ==
  ASSUME IInv, LinksMove, NEW a \in Accounts, NEW row \in Row,
         account' = [account EXCEPT ![a] = row],
         RowGrows(account[a], row),
         row.status # "absent" => row.password # 0 \/ row.identity # None,
         row.verified => row.email = row.given \/ Confirmed(link', a, row.email)
  PROVE  RowsMove
<1>1. account \in [Accounts -> Row]
  BY DEF IInv, TypeOK
<1>2. /\ account' \in [Accounts -> Row] /\ account'[a] = row
      /\ \A c \in Accounts \ {a} : account'[c] = account[c]
  BY <1>1
<1>3. RowsGrow(account, account')
  <2>1. \A c \in Accounts \ {a} : RowGrows(account[c], account'[c])
    BY <1>1, <1>2 DEF RowGrows, Row
  <2> QED BY <1>2, <2>1 DEF RowsGrow
<1>4. \A c \in Accounts : RowIsRight(account', link', c)
  <2>1. \A c, e : Confirmed(link, c, e) => Confirmed(link', c, e)
    BY DEF LinksMove, LinksKeep, Confirmed
  <2>2. \A c \in Accounts \ {a} : RowIsRight(account', link', c)
    BY <1>2, <2>1 DEF IInv, RowIsRight
  <2>3. RowIsRight(account', link', a)
    BY <1>2 DEF RowIsRight
  <2> QED BY <2>2, <2>3
<1> QED BY <1>2, <1>3, <1>4 DEF RowsMove

\* What a request works on.
LEMMA TargetFacts ==
  ASSUME IInv, NEW b \in Browsers, req[b].kind # "idle"
  PROVE  /\ TypeOK /\ RequestIsRight(account, link, req[b])
         /\ req[b].target \in Accounts /\ req[b].row \in Row /\ account[req[b].target] \in Row
         /\ req[b].id \in 1 .. MaxRequests /\ req[b].id \in Ids
         /\ req[b].kind \notin {"register", "enrol"} => account[req[b].target].status # "absent"
         /\ RowIsRight(account, link, req[b].target)
<1>1. TypeOK /\ RequestIsRight(account, link, req[b]) /\ req[b].id \in 0 .. MaxRequests
  BY DEF IInv, TypeOK, RequestOf
<1>2. req[b].target \in Accounts /\ req[b].row \in Row /\ req[b].id # 0
  BY <1>1 DEF RequestIsRight
<1>3. account[req[b].target] \in Row /\ RowIsRight(account, link, req[b].target)
  BY <1>1, <1>2 DEF IInv, TypeOK
<1>4. req[b].id \in 1 .. MaxRequests
  BY <1>1, <1>2, BoundAssumption
<1> QED BY <1>1, <1>2, <1>3, <1>4 DEF RequestIsRight, Ids

\* A change that raises the version of the sessions.
LEMMA RaisedRow ==
  ASSUME IInv, LinksMove, NEW a \in Accounts, NEW row \in Row,
         account' = [account EXCEPT ![a] = row], row.version = account[a].version + 1,
         account[a].status # "absent" => row.status # "absent",
         row.status # "absent" => account[a].status # "absent",
         row.password = account[a].password \/ row.password # 0,
         row.identity = account[a].identity,
         \/ ~row.verified
         \/ /\ row.verified = account[a].verified /\ row.email = account[a].email
            /\ row.given = account[a].given
         \/ Confirmed(link', a, row.email)
  PROVE  RowsMove
<1>1. account[a] \in Row /\ account[a].version \in Nat /\ RowIsRight(account, link, a)
  BY DEF IInv, TypeOK, Row
<1>2. RowGrows(account[a], row)
  BY <1>1 DEF RowGrows
<1>3. row.status # "absent" => row.password # 0 \/ row.identity # None
  BY <1>1 DEF RowIsRight
<1>4. \A e : Confirmed(link, a, e) => Confirmed(link', a, e)
  BY DEF LinksMove, LinksKeep, Confirmed
<1>5. row.verified => row.email = row.given \/ Confirmed(link', a, row.email)
  BY <1>1, <1>4 DEF RowIsRight
<1> QED BY <1>2, <1>3, <1>5, OneRow

LEMMA PasswordMoves ==
  ASSUME IInv, LinksMove, NEW a \in Accounts, NEW password \in 1 .. MaxRequests + 1,
         UpdatePassword(a, password)
  PROVE  RowsMove
<1>1. PICK b \in BOOLEAN :
        account' = [account EXCEPT ![a].password = password, ![a].old = b, ![a].version = @ + 1]
  BY DEF UpdatePassword
<1> DEFINE version == account[a].version + 1
           row == [account[a] EXCEPT !.password = password, !.old = b, !.version = version]
<1>2. account[a] \in Row /\ account \in [Accounts -> Row] /\ version \in Nat
  BY DEF IInv, TypeOK, Row
<1>3. account' = [account EXCEPT ![a] = row]
  BY <1>1, <1>2
<1>4. password \in 0 .. MaxRequests + 1 /\ password # 0
  BY BoundAssumption
<1> HIDE DEF version
<1>5. /\ row \in Row /\ row.version = version /\ row.status = account[a].status
      /\ row.password = password /\ row.identity = account[a].identity
      /\ row.verified = account[a].verified /\ row.email = account[a].email
      /\ row.given = account[a].given
  BY <1>2, <1>4 DEF Row
<1> HIDE DEF row
<1> QED BY <1>3, <1>4, <1>5, RaisedRow DEF version

\* The status or the role of an account, by an administrator.
LEMMA StandingMoves ==
  ASSUME IInv, LinksMove, NEW a \in Accounts, account[a].status # "absent",
         NEW status \in {"active", "disabled", "deleted"}, NEW role \in Roles,
         \/ /\ account' = [account EXCEPT ![a].status = status, ![a].version = @ + 1]
         \/ /\ account' = [account EXCEPT ![a].role = role, ![a].version = @ + 1]
  PROVE  RowsMove
<1> DEFINE version == account[a].version + 1
           byStatus == [account[a] EXCEPT !.status = status, !.version = version]
           byRole == [account[a] EXCEPT !.role = role, !.version = version]
<1>1. account[a] \in Row /\ account \in [Accounts -> Row] /\ version \in Nat
  BY DEF IInv, TypeOK, Row
<1>2. \/ account' = [account EXCEPT ![a] = byStatus]
      \/ account' = [account EXCEPT ![a] = byRole]
  BY <1>1
<1> HIDE DEF version
<1>3. \A row \in {byStatus, byRole} :
        /\ row \in Row /\ row.version = version /\ row.status # "absent"
        /\ row.password = account[a].password /\ row.identity = account[a].identity
        /\ row.verified = account[a].verified /\ row.email = account[a].email
        /\ row.given = account[a].given
  <2>1. /\ byStatus \in Row /\ byStatus.version = version /\ byStatus.status # "absent"
        /\ byStatus.password = account[a].password /\ byStatus.identity = account[a].identity
        /\ byStatus.verified = account[a].verified /\ byStatus.email = account[a].email
        /\ byStatus.given = account[a].given
    BY <1>1 DEF Row, Statuses
  <2>2. /\ byRole \in Row /\ byRole.version = version /\ byRole.status # "absent"
        /\ byRole.password = account[a].password /\ byRole.identity = account[a].identity
        /\ byRole.verified = account[a].verified /\ byRole.email = account[a].email
        /\ byRole.given = account[a].given
    BY <1>1 DEF Row
  <2> QED BY <2>1, <2>2
<1> HIDE DEF byStatus, byRole
<1> QED BY <1>2, <1>3, RaisedRow DEF version

-----------------------------------------------------------------------------
(* The actions.  First those that begin a request: they read. *)

LEMMA SessionFacts ==
  ASSUME IInv, NEW b \in Browsers, Authenticated(b)
  PROVE  cookie[b].account \in Accounts /\ account[cookie[b].account].status = "active"
<1>1. cookie[b] \in CookieOf
  BY DEF IInv, TypeOK, Authenticated
<1> QED BY <1>1 DEF CookieOf, Authenticated, Me

LEMMA ReadStep ==
  ASSUME IInv, UNCHANGED <<account, cookie, link, applied>>, OAuthMove,
         NEW b \in Browsers, Begins(b),
         NEW kind \in Kinds \ {"idle"},
         NEW purpose \in {"login", "admin", "verify", "change", "reset"},
         NEW a \in Accounts, NEW value, Request(b, kind, purpose, a, value),
         \A rec : /\ rec.kind = kind /\ rec.target = a /\ rec.value = value /\ rec.id # 0
                  /\ rec.row = account[a] /\ rec.row \in Row
                  => RequestIsRight(account, link, rec)
  PROVE  IInv'
<1>1. LinksMove /\ NothingSent
  BY SameLinks
<1>2. RowsMove
  BY <1>1, SameRows
<1>3. CookiesMove
  BY <1>1, <1>2, SameCookies
<1>4. RequestsMove
  BY <1>1, <1>2, BeginMoves
<1>5. AppliedMove
  BY <1>2, SameApplied
<1> QED BY <1>1, <1>2, <1>3, <1>4, <1>5, MovesKeepIInv

LEMMA ReadNow ==
  ASSUME IInv, NEW a \in Accounts, account[a].status # "absent"
  PROVE  ReadAt(account, a, account[a].version, Credentials(account[a]))
BY DEF IInv, TypeOK, Row, ReadAt

LEMMA LoginKeeps ==
  ASSUME IInv, NEW b \in Browsers, Login(b)
  PROVE  IInv'
<1>1. PICK a \in Accounts :
        /\ account[a].status = "active" /\ account[a].password # 0
        /\ Request(b, IF account[a].old THEN "rehash" ELSE "cookie", "login", a, None)
  BY DEF Login
<1>2. PICK kind \in {"rehash", "cookie"} : Request(b, kind, "login", a, None)
  BY <1>1
<1>3. kind \in Kinds \ {"idle"}
  BY DEF Kinds
<1>4. \A rec : /\ rec.kind = kind /\ rec.target = a /\ rec.value = None /\ rec.id # 0
               /\ rec.row = account[a] /\ rec.row \in Row
               => RequestIsRight(account, link, rec)
  BY <1>1, ReadNow DEF RequestIsRight, Sending
<1>5. UNCHANGED <<account, cookie, link, applied>> /\ OAuthMove
  BY SameOAuth DEF Login
<1> QED BY <1>2, <1>3, <1>4, <1>5, ReadStep DEF Login

LEMMA OwnPasswordKeeps ==
  ASSUME IInv, NEW b \in Browsers, OwnPassword(b)
  PROVE  IInv'
<1> DEFINE a == cookie[b].account
<1>1. a \in Accounts /\ account[a].status = "active" /\ Request(b, "own", "login", a, None)
  BY SessionFacts DEF OwnPassword
<1>2. "own" \in Kinds \ {"idle"}
  BY DEF Kinds
<1> HIDE DEF a
<1>3. \A rec : /\ rec.kind = "own" /\ rec.target = a /\ rec.value = None /\ rec.id # 0
               /\ rec.row = account[a] /\ rec.row \in Row
               => RequestIsRight(account, link, rec)
  BY <1>1 DEF RequestIsRight, Sending
<1>4. UNCHANGED <<account, cookie, link, applied>> /\ OAuthMove
  BY SameOAuth DEF OwnPassword
<1> QED BY <1>1, <1>2, <1>3, <1>4, ReadStep DEF OwnPassword

LEMMA AdministerKeeps ==
  ASSUME IInv, NEW b \in Browsers, Administer(b)
  PROVE  IInv'
<1>1. PICK a \in Accounts :
        /\ account[a].status # "absent"
        /\ \/ \E s \in {"active", "disabled"} : Request(b, "status", "admin", a, s)
           \/ \E role \in Roles : Request(b, "role", "admin", a, role)
           \/ Request(b, "password", "admin", a, None)
           \/ Request(b, "delete", "admin", a, None)
  BY DEF Administer
<1>2. PICK kind, value :
        /\ kind \in {"status", "role", "password", "delete"}
        /\ Request(b, kind, "admin", a, value)
        /\ kind = "status" => value \in {"active", "disabled"}
        /\ kind = "role" => value \in Roles
  BY <1>1
<1>3. kind \in Kinds \ {"idle"}
  BY <1>2 DEF Kinds
<1>4. \A rec : /\ rec.kind = kind /\ rec.target = a /\ rec.value = value /\ rec.id # 0
               /\ rec.row = account[a] /\ rec.row \in Row
               => RequestIsRight(account, link, rec)
  BY <1>1, <1>2 DEF RequestIsRight, Sending
<1>5. UNCHANGED <<account, cookie, link, applied>> /\ OAuthMove
  BY SameOAuth DEF Administer
<1> QED BY <1>2, <1>3, <1>4, <1>5, ReadStep DEF Administer

\* The applicant was no absent account: it applied in a session of its own.
LEMMA ReviewKeeps ==
  ASSUME IInv, NEW b \in Browsers, Review(b)
  PROVE  IInv'
<1>1. PICK a \in Accounts, verdict \in {"pending", "approved", "rejected"} :
        applied[a] # "none" /\ Request(b, "decide", "admin", a, verdict)
  BY DEF Review
<1>2. "decide" \in Kinds \ {"idle"}
  BY DEF Kinds
<1>3. account[a].status # "absent"
  BY <1>1 DEF IInv
<1>4. \A rec : /\ rec.kind = "decide" /\ rec.target = a /\ rec.value = verdict /\ rec.id # 0
               /\ rec.row = account[a] /\ rec.row \in Row
               => RequestIsRight(account, link, rec)
  BY <1>3 DEF RequestIsRight, Sending
<1>5. UNCHANGED <<account, cookie, link, applied>> /\ OAuthMove
  BY SameOAuth DEF Review
<1> QED BY <1>1, <1>2, <1>4, <1>5, ReadStep DEF Review

LEMMA RegisterKeeps ==
  ASSUME IInv, NEW b \in Browsers, Register(b)
  PROVE  IInv'
<1>1. PICK a \in Accounts, e \in Emails : Request(b, "register", "verify", a, e)
  BY DEF Register
<1>2. "register" \in Kinds \ {"idle"}
  BY DEF Kinds
<1>3. \A rec : /\ rec.kind = "register" /\ rec.target = a /\ rec.value = e /\ rec.id # 0
               /\ rec.row = account[a] /\ rec.row \in Row
               => RequestIsRight(account, link, rec)
  BY DEF RequestIsRight, Sending
<1>4. UNCHANGED <<account, cookie, link, applied>> /\ OAuthMove
  BY SameOAuth DEF Register
<1> QED BY <1>1, <1>2, <1>3, <1>4, ReadStep DEF Register

LEMMA AddressKeeps ==
  ASSUME IInv, NEW b \in Browsers, ChangeEmail(b) \/ Resend(b) \/ Forgot(b)
  PROVE  IInv'
<1>1. PICK kind \in {"pending", "issue"}, purpose \in {"change", "verify", "reset"},
           a \in Accounts, e \in Emails :
        account[a].status # "absent" /\ Request(b, kind, purpose, a, e)
  <2>0. \A a \in Accounts :
          account[a].pending \in Emails \cup {None} /\ account[a].email \in Emails \cup {None}
    BY DEF IInv, TypeOK, Row
  <2>1. CASE ChangeEmail(b)
    BY <2>1, SessionFacts DEF ChangeEmail
  <2>2. CASE Resend(b)
    <3>1. PICK a \in Accounts :
            /\ account[a].status = "active" /\ account[a].pending # None
            /\ Request(b, "issue", "verify", a, account[a].pending)
      BY <2>2 DEF Resend
    <3> QED BY <2>0, <3>1
  <2>3. CASE Forgot(b)
    <3>1. PICK a \in Accounts :
            /\ account[a].status = "active" /\ account[a].email # None
            /\ Request(b, "issue", "reset", a, account[a].email)
      BY <2>3 DEF Forgot, Unique
    <3> QED BY <2>0, <3>1
  <2> QED BY <2>1, <2>2, <2>3
<1>2. kind \in Kinds \ {"idle"}
  BY DEF Kinds
<1>3. \A rec : /\ rec.kind = kind /\ rec.target = a /\ rec.value = e /\ rec.id # 0
               /\ rec.row = account[a] /\ rec.row \in Row
               => RequestIsRight(account, link, rec)
  BY <1>1 DEF RequestIsRight, Sending
<1>4. UNCHANGED <<account, cookie, link, applied>> /\ OAuthMove /\ Begins(b)
  BY SameOAuth DEF ChangeEmail, Resend, Forgot
<1> QED BY <1>1, <1>2, <1>3, <1>4, ReadStep

LEMMA ConsumedMoves ==
  ASSUME IInv, NEW b \in Browsers, Consumed(b)
  PROVE  OAuthMove
<1>1. NoOAuth \in OAuth /\ NoOAuth.stage = "none"
  BY DEF NoOAuth, OAuth
<1> HIDE DEF NoOAuth
<1> QED BY <1>1 DEF Consumed, IInv, TypeOK, OAuthMove, OAuthIsRight

LEMMA GoogleReadsKeep ==
  ASSUME IInv, NEW b \in Browsers, GoogleConfirm(b) \/ GoogleUnlink(b)
  PROVE  IInv'
<1> DEFINE a == cookie[b].account
<1>1. Begins(b) /\ a \in Accounts /\ account[a].status = "active"
  BY SessionFacts DEF GoogleConfirm, GoogleUnlink
<1>2. PICK kind, value :
        /\ kind \in {"link", "unlink"}
        /\ Request(b, kind, "login", a, value)
        /\ kind = "link" => value \in Subjects
        /\ kind = "unlink" => account[a].password # 0
  BY DEF GoogleConfirm, GoogleUnlink, HasOtherWay, IInv, OAuthIsRight
<1>3. kind \in Kinds \ {"idle"}
  BY <1>2 DEF Kinds
<1>4. UNCHANGED <<account, cookie, link, applied>> /\ OAuthMove
  BY ConsumedMoves, SameOAuth DEF GoogleConfirm, GoogleUnlink
<1> HIDE DEF a
<1>5. \A rec : /\ rec.kind = kind /\ rec.target = a /\ rec.value = value /\ rec.id # 0
               /\ rec.row = account[a] /\ rec.row \in Row
               => RequestIsRight(account, link, rec)
  BY <1>1, <1>2 DEF RequestIsRight, Sending
<1> QED BY <1>1, <1>2, <1>3, <1>4, <1>5, ReadStep

\* The steps that begin no request, or one that comes to nothing.
LEMMA CountKeeps ==
  ASSUME IInv, UNCHANGED <<account, link>>, CookiesMove, OAuthMove, AppliedMove, NEW b \in Browsers,
         (Begins(b) /\ UNCHANGED req) \/ UNCHANGED <<req, served>>
  PROVE  IInv'
<1>1. LinksMove /\ NothingSent
  BY SameLinks
<1>2. RowsMove
  BY <1>1, SameRows
<1>3. RequestsMove
  BY <1>1, <1>2, CountMoves, StayMoves
<1> QED BY <1>1, <1>2, <1>3, MovesKeepIInv

LEMMA GoogleLoginKeeps ==
  ASSUME IInv, NEW b \in Browsers, GoogleLogin(b)
  PROVE  IInv'
<1>1. UNCHANGED <<account, cookie, link, applied>> /\ OAuthMove /\ Begins(b)
  BY ConsumedMoves DEF GoogleLogin
<1>2. PICK g \in Subjects :
        \/ \E a \in Accounts :
             account[a].status = "active" /\ Request(b, "cookie", "login", a, None)
        \/ \E a \in Accounts, e \in Emails :
             Request(b, "enrol", "login", a, [subject |-> g, email |-> e])
        \/ UNCHANGED req
  BY DEF GoogleLogin
<1>3. CASE UNCHANGED req
  BY <1>1, <1>3, CountKeeps, SameLinks, SameRows, SameCookies, SameApplied
<1>4. ASSUME NEW a \in Accounts, account[a].status = "active",
             Request(b, "cookie", "login", a, None)
      PROVE  IInv'
  <2>1. "cookie" \in Kinds \ {"idle"}
    BY DEF Kinds
  <2>2. \A rec : /\ rec.kind = "cookie" /\ rec.target = a /\ rec.value = None /\ rec.id # 0
                 /\ rec.row = account[a] /\ rec.row \in Row
                 => RequestIsRight(account, link, rec)
    BY <1>4, ReadNow DEF RequestIsRight, Sending
  <2> QED BY <1>1, <1>4, <2>1, <2>2, ReadStep
<1>5. ASSUME NEW a \in Accounts, NEW e \in Emails,
             Request(b, "enrol", "login", a, [subject |-> g, email |-> e])
      PROVE  IInv'
  <2>1. "enrol" \in Kinds \ {"idle"}
    BY DEF Kinds
  <2> DEFINE claims == [subject |-> g, email |-> e]
  <2>2. claims \in [subject : Subjects, email : Emails]
    OBVIOUS
  <2> HIDE DEF claims
  <2>3. \A rec : /\ rec.kind = "enrol" /\ rec.target = a /\ rec.value = claims /\ rec.id # 0
                 /\ rec.row = account[a] /\ rec.row \in Row
                 => RequestIsRight(account, link, rec)
    BY <2>2 DEF RequestIsRight, Sending
  <2>4. Request(b, "enrol", "login", a, claims)
    BY <1>5 DEF claims
  <2> QED BY <1>1, <2>1, <2>3, <2>4, ReadStep
<1> QED BY <1>2, <1>3, <1>4, <1>5

LEMMA GoogleStateKeeps ==
  ASSUME IInv, NEW b \in Browsers, GoogleStart(b) \/ GoogleLink(b) \/ GoogleCancel(b)
  PROVE  IInv'
<1>1. /\ UNCHANGED <<account, cookie, req, link, applied>>
      /\ Begins(b) \/ UNCHANGED served
  BY DEF GoogleStart, GoogleLink, GoogleCancel
<1>2. OAuthMove
  <2>1. CASE Consumed(b)
    BY <2>1, ConsumedMoves
  <2>2. ASSUME NEW purpose \in {"login", "link"}, NEW a \in Accounts \cup {None},
               SentToGoogle(b, purpose, a)
        PROVE  OAuthMove
    <3> DEFINE next == [stage |-> "sent", purpose |-> purpose, account |-> a, subject |-> None]
    <3>1. next \in OAuth /\ next.stage = "sent"
      BY DEF OAuth
    <3>2. oauth' = [oauth EXCEPT ![b] = next]
      BY <2>2 DEF SentToGoogle
    <3> HIDE DEF next
    <3> QED BY <3>1, <3>2 DEF IInv, TypeOK, OAuthMove, OAuthIsRight
  <2>3. ASSUME NEW g \in Subjects, oauth' = [oauth EXCEPT ![b].stage = "pending", ![b].subject = g]
        PROVE  OAuthMove
    <3> DEFINE next == [oauth[b] EXCEPT !.stage = "pending", !.subject = g]
    <3>1. oauth \in [Browsers -> OAuth] /\ oauth[b] \in OAuth
      BY DEF IInv, TypeOK
    <3>2. next \in OAuth /\ next.subject = g
      BY <3>1 DEF OAuth
    <3>3. oauth' = [oauth EXCEPT ![b] = next]
      BY <2>3, <3>1
    <3> HIDE DEF next
    <3> QED BY <3>1, <3>2, <3>3 DEF IInv, OAuthMove, OAuthIsRight
  <2>4. CASE GoogleStart(b)
    BY <2>2, <2>4, SessionFacts DEF GoogleStart
  <2>5. CASE GoogleLink(b)
    BY <2>1, <2>3, <2>5 DEF GoogleLink
  <2>6. CASE GoogleCancel(b)
    BY <2>1, <2>6 DEF GoogleCancel
  <2> QED BY <2>4, <2>5, <2>6
<1> QED BY <1>1, <1>2, CountKeeps, SameLinks, SameRows, SameCookies, SameApplied

LEMMA ApplyKeeps ==
  ASSUME IInv, NEW b \in Browsers, Apply(b)
  PROVE  IInv'
<1>1. /\ UNCHANGED <<account, cookie, oauth, req, link>> /\ Begins(b)
      /\ cookie[b].account \in Accounts /\ account[cookie[b].account].status = "active"
      /\ applied' = [applied EXCEPT ![cookie[b].account] = "pending"]
  BY SessionFacts DEF Apply
<1>2. AppliedMove
  BY <1>1 DEF IInv, TypeOK, AppliedMove
<1> QED BY <1>1, <1>2, CountKeeps, SameLinks, SameRows, SameCookies, SameOAuth

\* A session is opened on a row as it was read, or closed.
LEMMA OpenMoves ==
  ASSUME IInv, UNCHANGED account, NEW b \in Browsers, NEW a \in Accounts, NEW row \in Row,
         ReadAt(account, a, row.version, Credentials(row)), OpenSession(b, a, row)
  PROVE  CookiesMove
<1> DEFINE session == [account |-> a, version |-> row.version, seen |-> Credentials(row)]
<1>1. session \in CookieOf
  BY DEF CookieOf, Credentials, Row
<1>2. SessionIsRight(account, session)
  BY DEF SessionIsRight
<1>3. cookie' = [cookie EXCEPT ![b] = session]
  BY DEF OpenSession
<1> HIDE DEF session
<1> QED BY <1>1, <1>2, <1>3 DEF IInv, TypeOK, CookiesMove

LEMMA CloseMoves ==
  ASSUME IInv, RowsMove, LinksMove, NEW b \in Browsers, cookie' = [cookie EXCEPT ![b] = None]
  PROVE  CookiesMove
<1>1. account \in [Accounts -> Row] /\ account' \in [Accounts -> Row]
  BY DEF IInv, TypeOK, RowsMove
<1>2. \A session : SessionIsRight(account, session) => SessionIsRight(account', session)
  BY <1>1, RightStays DEF RowsMove, LinksMove
<1> QED BY <1>2 DEF IInv, TypeOK, CookiesMove, SessionIsRight

LEMMA LogoutKeeps ==
  ASSUME IInv, NEW b \in Browsers, Logout(b)
  PROVE  IInv'
<1>1. UNCHANGED <<account, oauth, req, link, applied, served>>
  BY DEF Logout
<1>2. CookiesMove
  BY <1>1, SameLinks, SameRows, CloseMoves DEF Logout
<1> QED BY <1>1, <1>2, CountKeeps, SameLinks, SameRows, SameOAuth, SameApplied

\* The last step of a request.
LEMMA EndKeeps ==
  ASSUME IInv, RowsMove, UNCHANGED <<link, oauth, served>>, CookiesMove, AppliedMove,
         NEW b \in Browsers, Ends(b)
  PROVE  IInv'
<1>1. LinksMove /\ NothingSent
  BY SameLinks
<1>2. RequestsMove
  BY <1>1, EndMoves
<1> QED BY <1>1, <1>2, SameOAuth, MovesKeepIInv

LEMMA SessionKeeps ==
  ASSUME IInv, NEW b \in Browsers, Cookie(b) \/ Refresh(b)
  PROVE  IInv'
<1> DEFINE a == req[b].target
<1>1. /\ UNCHANGED <<account, oauth, link, applied, served>> /\ Ends(b)
      /\ req[b].kind \in {"cookie", "refresh"}
  BY DEF Cookie, Refresh, At
<1>2. /\ a \in Accounts /\ account[a] \in Row /\ req[b].row \in Row
      /\ account[a].status # "absent" /\ RequestIsRight(account, link, req[b])
  BY <1>1, TargetFacts
<1>3. \E row \in Row : ReadAt(account, a, row.version, Credentials(row)) /\ OpenSession(b, a, row)
  <2>1. CASE Cookie(b)
    BY <1>2, <2>1 DEF Cookie, At, RequestIsRight
  <2>2. CASE Refresh(b)
    BY <1>2, <2>2, ReadNow DEF Refresh
  <2> QED BY <2>1, <2>2
<1>4. CookiesMove
  BY <1>1, <1>2, <1>3, OpenMoves
<1>5. RowsMove /\ AppliedMove
  BY <1>1, SameLinks, SameRows, SameApplied
<1> QED BY <1>1, <1>4, <1>5, EndKeeps

-----------------------------------------------------------------------------
(* The later steps of a request *)

\* A step that goes on, after which the account of the request is there.
LEMMA GoesKeeps ==
  ASSUME IInv, RowsMove, LinksMove, NothingSent, UNCHANGED <<cookie, oauth, applied, served>>,
         NEW b \in Browsers, req[b].kind # "idle",
         account'[req[b].target].status # "absent",
         NEW kind \in {"refresh", "sweep", "pending", "issue", "send"} \cup Writes, Goes(b, kind),
         kind \in Sending => req[b].kind \in Sending,
         kind = "setStatus" => req[b].kind = "status", kind = "setRole" => req[b].kind = "role"
  PROVE  IInv'
<1> DEFINE next == [req[b] EXCEPT !.kind = kind]
<1>1. kind \in Kinds
  BY DEF Kinds, Writes
<1>2. /\ next.kind = kind /\ next.id = req[b].id /\ next.target = req[b].target
      /\ next.value = req[b].value /\ next.row = req[b].row
  BY <1>1, GoesFacts
<1>3. RequestIsRight(account', link', req[b])
  BY RequestStays
<1>4. RequestIsRight(account', link', next)
  <2> HIDE DEF next
  <2> QED BY <1>2, <1>3 DEF RequestIsRight, Sending, Writes
<1>5. RequestsMove
  BY <1>1, <1>4, GoesMoves
<1> QED BY <1>5, SameCookies, SameOAuth, SameApplied, MovesKeepIInv

LEMMA StaysThere ==
  ASSUME IInv, RowsMove, NEW a \in Accounts, account[a].status # "absent"
  PROVE  account'[a].status # "absent"
BY DEF RowsMove, RowsGrow, RowGrows

LEMMA PasswordKeeps ==
  ASSUME IInv, NEW b \in Browsers,
         Rehash(b) \/ ChangePassword(b) \/ SetPassword(b) \/ Reset(b)
  PROVE  IInv'
<1> DEFINE a == req[b].target
<1>1. /\ UNCHANGED <<cookie, oauth, link, applied, served>>
      /\ req[b].kind \in {"rehash", "own", "password", "reset"}
  BY DEF Rehash, ChangePassword, SetPassword, Reset, At
<1>2. /\ a \in Accounts /\ account[a].status # "absent" /\ req[b].row \in Row
      /\ req[b].id \in 1 .. MaxRequests /\ RequestIsRight(account, link, req[b])
  BY <1>1, TargetFacts
<1>3. \E password \in 1 .. MaxRequests + 1 : UpdatePassword(a, password)
  <2>1. req[b].id \in 1 .. MaxRequests + 1
    BY <1>2, BoundAssumption
  <2>2. req[b].kind = "rehash" => req[b].row.password \in 1 .. MaxRequests + 1
    BY <1>2, BoundAssumption DEF RequestIsRight, Row
  <2> QED BY <2>1, <2>2 DEF Rehash, ChangePassword, SetPassword, Reset, At
<1>4. LinksMove /\ NothingSent
  BY <1>1, SameLinks
<1>5. RowsMove
  BY <1>2, <1>3, <1>4, PasswordMoves
<1>6. account'[a].status # "absent"
  BY <1>2, <1>5, StaysThere
<1>7. CASE Ends(b)
  BY <1>1, <1>4, <1>5, <1>7, SameCookies, SameApplied, EndKeeps
<1>8. CASE Goes(b, "refresh") \/ Goes(b, "sweep")
  BY <1>1, <1>4, <1>5, <1>6, <1>8, GoesKeeps DEF Sending
<1> QED BY <1>7, <1>8 DEF Rehash, ChangePassword, SetPassword, Reset

\* The check before a write: the request goes on to it or ends.
LEMMA CheckKeeps ==
  ASSUME IInv, NEW b \in Browsers, Check(b)
  PROVE  IInv'
<1>1. /\ UNCHANGED <<account, cookie, oauth, link, applied, served>>
      /\ req[b].kind \in {"status", "role", "delete", "pending", "undo"}
  BY DEF Check, WriteAfter
<1>2. LinksMove /\ NothingSent /\ RowsMove
  BY <1>1, SameLinks, SameRows
<1>3. CASE Ends(b)
  BY <1>1, <1>2, <1>3, SameCookies, SameApplied, EndKeeps
<1>4. CASE Goes(b, WriteAfter[req[b].kind])
  <2>1. PICK kind \in Writes :
          /\ kind = WriteAfter[req[b].kind]
          /\ kind \in Sending => req[b].kind \in Sending
          /\ kind = "setStatus" => req[b].kind = "status"
          /\ kind = "setRole" => req[b].kind = "role"
    BY <1>1 DEF WriteAfter, Writes, Sending
  <2>2. account'[req[b].target].status # "absent" /\ req[b].kind # "idle"
    BY <1>1, TargetFacts
  <2> QED BY <1>1, <1>2, <1>4, <2>1, <2>2, GoesKeeps
<1> QED BY <1>3, <1>4 DEF Check

LEMMA StandingKeeps ==
  ASSUME IInv, NEW b \in Browsers, SetStatus(b) \/ SetRole(b) \/ Delete(b)
  PROVE  IInv'
<1> DEFINE a == req[b].target
<1>1. /\ UNCHANGED <<cookie, oauth, link, applied, served>> /\ Ends(b)
      /\ req[b].kind \in {"setStatus", "setRole", "tombstone"}
  BY DEF SetStatus, SetRole, Delete, At
<1>2. a \in Accounts /\ account[a].status # "absent" /\ RequestIsRight(account, link, req[b])
  BY <1>1, TargetFacts
<1>3. LinksMove
  BY <1>1, SameLinks
<1>4. ASSUME NEW status \in {"active", "disabled", "deleted"}, NEW role \in Roles,
             \/ account' = [account EXCEPT ![a].status = status, ![a].version = @ + 1]
             \/ account' = [account EXCEPT ![a].role = role, ![a].version = @ + 1]
      PROVE  IInv'
  <2> HIDE DEF a
  <2>1. RowsMove
    BY <1>2, <1>3, <1>4, StandingMoves
  <2> QED BY <1>1, <1>3, <2>1, SameCookies, SameApplied, EndKeeps
<1>5. "reader" \in Roles /\ (req[b].kind = "setRole" => req[b].value \in Roles)
      /\ (req[b].kind = "setStatus" => req[b].value \in {"active", "disabled"})
  BY <1>2 DEF RequestIsRight, Roles
<1>6. CASE SetStatus(b)
  BY <1>4, <1>5, <1>6 DEF SetStatus, At
<1>7. CASE SetRole(b)
  BY <1>4, <1>5, <1>7 DEF SetRole, At
<1>8. CASE Delete(b)
  BY <1>4, <1>5, <1>8 DEF Delete, At
<1> QED BY <1>6, <1>7, <1>8

LEMMA DecideKeeps ==
  ASSUME IInv, NEW b \in Browsers, DecideApplication(b)
  PROVE  IInv'
<1> DEFINE a == req[b].target
<1>1. /\ UNCHANGED <<cookie, oauth, link, served>> /\ Ends(b) /\ req[b].kind = "decide"
      /\ applied' = [applied EXCEPT ![a] = req[b].value]
      /\ UNCHANGED account \/ account' = MadeAuthor(a)
  BY DEF DecideApplication, At
<1>2. /\ a \in Accounts /\ account[a].status # "absent"
      /\ req[b].value \in {"pending", "approved", "rejected"}
  BY <1>1, TargetFacts DEF RequestIsRight
<1>3. LinksMove
  BY <1>1, SameLinks
<1>4. RowsMove
  <2>1. "author" \in Roles
    BY DEF Roles
  <2>2. CASE account' = MadeAuthor(a)
    <3>1. account' = [account EXCEPT ![a].role = "author", ![a].version = @ + 1]
      BY <2>2 DEF MadeAuthor
    <3> HIDE DEF a
    <3> QED BY <1>2, <1>3, <2>1, <3>1, StandingMoves
  <2> QED BY <1>1, <1>3, <2>2, SameRows
<1>5. AppliedMove
  <2>1. \A c \in Accounts : account[c].status # "absent" => account'[c].status # "absent"
    BY <1>4, StaysThere
  <2> QED BY <1>1, <1>2, <2>1 DEF IInv, TypeOK, AppliedMove
<1> QED BY <1>1, <1>3, <1>4, <1>5, SameCookies, EndKeeps

\* A row is changed in what no session was opened on.
LEMMA QuietRow ==
  ASSUME IInv, LinksMove, NEW a \in Accounts, NEW row \in Row,
         account' = [account EXCEPT ![a] = row],
         row.status = account[a].status, row.version = account[a].version,
         row.role = account[a].role, row.email = account[a].email,
         row.password = account[a].password,
         row.verified = account[a].verified, row.given = account[a].given,
         row.status # "absent" =>
           row.identity = account[a].identity \/ row.identity # None \/ row.password # 0
  PROVE  RowsMove
<1>1. account[a] \in Row /\ account[a].version \in Nat /\ RowIsRight(account, link, a)
  BY DEF IInv, TypeOK, Row
<1>2. RowGrows(account[a], row)
  BY <1>1 DEF RowGrows, Credentials
<1>3. \A e : Confirmed(link, a, e) => Confirmed(link', a, e)
  BY DEF LinksMove, LinksKeep, Confirmed
<1> QED BY <1>1, <1>2, <1>3, OneRow DEF RowIsRight

LEMMA PendingMoves ==
  ASSUME IInv, LinksMove, NEW a \in Accounts, NEW e \in Emails \cup {None},
         account' = [account EXCEPT ![a].pending = e]
  PROVE  RowsMove
<1> DEFINE row == [account[a] EXCEPT !.pending = e]
<1>1. account[a] \in Row /\ account \in [Accounts -> Row]
  BY DEF IInv, TypeOK
<1>2. account' = [account EXCEPT ![a] = row]
  BY <1>1
<1>3. /\ row \in Row
      /\ row.status = account[a].status /\ row.version = account[a].version
      /\ row.role = account[a].role /\ row.email = account[a].email
      /\ row.password = account[a].password /\ row.identity = account[a].identity
      /\ row.verified = account[a].verified /\ row.given = account[a].given
  BY <1>1 DEF Row
<1> HIDE DEF row
<1> QED BY <1>2, <1>3, QuietRow

LEMMA IdentityMoves ==
  ASSUME IInv, LinksMove, NEW a \in Accounts, NEW g \in Subjects \cup {None},
         account' = [account EXCEPT ![a].identity = g],
         g = None => account[a].password # 0
  PROVE  RowsMove
<1> DEFINE row == [account[a] EXCEPT !.identity = g]
<1>1. account[a] \in Row /\ account \in [Accounts -> Row]
  BY DEF IInv, TypeOK
<1>2. account' = [account EXCEPT ![a] = row]
  BY <1>1
<1>3. /\ row \in Row
      /\ row.status = account[a].status /\ row.version = account[a].version
      /\ row.role = account[a].role /\ row.email = account[a].email
      /\ row.password = account[a].password /\ row.identity = g
      /\ row.verified = account[a].verified /\ row.given = account[a].given
  BY <1>1 DEF Row
<1> HIDE DEF row
<1> QED BY <1>2, <1>3, QuietRow

\* A new account: it has the password or the identity it is made with.
LEMMA NewMoves ==
  ASSUME IInv, LinksMove, NEW a \in Accounts, account[a].status = "absent",
         NEW e \in Emails, NEW vouched \in BOOLEAN, NEW password \in 0 .. MaxRequests + 1,
         NEW g \in Subjects \cup {None}, password # 0 \/ g # None,
         account' = [account EXCEPT ![a] = NewAccount(e, vouched, password, g)]
  PROVE  RowsMove /\ account'[a].status # "absent"
<1> DEFINE row == NewAccount(e, vouched, password, g)
<1>1. PICK old \in BOOLEAN : old = FALSE
  OBVIOUS
<1>2. /\ row \in Row /\ row.status = "active" /\ row.password = password /\ row.identity = g
      /\ row.verified = vouched /\ row.email = e
      /\ row.given = IF vouched THEN e ELSE None
  <2>1. row = [status |-> "active", role |-> "reader", version |-> 0, email |-> e,
               pending |-> None, verified |-> vouched, given |-> IF vouched THEN e ELSE None,
               password |-> password, old |-> old, identity |-> g]
    BY <1>1 DEF NewAccount
  <2> HIDE DEF row
  <2> QED BY <2>1 DEF Row, Statuses, Roles
<1>3. RowGrows(account[a], row)
  BY DEF RowGrows
<1> HIDE DEF row
<1>4. account' = [account EXCEPT ![a] = row]
  BY DEF row
<1>5. RowsMove
  BY <1>2, <1>3, <1>4, OneRow
<1>6. account \in [Accounts -> Row]
  BY DEF IInv, TypeOK
<1> QED BY <1>2, <1>4, <1>5, <1>6

LEMMA MakeKeeps ==
  ASSUME IInv, NEW b \in Browsers, Create(b) \/ Enrol(b)
  PROVE  IInv'
<1> DEFINE a == req[b].target
<1>1. /\ UNCHANGED <<cookie, oauth, link, applied, served>>
      /\ req[b].kind \in {"register", "enrol"}
  BY DEF Create, Enrol, At
<1>2. /\ a \in Accounts /\ req[b].id \in 1 .. MaxRequests /\ RequestIsRight(account, link, req[b])
  BY <1>1, TargetFacts
<1>3. LinksMove /\ NothingSent
  BY <1>1, SameLinks
<1>4. CASE Ends(b) /\ UNCHANGED account
  BY <1>1, <1>3, <1>4, SameRows, SameCookies, SameApplied, EndKeeps
<1>5. ASSUME Create(b), account[a].status = "absent", Goes(b, "pending"),
             account' = [account EXCEPT ![a] = NewAccount(req[b].value, FALSE, req[b].id, None)]
      PROVE  IInv'
  <2>1. req[b].value \in Emails /\ req[b].kind = "register"
    BY <1>2, <1>5 DEF RequestIsRight, Create, At, Sending
  <2>2. PICK vouched \in BOOLEAN : vouched = FALSE
    OBVIOUS
  <2>3. account' = [account EXCEPT ![a] = NewAccount(req[b].value, vouched, req[b].id, None)]
    BY <1>5, <2>2
  <2>4. req[b].id \in 0 .. MaxRequests + 1 /\ req[b].id # 0
    BY <1>2, BoundAssumption
  <2>5. RowsMove /\ account'[a].status # "absent"
    BY ZenonT(40), <1>2, <1>3, <1>5, <2>1, <2>3, <2>4, NewMoves
  <2> QED BY <1>1, <1>3, <1>5, <2>1, <2>5, GoesKeeps DEF Sending
<1>6. ASSUME Enrol(b), account[a].status = "absent", Goes(b, "refresh"),
             account' = [account EXCEPT ![a] =
                           NewAccount(req[b].value.email, TRUE, 0, req[b].value.subject)]
      PROVE  IInv'
  <2>1. req[b].value \in [subject : Subjects, email : Emails] /\ req[b].kind = "enrol"
    BY <1>2, <1>6 DEF RequestIsRight, Enrol, At
  <2>2. PICK vouched \in BOOLEAN : vouched = TRUE
    OBVIOUS
  <2>3. PICK e \in Emails, g \in Subjects : e = req[b].value.email /\ g = req[b].value.subject
    BY <2>1
  <2>4. PICK none \in 0 .. MaxRequests + 1 : none = 0
    BY BoundAssumption
  <2>5. account' = [account EXCEPT ![a] = NewAccount(e, vouched, none, g)] /\ g # None
    BY <1>6, <2>2, <2>3, <2>4, NoneAssumption
  <2>6. RowsMove /\ account'[a].status # "absent"
    <3>1. a \in Accounts /\ account[a].status = "absent" /\ g \in Subjects \cup {None}
      BY <1>2, <1>6
    <3> HIDE DEF a
    <3> QED BY <1>3, <2>5, <3>1, NewMoves
  <2> QED BY <1>1, <1>3, <1>6, <2>1, <2>6, GoesKeeps DEF Sending
<1>7. CASE Create(b)
  BY <1>4, <1>5, <1>7 DEF Create
<1>8. CASE Enrol(b)
  BY <1>4, <1>6, <1>8 DEF Enrol
<1> QED BY <1>7, <1>8

LEMMA ChangeKeeps ==
  ASSUME IInv, NEW b \in Browsers, SetPending(b) \/ Undo(b) \/ Link(b) \/ Unlink(b)
  PROVE  IInv'
<1> DEFINE a == req[b].target
<1>1. /\ UNCHANGED <<cookie, oauth, link, applied, served>>
      /\ req[b].kind \in {"setPending", "setBack", "link", "unlink"}
  BY DEF SetPending, Undo, Link, Unlink, At
<1>2. /\ a \in Accounts /\ account[a].status # "absent" /\ req[b].row \in Row
      /\ RequestIsRight(account, link, req[b])
  BY <1>1, TargetFacts
<1>3. LinksMove /\ NothingSent
  BY <1>1, SameLinks
<1>4. /\ Ends(b) \/ Goes(b, "refresh") \/ (Goes(b, "issue") /\ req[b].kind = "setPending")
      /\ \/ UNCHANGED account
         \/ \E e \in Emails \cup {None} : account' = [account EXCEPT ![a].pending = e]
         \/ \E g \in Subjects \cup {None} :
              /\ account' = [account EXCEPT ![a].identity = g]
              /\ g = None => account[a].password # 0
  <2>1. CASE SetPending(b)
    <3>1. req[b].value \in Emails /\ req[b].kind = "setPending"
      BY <1>2, <2>1 DEF SetPending, At, RequestIsRight, Sending
    <3> QED BY <2>1, <3>1 DEF SetPending
  <2>2. CASE Undo(b)
    <3>1. req[b].row.pending \in Emails \cup {None}
      BY <1>2 DEF Row
    <3> QED BY <2>2, <3>1 DEF Undo
  <2>3. CASE Link(b)
    <3>1. req[b].value \in Subjects /\ req[b].value # None
      BY <1>2, <2>3, NoneAssumption DEF Link, At, RequestIsRight
    <3> QED BY <2>3, <3>1 DEF Link
  <2>4. CASE Unlink(b)
    <3>1. account[a].password # 0
      BY <1>2, <2>4 DEF Unlink, At, RequestIsRight
    <3> QED BY <2>4, <3>1 DEF Unlink
  <2> QED BY <2>1, <2>2, <2>3, <2>4
<1>5. RowsMove
  <2> HIDE DEF a
  <2> QED BY <1>2, <1>3, <1>4, SameRows, PendingMoves, IdentityMoves
<1>6. account'[a].status # "absent"
  BY <1>2, <1>5, StaysThere
<1>7. CASE Ends(b)
  BY <1>1, <1>3, <1>5, <1>7, SameCookies, SameApplied, EndKeeps
<1>8. CASE Goes(b, "refresh") \/ (Goes(b, "issue") /\ req[b].kind = "setPending")
  BY <1>1, <1>3, <1>5, <1>6, <1>8, GoesKeeps DEF Sending
<1> QED BY <1>4, <1>7, <1>8

\* The address that is promoted is the one whose link was opened.
LEMMA PromoteKeeps ==
  ASSUME IInv, NEW b \in Browsers, Promote(b)
  PROVE  IInv'
<1> DEFINE a == req[b].target
           e == req[b].value
           version == account[a].version + 1
<1>1. /\ UNCHANGED <<cookie, oauth, link, applied, served>> /\ Ends(b)
      /\ req[b].kind = "promote"
  BY DEF Promote, At
<1>2. /\ a \in Accounts /\ account[a].status # "absent" /\ e \in Emails
      /\ account[a] \in Row /\ account \in [Accounts -> Row] /\ Confirmed(link, a, e)
  BY <1>1, TargetFacts DEF RequestIsRight, TypeOK, Sending
<1>3. LinksMove /\ Confirmed(link', a, e)
  BY <1>1, <1>2, SameLinks
<1>4. CASE UNCHANGED account
  BY <1>1, <1>3, <1>4, SameRows, SameCookies, SameApplied, EndKeeps
<1>5. CASE ~UNCHANGED account
  <2>1. PICK verified \in BOOLEAN, none \in {None} :
          account' = [account EXCEPT ![a].email = e, ![a].pending = none,
                                     ![a].verified = verified, ![a].version = @ + 1]
    BY <1>5 DEF Promote
  <2> DEFINE row == [account[a] EXCEPT !.email = e, !.pending = none, !.verified = verified,
                                       !.version = version]
  <2>2. version \in Nat
    BY <1>2 DEF Row
  <2>3. account' = [account EXCEPT ![a] = row]
    BY <1>2, <2>1
  <2> HIDE DEF version
  <2>4. /\ row \in Row /\ row.version = version /\ row.status = account[a].status
        /\ row.password = account[a].password /\ row.identity = account[a].identity
        /\ row.email = e
    BY <1>2, <2>2 DEF Row
  <2> HIDE DEF row, a, e
  <2>5. RowsMove
    BY <1>2, <1>3, <2>3, <2>4, RaisedRow DEF version
  <2> QED BY <1>1, <1>3, <2>5, SameCookies, SameApplied, EndKeeps
<1> QED BY <1>4, <1>5

-----------------------------------------------------------------------------
(* The links *)

LEMMA DroppedMoves ==
  ASSUME IInv, NEW a, NEW purpose, link' = Dropped(a, purpose)
  PROVE  LinksMove /\ NothingSent
<1>1. ASSUME NEW l \in Ids
      PROVE  /\ link'[l] \in EmailLink /\ LinkIsRight(link'[l])
             /\ link[l].state = "opened" => link'[l] = link[l]
             /\ link'[l].state # "none" => link[l].state # "none"
  <2>1. link[l] \in EmailLink /\ LinkIsRight(link[l])
    BY DEF IInv, TypeOK
  <2>2. CASE link'[l] = link[l]
    BY <2>1, <2>2
  <2>3. CASE link[l].state \in {"unused", "lost"} /\ link'[l] = [link[l] EXCEPT !.state = "dropped"]
    <3>1. /\ link'[l] \in EmailLink /\ link'[l].account = link[l].account
          /\ link'[l].state = "dropped"
      BY <2>1, <2>3 DEF EmailLink
    <3> QED BY <2>1, <2>3, <3>1 DEF LinkIsRight
  <2> QED BY <2>2, <2>3 DEF Dropped
<1>2. link' \in [Ids -> EmailLink]
  BY <1>1 DEF Dropped
<1> QED BY <1>1, <1>2 DEF LinksMove, LinksKeep, NothingSent

LEMMA InvalidateKeeps ==
  ASSUME IInv, NEW b \in Browsers, Invalidate(b)
  PROVE  IInv'
<1>1. /\ UNCHANGED <<account, cookie, oauth, applied, served>> /\ req[b].kind = "issue"
      /\ link' = Dropped(req[b].target, LinkPurpose(b)) /\ Goes(b, "send")
  BY DEF Invalidate, At
<1>2. LinksMove /\ NothingSent
  BY <1>1, DroppedMoves
<1>3. RowsMove
  BY <1>1, <1>2, SameRows
<1>4. account'[req[b].target].status # "absent"
  BY <1>1, TargetFacts
<1> QED BY <1>1, <1>2, <1>3, <1>4, GoesKeeps DEF Sending

LEMMA SweepKeeps ==
  ASSUME IInv, NEW b \in Browsers, Sweep(b)
  PROVE  IInv'
<1>1. /\ UNCHANGED <<account, oauth, applied, served>> /\ Ends(b)
      /\ link' = Dropped(req[b].target, "reset") /\ cookie' = [cookie EXCEPT ![b] = None]
  BY DEF Sweep, At
<1>2. LinksMove /\ NothingSent
  BY <1>1, DroppedMoves
<1>3. RowsMove
  BY <1>1, <1>2, SameRows
<1>4. CookiesMove
  BY <1>1, <1>2, <1>3, CloseMoves
<1>5. RequestsMove
  BY <1>1, <1>2, <1>3, EndMoves
<1> QED BY <1>1, <1>2, <1>3, <1>4, <1>5, SameOAuth, SameApplied, MovesKeepIInv

\* The number of the link is that of the request, under which nothing was sent.
LEMMA SendKeeps ==
  ASSUME IInv, NEW b \in Browsers, Send(b)
  PROVE  IInv'
<1> DEFINE i == req[b].id
<1>1. UNCHANGED <<account, cookie, oauth, applied, served>> /\ req[b].kind = "send"
  BY DEF Send, At
<1>2. PICK state \in {"unused", "lost"} :
        /\ link' = [link EXCEPT ![i] =
             [account |-> req[b].target, purpose |-> LinkPurpose(b), target |-> req[b].value,
              state |-> state]]
        /\ Goes(b, "undo") \/ Ends(b)
  BY DEF Send
<1>3. /\ req[b].target \in Accounts /\ i \in Ids /\ req[b].value \in Emails /\ TypeOK
      /\ account[req[b].target].status # "absent" /\ req[b].row \in Row
      /\ link[i].state = "none" /\ i <= served /\ i # 0
  BY <1>1, TargetFacts DEF RequestIsRight, IInv, NumbersAreFresh, Sending, Ids
<1> DEFINE sent == [account |-> req[b].target, purpose |-> LinkPurpose(b),
                    target |-> req[b].value, state |-> state]
<1>4. sent \in EmailLink /\ LinkIsRight(sent)
  BY <1>3 DEF EmailLink, LinkPurpose, LinkIsRight
<1>5. link' = [link EXCEPT ![i] = sent]
  BY <1>2
<1> HIDE DEF sent, i
<1>6. /\ link' \in [Ids -> EmailLink] /\ link'[i] = sent
      /\ \A l \in Ids \ {i} : link'[l] = link[l]
  BY <1>3, <1>4, <1>5 DEF TypeOK
<1>7. LinksMove
  BY <1>3, <1>4, <1>6 DEF IInv, LinksMove, LinksKeep
<1>8. RowsMove
  BY <1>1, <1>7, SameRows
<1>9. PICK next :
        /\ req' = [req EXCEPT ![b] = next] /\ next \in RequestOf(next.value)
        /\ RequestIsRight(account', link', next)
        /\ next.kind \in {"idle", "undo"} /\ next.id \in {0, i}
  <2>1. CASE Ends(b)
    BY <2>1, IdleFacts DEF Ends
  <2>2. CASE Goes(b, "undo")
    <3> DEFINE next == [req[b] EXCEPT !.kind = "undo"]
    <3>1. "undo" \in Kinds
      BY DEF Kinds
    <3>2. /\ next \in RequestOf(next.value) /\ next.kind = "undo" /\ next.id = i
          /\ next.target = req[b].target /\ next.row = req[b].row
      BY <3>1, GoesFacts DEF i
    <3>3. req' = [req EXCEPT ![b] = next]
      BY <2>2 DEF Goes
    <3> HIDE DEF next
    <3>4. RequestIsRight(account', link', next)
      BY <1>1, <1>3, <3>2 DEF RequestIsRight, Sending
    <3> QED BY <3>2, <3>3, <3>4
  <2> QED BY <1>2, <2>1, <2>2
<1>10. DOMAIN req' = Browsers /\ req'[b] = next /\ \A c \in Browsers \ {b} : req'[c] = req[c]
  BY <1>3, <1>9 DEF TypeOK
<1>11. \A c \in Browsers : /\ req'[c] \in RequestOf(req'[c].value)
                           /\ RequestIsRight(account', link', req'[c])
  BY <1>7, <1>8, <1>9, <1>10, RequestStays
<1>12. NumbersAreFresh'
  <2>0. served \in Nat /\ 0 <= served
    BY <1>3, BoundAssumption DEF TypeOK
  <2>1. \A c \in Browsers \ {b} : req[c].kind # "idle" => req[c].id # i
    BY <1>1 DEF IInv, NumbersAreFresh, i
  <2>2. \A c, d \in Browsers :
          req'[c].kind # "idle" /\ req'[d].kind # "idle" /\ req'[c].id = req'[d].id => c = d
    <3>1. \A c, d \in Browsers \ {b} :
            req'[c].kind # "idle" /\ req'[d].kind # "idle" /\ req'[c].id = req'[d].id => c = d
      BY <1>10 DEF IInv, NumbersAreFresh
    <3>2. \A c \in Browsers \ {b} :
            req'[c].kind # "idle" => req'[c].id # i /\ req'[c].id # 0
      BY <1>10, <2>1 DEF IInv, RequestIsRight
    <3> QED BY <1>9, <1>10, <3>1, <3>2
  <2>3. \A c \in Browsers : req'[c].id <= served'
    BY <1>1, <1>3, <1>9, <1>10, <2>0 DEF IInv, NumbersAreFresh
  <2>4. \A l \in Ids : link'[l].state # "none" => l <= served'
    BY <1>1, <1>3, <1>6 DEF IInv, NumbersAreFresh
  <2>5. \A c \in Browsers : req'[c].kind \in Sending => link'[req'[c].id].state = "none"
    <3> SUFFICES ASSUME NEW c \in Browsers, req'[c].kind \in Sending
                 PROVE  link'[req'[c].id].state = "none"
      OBVIOUS
    <3>1. c # b /\ req'[c] = req[c]
      BY <1>9, <1>10 DEF Sending
    <3>2. req[c].kind \in Sending /\ req[c].kind # "idle"
      BY <3>1 DEF Sending
    <3>3. req[c].id \in Ids \ {i} /\ link[req[c].id].state = "none"
      BY <2>1, <3>1, <3>2, TargetFacts DEF IInv, NumbersAreFresh
    <3> QED BY <1>6, <3>1, <3>3
  <2> QED BY <2>2, <2>3, <2>4, <2>5 DEF NumbersAreFresh
<1>13. RequestsMove
  BY <1>1, <1>3, <1>10, <1>11, <1>12 DEF TypeOK, RequestsMove
<1> QED BY <1>1, <1>7, <1>8, <1>13, SameCookies, SameOAuth, SameApplied, MovesKeepIInv

LEMMA OpenKeeps ==
  ASSUME IInv, NEW b \in Browsers, Open(b)
  PROVE  IInv'
<1>1. UNCHANGED <<account, cookie, oauth, applied>> /\ Begins(b)
  BY DEF Open
<1>2. PICK l \in Ids :
        LET a == link[l].account IN
        /\ link[l].state = "unused" /\ link' = [link EXCEPT ![l].state = "opened"]
        /\ \/ /\ link[l].purpose = "verify" /\ account[a].status = "active" /\ Awaits(a, l)
              /\ Request(b, "promote", "verify", a, account[a].pending)
           \/ /\ account[a].status = "active" /\ Request(b, "reset", "reset", a, None)
           \/ UNCHANGED req
  BY DEF Open
<1> DEFINE a == link[l].account
           opened == [link[l] EXCEPT !.state = "opened"]
<1>3. /\ TypeOK /\ link[l] \in EmailLink /\ link \in [Ids -> EmailLink] /\ a \in Accounts
      /\ account[a] \in Row
  BY <1>2 DEF IInv, TypeOK, LinkIsRight
<1>4. /\ opened \in EmailLink /\ opened.state = "opened" /\ opened.account = a
      /\ opened.purpose = link[l].purpose /\ opened.target = link[l].target
  BY <1>3 DEF EmailLink
<1>5. link' = [link EXCEPT ![l] = opened]
  BY <1>2, <1>3
<1> HIDE DEF opened
<1>6. /\ link' \in [Ids -> EmailLink] /\ link'[l] = opened
      /\ \A k \in Ids \ {l} : link'[k] = link[k]
  BY <1>3, <1>4, <1>5
<1>7. LinksMove /\ NothingSent
  BY <1>2, <1>3, <1>4, <1>6 DEF IInv, LinksMove, LinksKeep, LinkIsRight, NothingSent
<1>8. RowsMove
  BY <1>1, <1>7, SameRows
<1>9. RequestsMove
  <2>1. CASE UNCHANGED req
    BY <1>1, <1>7, <1>8, <2>1, CountMoves
  <2>2. CASE /\ link[l].purpose = "verify" /\ account[a].status = "active" /\ Awaits(a, l)
             /\ Request(b, "promote", "verify", a, account[a].pending)
    <3> DEFINE e == account[a].pending
    <3>1. "promote" \in Kinds \ {"idle"}
      BY DEF Kinds
    <3>2. e \in Emails /\ e = link[l].target
      BY <1>3, <2>2 DEF Row, Awaits
    <3>3. Confirmed(link', a, e)
      BY <1>4, <1>6, <2>2, <3>2 DEF Confirmed
    <3>4. account[a].status # "absent" /\ Request(b, "promote", "verify", a, e)
      BY <2>2
    <3> HIDE DEF a, e
    <3>5. \A rec : /\ rec.kind = "promote" /\ rec.target = a /\ rec.value = e /\ rec.id # 0
                   /\ rec.row = account[a] /\ rec.row \in Row
                   => RequestIsRight(account, link', rec)
      BY <1>3, <3>2, <3>3, <3>4 DEF RequestIsRight, Sending
    <3> QED BY <1>1, <1>3, <1>7, <1>8, <3>1, <3>4, <3>5, BeginMoves
  <2>3. CASE account[a].status = "active" /\ Request(b, "reset", "reset", a, None)
    <3>1. "reset" \in Kinds \ {"idle"}
      BY DEF Kinds
    <3>2. account[a].status # "absent" /\ Request(b, "reset", "reset", a, None)
      BY <2>3
    <3> HIDE DEF a
    <3>3. \A rec : /\ rec.kind = "reset" /\ rec.target = a /\ rec.value = None /\ rec.id # 0
                   /\ rec.row = account[a] /\ rec.row \in Row
                   => RequestIsRight(account, link', rec)
      BY <1>3, <3>2 DEF RequestIsRight, Sending
    <3> QED BY <1>1, <1>3, <1>7, <1>8, <3>1, <3>2, <3>3, BeginMoves
  <2> QED BY <1>2, <2>1, <2>2, <2>3
<1> QED BY <1>1, <1>7, <1>8, <1>9, SameCookies, SameOAuth, SameApplied, MovesKeepIInv

LEMMA CrashKeeps ==
  ASSUME IInv, Crash
  PROVE  IInv'
<1>1. UNCHANGED <<account, cookie, oauth, link, applied, served>>
  BY DEF Crash
<1>2. LinksMove /\ NothingSent /\ RowsMove
  BY <1>1, SameLinks, SameRows
<1> HIDE DEF Idle
<1>3. DOMAIN req' = Browsers /\ \A b \in Browsers : req'[b] = Idle
  BY DEF Crash
<1>4. NumbersAreFresh'
  BY <1>1, <1>2, <1>3, NumbersStay
<1>5. RequestsMove
  BY <1>1, <1>3, <1>4, IdleFacts DEF IInv, TypeOK, RequestsMove
<1> QED BY <1>1, <1>2, <1>5, SameCookies, SameOAuth, SameApplied, MovesKeepIInv

-----------------------------------------------------------------------------
(* The invariant holds *)

LEMMA IInvInit == Init => IInv
<1> SUFFICES ASSUME Init PROVE IInv
  OBVIOUS
<1>1. NoOAuth \in OAuth /\ NoOAuth.stage = "none"
  BY DEF NoOAuth, OAuth
<1>2. NoLink \in EmailLink /\ NoLink.state = "none"
  BY DEF NoLink, EmailLink
<1> HIDE DEF NoOAuth, NoLink, Idle
<1>3. 0 \in 0 .. MaxRequests /\ 0 <= 0
  BY BoundAssumption
<1>4. TypeOK
  BY <1>1, <1>2, <1>3, IdleFacts, RowAssumption DEF Init, TypeOK
<1>5. \A a \in Accounts : RowIsRight(account, link, a)
  BY InitialAssumption DEF Init, RowIsRight
<1>6. \A b \in Browsers :
        /\ SessionIsRight(account, cookie[b]) /\ OAuthIsRight(oauth[b])
        /\ RequestIsRight(account, link, req[b])
  BY <1>1, IdleFacts DEF Init, SessionIsRight, OAuthIsRight
<1>7. \A l \in Ids : LinkIsRight(link[l])
  BY <1>2 DEF Init, LinkIsRight
<1>8. NumbersAreFresh
  BY <1>2, <1>3, IdleFacts DEF Init, NumbersAreFresh, Sending
<1>9. \A a \in Accounts : applied[a] = "none"
  BY DEF Init
<1> QED BY <1>4, <1>5, <1>6, <1>7, <1>8, <1>9 DEF IInv

LEMMA IInvStutters == IInv /\ UNCHANGED vars => IInv'
<1> SUFFICES ASSUME IInv, UNCHANGED vars PROVE IInv'
  OBVIOUS
<1>1. UNCHANGED <<account, cookie, oauth, req, link, applied, served>>
  BY DEF vars
<1>2. LinksMove /\ NothingSent /\ RowsMove
  BY <1>1, SameLinks, SameRows
<1> QED BY <1>1, <1>2, StayMoves, SameCookies, SameOAuth, SameApplied, MovesKeepIInv

LEMMA IInvStep == IInv /\ [Next]_vars => IInv'
<1> SUFFICES ASSUME IInv, [Next]_vars PROVE IInv'
  OBVIOUS
<1>1. CASE UNCHANGED vars
  BY <1>1, IInvStutters
<1>2. CASE Crash
  BY <1>2, CrashKeeps
<1>3. ASSUME NEW b \in Browsers, Session(b) PROVE IInv'
  BY <1>3, LoginKeeps, PasswordKeeps, SessionKeeps, LogoutKeeps DEF Session
<1>4. ASSUME NEW b \in Browsers, Password(b) PROVE IInv'
  BY <1>4, OwnPasswordKeeps, PasswordKeeps DEF Password
<1>5. ASSUME NEW b \in Browsers, Admin(b) PROVE IInv'
  BY <1>5, AdministerKeeps, CheckKeeps, StandingKeeps, PasswordKeeps DEF Admin
<1>6. ASSUME NEW b \in Browsers, Author(b) PROVE IInv'
  BY <1>6, ApplyKeeps, ReviewKeeps, DecideKeeps DEF Author
<1>7. ASSUME NEW b \in Browsers, Mail(b) PROVE IInv'
  BY <1>7, RegisterKeeps, MakeKeeps, AddressKeeps, ChangeKeeps, InvalidateKeeps, SendKeeps,
     OpenKeeps, PromoteKeeps, PasswordKeeps, SweepKeeps DEF Mail
<1>8. ASSUME NEW b \in Browsers, Google(b) PROVE IInv'
  BY <1>8, GoogleStateKeeps, GoogleLoginKeeps, MakeKeeps, GoogleReadsKeep, ChangeKeeps DEF Google
<1> QED BY <1>1, <1>2, <1>3, <1>4, <1>5, <1>6, <1>7, <1>8 DEF Next

LEMMA Inductive == Spec => []IInv
BY IInvInit, IInvStep, PTL DEF Spec

\* The state of the accounts, the browsers and the links always has its type.
THEOREM TypeCorrect == Spec => []TypeOK
<1>1. IInv => TypeOK
  BY DEF IInv
<1> QED BY <1>1, Inductive, PTL

\* However many browsers and administrators there are: a session that is accepted
\* was opened on the password, the role, the status and the address that the account
\* has now (the version of get_current_user).
THEOREM AcceptedSessionsAreCurrent == Spec => []AcceptedSessionIsCurrent
<1>1. IInv => AcceptedSessionIsCurrent
  BY DEF IInv, SessionIsRight, ReadAt, AcceptedSessionIsCurrent, Authenticated, Me
<1> QED BY <1>1, Inductive, PTL

\* However the links of an account cross its changes of address: an address that
\* is confirmed was vouched for at the start, or a link sent to it was opened
\* (promote_verified_email, google_callback).
THEOREM VerifiedAddressesWereConfirmed == Spec => []VerifiedWasConfirmed
<1>1. IInv => VerifiedWasConfirmed
  BY DEF IInv, RowIsRight, Confirmed, VerifiedWasConfirmed
<1> QED BY <1>1, Inductive, PTL

\* However linking and unlinking at Google overlap with changes of the password:
\* an account that may log in has a way to do it.
THEOREM AccountsHaveAWayIn == Spec => []HasAWayIn
<1>1. IInv => HasAWayIn
  BY DEF IInv, RowIsRight, HasAWayIn
<1> QED BY <1>1, Inductive, PTL
=============================================================================
