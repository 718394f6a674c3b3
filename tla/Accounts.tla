------------------------------ MODULE Accounts ------------------------------
(***************************************************************************)
(* Accounts, sessions and the ways into them (backend/routers/auth.py, the   *)
(* user routes of routers/admin.py, services/auth_tokens.py, oauth.py,       *)
(* security.py, auth.py, the user tables of db.py): registration and login,  *)
(* passwords, the confirmation and change of e-mail addresses by links, the  *)
(* identities at Google, what administrators do to accounts, and the         *)
(* applications of those who want to write (routers/platform.py).            *)
(*                                                                          *)
(* A browser has one session cookie and one request at a time.  The first    *)
(* step of a request authenticates it and reads; each later step is one      *)
(* transaction, with the reads after the one before it.  Browsers are served *)
(* by web instances of their own, which WRITE_LOCK does not keep apart, and  *)
(* db.atomic opens no transaction before its first write: a check that no    *)
(* index of the tables repeats is a step before the write that relies on it. *)
(***************************************************************************)
EXTENDS Naturals, FiniteSets

CONSTANTS
  Accounts,     \* accounts that are or may be made
  Browsers,     \* browsers (and other clients)
  Emails,       \* normalized addresses
  Subjects,     \* identities at Google
  Initial,      \* the rows of the accounts at the start
  MaxRequests,  \* bound of the model: requests
  None          \* no address, identity, cookie or account

Roles == {"reader", "author", "reviewer", "admin", "super_admin"}
Ids == 1 .. MaxRequests

\* users, with external_identities (one per account, as there is one provider).
\* A password is named after the request that set it and 0 is none; given is the
\* address somebody vouched for when the account was made, old says that the
\* password was hashed with fewer iterations.
Statuses == {"absent", "active", "disabled", "deleted"}
Row == [status : Statuses, role : Roles, version : Nat,
        email : Emails \cup {None}, pending : Emails \cup {None}, verified : BOOLEAN,
        given : Emails \cup {None}, password : 0 .. MaxRequests + 1, old : BOOLEAN,
        identity : Subjects \cup {None}]

ASSUME RowAssumption == Initial \in [Accounts -> Row]
ASSUME BoundAssumption == MaxRequests \in Nat
ASSUME NoneAssumption == None \notin Accounts \cup Subjects

\* The accounts at the start were made as create_user makes them, one by one.
ASSUME InitialAssumption ==
  /\ IsFiniteSet({a \in Accounts : Initial[a].status # "absent"})
  /\ \A a \in Accounts :
       /\ Initial[a].status # "absent" => Initial[a].password # 0 \/ Initial[a].identity # None
       /\ Initial[a].verified => Initial[a].email = Initial[a].given

VARIABLES
  account,  \* the rows of the accounts
  cookie,   \* the session cookie of each browser
  oauth,    \* the OAuth transaction or link confirmation of each browser
  req,      \* the request of each browser
  link,     \* auth_tokens, by the request that issued them
  applied,  \* author_applications: the status of an account's latest one
  served    \* requests so far

vars == <<account, cookie, oauth, req, link, applied, served>>

NoLink == [account |-> None, purpose |-> "reset", target |-> None, state |-> "none"]
Idle == [kind |-> "idle", id |-> 0, target |-> None, value |-> None, row |-> None,
         purpose |-> "verify"]
NoOAuth == [stage |-> "none", purpose |-> "login", account |-> None, subject |-> None]

\* What a session was opened on, besides its version.
Credentials(row) == [status |-> row.status, role |-> row.role, email |-> row.email,
                     password |-> row.password]

CookieOf == [account : Accounts, version : Nat,
             seen : [status : Statuses, role : Roles, email : Emails \cup {None},
                     password : 0 .. MaxRequests + 1]]
OAuth == [stage : {"none", "sent", "pending"}, purpose : {"login", "link"},
          account : Accounts \cup {None}, subject : Subjects \cup {None}]
EmailLink == [account : Accounts \cup {None}, purpose : {"reset", "verify"},
              target : Emails \cup {None}, state : {"none", "lost", "unused", "opened", "dropped"}]
\* The write that follows a check.
WriteAfter == [status |-> "setStatus", role |-> "setRole", delete |-> "tombstone",
               pending |-> "setPending", undo |-> "setBack"]
Writes == {"setStatus", "setRole", "tombstone", "setPending", "setBack"}
Kinds == {"idle", "cookie", "refresh", "rehash", "own", "status", "role", "password", "delete",
          "decide", "register", "pending", "issue", "send", "undo", "promote", "reset", "sweep",
          "enrol", "link", "unlink"} \cup Writes

\* What a request brings with it is an address, an identity, both, or an answer.
RequestOf(value) ==
  [kind : Kinds, id : 0 .. MaxRequests, target : Accounts \cup {None}, value : {value},
   row : Row \cup {None}, purpose : {"login", "admin", "verify", "change", "reset"}]

TypeOK ==
  /\ account \in [Accounts -> Row]
  /\ cookie \in [Browsers -> CookieOf \cup {None}]
  /\ oauth \in [Browsers -> OAuth]
  /\ DOMAIN req = Browsers /\ \A b \in Browsers : req[b] \in RequestOf(req[b].value)
  /\ link \in [Ids -> EmailLink]
  /\ applied \in [Accounts -> {"none", "pending", "approved", "rejected"}]
  /\ served \in 0 .. MaxRequests

Init ==
  /\ account = Initial
  /\ cookie = [b \in Browsers |-> None]
  /\ oauth = [b \in Browsers |-> NoOAuth]
  /\ req = [b \in Browsers |-> Idle]
  /\ link = [l \in Ids |-> NoLink]
  /\ applied = [a \in Accounts |-> "none"]
  /\ served = 0

-----------------------------------------------------------------------------
(* Requests and sessions *)

Begins(b) == req[b] = Idle /\ served < MaxRequests /\ served' = served + 1

\* The request goes on with an account, whose row it has just read.
Request(b, kind, purpose, a, value) ==
  req' = [req EXCEPT ![b] = [kind |-> kind, id |-> served + 1, target |-> a, value |-> value,
            row |-> IF a = None THEN None ELSE account[a], purpose |-> purpose]]

At(b, kind) == req[b].kind = kind /\ UNCHANGED served
Goes(b, kind) == req' = [req EXCEPT ![b].kind = kind]
Ends(b) == req' = [req EXCEPT ![b] = Idle]

\* get_current_user: the account of the cookie, if it is active and no change
\* since has raised the version of its sessions.
Me(b) == account[cookie[b].account]
Authenticated(b) ==
  cookie[b] # None /\ Me(b).status = "active" /\ Me(b).version = cookie[b].version

OpenSession(b, a, row) ==
  cookie' = [cookie EXCEPT ![b] =
    [account |-> a, version |-> row.version, seen |-> Credentials(row)]]

\* set_session_cookie with the row read at the start ...
Cookie(b) ==
  /\ At(b, "cookie")
  /\ OpenSession(b, req[b].target, req[b].row)
  /\ Ends(b)
  /\ UNCHANGED <<account, oauth, link, applied>>

\* ... or with the row as it is after the change the request has made.
Refresh(b) ==
  /\ At(b, "refresh")
  /\ OpenSession(b, req[b].target, account[req[b].target])
  /\ Ends(b)
  /\ UNCHANGED <<account, oauth, link, applied>>

Logout(b) ==
  /\ req[b] = Idle /\ cookie[b] # None
  /\ cookie' = [cookie EXCEPT ![b] = None]
  /\ UNCHANGED <<account, oauth, req, link, applied, served>>

\* login with the password the account has; one hashed with fewer iterations is
\* hashed again.
Login(b) ==
  /\ Begins(b)
  /\ \E a \in Accounts :
       /\ account[a].status = "active" /\ account[a].password # 0
       /\ account[a].pending = None \/ account[a].verified
       /\ Request(b, IF account[a].old THEN "rehash" ELSE "cookie", "login", a, None)
  /\ UNCHANGED <<account, cookie, oauth, link, applied>>

\* Mutant: a new password leaves the sessions of the old one alone.
QuietPassword(a, password) ==
  account' = [account EXCEPT ![a].password = password, ![a].old = FALSE]

\* update_user_password.
UpdatePassword(a, password) ==
  account' = [account EXCEPT ![a].password = password, ![a].old = FALSE, ![a].version = @ + 1]

Rehash(b) ==
  /\ At(b, "rehash")
  /\ UpdatePassword(req[b].target, req[b].row.password)
  /\ Goes(b, "refresh")
  /\ UNCHANGED <<cookie, oauth, link, applied>>

\* set_password, of the account itself.
OwnPassword(b) ==
  /\ Begins(b) /\ Authenticated(b)
  /\ Request(b, "own", "login", cookie[b].account, None)
  /\ UNCHANGED <<account, cookie, oauth, link, applied>>

ChangePassword(b) ==
  /\ At(b, "own")
  /\ UpdatePassword(req[b].target, req[b].id)
  /\ Goes(b, "refresh")
  /\ UNCHANGED <<cookie, oauth, link, applied>>

-----------------------------------------------------------------------------
(* Administrators *)

Super(b) == Me(b).role = "super_admin"

\* What the routes check before their transaction, on the row they have read.
Administer(b) ==
  /\ Begins(b) /\ Authenticated(b) /\ Me(b).role \in {"admin", "super_admin"}
  /\ \E a \in Accounts :
       LET self == a = cookie[b].account
           row == account[a] IN
       /\ row.status # "absent" /\ (row.role = "super_admin" => Super(b))
       /\ \/ /\ ~self /\ row.status # "deleted"
             /\ \E s \in {"active", "disabled"} : Request(b, "status", "admin", a, s)
          \/ /\ row.status # "deleted"
             /\ \E role \in Roles :
                  /\ self => role = "admin"
                  /\ role = "super_admin" \/ (row.role = "reviewer" /\ role = "admin") => Super(b)
                  /\ Request(b, "role", "admin", a, role)
          \/ row.status # "deleted" /\ Request(b, "password", "admin", a, None)
          \/ ~self /\ Request(b, "delete", "admin", a, None)
  /\ UNCHANGED <<account, cookie, oauth, link, applied>>

ActiveSupers == {a \in Accounts : account[a].role = "super_admin" /\ account[a].status = "active"}

\* LAST_SUPER_ADMIN_PROTECTION.
OneOfLast(a) == account[a].role = "super_admin" /\ Cardinality(ActiveSupers) <= 1

InUse(e, a) == \E c \in Accounts \ {a} : account[c].email = e

\* What update_user_account_status, update_user_role, soft_delete_user and
\* set_pending_email raise on.
Refused(b) ==
  LET a == req[b].target
      row == account[a] IN
  CASE req[b].kind = "status" -> OneOfLast(a) /\ row.status = "active" /\ req[b].value # "active"
    [] req[b].kind = "role" -> \/ OneOfLast(a) /\ req[b].value # "super_admin"
                               \/ req[b].value = "super_admin" /\ row.status # "active"
    [] req[b].kind = "delete" -> OneOfLast(a) /\ row.status = "active"
    [] req[b].kind = "pending" -> InUse(req[b].value, a)
    [] req[b].kind = "undo" -> req[b].row.pending # None /\ InUse(req[b].row.pending, a)

Check(b) ==
  /\ req[b].kind \in DOMAIN WriteAfter
  /\ IF Refused(b) THEN Ends(b) ELSE Goes(b, WriteAfter[req[b].kind])
  /\ UNCHANGED <<account, cookie, oauth, link, applied, served>>

SetStatus(b) ==
  /\ At(b, "setStatus")
  /\ account' = [account EXCEPT ![req[b].target].status = req[b].value, ![req[b].target].version = @ + 1]
  /\ Ends(b)
  /\ UNCHANGED <<cookie, oauth, link, applied>>

SetRole(b) ==
  /\ At(b, "setRole")
  /\ account' = [account EXCEPT ![req[b].target].role = req[b].value, ![req[b].target].version = @ + 1]
  /\ Ends(b)
  /\ UNCHANGED <<cookie, oauth, link, applied>>

SetPassword(b) ==
  /\ At(b, "password")
  /\ UpdatePassword(req[b].target, req[b].id)
  /\ Ends(b)
  /\ UNCHANGED <<cookie, oauth, link, applied>>

\* soft_delete_user.
Delete(b) ==
  /\ At(b, "tombstone")
  /\ account' = [account EXCEPT ![req[b].target].status = "deleted", ![req[b].target].version = @ + 1]
  /\ Ends(b)
  /\ UNCHANGED <<cookie, oauth, link, applied>>

-----------------------------------------------------------------------------
(* Authors *)

\* apply_author: one application at a time, and none after an approval.
Apply(b) ==
  /\ Begins(b) /\ Authenticated(b)
  /\ applied[cookie[b].account] \in {"none", "rejected"}
  /\ applied' = [applied EXCEPT ![cookie[b].account] = "pending"]
  /\ UNCHANGED <<account, cookie, oauth, req, link>>

\* An administrator rejects, reopens or approves an application, whatever its
\* status; the route looks at the applicant only to see that it is not deleted.
Review(b) ==
  /\ Begins(b) /\ Authenticated(b) /\ Me(b).role \in {"admin", "super_admin"}
  /\ \E a \in Accounts, verdict \in {"pending", "approved", "rejected"} :
       /\ applied[a] # "none"
       /\ verdict = "pending" => applied[a] # "pending"
       /\ verdict = "approved" => account[a].status # "deleted"
       /\ Request(b, "decide", "admin", a, verdict)
  /\ UNCHANGED <<account, cookie, oauth, link, applied>>

\* approve_author_application: the applicant becomes an author, from any role.
MadeAuthor(a) == [account EXCEPT ![a].role = "author", ![a].version = @ + 1]

DecideApplication(b) ==
  LET a == req[b].target IN
  /\ At(b, "decide")
  /\ applied' = [applied EXCEPT ![a] = req[b].value]
  /\ account' = IF req[b].value = "approved" THEN MadeAuthor(a) ELSE account
  /\ Ends(b)
  /\ UNCHANGED <<cookie, oauth, link>>

-----------------------------------------------------------------------------
(* Addresses and the links sent to them *)

\* get_user_by_email: no account when the address is ambiguous.
Unique(a) == account[a].email # None /\ ~InUse(account[a].email, a)

\* create_user: a reader, whose address is verified if somebody vouches for it.
NewAccount(e, vouched, password, identity) ==
  [status |-> "active", role |-> "reader", version |-> 0, email |-> e, pending |-> None,
   verified |-> vouched, given |-> IF vouched THEN e ELSE None, password |-> password,
   old |-> FALSE, identity |-> identity]

\* register: the address is free, then the row, then the pending address.
Register(b) ==
  /\ Begins(b)
  /\ \E a \in Accounts, e \in Emails :
       account[a].status = "absent" /\ ~InUse(e, None) /\ Request(b, "register", "verify", a, e)
  /\ UNCHANGED <<account, cookie, oauth, link, applied>>

Create(b) ==
  LET a == req[b].target
      e == req[b].value IN
  /\ At(b, "register")
  /\ IF account[a].status # "absent" \/ InUse(e, None)
     THEN Ends(b) /\ UNCHANGED account
     ELSE /\ account' = [account EXCEPT ![a] = NewAccount(e, FALSE, req[b].id, None)]
          /\ Goes(b, "pending")
  /\ UNCHANGED <<cookie, oauth, link, applied>>

\* update_profile with a new address, or the old one while it is unconfirmed.
ChangeEmail(b) ==
  /\ Begins(b) /\ Authenticated(b)
  /\ \E e \in Emails :
       /\ e # Me(b).email \/ ~Me(b).verified
       /\ Request(b, "pending", "change", cookie[b].account, e)
  /\ UNCHANGED <<account, cookie, oauth, link, applied>>

\* set_pending_email.
SetPending(b) ==
  /\ At(b, "setPending")
  /\ account' = [account EXCEPT ![req[b].target].pending = req[b].value]
  /\ Goes(b, "issue")
  /\ UNCHANGED <<cookie, oauth, link, applied>>

\* The public requests for another confirmation and for a new password.
Resend(b) ==
  /\ Begins(b)
  /\ \E a \in Accounts :
       /\ account[a].status = "active" /\ Unique(a)
       /\ account[a].pending # None /\ ~account[a].verified
       /\ Request(b, "issue", "verify", a, account[a].pending)
  /\ UNCHANGED <<account, cookie, oauth, link, applied>>

Forgot(b) ==
  /\ Begins(b)
  /\ \E a \in Accounts :
       /\ account[a].status = "active" /\ Unique(a)
       /\ account[a].verified /\ account[a].password # 0
       /\ Request(b, "issue", "reset", a, account[a].email)
  /\ UNCHANGED <<account, cookie, oauth, link, applied>>

LinkPurpose(b) == IF req[b].purpose = "reset" THEN "reset" ELSE "verify"

Dropped(a, purpose) ==
  [l \in Ids |-> IF link[l].account = a /\ link[l].purpose = purpose /\ link[l].state \in {"unused", "lost"}
                 THEN [link[l] EXCEPT !.state = "dropped"] ELSE link[l]]

\* issue_email_verification and issue_password_reset: the earlier links are
\* invalidated ...
Invalidate(b) ==
  /\ At(b, "issue")
  /\ link' = Dropped(req[b].target, LinkPurpose(b))
  /\ Goes(b, "send")
  /\ UNCHANGED <<account, cookie, oauth, applied>>

\* ... and a new one is sent, or lost by the provider, which a change of the
\* address takes back.
Send(b) ==
  /\ At(b, "send")
  /\ \E state \in {"unused", "lost"} :
       /\ link' = [link EXCEPT ![req[b].id] =
            [account |-> req[b].target, purpose |-> LinkPurpose(b), target |-> req[b].value,
             state |-> state]]
       /\ IF state = "lost" /\ req[b].purpose = "change" THEN Goes(b, "undo") ELSE Ends(b)
  /\ UNCHANGED <<account, cookie, oauth, applied>>

Undo(b) ==
  /\ At(b, "setBack")
  /\ account' = [account EXCEPT ![req[b].target].pending = req[b].row.pending]
  /\ Ends(b)
  /\ UNCHANGED <<cookie, oauth, link, applied>>

\* Mutant: any link of the account confirms the address that is pending.
AnyPending(a, l) == account[a].pending # None

Awaits(a, l) == account[a].pending # None /\ account[a].pending = link[l].target

\* The link is opened: it is consumed, and the account read.
Open(b) ==
  /\ Begins(b)
  /\ \E l \in Ids :
       LET a == link[l].account IN
       /\ link[l].state = "unused"
       /\ link' = [link EXCEPT ![l].state = "opened"]
       /\ \/ /\ link[l].purpose = "verify" /\ account[a].status = "active" /\ Awaits(a, l)
             /\ Request(b, "promote", "verify", a, account[a].pending)
          \/ /\ link[l].purpose = "reset" /\ account[a].status = "active"
             /\ account[a].password # 0
             /\ Request(b, "reset", "reset", a, None)
          \/ /\ account[a].status # "active" \/ (link[l].purpose = "verify" /\ ~Awaits(a, l))
             /\ UNCHANGED req
  /\ UNCHANGED <<account, cookie, oauth, applied>>

\* promote_verified_email; another account may have taken the address, which the index
\* of users repeats at the write.
Promote(b) ==
  LET a == req[b].target
      e == req[b].value IN
  /\ At(b, "promote")
  /\ account' = IF InUse(e, a) THEN account
                ELSE [account EXCEPT ![a].email = e, ![a].pending = None, ![a].verified = TRUE,
                                     ![a].version = @ + 1]
  /\ Ends(b)
  /\ UNCHANGED <<cookie, oauth, link, applied>>

\* consume_password_reset ...
Reset(b) ==
  /\ At(b, "reset")
  /\ UpdatePassword(req[b].target, req[b].id)
  /\ Goes(b, "sweep")
  /\ UNCHANGED <<cookie, oauth, link, applied>>

\* ... which then invalidates the other links; the browser is logged out.
Sweep(b) ==
  /\ At(b, "sweep")
  /\ link' = Dropped(req[b].target, "reset")
  /\ cookie' = [cookie EXCEPT ![b] = None]
  /\ Ends(b)
  /\ UNCHANGED <<account, oauth, applied>>

-----------------------------------------------------------------------------
(* Google *)

Taken(g) == \E a \in Accounts : account[a].identity = g

\* begin_google: the transaction whose state the browser brings back.
SentToGoogle(b, purpose, a) ==
  oauth' = [oauth EXCEPT ![b] =
    [stage |-> "sent", purpose |-> purpose, account |-> a, subject |-> None]]

\* A transaction and a confirmation are used once.
Consumed(b) == oauth' = [oauth EXCEPT ![b] = NoOAuth]

\* google_start and google_link_start.
GoogleStart(b) ==
  /\ req[b] = Idle /\ oauth[b] = NoOAuth /\ served < MaxRequests
  /\ \/ SentToGoogle(b, "login", None)
     \/ Authenticated(b) /\ SentToGoogle(b, "link", cookie[b].account)
  /\ UNCHANGED <<account, cookie, req, link, applied, served>>

\* google_callback consumes the transaction.  A login opens the account of the
\* identity, or makes one if no account has the address.
GoogleLogin(b) ==
  /\ Begins(b) /\ oauth[b].stage = "sent" /\ oauth[b].purpose = "login"
  /\ Consumed(b)
  /\ \E g \in Subjects :
       \/ \E a \in Accounts :
            /\ account[a].identity = g /\ account[a].status = "active"
            /\ Request(b, "cookie", "login", a, None)
       \/ /\ ~Taken(g)
          /\ \E a \in Accounts, e \in Emails :
               /\ account[a].status = "absent" /\ ~InUse(e, None)
               /\ Request(b, "enrol", "login", a, [subject |-> g, email |-> e])
       \/ UNCHANGED req
  /\ UNCHANGED <<account, cookie, link, applied>>

Enrol(b) ==
  LET a == req[b].target
      claims == req[b].value IN
  /\ At(b, "enrol")
  /\ IF account[a].status # "absent" \/ InUse(claims.email, None) \/ Taken(claims.subject)
     THEN Ends(b) /\ UNCHANGED account
     ELSE /\ account' = [account EXCEPT ![a] = NewAccount(claims.email, TRUE, 0, claims.subject)]
          /\ Goes(b, "refresh")
  /\ UNCHANGED <<cookie, oauth, link, applied>>

\* A link needs the session it was started in, and is confirmed by the browser.
GoogleLink(b) ==
  /\ Begins(b) /\ oauth[b].stage = "sent" /\ oauth[b].purpose = "link"
  /\ \/ /\ Authenticated(b) /\ cookie[b].account = oauth[b].account
        /\ \E g \in Subjects :
             ~Taken(g) /\ oauth' = [oauth EXCEPT ![b].stage = "pending", ![b].subject = g]
     \/ Consumed(b)
  /\ UNCHANGED <<account, cookie, req, link, applied>>

\* google_link_confirm consumes the confirmation, of its own account only.
GoogleConfirm(b) ==
  /\ Begins(b) /\ Authenticated(b)
  /\ oauth[b].stage = "pending" /\ oauth[b].account = cookie[b].account
  /\ Consumed(b)
  /\ ~Taken(oauth[b].subject)
  /\ Request(b, "link", "login", cookie[b].account, oauth[b].subject)
  /\ UNCHANGED <<account, cookie, link, applied>>

Link(b) ==
  LET a == req[b].target
      g == req[b].value IN
  /\ At(b, "link")
  /\ IF Taken(g) \/ account[a].identity # None
     THEN Ends(b) /\ UNCHANGED account
     ELSE account' = [account EXCEPT ![a].identity = g] /\ Goes(b, "refresh")
  /\ UNCHANGED <<cookie, oauth, link, applied>>

GoogleCancel(b) ==
  /\ req[b] = Idle /\ oauth[b].stage = "pending"
  /\ Consumed(b)
  /\ UNCHANGED <<account, cookie, req, link, applied, served>>

\* Mutant: the identity goes whether there is a password or not.
AnyRow(a) == TRUE

HasOtherWay(a) == account[a].password # 0

GoogleUnlink(b) ==
  /\ Begins(b) /\ Authenticated(b)
  /\ Me(b).identity # None /\ HasOtherWay(cookie[b].account)
  /\ Request(b, "unlink", "login", cookie[b].account, None)
  /\ UNCHANGED <<account, cookie, oauth, link, applied>>

Unlink(b) ==
  /\ At(b, "unlink")
  /\ account' = [account EXCEPT ![req[b].target].identity = None]
  /\ Goes(b, "refresh")
  /\ UNCHANGED <<cookie, oauth, link, applied>>

-----------------------------------------------------------------------------
\* The process stops: the requests under way end where they are.
Crash ==
  /\ \E b \in Browsers : req[b] # Idle
  /\ req' = [b \in Browsers |-> Idle]
  /\ UNCHANGED <<account, cookie, oauth, link, applied, served>>

Session(b) == Login(b) \/ Rehash(b) \/ Cookie(b) \/ Refresh(b) \/ Logout(b)
Password(b) == OwnPassword(b) \/ ChangePassword(b)
Admin(b) == Administer(b) \/ Check(b) \/ SetStatus(b) \/ SetRole(b) \/ SetPassword(b) \/ Delete(b)
Author(b) == Apply(b) \/ Review(b) \/ DecideApplication(b)
Mail(b) ==
  \/ Register(b) \/ Create(b) \/ ChangeEmail(b) \/ SetPending(b) \/ Resend(b) \/ Forgot(b)
  \/ Invalidate(b) \/ Send(b) \/ Undo(b) \/ Open(b) \/ Promote(b) \/ Reset(b) \/ Sweep(b)
Google(b) ==
  \/ GoogleStart(b) \/ GoogleLogin(b) \/ Enrol(b) \/ GoogleLink(b) \/ GoogleConfirm(b) \/ Link(b)
  \/ GoogleCancel(b) \/ GoogleUnlink(b) \/ Unlink(b)

Next ==
  \/ \E b \in Browsers : Session(b) \/ Password(b) \/ Admin(b) \/ Author(b) \/ Mail(b) \/ Google(b)
  \/ Crash

Spec == Init /\ [][Next]_vars

-----------------------------------------------------------------------------
(* Properties *)

\* Every change of an account's password, role, status or address ends the
\* sessions opened before it, on whatever path it was made and however it
\* overlapped with a login: a session that is still accepted was opened on the
\* credentials the account has now.
AcceptedSessionIsCurrent ==
  \A b \in Browsers : Authenticated(b) => cookie[b].seen = Credentials(Me(b))

\* A confirmed address was vouched for when the account was made, or its own link
\* was opened: a change of mind between two links never confirms the other one.
VerifiedWasConfirmed ==
  \A a \in Accounts : account[a].verified =>
    \/ account[a].email = account[a].given
    \/ \E l \in Ids : /\ link[l].account = a /\ link[l].purpose = "verify"
                      /\ link[l].state = "opened" /\ link[l].target = account[a].email

\* An account that may log in has a password or an identity, whatever was linked
\* and unlinked.
HasAWayIn ==
  \A a \in Accounts : account[a].status = "active" =>
    account[a].password # 0 \/ account[a].identity # None
=============================================================================
