----------------------------- MODULE MCAccounts -----------------------------
EXTENDS Accounts, TLC

CONSTANTS sup, adm, rdr, sub, e1, e2, e3, b1, b2

Made(role, email, old) ==
  [status |-> "active", role |-> role, version |-> 0, email |-> email, pending |-> None,
   verified |-> email # None, given |-> email, password |-> MaxRequests + 1, old |-> old,
   identity |-> None]

\* A super admin without an address, an admin with one whose password was hashed
\* with fewer iterations, and an account nobody has made yet.
Rows == [a \in Accounts |->
  CASE a = sup -> Made("super_admin", None, FALSE)
    [] a = adm -> Made("admin", e1, TRUE)
    [] OTHER -> [Made("reader", None, FALSE) EXCEPT !.status = "absent", !.password = 0]]

Alike == Permutations({b1, b2}) \cup Permutations({e2, e3})
=============================================================================
