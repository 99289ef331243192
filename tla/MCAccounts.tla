------------------------------ MODULE MCAccounts ------------------------------
(* A small instance of Accounts for TLC: a business not registered yet,      *)
(* pending with olga as its owner, or active with olga, or olga and omar, as *)
(* owners; ana, unknown or active.  Before the start olga asked for a reset  *)
(* and logged in, and ana was invited.                                       *)
EXTENDS Accounts, TLC

CONSTANTS r1, r2, r3, e1, e2, olga, omar, ana

Symmetry == Permutations(Req)

State(exists, pending, active) == [exists |-> exists, pending |-> pending, active |-> active]
Starting == {State(FALSE, FALSE, FALSE), State(TRUE, FALSE, TRUE)}

OwnedBy(owners) == [u \in User |-> IF u \in owners THEN "owner" ELSE NoRole]
Memberships == {OwnedBy({}), OwnedBy({olga, omar})}

Are(o, m, a) == [u \in User |-> CASE u = olga -> o [] u = omar -> m [] u = ana -> a]
Populations == {Are("absent", "absent", "absent"),
                Are("active", "active", "absent"), Are("active", "active", "active")}

Tokens == [t \in Earlier |->
             IF t = e1 THEN [kind |-> "reset", user |-> olga, state |-> "live"]
                       ELSE [kind |-> "admin", user |-> ana, state |-> "live"]]
Logins == [t \in Earlier |-> [user |-> IF t = e1 THEN olga ELSE omar, revoked |-> FALSE]]

Ask(name) == [name |-> name]
By(name, u) == [name |-> name, user |-> u]
Grant(name, u) == [name |-> name, actor |-> olga, user |-> u, role |-> "admin"]
Manages(a, u, role) == [name |-> "manage", actor |-> a, user |-> u, role |-> role]
Spends(t, page) == [name |-> "accept", token |-> t, page |-> page]
Resets(t) == [name |-> "reset", token |-> t]

AllOperations ==
  {By("register", olga), Ask("approve"), Ask("resend"),
   [name |-> "set_active", active |-> FALSE], Grant("invite", ana), Grant("add", ana),
   Manages(olga, omar, NoRole), Manages(omar, olga, "customer"),
   By("forgot", olga), Resets(e1), Spends(e2, "staff"),
   By("login", olga), By("logout", olga)}
  \cup {Spends(r, "owner") : r \in Req} \cup {Resets(r) : r \in Req}
==============================================================================
