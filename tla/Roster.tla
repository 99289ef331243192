-------------------------------- MODULE Roster --------------------------------
(***************************************************************************)
(* What the accounts of a business promise, with no requests in it: once   *)
(* somebody owns the business somebody always does; only an owner changes  *)
(* or removes a member; every token is issued once, and is spent, alone,   *)
(* only while it is live.                                                  *)
(***************************************************************************)
EXTENDS FiniteSets

CONSTANTS User, Token, Role, NoRole

VARIABLES members, token

vars == <<members, token>>

Owners == {u \in User : members[u] = "owner"}
Grantable == Role \ {"owner"}

Init ==
  /\ members \in [User -> Role \cup {NoRole}]
  /\ Owners = {} => members = [u \in User |-> NoRole]
  /\ token \in [Token -> {"none", "live"}]

\* The business is registered, with its owner.
Found(u) ==
  /\ members = [v \in User |-> NoRole]
  /\ members' = [members EXCEPT ![u] = "owner"]
  /\ UNCHANGED token

\* A user joins with a role that an owner may grant.
Join(u, role) ==
  /\ members[u] = NoRole /\ Owners # {}
  /\ members' = [members EXCEPT ![u] = role]
  /\ UNCHANGED token

Issue(t) ==
  /\ token[t] = "none"
  /\ token' = [token EXCEPT ![t] = "live"]
  /\ UNCHANGED members

\* Tokens die by revocation or in time.
Die ==
  /\ token' = [t \in Token |-> IF token'[t] = "dead" THEN "dead" ELSE token[t]]
  /\ \A t \in Token : token'[t] # token[t] => token[t] = "live"
  /\ UNCHANGED members

\* A live token is spent; an invitation may make its user a member.
Spend(t) ==
  /\ token[t] = "live"
  /\ token' = [token EXCEPT ![t] = "spent"]
  /\ \/ UNCHANGED members
     \/ \E u \in User, role \in Role :
          /\ members[u] = NoRole /\ Owners # {}
          /\ members' = [members EXCEPT ![u] = role]

\* An owner gives a member another role, or none; the last owner stays.
Manage(actor, u, role) ==
  /\ members[actor] = "owner" /\ members[u] # NoRole
  /\ Owners # {u}
  /\ members' = [members EXCEPT ![u] = role]
  /\ UNCHANGED token

Next ==
  \/ \E u \in User : Found(u)
  \/ \E u \in User, role \in Grantable : Join(u, role)
  \/ \E t \in Token : Issue(t) \/ Spend(t)
  \/ Die
  \/ \E actor, u \in User, role \in Grantable \cup {NoRole} : Manage(actor, u, role)

Spec == Init /\ [][Next]_vars
==============================================================================
