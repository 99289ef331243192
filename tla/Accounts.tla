------------------------------- MODULE Accounts -------------------------------
(***************************************************************************)
(* The accounts of one business (services/platform.py,                     *)
(* services/memberships.py and the routes that call them): registration    *)
(* and approval, invitations, members and their roles, password resets and *)
(* sessions.                                                               *)
(*                                                                         *)
(* Every request is one operation of a web worker; almost every statement  *)
(* is a transaction of its own, on a connection of its own.  Only changes  *)
(* of role and revocations run under an advisory lock, and only spending a *)
(* token is a transaction of several statements.  A request may crash      *)
(* between any two of its steps.                                           *)
(***************************************************************************)
EXTENDS Integers, FiniteSets

CONSTANTS
  Req,         \* requests
  Earlier,     \* requests that ended before the start
  User,        \* people, by e-mail
  Operations,  \* the operations the requests may ask for
  Businesses,  \* the states the business may start in
  Rosters,     \* the memberships it may start with
  People,      \* the users there may be at first
  Issued,      \* the token each earlier request issued to a user with a row
  Opened,      \* the session each earlier request opened for an active user
  Lapsing,     \* tokens that may expire
  NoRole, Nobody, Nothing

VARIABLES
  business,    \* whether it is registered, pending approval, active
  members,     \* role of each user in the business
  users,       \* whether each user has a row, and a password
  tokens,      \* the invitation or reset token each request issued
  sessions,    \* the session each login opened
  lock,        \* the request that holds the membership lock
  pc,          \* the next step of each request
  op,          \* its operation
  memo,        \* the user it works on
  result,      \* how it ended
  before       \* requests that had ended when it began, with a token or a session

tables == <<business, members, users, tokens, sessions>>
vars == <<tables, lock, pc, op, memo, result, before>>

-----------------------------------------------------------------------------

Roles == {"owner", "admin", "staff", "customer"}
Asked == Req \cup Earlier
Invitations == {"owner", "admin"}    \* kinds of token that are not "reset"

\* An inactive user was invited; an added one has a password nobody knows.
Accounts == {"absent", "invited", "added", "active"}

TokenRow == [kind : Invitations \cup {"reset"}, user : User,
             state : {"live", "used", "revoked", "expired"}]
SessionRow == [user : User, revoked : BOOLEAN]

\* What a request may ask for.  No form grants the role of owner.
Operation ==
  [name : {"approve", "resend"}]
    \cup [name : {"register", "forgot", "login", "logout"}, user : User]
    \cup [name : {"set_active"}, active : BOOLEAN]
    \cup [name : {"invite", "add"}, actor : User, user : User, role : Roles \ {"owner"}]
    \cup [name : {"manage"}, actor : User, user : User, role : (Roles \ {"owner"}) \cup {NoRole}]
    \cup [name : {"accept"}, token : Asked, page : {"staff", "owner"}]
    \cup [name : {"reset"}, token : Asked]

\* Only a registered business is active, and what was issued is still live.
ASSUME AccountsAssumption ==
  /\ Req \cap Earlier = {} /\ Lapsing \subseteq Asked
  /\ Nobody \notin Req \cup User /\ NoRole \notin Roles
  /\ Nothing \notin TokenRow \cup SessionRow \cup Operations
  /\ Operations \subseteq Operation
  /\ Businesses \subseteq [exists : BOOLEAN, pending : BOOLEAN, active : BOOLEAN]
  /\ \A b \in Businesses : b.active => b.exists
  /\ Rosters \subseteq [User -> Roles \cup {NoRole}]
  /\ People \subseteq [User -> Accounts]
  /\ Issued \in [Earlier -> {t \in TokenRow : t.state = "live"}]
  /\ Opened \in [Earlier -> SessionRow]

Owners == {u \in User : members[u] = "owner"}
IsOwner(u) == members[u] = "owner"

Live(t) == tokens[t] # Nothing /\ tokens[t].state = "live"

\* Mutants of the conditional update that spends, of the two revocations, of
\* the lock, of the search for the owner and of the search for a user.
ReadLive(t) == tokens[t] # Nothing
LiveOfKind(u, kinds) == {t \in Asked : Live(t) /\ tokens[t].user = u
                                         /\ tokens[t].kind \in kinds \ {"reset"}}
NoSessions(u) == {}
LockIgnored(r) == TRUE
ActiveOwners == {u \in Owners : users[u] = "active"}

AnyoneKnown(u) == TRUE

Known(u) == users[u] # "absent"
StillLive(t) == Live(t)
LiveOf(u, kinds) == {t \in Asked : Live(t) /\ tokens[t].user = u
                                     /\ tokens[t].kind \in kinds}
SessionsOf(u) == {s \in Asked : sessions[s] # Nothing /\ sessions[s].user = u}
LockFree(r) == lock \in {Nobody, r}
FoundOwners == Owners

Revoke(T) == tokens' = [t \in Asked |->
                          IF t \in T THEN [tokens[t] EXCEPT !.state = "revoked"]
                                     ELSE tokens[t]]

Starts(r, name, o) ==
  /\ pc[r] = "idle" /\ o.name = name
  /\ op' = [op EXCEPT ![r] = o]
  /\ before' = [before EXCEPT ![r] = Earlier \cup {s \in Req : pc[s] = "done" /\
                   (tokens[s] # Nothing \/ sessions[s] # Nothing)}]

Answer(r, answer) ==
  /\ pc' = [pc EXCEPT ![r] = "done"]
  /\ result' = [result EXCEPT ![r] = answer]
  /\ memo' = [memo EXCEPT ![r] = Nobody]
  /\ lock' = IF lock = r THEN Nobody ELSE lock

To(r, step, u) ==
  /\ pc' = [pc EXCEPT ![r] = step]
  /\ memo' = [memo EXCEPT ![r] = u]
  /\ UNCHANGED <<result, lock>>

Same == UNCHANGED <<op, before>>

-----------------------------------------------------------------------------
(* The business.                                                           *)

\* provision_business: the business, its owner and the membership, in one
\* transaction; the slug and the e-mail are unique.
Register(r) == \E o \in Operations :
  /\ Starts(r, "register", o)
  /\ UNCHANGED <<tokens, sessions>>
  /\ IF business.exists \/ users[o.user] # "absent"
       THEN Answer(r, "refused") /\ UNCHANGED <<business, members, users>>
       ELSE /\ business' = [exists |-> TRUE, pending |-> TRUE, active |-> FALSE]
            /\ users' = [users EXCEPT ![o.user] = "invited"]
            /\ members' = [members EXCEPT ![o.user] = "owner"]
            /\ Answer(r, "registered")

\* approve_business reads the business,
BeginApprove(r) == \E o \in Operations :
  /\ Starts(r, "approve", o)
  /\ UNCHANGED tables
  /\ IF business.exists /\ business.pending /\ ~business.active
       THEN To(r, "unpend", Nobody)
       ELSE Answer(r, "refused")

\* and takes it out of pending,
Unpend(r) ==
  /\ pc[r] = "unpend"
  /\ business' = [business EXCEPT !.pending = FALSE]
  /\ To(r, "open", Nobody) /\ Same
  /\ UNCHANGED <<members, users, tokens, sessions>>

\* opens it,
Open(r) ==
  /\ pc[r] = "open"
  /\ business' = [business EXCEPT !.active = TRUE]
  /\ To(r, "owner", Nobody) /\ Same
  /\ UNCHANGED <<members, users, tokens, sessions>>

\* looks for the owner,
FindOwner(r) ==
  /\ pc[r] = "owner" /\ Same /\ UNCHANGED tables
  /\ IF FoundOwners = {}
       THEN Answer(r, "approval_failed")
       ELSE \E u \in FoundOwners : To(r, "issue", u)

\* superadmin_negocios_activar and _desactivar: one statement, no other check.
SetActive(r) == \E o \in Operations :
  /\ Starts(r, "set_active", o)
  /\ business' = IF business.exists THEN [business EXCEPT !.active = o.active] ELSE business
  /\ Answer(r, IF business.exists THEN "saved" ELSE "refused")
  /\ UNCHANGED <<members, users, tokens, sessions>>

-----------------------------------------------------------------------------
(* Invitations and password resets: the tokens.                            *)

\* superadmin_negocios_reinviar
BeginResend(r) == \E o \in Operations :
  /\ Starts(r, "resend", o)
  /\ UNCHANGED tables
  /\ IF Owners = {}
       THEN Answer(r, "refused")
       ELSE \E u \in Owners : To(r, "revoke", u)

\* create_staff_invitation and admin_usuarios_invitar begin with the actor
BeginInvite(r) == \E o \in Operations :
  /\ Starts(r, "invite", o) \/ Starts(r, "add", o)
  /\ UNCHANGED tables
  /\ IF IsOwner(o.actor) THEN To(r, "lookup", o.user) ELSE Answer(r, "refused")

\* and the user; the first refuses to invite the actor.
LookUp(r) ==
  LET u == memo[r] IN
  /\ pc[r] = "lookup" /\ Same /\ UNCHANGED tables
  /\ IF op[r].name = "invite" /\ u = op[r].actor
       THEN Answer(r, "refused")
     ELSE IF ~Known(u)
       THEN To(r, "create", u)
       ELSE To(r, IF op[r].name = "invite" THEN "revoke" ELSE "recheck", u)

\* create_user_scoped: invited users are inactive, added ones active.
CreateUser(r) ==
  LET u == memo[r] IN
  /\ pc[r] = "create" /\ Same
  /\ UNCHANGED <<business, members, tokens, sessions>>
  /\ IF users[u] # "absent"
       THEN Answer(r, "refused") /\ UNCHANGED users
     ELSE IF op[r].name = "invite"
       THEN users' = [users EXCEPT ![u] = "invited"] /\ To(r, "issue", u)
       ELSE users' = [users EXCEPT ![u] = "added"] /\ To(r, "recheck", u)

\* request_password_reset: unknown e-mails are answered alike.
BeginForgot(r) == \E o \in Operations :
  /\ Starts(r, "forgot", o)
  /\ UNCHANGED tables
  /\ IF Known(o.user) THEN To(r, "revoke", o.user) ELSE Answer(r, "sent")

KindOf(r) == CASE op[r].name = "forgot" -> "reset"
               [] op[r].name = "invite" -> "admin"
               [] OTHER -> "owner"

\* The user's live tokens of the same use are revoked in a transaction,
RevokeTokens(r) ==
  /\ pc[r] = "revoke" /\ Same
  /\ Revoke(LiveOf(memo[r], IF KindOf(r) = "reset" THEN {"reset"} ELSE Invitations))
  /\ To(r, "issue", memo[r])
  /\ UNCHANGED <<business, members, users, sessions>>

\* create_invitation, or the row of a reset.
Issue(r, kind, u) == tokens' = [tokens EXCEPT ![r] = [kind |-> kind, user |-> u, state |-> "live"]]

\* and the new one is inserted in another.
IssueToken(r) ==
  /\ pc[r] = "issue" /\ Same
  /\ Issue(r, KindOf(r), memo[r])
  /\ Answer(r, "issued")
  /\ UNCHANGED <<business, members, users, sessions>>

Expire(t) ==
  /\ Live(t)
  /\ tokens' = [tokens EXCEPT ![t].state = "expired"]
  /\ UNCHANGED <<business, members, users, sessions, lock, pc, op, memo, result, before>>

\* An invitation is accepted on a page of the business, which must be active;
\* a reset is not.  Only a token that was sent can be presented.
BeginSpend(r) == \E o \in Operations :
  /\ Starts(r, "accept", o) \/ Starts(r, "reset", o)
  /\ tokens[o.token] # Nothing
  /\ UNCHANGED tables
  /\ IF (o.name = "accept" => business.active) /\ Live(o.token)
          /\ (tokens[o.token].kind = "reset" <=> o.name = "reset")
       THEN To(r, "spend", tokens[o.token].user)
       ELSE Answer(r, "refused")

\* A token is used and its user has a password.
Consume(t, u) ==
  /\ tokens' = [tokens EXCEPT ![t].state = "used"]
  /\ users' = [users EXCEPT ![u] = "active"]

\* The update is conditional on the token being still live; with it the
\* password is set and, on the staff's page, the invited user made a member.
Spend(r) ==
  LET t == op[r].token
      u == memo[r] IN
  /\ pc[r] = "spend" /\ Same
  /\ UNCHANGED <<business, sessions>>
  /\ IF ~StillLive(t)
       THEN Answer(r, "refused") /\ UNCHANGED <<members, users, tokens>>
       ELSE /\ Consume(t, u)
            /\ members' = IF op[r].name = "accept" /\ op[r].page = "staff" /\ members[u] = NoRole
                            THEN [members EXCEPT ![u] = tokens[t].kind]
                            ELSE members
            /\ IF op[r].name = "reset" THEN To(r, "sessions", u)
                                       ELSE Answer(r, "accepted")

-----------------------------------------------------------------------------
(* Sessions.                                                               *)

CloseSessions(u) ==
  sessions' = [s \in Asked |-> IF s \in SessionsOf(u)
                                 THEN [sessions[s] EXCEPT !.revoked = TRUE]
                                 ELSE sessions[s]]

\* reset_password then revokes every session of the user.
ResetSessions(r) ==
  /\ pc[r] = "sessions" /\ Same
  /\ CloseSessions(memo[r])
  /\ Answer(r, "reset")
  /\ UNCHANGED <<business, members, users, tokens>>

\* _authenticate_login reads the user and the password,
BeginLogin(r) == \E o \in Operations :
  /\ Starts(r, "login", o)
  /\ UNCHANGED tables
  /\ IF business.active /\ users[o.user] = "active"
       THEN To(r, "member", o.user)
       ELSE Answer(r, "refused")

\* then the membership,
LoginMember(r) ==
  /\ pc[r] = "member" /\ Same /\ UNCHANGED tables
  /\ IF members[memo[r]] \in {NoRole, "customer"}
       THEN Answer(r, "refused")
       ELSE To(r, "session", memo[r])

\* and the session is inserted.
OpenSession(r) ==
  /\ pc[r] = "session" /\ Same
  /\ sessions' = [sessions EXCEPT ![r] = [user |-> memo[r], revoked |-> FALSE]]
  /\ Answer(r, "login")
  /\ UNCHANGED <<business, members, users, tokens>>

Logout(r) == \E o \in Operations :
  /\ Starts(r, "logout", o)
  /\ CloseSessions(o.user)
  /\ Answer(r, "logout")
  /\ UNCHANGED <<business, members, users, tokens>>

-----------------------------------------------------------------------------
(* Members.                                                                *)

\* invite_member checks the actor again,
RecheckAdd(r) ==
  /\ pc[r] = "recheck" /\ Same /\ UNCHANGED tables
  /\ IF IsOwner(op[r].actor) THEN To(r, "join", memo[r]) ELSE Answer(r, "refused")

\* and inserts the membership, unique for the user.
Join(r) ==
  LET u == memo[r] IN
  /\ pc[r] = "join" /\ Same
  /\ members' = IF members[u] = NoRole THEN [members EXCEPT ![u] = op[r].role] ELSE members
  /\ Answer(r, IF members[u] = NoRole THEN "joined" ELSE "refused")
  /\ UNCHANGED <<business, users, tokens, sessions>>

\* change_role and revoke_membership (role NoRole) check the actor,
BeginManage(r) == \E o \in Operations :
  /\ Starts(r, "manage", o)
  /\ UNCHANGED tables
  /\ IF IsOwner(o.actor) /\ (o.role = NoRole => o.user # o.actor)
       THEN To(r, "manage", o.user)
       ELSE Answer(r, "refused")

\* and check again under the lock: the actor, the member, the last owner.
Manageable(actor, u) ==
  IsOwner(actor) /\ members[u] # NoRole /\ Owners # {u}

EnterManage(r) ==
  /\ pc[r] = "manage" /\ LockFree(r) /\ Same /\ UNCHANGED tables
  /\ IF Manageable(op[r].actor, memo[r])
       THEN /\ lock' = r
            /\ pc' = [pc EXCEPT ![r] = "write"]
            /\ UNCHANGED <<memo, result>>
       ELSE Answer(r, "refused")

Manage(r) ==
  /\ pc[r] = "write" /\ Same
  /\ members' = [members EXCEPT ![memo[r]] = op[r].role]
  /\ Answer(r, "managed")
  /\ UNCHANGED <<business, users, tokens, sessions>>

-----------------------------------------------------------------------------

\* lock_timeout
LockTimeout(r) ==
  /\ pc[r] = "manage" /\ ~LockFree(r)
  /\ Answer(r, "error") /\ Same /\ UNCHANGED tables

Crash(r) ==
  /\ pc[r] \notin {"idle", "done"}
  /\ Answer(r, "crashed") /\ Same /\ UNCHANGED tables

Init ==
  /\ business \in Businesses
  /\ users \in People
  /\ members \in Rosters
  /\ (\E u \in User : members[u] = "owner") <=> business.exists
  /\ \A u \in User : members[u] # NoRole => business.exists /\ users[u] # "absent"
  /\ tokens = [t \in Asked |-> IF t \in Earlier /\ users[Issued[t].user] # "absent"
                                THEN Issued[t] ELSE Nothing]
  /\ sessions = [s \in Asked |-> IF s \in Earlier /\ users[Opened[s].user] = "active"
                                  THEN Opened[s] ELSE Nothing]
  /\ lock = Nobody
  /\ pc = [r \in Req |-> "idle"]
  /\ op = [r \in Req |-> Nothing]
  /\ memo = [r \in Req |-> Nobody]
  /\ result = [r \in Req |-> "none"]
  /\ before = [r \in Req |-> {}]

Arrive(r) == \/ Register(r) \/ BeginApprove(r) \/ SetActive(r) \/ BeginResend(r)
             \/ BeginInvite(r) \/ BeginForgot(r) \/ BeginSpend(r) \/ BeginLogin(r)
             \/ Logout(r) \/ BeginManage(r)

Approve(r) == Unpend(r) \/ Open(r) \/ FindOwner(r)

Invite(r) == LookUp(r) \/ CreateUser(r) \/ RevokeTokens(r) \/ IssueToken(r) \/ Spend(r)

Session(r) == ResetSessions(r) \/ LoginMember(r) \/ OpenSession(r)

Members(r) == RecheckAdd(r) \/ Join(r) \/ EnterManage(r) \/ Manage(r)

Next ==
  \/ \E r \in Req : \/ Arrive(r) \/ Approve(r) \/ Invite(r) \/ Session(r) \/ Members(r)
                    \/ LockTimeout(r) \/ Crash(r)
  \/ \E t \in Lapsing : Expire(t)

Spec == Init /\ [][Next]_vars

-----------------------------------------------------------------------------
(* Properties.                                                             *)

Steps == {"idle", "unpend", "open", "owner", "lookup", "create", "revoke", "issue",
          "spend", "sessions", "member", "session", "recheck", "join", "manage",
          "write", "done"}
Results == {"none", "refused", "registered", "approval_failed", "saved", "sent",
            "issued", "accepted", "reset", "login", "logout", "joined", "managed",
            "error", "crashed"}
\* Every variable stays in its domain; a request works on a user that has a row
\* from the moment it needs one.
TypeOK ==
  /\ business \in [exists : BOOLEAN, pending : BOOLEAN, active : BOOLEAN]
  /\ members \in [User -> Roles \cup {NoRole}]
  /\ users \in [User -> Accounts]
  /\ tokens \in [Asked -> TokenRow \cup {Nothing}]
  /\ sessions \in [Asked -> SessionRow \cup {Nothing}]
  /\ lock \in Req \cup {Nobody}
  /\ pc \in [Req -> Steps]
  /\ op \in [Req -> Operations \cup {Nothing}]
  /\ memo \in [Req -> User \cup {Nobody}]
  /\ result \in [Req -> Results]
  /\ before \in [Req -> SUBSET Asked]
  /\ \A r \in Req : pc[r] \in {"revoke", "issue", "join", "session"} =>
                      memo[r] # Nobody /\ users[memo[r]] # "absent"
  /\ \A u \in User : members[u] # NoRole => users[u] # "absent"

\* However requests interleave, the members and the tokens are those of a
\* sequence of atomic steps: only a current owner changes or removes a member,
\* never the last owner, and a token is spent by one request, while it is live.
TokenState(t) ==
  IF tokens[t] = Nothing THEN "none"
  ELSE CASE tokens[t].state = "live" -> "live"
         [] tokens[t].state = "used" -> "spent"
         [] OTHER -> "dead"

R == INSTANCE Roster WITH Token <- Asked, Role <- Roles,
                          token <- [t \in Asked |-> TokenState(t)]
ImplementsRoster == R!Spec

\* A registered business always has an owner: two owners that demote or remove
\* each other at once do not both succeed.
AlwaysAnOwner == business.exists => Owners # {}

\* A request that issues a token leaves no live token that an earlier request,
\* ended before it began, issued for the same user and use; an approval, which
\* revokes nothing, excepted.
LaterRequestRevokes ==
  \A s \in Req : result[s] = "issued" /\ op[s].name # "approve" =>
    \A t \in before[s] :
      tokens[t] # Nothing /\ tokens[t].user = tokens[s].user
        /\ (tokens[t].kind = "reset" <=> tokens[s].kind = "reset") => ~Live(t)

\* A finished reset or logout leaves no open session of a login that had ended
\* before it began.
NoSessionSurvives ==
  \A r \in Req : result[r] \in {"reset", "logout"} =>
    \A s \in before[r] :
      LET u == IF result[r] = "reset" THEN tokens[op[r].token].user ELSE op[r].user IN
      sessions[s] # Nothing /\ sessions[s].user = u => sessions[s].revoked

\* When all is quiet, an approval that took the business out of pending has
\* invited its owner, or has crashed.
ApprovedOwnersAreInvited ==
  (\A r \in Req : pc[r] \in {"idle", "done"}) =>
    \A r \in Req : op[r] # Nothing /\ op[r].name = "approve" /\ result[r] # "refused" =>
      result[r] \in {"crashed", "issued"}
==============================================================================
