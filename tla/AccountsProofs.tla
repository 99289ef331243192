---------------------------- MODULE AccountsProofs ----------------------------
(***************************************************************************)
(* Proofs about Accounts, for any number of requests and users, any        *)
(* business, roster and tokens to start with.                              *)
(***************************************************************************)
EXTENDS Accounts, TLAPS

-----------------------------------------------------------------------------
(* The inductive invariant.                                                *)

Is(o, names) == o \in Operations /\ o.name \in names
HasRow(u) == u \in User /\ users[u] # "absent"

\* What a request has made sure of before a step, working on user u.
KnowsAt(step, o, u) ==
  /\ step \in {"unpend", "open", "owner"} => Is(o, {"approve"}) /\ business.exists
  /\ step \in {"lookup", "create"} => Is(o, {"invite", "add"}) /\ u \in User
  /\ step = "revoke" => Is(o, {"resend", "invite", "forgot"}) /\ HasRow(u)
  /\ step = "issue" => Is(o, {"approve", "resend", "invite", "forgot"}) /\ HasRow(u)
  /\ step = "spend" => /\ Is(o, {"accept", "reset"})
                       /\ tokens[o.token] # Nothing /\ u = tokens[o.token].user
                       /\ tokens[o.token].kind = "reset" <=> o.name = "reset"
                       /\ o.name = "accept" => business.exists
  /\ step = "sessions" => /\ Is(o, {"reset"})
                          /\ tokens[o.token] # Nothing /\ u = tokens[o.token].user
  /\ step = "member" => Is(o, {"login"}) /\ u \in User
  /\ step = "session" => Is(o, {"login"}) /\ HasRow(u)
  /\ step \in {"recheck", "join"} => Is(o, {"add"}) /\ HasRow(u)
  /\ step = "join" => business.exists
  /\ step \in {"manage", "write"} => Is(o, {"manage"}) /\ u \in User

Knows(r) == KnowsAt(pc[r], op[r], memo[r])

\* Under the lock, what Manageable found stays true: the actor is an owner, the
\* user a member, and somebody else an owner.
Decided(r) ==
  pc[r] = "write" =>
    /\ lock = r
    /\ IsOwner(op[r].actor) /\ members[memo[r]] # NoRole
    /\ \E w \in User \ {memo[r]} : IsOwner(w)

\* A request leaves its token, its session and its result when it ends, and
\* knows of requests that had ended.
Fresh(r) ==
  /\ pc[r] # "done" => tokens[r] = Nothing /\ sessions[r] = Nothing /\ result[r] = "none"
  /\ \A t \in before[r] : t \in Earlier \/ (t \in Req /\ pc[t] = "done")

SameUse(t, kind) == tokens[t].kind = "reset" <=> kind = "reset"

\* A request about to issue a token has revoked what earlier ones issued,
Revoked(r) ==
  pc[r] = "issue" /\ op[r].name # "approve" =>
    \A t \in before[r] :
      tokens[t] # Nothing /\ tokens[t].user = memo[r] /\ SameUse(t, KindOf(r)) => ~Live(t)

\* and one that has issued it: LaterRequestRevokes of one request.
Later(r) ==
  result[r] = "issued" /\ op[r].name # "approve" =>
    \A t \in before[r] :
      tokens[t] # Nothing /\ tokens[t].user = tokens[r].user
        /\ SameUse(t, tokens[r].kind) => ~Live(t)

\* NoSessionSurvives of one request.
Closed(r) ==
  result[r] \in {"reset", "logout"} =>
    \A s \in before[r] :
      LET u == IF result[r] = "reset" THEN tokens[op[r].token].user ELSE op[r].user IN
      sessions[s] # Nothing /\ sessions[s].user = u => sessions[s].revoked

\* What the results say of the request.
Told(r) ==
  /\ result[r] = "issued" => tokens[r] # Nothing
  /\ result[r] = "reset" => Is(op[r], {"reset"}) /\ tokens[op[r].token] # Nothing

\* An approval ends refused, with an invitation or in a crash.
Approved(r) ==
  op[r] # Nothing /\ op[r].name = "approve" =>
    \/ pc[r] \in {"unpend", "open", "owner", "issue"}
    \/ pc[r] = "done" /\ result[r] \in {"refused", "crashed", "issued"}

Own(r) == /\ Knows(r) /\ Decided(r) /\ Fresh(r) /\ Revoked(r)
          /\ Later(r) /\ Closed(r) /\ Told(r) /\ Approved(r)

\* The rows agree: members belong to a registered business with an owner, and
\* tokens were issued to users that have a row.
Consistent ==
  /\ business.active => business.exists
  /\ \A u \in User : members[u] # NoRole => business.exists
  /\ AlwaysAnOwner
  /\ \A t \in Asked : tokens[t] # Nothing => users[tokens[t].user] # "absent"

AccountsInv == TypeOK /\ Consistent /\ \A r \in Req : Own(r)

-----------------------------------------------------------------------------
(* What a step of one request means for the others.                        *)

\* The request changes its own variables, and takes the lock only if it may.
Local(r) ==
  /\ pc' \in [Req -> Steps] /\ memo' \in [Req -> User \cup {Nobody}]
  /\ op' \in [Req -> Operations \cup {Nothing}] /\ result' \in [Req -> Results]
  /\ before' \in [Req -> SUBSET Asked] /\ lock' \in Req \cup {Nobody}
  /\ pc[r] # "done"
  /\ \A s \in Req \ {r} : /\ pc'[s] = pc[s] /\ memo'[s] = memo[s] /\ op'[s] = op[s]
                          /\ result'[s] = result[s] /\ before'[s] = before[s]
  /\ lock' = lock \/ lock \in {r, Nobody}

\* Rows are never deleted.  Tokens and sessions are issued by r alone, to a user
\* for good, and do not come back to life.
Mild(r) ==
  /\ business.exists => business'.exists
  /\ \A u \in User : users[u] # "absent" => users'[u] # "absent"
  /\ \A t \in Asked : tokens[t] # Nothing =>
       /\ tokens'[t] # Nothing
       /\ tokens'[t].user = tokens[t].user /\ tokens'[t].kind = tokens[t].kind
       /\ Live(t)' => Live(t)
  /\ \A t \in Asked \ {r} : tokens[t] = Nothing => tokens'[t] = Nothing
  /\ \A s \in Asked : sessions[s] # Nothing =>
       /\ sessions'[s] # Nothing /\ sessions'[s].user = sessions[s].user
       /\ sessions[s].revoked => sessions'[s].revoked
  /\ \A s \in Asked \ {r} : sessions[s] = Nothing => sessions'[s] = Nothing

\* Only the holder of the lock changes the role of a member.
Added(r) == (\A u \in User : members[u] # NoRole => members'[u] = members[u]) \/ pc[r] = "write"

\* The fields of each kind of operation.
LEMMA OperationFields ==
  ASSUME NEW o \in Operations
  PROVE  /\ o.name \in {"register", "forgot", "login", "logout"} => o.user \in User
         /\ o.name = "set_active" => o.active \in BOOLEAN
         /\ o.name \in {"invite", "add"} => /\ o.actor \in User /\ o.user \in User
                                            /\ o.role \in Roles \ {"owner"}
         /\ o.name = "manage" => /\ o.actor \in User /\ o.user \in User
                                 /\ o.role \in (Roles \ {"owner"}) \cup {NoRole}
         /\ o.name \in {"accept", "reset"} => o.token \in Asked
BY AccountsAssumption DEF Operation

\* The step is of r; the other requests know what they knew.
LEMMA OthersKeep ==
  ASSUME AccountsInv, NEW r \in Req, Local(r), Mild(r), Added(r)
  PROVE  \A s \in Req \ {r} : Own(s)'
<1> SUFFICES ASSUME NEW s \in Req \ {r} PROVE Own(s)'
  OBVIOUS
<1>0. TypeOK /\ Own(s) /\ s \in Asked
  BY DEF AccountsInv, Asked
<1>1. /\ pc'[s] = pc[s] /\ memo'[s] = memo[s] /\ op'[s] = op[s]
      /\ result'[s] = result[s] /\ before'[s] = before[s]
  BY DEF Local
<1>2. \A t \in before[s] : /\ t \in Asked \ {r}
                           /\ tokens[t] = Nothing => tokens'[t] = Nothing
                           /\ sessions[t] = Nothing => sessions'[t] = Nothing
  <2>1. \A t \in before[s] : t \in Asked /\ t # r
    BY <1>0, AccountsAssumption DEF Own, Fresh, Local, TypeOK
  <2> QED
    BY <2>1 DEF Mild
<1>3. Knows(s)'
  <2>1. HasRow(memo[s]) => HasRow(memo[s])'
    BY <1>1 DEF HasRow, Mild
  <2>2. op[s] \in Operations /\ op[s].name \in {"accept", "reset"} => op[s].token \in Asked
    BY OperationFields
  <2>3. /\ op[s] \in Operations /\ op[s].name \in {"accept", "reset"}
        /\ tokens[op[s].token] # Nothing
        => /\ tokens'[op[s].token] # Nothing
           /\ tokens'[op[s].token].user = tokens[op[s].token].user
           /\ tokens'[op[s].token].kind = tokens[op[s].token].kind
    BY <2>2 DEF Mild
  <2> QED
    BY <1>0, <1>1, <2>1, <2>3 DEF Own, Knows, KnowsAt, Is, Mild
<1>4. Decided(s)'
  <2> SUFFICES ASSUME pc[s] = "write" PROVE Decided(s)'
    BY <1>1 DEF Decided
  <2>1. lock = s /\ Decided(s) /\ Knows(s)
    BY <1>0 DEF Own, Decided
  <2>2. pc[r] # "write" /\ lock' = s
    BY <2>1, AccountsAssumption DEF AccountsInv, Own, Decided, Local
  <2>3. \A u \in User : members[u] # NoRole => members'[u] = members[u]
    BY <2>2 DEF Added
  <2>4. op[s].actor \in User /\ memo[s] \in User
    BY <2>1, OperationFields DEF Knows, KnowsAt, Is
  <2>5. NoRole # "owner"
    BY AccountsAssumption DEF Roles
  <2> QED
    BY <1>1, <2>1, <2>2, <2>3, <2>4, <2>5 DEF Decided, IsOwner
<1>5. Fresh(s)'
  <2>1. pc[s] # "done" => tokens'[s] = Nothing /\ sessions'[s] = Nothing
    BY <1>0 DEF Own, Fresh, Mild
  <2>2. \A t \in before[s] : t \in Earlier \/ (t \in Req /\ pc'[t] = "done")
    BY <1>0, <1>2 DEF Own, Fresh, Local
  <2> QED
    BY <1>0, <1>1, <2>1, <2>2 DEF Own, Fresh
<1>6. Revoked(s)'
  <2>1. KindOf(s)' = KindOf(s)
    BY <1>1 DEF KindOf
  <2> QED
    BY <1>0, <1>1, <1>2, <2>1 DEF Own, Revoked, SameUse, Mild
<1>7. Later(s)'
  BY <1>0, <1>1, <1>2 DEF Own, Told, Later, SameUse, Mild
<1>8. Closed(s)'
  <2>1. result[s] = "reset" => tokens'[op[s].token].user = tokens[op[s].token].user
    BY <1>0, OperationFields DEF Own, Told, Is, Mild
  <2> QED
    BY <1>0, <1>1, <1>2, <2>1 DEF Own, Closed, Mild
<1>9. Told(s)' /\ Approved(s)'
  BY <1>0, <1>1, OperationFields DEF Own, Told, Is, Approved, Mild
<1> QED
  BY <1>3, <1>4, <1>5, <1>6, <1>7, <1>8, <1>9 DEF Own

-----------------------------------------------------------------------------
(* The shapes of the steps.                                                *)

\* The operation is chosen as the request begins, and stays.
Chosen(r, o) ==
  \/ op[r] = o /\ Same
  \/ pc[r] = "idle" /\ o \in Operations /\ \E name \in {o.name} : Starts(r, name, o)

\* The requests that had ended are still ended.
BeforeEnded(r) == \A t \in before'[r] : t \in Earlier \/ (t \in Req /\ pc'[t] = "done")

\* A request that has just chosen its operation writes only its own cells, and
\* what it remembers as asked before is what had ended.
LEMMA ChosenLocal ==
  ASSUME AccountsInv, NEW r \in Req, NEW o, Chosen(r, o),
         NEW step \in Steps, pc' = [pc EXCEPT ![r] = step]
  PROVE  /\ op' \in [Req -> Operations \cup {Nothing}] /\ op'[r] = o
         /\ before' \in [Req -> SUBSET Asked]
         /\ \A s \in Req \ {r} : op'[s] = op[s] /\ before'[s] = before[s]
         /\ pc[r] # "done" => BeforeEnded(r)
<1>1. TypeOK /\ Fresh(r)
  BY DEF AccountsInv, Own
<1>2. CASE op[r] = o /\ Same
  BY <1>1, <1>2 DEF Same, TypeOK, Fresh, BeforeEnded
<1>3. CASE pc[r] = "idle" /\ o \in Operations /\ \E name \in {o.name} : Starts(r, name, o)
  BY <1>1, <1>3 DEF Starts, TypeOK, Fresh, BeforeEnded, Asked
<1> QED
  BY <1>2, <1>3 DEF Chosen

\* A request that answers is done with that answer and keeps the rest.
LEMMA AnswerLocal ==
  ASSUME AccountsInv, NEW r \in Req, NEW o, Chosen(r, o), pc[r] # "done",
         NEW answer \in Results, Answer(r, answer)
  PROVE  /\ Local(r) /\ pc'[r] = "done" /\ result'[r] = answer /\ op'[r] = o
         /\ BeforeEnded(r)
<1>1. TypeOK
  BY DEF AccountsInv
<1>2. pc' = [pc EXCEPT ![r] = "done"] /\ "done" \in Steps
  BY DEF Answer, Steps
<1>3. /\ op' \in [Req -> Operations \cup {Nothing}] /\ op'[r] = o
      /\ before' \in [Req -> SUBSET Asked]
      /\ \A s \in Req \ {r} : op'[s] = op[s] /\ before'[s] = before[s]
      /\ BeforeEnded(r)
  BY <1>2, ChosenLocal
<1>4. /\ result' \in [Req -> Results] /\ result'[r] = answer
      /\ memo' \in [Req -> User \cup {Nobody}]
      /\ lock' \in Req \cup {Nobody} /\ (lock' = lock \/ lock \in {r, Nobody})
  BY <1>1 DEF Answer, TypeOK
<1>5. \A s \in Req \ {r} : pc'[s] = pc[s] /\ memo'[s] = memo[s] /\ result'[s] = result[s]
  BY <1>1 DEF Answer, TypeOK
<1>6. pc' \in [Req -> Steps] /\ pc'[r] = "done"
  BY <1>1, <1>2 DEF TypeOK
<1> QED
  BY <1>3, <1>4, <1>5, <1>6 DEF Local

\* A request that goes to another step takes a user along and keeps the rest.
LEMMA ToLocal ==
  ASSUME AccountsInv, NEW r \in Req, NEW o, Chosen(r, o), pc[r] # "done",
         NEW step \in Steps, NEW u \in User \cup {Nobody}, To(r, step, u)
  PROVE  /\ Local(r) /\ pc'[r] = step /\ memo'[r] = u /\ result'[r] = result[r]
         /\ op'[r] = o /\ BeforeEnded(r)
<1>1. TypeOK
  BY DEF AccountsInv
<1>2. pc' = [pc EXCEPT ![r] = step]
  BY DEF To
<1>3. /\ op' \in [Req -> Operations \cup {Nothing}] /\ op'[r] = o
      /\ before' \in [Req -> SUBSET Asked]
      /\ \A s \in Req \ {r} : op'[s] = op[s] /\ before'[s] = before[s]
      /\ BeforeEnded(r)
  BY <1>2, ChosenLocal
<1>4. /\ result' = result /\ lock' = lock /\ lock \in Req \cup {Nobody}
      /\ memo' \in [Req -> User \cup {Nobody}] /\ memo'[r] = u
      /\ result' \in [Req -> Results]
  BY <1>1 DEF To, TypeOK
<1>5. \A s \in Req \ {r} : pc'[s] = pc[s] /\ memo'[s] = memo[s] /\ result'[s] = result[s]
  BY <1>1 DEF To, TypeOK
<1>6. pc' \in [Req -> Steps] /\ pc'[r] = step
  BY <1>1, <1>2 DEF TypeOK
<1> QED
  BY <1>3, <1>4, <1>5, <1>6 DEF Local

\* The end of a request that issued no token and closed no session.
LEMMA EndOwn ==
  ASSUME NEW r \in Req, pc'[r] = "done", result'[r] \notin {"issued", "reset", "logout"},
         BeforeEnded(r),
         op'[r] # Nothing /\ op'[r].name = "approve" => result'[r] \in {"refused", "crashed"}
  PROVE  Own(r)'
BY DEF Own, Knows, KnowsAt, Decided, Fresh, Revoked, Later, Closed, Told, Approved, BeforeEnded

\* A request that goes on.
LEMMA GoOwn ==
  ASSUME NEW r \in Req, pc'[r] # "done", result'[r] = "none", BeforeEnded(r),
         tokens'[r] = Nothing, sessions'[r] = Nothing,
         Knows(r)', Decided(r)', Revoked(r)', Approved(r)'
  PROVE  Own(r)'
BY DEF Own, Fresh, Later, Closed, Told, BeforeEnded

\* Steps that read.
LEMMA ReadMild ==
  ASSUME AccountsInv, NEW r \in Req, UNCHANGED tables
  PROVE  Mild(r) /\ Added(r) /\ Consistent'
BY DEF tables, Mild, Added, Live, AccountsInv, Consistent, AlwaysAnOwner, Owners

\* The rows keep their domains.
Rows ==
  /\ business \in [exists : BOOLEAN, pending : BOOLEAN, active : BOOLEAN]
  /\ members \in [User -> Roles \cup {NoRole}]
  /\ users \in [User -> Accounts]
  /\ tokens \in [Asked -> TokenRow \cup {Nothing}]
  /\ sessions \in [Asked -> SessionRow \cup {Nothing}]
  /\ \A u \in User : members[u] # NoRole => users[u] # "absent"

\* The frame of every step: with the tables still consistent, a request that
\* writes its own cells and does no more than a mild change to the tokens only
\* has to keep what is known of itself.
LEMMA StepKeeps ==
  ASSUME AccountsInv, NEW r \in Req, Local(r), Mild(r), Added(r), Rows', Consistent', Own(r)'
  PROVE  AccountsInv'
<1>1. \A s \in Req : Own(s)'
  BY OthersKeep
<1>2. \A s \in Req : pc'[s] \in {"revoke", "issue", "join", "session"} =>
                       memo'[s] # Nobody /\ users'[memo'[s]] # "absent"
  BY <1>1, AccountsAssumption DEF Own, Knows, KnowsAt, HasRow
<1>3. TypeOK'
  BY <1>2 DEF Rows, Local, TypeOK
<1> QED
  BY <1>1, <1>3 DEF AccountsInv

\* A request that ends without writing.
LEMMA AnswerKeeps ==
  ASSUME AccountsInv, NEW r \in Req, NEW o, Chosen(r, o), pc[r] # "done", UNCHANGED tables,
         NEW answer \in Results \ {"issued", "reset", "logout"}, Answer(r, answer),
         o # Nothing /\ o.name = "approve" => answer \in {"refused", "crashed"}
  PROVE  AccountsInv'
<1>1. /\ Local(r) /\ pc'[r] = "done" /\ result'[r] = answer /\ op'[r] = o
      /\ BeforeEnded(r)
  BY AnswerLocal
<1>2. Own(r)'
  BY <1>1, EndOwn
<1>3. Rows'
  BY DEF AccountsInv, TypeOK, Rows, tables
<1> QED
  BY <1>1, <1>2, <1>3, ReadMild, StepKeeps

\* A request that goes on without writing.
LEMMA ToKeeps ==
  ASSUME AccountsInv, NEW r \in Req, NEW o, Chosen(r, o), pc[r] # "done", UNCHANGED tables,
         NEW step \in Steps \ {"done", "write"}, NEW u \in User \cup {Nobody}, To(r, step, u),
         KnowsAt(step, o, u), Revoked(r)',
         o # Nothing /\ o.name = "approve" => step \in {"unpend", "open", "owner", "issue"}
  PROVE  AccountsInv'
<1>1. /\ Local(r) /\ pc'[r] = step /\ memo'[r] = u /\ result'[r] = result[r]
      /\ op'[r] = o /\ BeforeEnded(r)
  BY ToLocal
<1>2. tokens'[r] = Nothing /\ sessions'[r] = Nothing /\ result'[r] = "none"
  BY <1>1 DEF AccountsInv, Own, Fresh, tables
<1>3. Decided(r)'
  BY <1>1 DEF Decided
<1>4. Knows(r)'
  BY <1>1 DEF Knows, KnowsAt, HasRow, tables
<1>5. Approved(r)'
  BY <1>1 DEF Approved
<1>6. Own(r)'
  BY <1>1, <1>2, <1>3, <1>4, <1>5, GoOwn
<1>7. Rows'
  BY DEF AccountsInv, TypeOK, Rows, tables
<1> QED
  BY <1>1, <1>6, <1>7, ReadMild, StepKeeps

\* The first step of an operation chooses it.
LEMMA StartsChosen ==
  ASSUME NEW r \in Req, NEW o \in Operations, NEW name, Starts(r, name, o)
  PROVE  Chosen(r, o) /\ pc[r] = "idle" /\ o.name = name /\ o # Nothing
BY AccountsAssumption DEF Starts, Chosen

\* Any other step keeps the operation.
LEMMA SameChosen ==
  ASSUME NEW r \in Req, Same
  PROVE  Chosen(r, op[r])
BY DEF Chosen

\* Outside "issue" nothing was revoked yet.
LEMMA NotIssuing ==
  ASSUME AccountsInv, NEW r \in Req, NEW o, Chosen(r, o), pc[r] # "done",
         NEW step \in Steps \ {"issue"}, NEW u \in User \cup {Nobody}, To(r, step, u)
  PROVE  Revoked(r)'
BY ToLocal DEF Revoked

-----------------------------------------------------------------------------
(* The steps that read.                                                    *)

\* The operations' first steps, which read what they will act upon.
LEMMA BeginKeeps ==
  ASSUME AccountsInv, NEW r \in Req,
         \/ BeginApprove(r) \/ BeginResend(r) \/ BeginInvite(r) \/ BeginForgot(r)
         \/ BeginSpend(r) \/ BeginLogin(r) \/ BeginManage(r)
  PROVE  AccountsInv'
<1>0. TypeOK /\ Consistent /\ UNCHANGED tables
  BY DEF AccountsInv, BeginApprove, BeginResend, BeginInvite, BeginForgot, BeginSpend,
     BeginLogin, BeginManage
<1>1. ASSUME NEW o \in Operations, NEW name, Starts(r, name, o),
             NEW answer \in {"refused", "sent"}, Answer(r, answer),
             name = "approve" => answer = "refused"
      PROVE  AccountsInv'
  <2>1. Chosen(r, o) /\ pc[r] # "done" /\ o.name = name
    BY <1>1, StartsChosen
  <2>2. answer \in Results \ {"issued", "reset", "logout"}
    BY <1>1 DEF Results
  <2> QED
    BY <1>0, <1>1, <2>1, <2>2, AnswerKeeps
<1>2. ASSUME NEW o \in Operations, NEW name, Starts(r, name, o),
             NEW step \in Steps \ {"done", "write", "issue"}, NEW u \in User \cup {Nobody},
             To(r, step, u), KnowsAt(step, o, u),
             name = "approve" => step = "unpend"
      PROVE  AccountsInv'
  <2>1. Chosen(r, o) /\ pc[r] # "done" /\ o.name = name
    BY <1>2, StartsChosen
  <2>2. Revoked(r)'
    BY <1>2, <2>1, NotIssuing
  <2> QED
    BY <1>0, <1>2, <2>1, <2>2, ToKeeps
<1>3. CASE BeginApprove(r)
  <2>1. PICK o \in Operations :
          /\ Starts(r, "approve", o)
          /\ \/ business.exists /\ To(r, "unpend", Nobody)
             \/ Answer(r, "refused")
    BY <1>3 DEF BeginApprove
  <2>2. business.exists => KnowsAt("unpend", o, Nobody)
    BY <2>1, StartsChosen DEF KnowsAt, Is
  <2> QED
    BY <1>1, <1>2, <2>1, <2>2 DEF Steps
<1>4. CASE BeginResend(r)
  <2>1. PICK o \in Operations :
          /\ Starts(r, "resend", o)
          /\ Answer(r, "refused") \/ \E u \in Owners : To(r, "revoke", u)
    BY <1>4 DEF BeginResend
  <2>2. \A u \in Owners : u \in User \cup {Nobody} /\ KnowsAt("revoke", o, u)
    <3>1. NoRole # "owner"
      BY AccountsAssumption DEF Roles
    <3> QED
      BY <1>0, <2>1, <3>1, StartsChosen DEF KnowsAt, Is, HasRow, Owners, TypeOK
  <2> QED
    BY <1>1, <1>2, <2>1, <2>2 DEF Steps
<1>5. CASE BeginInvite(r)
  <2>1. PICK o \in Operations :
          /\ Starts(r, "invite", o) \/ Starts(r, "add", o)
          /\ To(r, "lookup", o.user) \/ Answer(r, "refused")
    BY <1>5 DEF BeginInvite
  <2>2. o.user \in User \cup {Nobody} /\ KnowsAt("lookup", o, o.user)
    BY <2>1, StartsChosen, OperationFields DEF KnowsAt, Is
  <2> QED
    BY <1>1, <1>2, <2>1, <2>2 DEF Steps
<1>6. CASE BeginForgot(r)
  <2>1. PICK o \in Operations :
          /\ Starts(r, "forgot", o)
          /\ \/ Known(o.user) /\ To(r, "revoke", o.user)
             \/ Answer(r, "sent")
    BY <1>6 DEF BeginForgot
  <2>2. o.user \in User \cup {Nobody} /\ (Known(o.user) => KnowsAt("revoke", o, o.user))
    BY <2>1, StartsChosen, OperationFields DEF KnowsAt, Is, HasRow, Known
  <2> QED
    BY <1>1, <1>2, <2>1, <2>2 DEF Steps
<1>7. CASE BeginSpend(r)
  <2>1. PICK o \in Operations :
          /\ Starts(r, "accept", o) \/ Starts(r, "reset", o)
          /\ tokens[o.token] # Nothing
          /\ \/ /\ o.name = "accept" => business.active
                /\ tokens[o.token].kind = "reset" <=> o.name = "reset"
                /\ To(r, "spend", tokens[o.token].user)
             \/ Answer(r, "refused")
    BY <1>7 DEF BeginSpend
  <2>2. o.token \in Asked /\ o.name \in {"accept", "reset"}
    BY <2>1, StartsChosen, OperationFields
  <2>3. tokens[o.token].user \in User \cup {Nobody}
    BY <1>0, <2>1, <2>2 DEF TypeOK, TokenRow
  <2>4. (o.name = "accept" => business.active)
          /\ (tokens[o.token].kind = "reset" <=> o.name = "reset")
          => KnowsAt("spend", o, tokens[o.token].user)
    BY <1>0, <2>1, <2>2 DEF KnowsAt, Is, Consistent
  <2> QED
    BY <1>1, <1>2, <2>1, <2>3, <2>4 DEF Steps
<1>8. CASE BeginLogin(r)
  <2>1. PICK o \in Operations :
          Starts(r, "login", o) /\ (To(r, "member", o.user) \/ Answer(r, "refused"))
    BY <1>8 DEF BeginLogin
  <2>2. o.user \in User \cup {Nobody} /\ KnowsAt("member", o, o.user)
    BY <2>1, StartsChosen, OperationFields DEF KnowsAt, Is
  <2> QED
    BY <1>1, <1>2, <2>1, <2>2 DEF Steps
<1>9. CASE BeginManage(r)
  <2>1. PICK o \in Operations :
          Starts(r, "manage", o) /\ (To(r, "manage", o.user) \/ Answer(r, "refused"))
    BY <1>9 DEF BeginManage
  <2>2. o.user \in User \cup {Nobody} /\ KnowsAt("manage", o, o.user)
    BY <2>1, StartsChosen, OperationFields DEF KnowsAt, Is
  <2> QED
    BY <1>1, <1>2, <2>1, <2>2 DEF Steps
<1> QED
  BY <1>3, <1>4, <1>5, <1>6, <1>7, <1>8, <1>9

\* The reads of a request that goes on.
LEMMA ReadKeeps ==
  ASSUME AccountsInv, NEW r \in Req,
         FindOwner(r) \/ LookUp(r) \/ LoginMember(r) \/ RecheckAdd(r)
  PROVE  AccountsInv'
<1>0. /\ TypeOK /\ Consistent /\ Knows(r) /\ UNCHANGED tables
      /\ Same /\ Chosen(r, op[r]) /\ pc[r] # "done"
  BY SameChosen DEF AccountsInv, Own, FindOwner, LookUp, LoginMember, RecheckAdd
<1>1. ASSUME Answer(r, "refused") PROVE AccountsInv'
  BY <1>0, <1>1, AnswerKeeps DEF Results
<1>2. ASSUME NEW step \in Steps \ {"done", "write", "issue"}, NEW u \in User,
             To(r, step, u), KnowsAt(step, op[r], u), op[r].name # "approve"
      PROVE  AccountsInv'
  <2>1. Revoked(r)'
    BY <1>0, <1>2, NotIssuing
  <2> QED
    BY <1>0, <1>2, <2>1, ToKeeps
<1>3. CASE FindOwner(r)
  <2>1. Is(op[r], {"approve"}) /\ business.exists
    BY <1>0, <1>3 DEF FindOwner, Knows, KnowsAt
  <2>2. PICK u \in Owners : To(r, "issue", u)
    BY <1>0, <1>3, <2>1 DEF FindOwner, FoundOwners, Consistent, AlwaysAnOwner
  <2>3. u \in User /\ KnowsAt("issue", op[r], u)
    <3>1. NoRole # "owner"
      BY AccountsAssumption DEF Roles
    <3> QED
      BY <1>0, <2>1, <2>2, <3>1 DEF Owners, KnowsAt, Is, HasRow, TypeOK
  <2>4. op'[r] = op[r]
    BY <1>0 DEF Same
  <2>5. Revoked(r)'
    BY <2>1, <2>4 DEF Revoked, Is
  <2> QED
    BY <1>0, <2>1, <2>2, <2>3, <2>5, ToKeeps DEF Steps, Is
<1>4. CASE LookUp(r)
  <2>1. Is(op[r], {"invite", "add"}) /\ memo[r] \in User
    BY <1>0, <1>4 DEF LookUp, Knows, KnowsAt
  <2>2. \/ Answer(r, "refused")
        \/ To(r, "create", memo[r])
        \/ Known(memo[r]) /\ op[r].name = "invite" /\ To(r, "revoke", memo[r])
        \/ Known(memo[r]) /\ op[r].name # "invite" /\ To(r, "recheck", memo[r])
    BY <1>4 DEF LookUp
  <2>3. /\ KnowsAt("create", op[r], memo[r])
        /\ Known(memo[r]) /\ op[r].name = "invite" => KnowsAt("revoke", op[r], memo[r])
        /\ Known(memo[r]) /\ op[r].name # "invite" => KnowsAt("recheck", op[r], memo[r])
    BY <2>1 DEF KnowsAt, Is, HasRow, Known
  <2> QED
    BY <1>1, <1>2, <2>1, <2>2, <2>3 DEF Steps, Is
<1>5. CASE LoginMember(r)
  <2>1. memo[r] \in User /\ Is(op[r], {"login"})
    BY <1>0, <1>5 DEF LoginMember, Knows, KnowsAt
  <2>2. \/ Answer(r, "refused")
        \/ members[memo[r]] # NoRole /\ To(r, "session", memo[r])
    BY <1>5 DEF LoginMember
  <2>3. members[memo[r]] # NoRole => KnowsAt("session", op[r], memo[r])
    BY <1>0, <2>1 DEF KnowsAt, HasRow, TypeOK
  <2> QED
    BY <1>1, <1>2, <2>1, <2>2, <2>3 DEF Steps, Is
<1>6. CASE RecheckAdd(r)
  <2>1. Is(op[r], {"add"}) /\ HasRow(memo[r])
    BY <1>0, <1>6 DEF RecheckAdd, Knows, KnowsAt
  <2>2. \/ Answer(r, "refused")
        \/ IsOwner(op[r].actor) /\ To(r, "join", memo[r])
    BY <1>6 DEF RecheckAdd
  <2>3. IsOwner(op[r].actor) => KnowsAt("join", op[r], memo[r])
    <3>1. NoRole # "owner" /\ op[r].actor \in User
      BY <2>1, AccountsAssumption, OperationFields DEF Roles, Is
    <3> QED
      BY <1>0, <2>1, <3>1 DEF KnowsAt, Is, IsOwner, Consistent
  <2> QED
    BY <1>1, <1>2, <2>1, <2>2, <2>3 DEF Steps, Is, HasRow
<1> QED
  BY <1>3, <1>4, <1>5, <1>6

\* A change of role is decided under the lock.
LEMMA EnterManageKeeps ==
  ASSUME AccountsInv, NEW r \in Req, EnterManage(r)
  PROVE  AccountsInv'
<1>0. /\ TypeOK /\ Own(r) /\ UNCHANGED tables
      /\ Same /\ Chosen(r, op[r]) /\ pc[r] = "manage" /\ LockFree(r)
  BY SameChosen DEF AccountsInv, EnterManage
<1>1. CASE Answer(r, "refused")
  <2>1. op[r].name # "approve"
    BY <1>0 DEF Own, Knows, KnowsAt, Is
  <2> QED
    BY <1>0, <1>1, <2>1, AnswerKeeps DEF Results
<1>2. CASE /\ Manageable(op[r].actor, memo[r])
           /\ lock' = r /\ pc' = [pc EXCEPT ![r] = "write"] /\ UNCHANGED <<memo, result>>
  <2>1. /\ op' = op /\ before' = before /\ pc'[r] = "write" /\ memo'[r] = memo[r]
        /\ BeforeEnded(r)
    <3>1. "write" \in Steps
      BY DEF Steps
    <3> QED
      BY <1>0, <1>2, <3>1, ChosenLocal DEF Same, TypeOK
  <2>2. Local(r)
    BY <1>0, <1>2, <2>1 DEF Local, TypeOK, Steps, LockFree
  <2>3. Knows(r)'
    BY <1>0, <2>1 DEF Own, Knows, KnowsAt, Is
  <2>4. Decided(r)'
    <3>1. op[r].actor \in User /\ memo[r] \in User
      BY <1>0, OperationFields DEF Own, Knows, KnowsAt, Is
    <3>2. \E w \in User \ {memo[r]} : IsOwner(w)
      BY <1>2, <3>1 DEF Manageable, Owners, IsOwner
    <3> QED
      BY <1>0, <1>2, <2>1, <3>1, <3>2 DEF Decided, Manageable, IsOwner, tables
  <2>5. Own(r)'
    <3>1. tokens'[r] = Nothing /\ sessions'[r] = Nothing /\ result'[r] = "none"
      BY <1>0, <1>2 DEF Own, Fresh, tables
    <3>2. Revoked(r)' /\ Approved(r)'
      BY <1>0, <2>1 DEF Own, Knows, KnowsAt, Is, Revoked, Approved
    <3> QED
      BY <2>1, <2>3, <2>4, <3>1, <3>2, GoOwn
  <2>6. Rows'
    BY <1>0 DEF TypeOK, Rows, tables
  <2> QED
    BY <1>0, <2>2, <2>5, <2>6, ReadMild, StepKeeps
<1> QED
  BY <1>1, <1>2 DEF EnterManage

\* A request whose locks time out, or whose worker dies, leaves the tables.
LEMMA LeaveKeeps ==
  ASSUME AccountsInv, NEW r \in Req, LockTimeout(r) \/ Crash(r)
  PROVE  AccountsInv'
<1>0. Own(r) /\ Chosen(r, op[r]) /\ UNCHANGED tables
  BY SameChosen DEF AccountsInv, LockTimeout, Crash
<1>1. CASE LockTimeout(r)
  <2>1. op[r].name # "approve"
    BY <1>0, <1>1 DEF LockTimeout, Own, Knows, KnowsAt, Is
  <2> QED
    BY <1>0, <1>1, <2>1, AnswerKeeps DEF LockTimeout, Results
<1>2. CASE Crash(r)
  BY <1>0, <1>2, AnswerKeeps DEF Crash, Results
<1> QED
  BY <1>1, <1>2

-----------------------------------------------------------------------------
(* The steps that write the business and the users.                        *)

\* A request that writes and ends.
LEMMA WriteEnds ==
  ASSUME AccountsInv, NEW r \in Req, NEW o, Chosen(r, o), pc[r] # "done",
         NEW answer \in Results \ {"issued", "reset", "logout"}, Answer(r, answer),
         o # Nothing /\ o.name = "approve" => answer \in {"refused", "crashed"},
         Mild(r), Added(r), Rows', Consistent'
  PROVE  AccountsInv'
<1>1. /\ Local(r) /\ pc'[r] = "done" /\ result'[r] = answer /\ op'[r] = o
      /\ BeforeEnded(r)
  BY AnswerLocal
<1>2. Own(r)'
  BY <1>1, EndOwn
<1> QED
  BY <1>1, <1>2, StepKeeps

\* A request that writes, issues nothing and goes on.
LEMMA WriteGoes ==
  ASSUME AccountsInv, NEW r \in Req, Same, pc[r] # "done",
         NEW step \in Steps \ {"done", "write"}, NEW u \in User \cup {Nobody},
         To(r, step, u), Knows(r)', Revoked(r)',
         op[r] # Nothing /\ op[r].name = "approve" => step \in {"unpend", "open", "owner", "issue"},
         Mild(r), Added(r), Rows', Consistent',
         tokens'[r] = Nothing, sessions'[r] = Nothing
  PROVE  AccountsInv'
<1>1. /\ Local(r) /\ pc'[r] = step /\ result'[r] = result[r] /\ op'[r] = op[r]
      /\ BeforeEnded(r)
  BY SameChosen, ToLocal
<1>2. result'[r] = "none"
  BY <1>1 DEF AccountsInv, Own, Fresh
<1>3. Decided(r)' /\ Approved(r)'
  BY <1>1 DEF Decided, Approved
<1>4. Own(r)'
  BY <1>1, <1>2, <1>3, GoOwn
<1> QED
  BY <1>1, <1>4, StepKeeps

\* Registration makes the business and its owner together.
LEMMA RegisterKeeps ==
  ASSUME AccountsInv, NEW r \in Req, Register(r)
  PROVE  AccountsInv'
<1>0. TypeOK /\ Consistent
  BY DEF AccountsInv
<1>1. PICK o \in Operations :
        /\ Starts(r, "register", o) /\ UNCHANGED <<tokens, sessions>>
        /\ \/ Answer(r, "refused") /\ UNCHANGED <<business, members, users>>
           \/ /\ ~business.exists /\ users[o.user] = "absent"
              /\ business' = [exists |-> TRUE, pending |-> TRUE, active |-> FALSE]
              /\ users' = [users EXCEPT ![o.user] = "invited"]
              /\ members' = [members EXCEPT ![o.user] = "owner"]
              /\ Answer(r, "registered")
  BY DEF Register
<1>2. Chosen(r, o) /\ pc[r] # "done" /\ o.name = "register" /\ o.user \in User
  BY <1>1, StartsChosen, OperationFields
<1>3. CASE Answer(r, "refused") /\ UNCHANGED tables
  BY <1>2, <1>3, AnswerKeeps DEF Results
<1>4. CASE /\ ~business.exists /\ users[o.user] = "absent"
           /\ business' = [exists |-> TRUE, pending |-> TRUE, active |-> FALSE]
           /\ users' = [users EXCEPT ![o.user] = "invited"]
           /\ members' = [members EXCEPT ![o.user] = "owner"]
           /\ Answer(r, "registered")
  <2>1. \A u \in User : members[u] = NoRole
    BY <1>0, <1>4 DEF Consistent
  <2>2. Mild(r) /\ Added(r)
    BY <1>0, <1>1, <1>2, <1>4, <2>1 DEF Mild, Added, Live, TypeOK
  <2>3. Rows'
    <3>1. business' \in [exists : BOOLEAN, pending : BOOLEAN, active : BOOLEAN]
      BY <1>4
    <3>2. members' \in [User -> Roles \cup {NoRole}] /\ users' \in [User -> Accounts]
      BY <1>0, <1>4 DEF TypeOK, Roles, Accounts
    <3>3. \A u \in User : members'[u] # NoRole => users'[u] # "absent"
      BY <1>0, <1>2, <1>4, <2>1 DEF TypeOK
    <3> QED
      BY <1>0, <1>1, <3>1, <3>2, <3>3 DEF TypeOK, Rows
  <2>4. Consistent'
    <3>1. Owners' # {}
      BY <1>0, <1>2, <1>4 DEF Owners, TypeOK
    <3>2. \A t \in Asked : tokens'[t] # Nothing => users'[tokens'[t].user] # "absent"
      BY <1>0, <1>1, <1>2, <1>4 DEF Consistent, TypeOK
    <3>3. business'.exists
      BY <1>4
    <3> QED
      BY <1>4, <3>1, <3>2, <3>3 DEF Consistent, AlwaysAnOwner
  <2> QED
    BY <1>2, <1>4, <2>2, <2>3, <2>4, WriteEnds DEF Results
<1> QED
  BY <1>1, <1>3, <1>4 DEF tables

\* The approval and the superadmin change the business, once it exists.
LEMMA BusinessKeeps ==
  ASSUME AccountsInv, NEW r \in Req, Unpend(r) \/ Open(r) \/ SetActive(r)
  PROVE  AccountsInv'
<1>0. TypeOK /\ Consistent /\ Own(r)
  BY DEF AccountsInv
<1>1. ASSUME NEW b \in [exists : BOOLEAN, pending : BOOLEAN, active : BOOLEAN],
             business' = b, b.exists = business.exists, b.active => b.exists,
             UNCHANGED <<members, users, tokens, sessions>>
      PROVE  Mild(r) /\ Added(r) /\ Rows' /\ Consistent'
  <2>1. Mild(r) /\ Added(r)
    BY <1>1 DEF Mild, Added, Live
  <2>2. Rows'
    BY <1>0, <1>1 DEF Rows, TypeOK
  <2>3. Owners' = Owners
    BY <1>1 DEF Owners
  <2>4. Consistent'
    BY <1>0, <1>1, <2>3 DEF Consistent, AlwaysAnOwner
  <2> QED
    BY <2>1, <2>2, <2>4
<1>2. CASE Unpend(r) \/ Open(r)
  <2>0. /\ Same /\ pc[r] # "done" /\ Is(op[r], {"approve"}) /\ business.exists
        /\ UNCHANGED <<members, users, tokens, sessions>>
    BY <1>0, <1>2 DEF Unpend, Open, Own, Knows, KnowsAt
  <2>1. PICK b \in {[business EXCEPT !.pending = FALSE], [business EXCEPT !.active = TRUE]} :
          business' = b
    BY <1>2 DEF Unpend, Open
  <2>2. /\ b \in [exists : BOOLEAN, pending : BOOLEAN, active : BOOLEAN]
        /\ b.exists = business.exists
    BY <1>0, <2>1 DEF TypeOK
  <2>3. Mild(r) /\ Added(r) /\ Rows' /\ Consistent'
    BY <1>1, <2>0, <2>1, <2>2
  <2>4. PICK step \in {"open", "owner"} : To(r, step, Nobody)
    BY <1>2 DEF Unpend, Open
  <2>5. step \in Steps \ {"done", "write", "issue"}
    BY DEF Steps
  <2>6. pc'[r] = step /\ op'[r] = op[r] /\ Revoked(r)'
    BY <2>0, <2>4, <2>5, SameChosen, ToLocal, NotIssuing
  <2>7. Knows(r)'
    BY <2>0, <2>1, <2>2, <2>6 DEF Knows, KnowsAt, Is
  <2>8. tokens'[r] = Nothing /\ sessions'[r] = Nothing
    BY <1>0, <2>0 DEF Own, Fresh
  <2> QED
    BY <2>0, <2>3, <2>4, <2>5, <2>6, <2>7, <2>8, WriteGoes
<1>3. CASE SetActive(r)
  <2>1. PICK o \in Operations :
          /\ Starts(r, "set_active", o)
          /\ business' = IF business.exists THEN [business EXCEPT !.active = o.active]
                                            ELSE business
          /\ Answer(r, IF business.exists THEN "saved" ELSE "refused")
          /\ UNCHANGED <<members, users, tokens, sessions>>
    BY <1>3 DEF SetActive
  <2>2. Chosen(r, o) /\ pc[r] # "done" /\ o.name = "set_active" /\ o.active \in BOOLEAN
    BY <2>1, StartsChosen, OperationFields
  <2>3. /\ business' \in [exists : BOOLEAN, pending : BOOLEAN, active : BOOLEAN]
        /\ business'.exists = business.exists /\ (business'.active => business'.exists)
    BY <1>0, <2>1, <2>2 DEF TypeOK, Consistent
  <2>4. Mild(r) /\ Added(r) /\ Rows' /\ Consistent'
    BY <1>1, <2>1, <2>3
  <2>5. PICK answer \in {"saved", "refused"} : Answer(r, answer)
    BY <2>1
  <2> QED
    BY <2>2, <2>4, <2>5, WriteEnds DEF Results
<1> QED
  BY <1>2, <1>3

\* A user that gets a row has no token yet.
LEMMA CreateUserKeeps ==
  ASSUME AccountsInv, NEW r \in Req, CreateUser(r)
  PROVE  AccountsInv'
<1>0. /\ TypeOK /\ Consistent /\ Own(r) /\ Same /\ pc[r] = "create"
      /\ UNCHANGED <<business, members, tokens, sessions>>
      /\ Is(op[r], {"invite", "add"}) /\ memo[r] \in User
  BY DEF AccountsInv, Own, Knows, KnowsAt, CreateUser
<1>1. CASE Answer(r, "refused") /\ UNCHANGED users
  <2>1. Chosen(r, op[r]) /\ UNCHANGED tables
    BY <1>0, <1>1, SameChosen DEF tables
  <2> QED
    BY <1>0, <1>1, <2>1, AnswerKeeps DEF Results, Is
<1>2. CASE /\ users[memo[r]] = "absent"
           /\ \E account \in {"invited", "added"} :
                users' = [users EXCEPT ![memo[r]] = account]
           /\ \/ op[r].name = "invite" /\ To(r, "issue", memo[r])
              \/ op[r].name # "invite" /\ To(r, "recheck", memo[r])
  <2>1. users' \in [User -> Accounts] /\ users'[memo[r]] # "absent"
    BY <1>0, <1>2 DEF TypeOK, Accounts
  <2>2. \A u \in User : users[u] # "absent" => users'[u] # "absent"
    BY <1>0, <1>2 DEF TypeOK
  <2>3. Mild(r) /\ Added(r) /\ Rows'
    BY <1>0, <2>1, <2>2 DEF Mild, Added, Rows, TypeOK, Live
  <2>4. Consistent'
    <3>1. \A t \in Asked : tokens[t] # Nothing => tokens[t].user \in User
      BY <1>0 DEF TypeOK, TokenRow
    <3> QED
      BY <1>0, <2>2, <3>1 DEF Consistent, AlwaysAnOwner, Owners
  <2>5. PICK step \in {"issue", "recheck"} :
          To(r, step, memo[r]) /\ (step = "issue" => op[r].name = "invite")
                               /\ (step = "recheck" => op[r].name # "invite")
    BY <1>2
  <2>6. /\ step \in Steps \ {"done", "write"}
        /\ pc'[r] = step /\ memo'[r] = memo[r] /\ op'[r] = op[r] /\ before' = before
    BY <1>0, <2>5, SameChosen, ToLocal DEF Steps, Same
  <2>7. Knows(r)'
    BY <1>0, <2>1, <2>5, <2>6 DEF Knows, KnowsAt, Is, HasRow
  <2>8. Revoked(r)'
    BY <1>0, <1>2, <2>6 DEF Revoked, Consistent, TypeOK
  <2>9. tokens'[r] = Nothing /\ sessions'[r] = Nothing
    BY <1>0 DEF Own, Fresh
  <2> QED
    BY <1>0, <2>3, <2>4, <2>5, <2>6, <2>7, <2>8, <2>9, WriteGoes DEF Is
<1> QED
  BY <1>1, <1>2 DEF CreateUser

-----------------------------------------------------------------------------
(* The steps that write the tokens.                                        *)

\* A step that only restates tokens.
LEMMA TokensMild ==
  ASSUME AccountsInv, NEW r \in Req,
         UNCHANGED <<business, members, users, sessions>>,
         tokens' \in [Asked -> TokenRow \cup {Nothing}],
         \A t \in Asked : tokens[t] # Nothing =>
           /\ tokens'[t] # Nothing
           /\ tokens'[t].user = tokens[t].user /\ tokens'[t].kind = tokens[t].kind
           /\ Live(t)' => Live(t),
         \A t \in Asked \ {r} : tokens[t] = Nothing => tokens'[t] = Nothing,
         tokens[r] = Nothing /\ tokens'[r] # Nothing => users[tokens'[r].user] # "absent"
  PROVE  Mild(r) /\ Added(r) /\ Rows' /\ Consistent'
<1>0. TypeOK /\ Consistent
  BY DEF AccountsInv
<1>1. Mild(r) /\ Added(r)
  BY DEF Mild, Added
<1>2. Rows'
  BY <1>0 DEF Rows, TypeOK
<1>3. Consistent'
  <2>1. ASSUME NEW t \in Asked, tokens'[t] # Nothing
        PROVE  users'[tokens'[t].user] # "absent"
    BY <1>0, <2>1 DEF Consistent
  <2> QED
    BY <1>0, <2>1 DEF Consistent, AlwaysAnOwner, Owners
<1> QED
  BY <1>1, <1>2, <1>3

\* What Revoke does to the tokens it is given.
LEMMA RevokeTells ==
  ASSUME TypeOK, NEW T \in SUBSET Asked, \A t \in T : Live(t), Revoke(T)
  PROVE  /\ tokens' \in [Asked -> TokenRow \cup {Nothing}]
         /\ \A t \in Asked : tokens[t] = Nothing => tokens'[t] = Nothing
         /\ \A t \in Asked : tokens[t] # Nothing =>
              /\ tokens'[t] # Nothing
              /\ tokens'[t].user = tokens[t].user /\ tokens'[t].kind = tokens[t].kind
              /\ Live(t)' => Live(t)
         /\ \A t \in T : tokens'[t].state = "revoked"
<1>1. \A t \in Asked : tokens[t] \in TokenRow \cup {Nothing}
  BY DEF TypeOK
<1>2. \A row \in TokenRow :
        /\ [row EXCEPT !.state = "revoked"] \in TokenRow
        /\ [row EXCEPT !.state = "revoked"].user = row.user
        /\ [row EXCEPT !.state = "revoked"].kind = row.kind
        /\ [row EXCEPT !.state = "revoked"].state = "revoked"
  BY DEF TokenRow
<1>3. \A t \in Asked : tokens'[t] = IF t \in T THEN [tokens[t] EXCEPT !.state = "revoked"]
                                               ELSE tokens[t]
  BY DEF Revoke
<1>4. Nothing \notin TokenRow
  BY AccountsAssumption
<1>5. \A t \in T : t \in Asked /\ tokens[t] \in TokenRow
  BY <1>1 DEF Live
<1>6. \A t \in Asked : tokens'[t] \in TokenRow \cup {Nothing}
  BY <1>1, <1>2, <1>3, <1>5
<1>7. tokens' \in [Asked -> TokenRow \cup {Nothing}]
  BY <1>6 DEF Revoke
<1>8. \A t \in Asked : tokens[t] # Nothing =>
              /\ tokens'[t] # Nothing
              /\ tokens'[t].user = tokens[t].user /\ tokens'[t].kind = tokens[t].kind
              /\ Live(t)' => Live(t)
  <2> SUFFICES ASSUME NEW t \in Asked, tokens[t] # Nothing
               PROVE  /\ tokens'[t] # Nothing
                      /\ tokens'[t].user = tokens[t].user /\ tokens'[t].kind = tokens[t].kind
                      /\ Live(t)' => Live(t)
    OBVIOUS
  <2>1. CASE t \in T
    <3>1. tokens'[t] = [tokens[t] EXCEPT !.state = "revoked"] /\ tokens[t] \in TokenRow
      BY <1>3, <1>5, <2>1
    <3> QED
      BY <1>2, <1>4, <2>1, <3>1
  <2>2. CASE t \notin T
    BY <1>3, <2>2 DEF Live
  <2> QED
    BY <2>1, <2>2
<1>9. \A t \in Asked : tokens[t] = Nothing => tokens'[t] = Nothing
  <2>1. \A t \in T : tokens[t] # Nothing
    BY <1>4, <1>5
  <2> QED
    BY <1>3, <2>1
<1>10. \A t \in T : tokens'[t].state = "revoked"
  <2> SUFFICES ASSUME NEW t \in T PROVE tokens'[t].state = "revoked"
    OBVIOUS
  <2>1. tokens'[t] = [tokens[t] EXCEPT !.state = "revoked"] /\ tokens[t] \in TokenRow
    BY <1>3, <1>5
  <2> QED
    BY <1>2, <2>1
<1> QED
  BY <1>7, <1>8, <1>9, <1>10

\* The update that revokes takes every live token of the user and the use.
LEMMA RevokeTokensKeeps ==
  ASSUME AccountsInv, NEW r \in Req, RevokeTokens(r)
  PROVE  AccountsInv'
<1> DEFINE T == LiveOf(memo[r], IF KindOf(r) = "reset" THEN {"reset"} ELSE Invitations)
<1>0. /\ TypeOK /\ Consistent /\ Own(r) /\ Same /\ pc[r] = "revoke"
      /\ UNCHANGED <<business, members, users, sessions>>
      /\ Revoke(T) /\ To(r, "issue", memo[r])
      /\ Is(op[r], {"resend", "invite", "forgot"}) /\ HasRow(memo[r])
  BY DEF AccountsInv, Own, Knows, KnowsAt, RevokeTokens
<1>1. T \in SUBSET Asked /\ \A t \in T : Live(t)
  BY DEF LiveOf
<1>2. /\ tokens' \in [Asked -> TokenRow \cup {Nothing}]
      /\ \A t \in Asked : tokens[t] = Nothing => tokens'[t] = Nothing
      /\ \A t \in Asked : tokens[t] # Nothing =>
           /\ tokens'[t] # Nothing
           /\ tokens'[t].user = tokens[t].user /\ tokens'[t].kind = tokens[t].kind
           /\ Live(t)' => Live(t)
      /\ \A t \in T : tokens'[t].state = "revoked"
  <2> HIDE DEF T
  <2> QED
    BY <1>0, <1>1, RevokeTells
<1>3. tokens[r] = Nothing /\ sessions[r] = Nothing /\ r \in Asked
  BY <1>0 DEF Own, Fresh, Asked
<1>4. Mild(r) /\ Added(r) /\ Rows' /\ Consistent'
  BY <1>0, <1>2, <1>3, TokensMild
<1>5. /\ pc'[r] = "issue" /\ memo'[r] = memo[r] /\ op'[r] = op[r] /\ before' = before
      /\ "issue" \in Steps \ {"done", "write"} /\ memo[r] \in User
  BY <1>0, SameChosen, ToLocal DEF Steps, Same, HasRow
<1>6. Knows(r)'
  BY <1>0, <1>5 DEF Knows, KnowsAt, Is, HasRow
<1>7. Revoked(r)'
  <2> SUFFICES ASSUME NEW t \in before[r],
                      tokens'[t] # Nothing, tokens'[t].user = memo[r],
                      tokens'[t].kind = "reset" <=> KindOf(r) = "reset", Live(t)'
               PROVE  FALSE
    <3>1. KindOf(r)' = KindOf(r)
      BY <1>5 DEF KindOf
    <3> QED
      BY <1>5, <3>1 DEF Revoked, SameUse
  <2>1. t \in Asked /\ tokens[t] # Nothing /\ Live(t)
        /\ tokens[t].user = memo[r] /\ tokens[t].kind = tokens'[t].kind
    BY <1>0, <1>2 DEF TypeOK
  <2>2. tokens[t].kind \in Invitations \cup {"reset"}
    BY <1>0, <2>1 DEF TypeOK, TokenRow
  <2>3. t \in T
    BY <2>1, <2>2 DEF LiveOf, Invitations
  <2> QED
    BY <1>2, <2>3 DEF Live
<1> QED
  BY <1>0, <1>2, <1>3, <1>4, <1>5, <1>6, <1>7, WriteGoes DEF Is

\* The new token is live, and those that earlier requests left are not.
LEMMA IssueTokenKeeps ==
  ASSUME AccountsInv, NEW r \in Req, IssueToken(r)
  PROVE  AccountsInv'
<1> DEFINE row == [kind |-> KindOf(r), user |-> memo[r], state |-> "live"]
<1>0. /\ TypeOK /\ Consistent /\ Own(r) /\ Same /\ pc[r] = "issue" /\ r \in Asked
      /\ UNCHANGED <<business, members, users, sessions>>
      /\ tokens' = [tokens EXCEPT ![r] = row] /\ Answer(r, "issued")
      /\ HasRow(memo[r]) /\ tokens[r] = Nothing
  BY DEF AccountsInv, Own, Knows, KnowsAt, Fresh, IssueToken, Issue, Asked
<1>1. row \in TokenRow /\ row # Nothing /\ row.user = memo[r] /\ row.kind = KindOf(r)
  BY <1>0, AccountsAssumption DEF TokenRow, KindOf, Invitations, HasRow
<1>2. tokens' \in [Asked -> TokenRow \cup {Nothing}] /\ tokens'[r] = row
  <2> HIDE DEF row
  <2> QED
    BY <1>0, <1>1 DEF TypeOK
<1>3. \A t \in Asked \ {r} : tokens'[t] = tokens[t]
  BY <1>0 DEF TypeOK
<1> HIDE DEF row
<1>4. Mild(r) /\ Added(r) /\ Rows' /\ Consistent'
  <2>1. \A t \in Asked : tokens[t] # Nothing =>
           /\ tokens'[t] # Nothing
           /\ tokens'[t].user = tokens[t].user /\ tokens'[t].kind = tokens[t].kind
           /\ Live(t)' => Live(t)
    BY <1>0, <1>3 DEF Live
  <2>2. users[tokens'[r].user] # "absent"
    BY <1>0, <1>1, <1>2 DEF HasRow
  <2> QED
    BY <1>0, <1>2, <1>3, <2>1, <2>2, TokensMild
<1>5. /\ Local(r) /\ pc'[r] = "done" /\ result'[r] = "issued"
      /\ op'[r] = op[r] /\ before'[r] = before[r] /\ BeforeEnded(r)
  BY <1>0, SameChosen, AnswerLocal DEF Results, Same
<1>6. Later(r)'
  <2> SUFFICES ASSUME op[r].name # "approve", NEW t \in before[r],
                      tokens'[t] # Nothing, tokens'[t].user = memo[r],
                      tokens'[t].kind = "reset" <=> KindOf(r) = "reset", Live(t)'
               PROVE  FALSE
    BY <1>1, <1>2, <1>5 DEF Later, SameUse
  <2>1. t \in Asked \ {r}
    BY <1>0, AccountsAssumption DEF TypeOK, Own, Fresh
  <2> QED
    BY <1>0, <1>3, <2>1 DEF Own, Revoked, SameUse, Live
<1>7. Own(r)'
  BY <1>1, <1>2, <1>5, <1>6 DEF Own, Knows, KnowsAt, Decided, Fresh, Revoked, Closed, Told,
     Approved, BeforeEnded
<1> QED
  BY <1>4, <1>5, <1>7, StepKeeps

\* A token in another state.
LEMMA Restated ==
  ASSUME TypeOK, NEW t \in Asked, tokens[t] # Nothing,
         NEW state \in {"used", "revoked", "expired"},
         tokens' = [tokens EXCEPT ![t].state = state]
  PROVE  /\ tokens' \in [Asked -> TokenRow \cup {Nothing}]
         /\ tokens'[t] \in TokenRow /\ tokens'[t].state = state
         /\ tokens'[t].user = tokens[t].user /\ tokens'[t].kind = tokens[t].kind
         /\ \A s \in Asked \ {t} : tokens'[s] = tokens[s]
<1>1. tokens[t] \in TokenRow
  BY DEF TypeOK
<1>2. PICK row : row = [tokens[t] EXCEPT !.state = state]
  OBVIOUS
<1>3. /\ row \in TokenRow /\ row.state = state
      /\ row.user = tokens[t].user /\ row.kind = tokens[t].kind
  BY <1>1, <1>2 DEF TokenRow
<1>4. tokens' = [tokens EXCEPT ![t] = row]
  BY <1>2
<1> QED
  BY <1>3, <1>4 DEF TypeOK

\* A token that is used, revoked or expired stops being live, and no other
\* becomes so.
LEMMA RestatedMild ==
  ASSUME TypeOK, NEW t \in Asked, tokens[t] # Nothing,
         NEW state \in {"used", "revoked", "expired"},
         tokens' = [tokens EXCEPT ![t].state = state]
  PROVE  /\ ~Live(t)'
         /\ \A s \in Asked : tokens[s] # Nothing =>
              /\ tokens'[s] # Nothing
              /\ tokens'[s].user = tokens[s].user /\ tokens'[s].kind = tokens[s].kind
              /\ Live(s)' => Live(s)
         /\ \A s \in Asked : tokens[s] = Nothing => tokens'[s] = Nothing
<1>1. /\ tokens'[t] \in TokenRow /\ tokens'[t].state = state
      /\ tokens'[t].user = tokens[t].user /\ tokens'[t].kind = tokens[t].kind
      /\ \A s \in Asked \ {t} : tokens'[s] = tokens[s]
  BY Restated
<1>2. ~Live(t)' /\ tokens'[t] # Nothing
  BY <1>1, AccountsAssumption DEF Live
<1> QED
  BY <1>1, <1>2 DEF Live

\* Spending: the token, the user and perhaps the membership.
LEMMA SpendKeeps ==
  ASSUME AccountsInv, NEW r \in Req, Spend(r)
  PROVE  AccountsInv'
<1>0. /\ TypeOK /\ Consistent /\ Own(r) /\ Same /\ pc[r] = "spend"
      /\ UNCHANGED <<business, sessions>> /\ Chosen(r, op[r])
      /\ Is(op[r], {"accept", "reset"})
      /\ tokens[op[r].token] # Nothing /\ memo[r] = tokens[op[r].token].user
      /\ tokens[op[r].token].kind = "reset" <=> op[r].name = "reset"
      /\ op[r].name = "accept" => business.exists
  BY SameChosen DEF AccountsInv, Own, Knows, KnowsAt, Spend, Consume
<1>1. PICK t \in Asked : t = op[r].token
  BY <1>0, OperationFields DEF Is
<1>2. PICK u \in User : u = memo[r]
  BY <1>0, <1>1 DEF TypeOK, TokenRow
<1>3. CASE Answer(r, "refused") /\ UNCHANGED tables
  BY <1>0, <1>3, AnswerKeeps DEF Results, Is
<1>4. CASE /\ tokens' = [tokens EXCEPT ![t].state = "used"]
           /\ users' = [users EXCEPT ![u] = "active"]
           /\ members' = IF op[r].name = "accept" /\ op[r].page = "staff" /\ members[u] = NoRole
                           THEN [members EXCEPT ![u] = tokens[t].kind] ELSE members
           /\ \/ op[r].name = "reset" /\ To(r, "sessions", u)
              \/ op[r].name # "reset" /\ Answer(r, "accepted")
  <2>1. /\ tokens' \in [Asked -> TokenRow \cup {Nothing}]
        /\ \A s \in Asked : tokens[s] # Nothing =>
              /\ tokens'[s] # Nothing
              /\ tokens'[s].user = tokens[s].user /\ tokens'[s].kind = tokens[s].kind
              /\ Live(s)' => Live(s)
        /\ \A s \in Asked : tokens[s] = Nothing => tokens'[s] = Nothing
    BY <1>0, <1>1, <1>4, Restated, RestatedMild
  <2>2. /\ users' \in [User -> Accounts] /\ users'[u] = "active"
        /\ \A v \in User \ {u} : users'[v] = users[v]
    BY <1>0, <1>4 DEF TypeOK, Accounts
  <2>3. \A v \in User : users[v] # "absent" => users'[v] # "absent"
    BY <2>2
  <2>4. /\ members' \in [User -> Roles \cup {NoRole}]
        /\ \A v \in User \ {u} : members'[v] = members[v]
        /\ members[u] # NoRole => members'[u] = members[u]
        /\ members'[u] # members[u] => business.exists
    <3>1. op[r].name = "accept" => tokens[t].kind \in Roles
      BY <1>0, <1>1 DEF TypeOK, TokenRow, Invitations, Roles
    <3>2. CASE op[r].name = "accept" /\ op[r].page = "staff" /\ members[u] = NoRole
      BY <1>0, <1>4, <3>1, <3>2 DEF TypeOK
    <3>3. CASE ~(op[r].name = "accept" /\ op[r].page = "staff" /\ members[u] = NoRole)
      BY <1>0, <1>4, <3>3 DEF TypeOK
    <3> QED
      BY <3>2, <3>3
  <2>5. Mild(r) /\ Added(r)
    BY <1>0, <2>1, <2>3, <2>4 DEF Mild, Added
  <2>6. Rows'
    BY <1>0, <2>1, <2>2, <2>4 DEF Rows, TypeOK
  <2>7. Consistent'
    <3>1. \A v \in User : members'[v] # NoRole => business'.exists
      BY <1>0, <2>4 DEF Consistent
    <3>2. \A v \in User : members[v] = "owner" => members'[v] = "owner"
      <4>1. NoRole # "owner"
        BY AccountsAssumption DEF Roles
      <4> QED
        BY <2>4, <4>1
    <3>3. AlwaysAnOwner'
      BY <1>0, <3>2 DEF Consistent, AlwaysAnOwner, Owners
    <3>4. \A s \in Asked : tokens'[s] # Nothing => users'[tokens'[s].user] # "absent"
      <4>1. \A s \in Asked : tokens[s] # Nothing => tokens[s].user \in User
        BY <1>0 DEF TypeOK, TokenRow
      <4> QED
        BY <1>0, <2>1, <2>3, <4>1 DEF Consistent
    <3> QED
      BY <1>0, <3>1, <3>3, <3>4 DEF Consistent
  <2>8. CASE op[r].name # "reset" /\ Answer(r, "accepted")
    BY <1>0, <2>5, <2>6, <2>7, <2>8, WriteEnds DEF Results, Is
  <2>9. CASE op[r].name = "reset" /\ To(r, "sessions", u)
    <3>1. /\ "sessions" \in Steps \ {"done", "write", "issue"}
          /\ pc'[r] = "sessions" /\ memo'[r] = u /\ op'[r] = op[r]
      BY <1>0, <2>9, ToLocal DEF Steps
    <3>2. Revoked(r)'
      BY <3>1 DEF Revoked
    <3>3. Knows(r)'
      BY <1>0, <1>1, <1>2, <2>1, <2>9, <3>1 DEF Knows, KnowsAt, Is
    <3>4. tokens'[r] = Nothing /\ sessions'[r] = Nothing
      BY <1>0, <2>1 DEF Own, Fresh, Asked
    <3> QED
      BY <1>0, <2>5, <2>6, <2>7, <2>9, <3>1, <3>2, <3>3, <3>4, WriteGoes
  <2> QED
    BY <1>4, <2>8, <2>9
<1> QED
  BY <1>0, <1>1, <1>2, <1>3, <1>4 DEF Spend, Consume, tables

-----------------------------------------------------------------------------
(* The steps that write the sessions.                                      *)

\* A step that changes sessions alone.
LEMMA SessionsMild ==
  ASSUME AccountsInv, NEW r \in Req,
         UNCHANGED <<business, members, users, tokens>>,
         sessions' \in [Asked -> SessionRow \cup {Nothing}],
         \A s \in Asked : sessions[s] # Nothing =>
           /\ sessions'[s] # Nothing /\ sessions'[s].user = sessions[s].user
           /\ sessions[s].revoked => sessions'[s].revoked,
         \A s \in Asked \ {r} : sessions[s] = Nothing => sessions'[s] = Nothing
  PROVE  Mild(r) /\ Added(r) /\ Rows' /\ Consistent'
<1>0. TypeOK /\ Consistent
  BY DEF AccountsInv
<1>1. Mild(r) /\ Added(r)
  BY DEF Mild, Added, Live
<1>2. Rows'
  BY <1>0 DEF Rows, TypeOK
<1>3. Consistent'
  BY <1>0 DEF Consistent, AlwaysAnOwner, Owners
<1> QED
  BY <1>1, <1>2, <1>3

\* What the update that revokes the sessions of a user does.
LEMMA CloseTells ==
  ASSUME TypeOK, NEW u, CloseSessions(u)
  PROVE  /\ sessions' \in [Asked -> SessionRow \cup {Nothing}]
         /\ \A s \in Asked : sessions[s] # Nothing =>
              /\ sessions'[s] # Nothing /\ sessions'[s].user = sessions[s].user
              /\ sessions[s].revoked => sessions'[s].revoked
              /\ sessions[s].user = u => sessions'[s].revoked
         /\ \A s \in Asked : sessions[s] = Nothing => sessions'[s] = Nothing
<1>1. \A row \in SessionRow :
        /\ [row EXCEPT !.revoked = TRUE] \in SessionRow
        /\ [row EXCEPT !.revoked = TRUE].user = row.user
        /\ [row EXCEPT !.revoked = TRUE].revoked
  BY DEF SessionRow
<1>2. Nothing \notin SessionRow /\ \A s \in Asked : sessions[s] \in SessionRow \cup {Nothing}
  BY AccountsAssumption DEF TypeOK
<1>3. \A s \in Asked : sessions'[s] = IF s \in SessionsOf(u)
                                        THEN [sessions[s] EXCEPT !.revoked = TRUE]
                                        ELSE sessions[s]
  BY DEF CloseSessions
<1>4. ASSUME NEW s \in Asked
      PROVE  /\ sessions'[s] \in SessionRow \cup {Nothing}
             /\ sessions[s] = Nothing => sessions'[s] = Nothing
             /\ sessions[s] # Nothing =>
                  /\ sessions'[s] # Nothing /\ sessions'[s].user = sessions[s].user
                  /\ sessions[s].revoked => sessions'[s].revoked
                  /\ sessions[s].user = u => sessions'[s].revoked
  <2>1. CASE s \in SessionsOf(u)
    <3>1. /\ sessions[s] \in SessionRow
          /\ sessions'[s] = [sessions[s] EXCEPT !.revoked = TRUE]
      BY <1>2, <1>3, <2>1 DEF SessionsOf
    <3> QED
      BY <1>1, <1>2, <3>1
  <2>2. CASE s \notin SessionsOf(u)
    BY <1>2, <1>3, <2>2 DEF SessionsOf
  <2> QED
    BY <2>1, <2>2
<1>5. sessions' \in [Asked -> SessionRow \cup {Nothing}]
  BY <1>4 DEF CloseSessions
<1> QED
  BY <1>4, <1>5

\* A reset or a logout ends with the sessions of its user closed.
LEMMA CloseKeeps ==
  ASSUME AccountsInv, NEW r \in Req, ResetSessions(r) \/ Logout(r)
  PROVE  AccountsInv'
<1>0. TypeOK /\ Consistent /\ Own(r) /\ UNCHANGED <<business, members, users, tokens>>
  BY DEF AccountsInv, ResetSessions, Logout
<1>1. ASSUME NEW o, Chosen(r, o), pc[r] # "done", NEW u, CloseSessions(u),
             NEW answer \in {"reset", "logout"}, Answer(r, answer),
             o # Nothing, o.name = answer,
             answer = "reset" => Is(o, {"reset"}) /\ tokens[o.token] # Nothing
                                   /\ u = tokens[o.token].user,
             answer = "logout" => u = o.user
      PROVE  AccountsInv'
  <2>1. /\ sessions' \in [Asked -> SessionRow \cup {Nothing}]
        /\ \A s \in Asked : sessions[s] # Nothing =>
              /\ sessions'[s] # Nothing /\ sessions'[s].user = sessions[s].user
              /\ sessions[s].revoked => sessions'[s].revoked
              /\ sessions[s].user = u => sessions'[s].revoked
        /\ \A s \in Asked : sessions[s] = Nothing => sessions'[s] = Nothing
    BY <1>0, <1>1, CloseTells
  <2>2. Mild(r) /\ Added(r) /\ Rows' /\ Consistent'
    BY <1>0, <2>1, SessionsMild
  <2>3. /\ Local(r) /\ pc'[r] = "done" /\ result'[r] = answer /\ op'[r] = o
        /\ BeforeEnded(r)
    BY <1>1, AnswerLocal DEF Results
  <2>4. Closed(r)'
    <3>1. \A s \in before'[r] : s \in Asked
      BY <2>3 DEF Local
    <3> QED
      BY <1>0, <1>1, <2>1, <2>3, <3>1 DEF Closed
  <2>5. Told(r)'
    BY <1>0, <1>1, <2>3 DEF Told, Is
  <2>6. Own(r)'
    BY <1>1, <2>3, <2>4, <2>5 DEF Own, Knows, KnowsAt, Decided, Fresh, Revoked, Later,
       Approved, BeforeEnded
  <2> QED
    BY <2>2, <2>3, <2>6, StepKeeps
<1>2. CASE ResetSessions(r)
  <2>1. /\ Same /\ Chosen(r, op[r]) /\ pc[r] = "sessions" /\ CloseSessions(memo[r])
        /\ Answer(r, "reset")
    BY <1>2, SameChosen DEF ResetSessions
  <2>2. /\ Is(op[r], {"reset"}) /\ tokens[op[r].token] # Nothing
        /\ memo[r] = tokens[op[r].token].user
    BY <1>0, <2>1 DEF Own, Knows, KnowsAt
  <2>3. op[r] # Nothing /\ op[r].name = "reset"
    BY <2>2, AccountsAssumption DEF Is
  <2> QED
    BY <1>1, <2>1, <2>2, <2>3
<1>3. CASE Logout(r)
  <2>1. PICK o \in Operations :
          Starts(r, "logout", o) /\ CloseSessions(o.user) /\ Answer(r, "logout")
    BY <1>3 DEF Logout
  <2>2. Chosen(r, o) /\ pc[r] # "done" /\ o.name = "logout" /\ o # Nothing
    BY <2>1, StartsChosen
  <2>3. "logout" \in {"reset", "logout"} /\ "logout" # "reset"
    OBVIOUS
  <2> QED
    BY <1>1, <2>1, <2>2, <2>3
<1> QED
  BY <1>2, <1>3

\* A session is opened for a user with a row.
LEMMA OpenSessionKeeps ==
  ASSUME AccountsInv, NEW r \in Req, OpenSession(r)
  PROVE  AccountsInv'
<1>0. /\ TypeOK /\ Consistent /\ Own(r) /\ Same /\ pc[r] = "session" /\ r \in Asked
      /\ UNCHANGED <<business, members, users, tokens>> /\ Chosen(r, op[r])
      /\ sessions' = [sessions EXCEPT ![r] = [user |-> memo[r], revoked |-> FALSE]]
      /\ Answer(r, "login") /\ Is(op[r], {"login"}) /\ memo[r] \in User
      /\ sessions[r] = Nothing
  BY SameChosen DEF AccountsInv, Own, Knows, KnowsAt, HasRow, Fresh, OpenSession, Asked
<1>1. [user |-> memo[r], revoked |-> FALSE] \in SessionRow
  BY <1>0 DEF SessionRow
<1>2. /\ sessions' \in [Asked -> SessionRow \cup {Nothing}]
      /\ \A s \in Asked \ {r} : sessions'[s] = sessions[s]
  BY <1>0, <1>1 DEF TypeOK
<1>3. \A s \in Asked : sessions[s] # Nothing => sessions'[s] = sessions[s]
  BY <1>0, <1>2
<1>4. Mild(r) /\ Added(r) /\ Rows' /\ Consistent'
  BY <1>0, <1>2, <1>3, SessionsMild
<1> QED
  BY <1>0, <1>4, WriteEnds DEF Results, Is

-----------------------------------------------------------------------------
(* The steps that write the members.                                       *)

\* A step that changes members alone and leaves an owner.
LEMMA MembersConsistent ==
  ASSUME AccountsInv, NEW r \in Req,
         UNCHANGED <<business, users, tokens, sessions>>,
         members' \in [User -> Roles \cup {NoRole}],
         \A u \in User : members'[u] # NoRole => business.exists /\ users[u] # "absent",
         business.exists => \E u \in User : members'[u] = "owner"
  PROVE  Mild(r) /\ Rows' /\ Consistent'
<1>0. TypeOK /\ Consistent
  BY DEF AccountsInv
<1>1. Mild(r) /\ Rows'
  BY <1>0 DEF Mild, Live, Rows, TypeOK
<1>2. Consistent'
  BY <1>0 DEF Consistent, AlwaysAnOwner, Owners
<1> QED
  BY <1>1, <1>2

\* A membership is inserted only where there was none.
LEMMA JoinKeeps ==
  ASSUME AccountsInv, NEW r \in Req, Join(r)
  PROVE  AccountsInv'
<1>0. /\ TypeOK /\ Consistent /\ Same /\ pc[r] = "join" /\ Chosen(r, op[r])
      /\ UNCHANGED <<business, users, tokens, sessions>>
      /\ Is(op[r], {"add"}) /\ HasRow(memo[r]) /\ business.exists
  BY SameChosen DEF AccountsInv, Own, Knows, KnowsAt, Join
<1>1. op[r].role \in Roles /\ op[r].name = "add"
  BY <1>0, OperationFields DEF Is
<1>2. CASE members[memo[r]] # NoRole
  BY <1>0, <1>1, <1>2, AnswerKeeps DEF Join, Results, tables
<1>3. CASE members[memo[r]] = NoRole
  <2>1. members' = [members EXCEPT ![memo[r]] = op[r].role] /\ Answer(r, "joined")
    BY <1>3 DEF Join
  <2>2. /\ members' \in [User -> Roles \cup {NoRole}]
        /\ \A u \in User : members[u] # NoRole => members'[u] = members[u]
        /\ \A u \in User : members'[u] # NoRole => business.exists /\ users[u] # "absent"
    BY <1>0, <1>1, <1>3, <2>1 DEF TypeOK, Consistent, HasRow
  <2>3. \E u \in User : members'[u] = "owner"
    <3>1. NoRole # "owner"
      BY AccountsAssumption DEF Roles
    <3> QED
      BY <1>0, <2>2, <3>1 DEF Consistent, AlwaysAnOwner, Owners
  <2>4. Mild(r) /\ Rows' /\ Consistent' /\ Added(r)
    BY <1>0, <2>2, <2>3, MembersConsistent DEF Added
  <2> QED
    BY <1>0, <1>1, <2>1, <2>4, WriteEnds DEF Results
<1> QED
  BY <1>2, <1>3

\* A role changes under the lock, and somebody else is an owner.
LEMMA ManageKeeps ==
  ASSUME AccountsInv, NEW r \in Req, Manage(r)
  PROVE  AccountsInv'
<1>0. /\ TypeOK /\ Consistent /\ Same /\ pc[r] = "write" /\ Chosen(r, op[r])
      /\ UNCHANGED <<business, users, tokens, sessions>>
      /\ members' = [members EXCEPT ![memo[r]] = op[r].role] /\ Answer(r, "managed")
      /\ Is(op[r], {"manage"}) /\ memo[r] \in User
      /\ members[memo[r]] # NoRole
      /\ \E w \in User \ {memo[r]} : IsOwner(w)
  BY SameChosen DEF AccountsInv, Own, Knows, KnowsAt, Decided, Manage
<1>1. op[r].role \in Roles \cup {NoRole} /\ op[r].name = "manage"
  BY <1>0, OperationFields DEF Is
<1>2. /\ members' \in [User -> Roles \cup {NoRole}]
      /\ \A u \in User : members'[u] # NoRole => business.exists /\ users[u] # "absent"
  BY <1>0, <1>1 DEF TypeOK, Consistent
<1>3. \E u \in User : members'[u] = "owner"
  BY <1>0 DEF TypeOK, IsOwner
<1>4. Mild(r) /\ Rows' /\ Consistent'
  BY <1>0, <1>2, <1>3, MembersConsistent
<1> QED
  BY <1>0, <1>1, <1>4, WriteEnds DEF Results, Added

-----------------------------------------------------------------------------

\* A token that expires is only one less that is live.
LEMMA ExpireKeeps ==
  ASSUME AccountsInv, NEW t \in Lapsing, Expire(t)
  PROVE  AccountsInv'
<1>0. /\ TypeOK /\ Consistent /\ t \in Asked /\ tokens[t] # Nothing
      /\ tokens' = [tokens EXCEPT ![t].state = "expired"]
      /\ UNCHANGED <<business, members, users, sessions, lock, pc, op, memo, result, before>>
  BY AccountsAssumption DEF AccountsInv, Expire, Live
<1>1. /\ tokens' \in [Asked -> TokenRow \cup {Nothing}]
      /\ \A s \in Asked : tokens[s] # Nothing =>
           /\ tokens'[s] # Nothing
           /\ tokens'[s].user = tokens[s].user /\ tokens'[s].kind = tokens[s].kind
           /\ Live(s)' => Live(s)
      /\ \A s \in Asked : tokens[s] = Nothing => tokens'[s] = Nothing
  BY <1>0, Restated, RestatedMild
<1>2. TypeOK'
  BY <1>0, <1>1 DEF TypeOK
<1>3. Consistent'
  BY <1>0, <1>1 DEF Consistent, AlwaysAnOwner, Owners
<1>4. ASSUME NEW s \in Req
      PROVE  Own(s)'
  <2>0. Own(s) /\ s \in Asked /\ \A b \in before[s] : b \in Asked
    BY <1>0 DEF AccountsInv, Asked, TypeOK
  <2>1. op[s] \in Operations /\ op[s].name \in {"accept", "reset"} => op[s].token \in Asked
    BY OperationFields
  <2>2. Knows(s)' /\ Decided(s)' /\ Told(s)' /\ Approved(s)'
    <3>1. Knows(s)'
      BY <1>0, <1>1, <2>0, <2>1 DEF Own, Knows, KnowsAt, Is, HasRow
    <3>2. Decided(s)' /\ Approved(s)'
      BY <1>0, <2>0 DEF Own, Decided, IsOwner, Approved
    <3>3. Told(s)'
      BY <1>0, <1>1, <2>0, <2>1 DEF Own, Told, Is
    <3> QED
      BY <3>1, <3>2, <3>3
  <2>3. Fresh(s)'
    BY <1>0, <1>1, <2>0 DEF Own, Fresh
  <2>4. Revoked(s)'
    <3>1. KindOf(s)' = KindOf(s)
      BY <1>0 DEF KindOf
    <3> QED
      BY <1>0, <1>1, <2>0, <3>1 DEF Own, Revoked, SameUse
  <2>5. Later(s)'
    BY <1>0, <1>1, <2>0 DEF Own, Told, Later, SameUse
  <2>6. Closed(s)'
    BY <1>0, <1>1, <2>0, <2>1 DEF Own, Told, Is, Closed
  <2> QED
    BY <2>2, <2>3, <2>4, <2>5, <2>6 DEF Own
<1> QED
  BY <1>2, <1>3, <1>4 DEF AccountsInv

-----------------------------------------------------------------------------
(* The invariant.                                                          *)

\* Whatever business, roster and tokens there are at first.
LEMMA AccountsInit == Init => AccountsInv
<1> SUFFICES ASSUME Init PROVE AccountsInv
  OBVIOUS
<1>1. NoRole # "owner"
  BY AccountsAssumption DEF Roles
<1>2. TypeOK
  <2>1. /\ business \in [exists : BOOLEAN, pending : BOOLEAN, active : BOOLEAN]
        /\ members \in [User -> Roles \cup {NoRole}] /\ users \in [User -> Accounts]
        /\ \A u \in User : members[u] # NoRole => users[u] # "absent"
    BY AccountsAssumption DEF Init
  <2>2. tokens \in [Asked -> TokenRow \cup {Nothing}]
    BY AccountsAssumption DEF Init
  <2>3. sessions \in [Asked -> SessionRow \cup {Nothing}]
    BY AccountsAssumption DEF Init
  <2>4. /\ lock \in Req \cup {Nobody} /\ pc \in [Req -> Steps]
        /\ op \in [Req -> Operations \cup {Nothing}] /\ memo \in [Req -> User \cup {Nobody}]
        /\ result \in [Req -> Results] /\ before \in [Req -> SUBSET Asked]
    BY DEF Init, Steps, Results
  <2>5. \A r \in Req : pc[r] = "idle"
    BY DEF Init
  <2> QED
    BY <2>1, <2>2, <2>3, <2>4, <2>5 DEF TypeOK
<1>3. Consistent
  <2>1. business.active => business.exists
    BY AccountsAssumption DEF Init
  <2>2. /\ \A u \in User : members[u] # NoRole => business.exists
        /\ AlwaysAnOwner
    BY DEF Init, AlwaysAnOwner, Owners
  <2>3. \A t \in Asked : tokens[t] # Nothing => users[tokens[t].user] # "absent"
    BY DEF Init
  <2> QED
    BY <2>1, <2>2, <2>3 DEF Consistent
<1>4. ASSUME NEW r \in Req
      PROVE  Own(r)
  <2>1. /\ pc[r] = "idle" /\ op[r] = Nothing /\ result[r] = "none" /\ before[r] = {}
        /\ r \in Asked /\ r \notin Earlier
    BY AccountsAssumption DEF Init, Asked
  <2>2. tokens[r] = Nothing /\ sessions[r] = Nothing
    BY <2>1 DEF Init
  <2> QED
    BY <2>1, <2>2 DEF Own, Knows, KnowsAt, Decided, Fresh, Revoked, Later, Closed, Told,
       Approved
<1> QED
  BY <1>2, <1>3, <1>4 DEF AccountsInv

\* Every step keeps the invariant.
LEMMA AccountsStep == AccountsInv /\ [Next]_vars => AccountsInv'
<1> SUFFICES ASSUME AccountsInv, [Next]_vars PROVE AccountsInv'
  OBVIOUS
<1>1. ASSUME NEW r \in Req, Arrive(r)
      PROVE  AccountsInv'
  BY <1>1, RegisterKeeps, BeginKeeps, BusinessKeeps, CloseKeeps DEF Arrive
<1>2. ASSUME NEW r \in Req, Approve(r) \/ Invite(r)
      PROVE  AccountsInv'
  BY <1>2, BusinessKeeps, ReadKeeps, CreateUserKeeps, RevokeTokensKeeps, IssueTokenKeeps,
     SpendKeeps DEF Approve, Invite
<1>3. ASSUME NEW r \in Req, Session(r) \/ Members(r)
      PROVE  AccountsInv'
  BY <1>3, CloseKeeps, ReadKeeps, OpenSessionKeeps, JoinKeeps, EnterManageKeeps,
     ManageKeeps DEF Session, Members
<1>4. ASSUME UNCHANGED vars
      PROVE  AccountsInv'
  <2> USE DEF vars, tables
  <2>1. TypeOK' /\ Consistent'
    BY <1>4 DEF AccountsInv, TypeOK, Consistent, AlwaysAnOwner, Owners
  <2>2. ASSUME NEW r \in Req PROVE Own(r)'
    <3>1. Own(r)
      BY DEF AccountsInv
    <3>2. Knows(r)' /\ Decided(r)' /\ Fresh(r)'
      BY <1>4, <3>1 DEF Own, Knows, KnowsAt, HasRow, Decided, IsOwner, Fresh
    <3>3. Revoked(r)' /\ Later(r)'
      BY <1>4, <3>1 DEF Own, Revoked, Later, SameUse, KindOf, Live
    <3>4. Closed(r)' /\ Told(r)' /\ Approved(r)'
      BY <1>4, <3>1 DEF Own, Closed, Told, Approved
    <3> QED
      BY <3>2, <3>3, <3>4 DEF Own
  <2> QED
    BY <2>1, <2>2 DEF AccountsInv
<1> QED
  BY <1>1, <1>2, <1>3, <1>4, ExpireKeeps, LeaveKeeps DEF Next

\* The inductive invariant holds in every reachable state.
THEOREM AccountsSafe == Spec => []AccountsInv
BY AccountsInit, AccountsStep, PTL DEF Spec

-----------------------------------------------------------------------------
(* The theorems.                                                           *)

\* Every variable of the accounts stays in its domain, and a request that needs
\* a user works on one that has a row.
THEOREM AccountsTyped == Spec => []TypeOK
<1>1. AccountsInv => TypeOK
  BY DEF AccountsInv
<1> QED
  BY <1>1, AccountsSafe, PTL

\* change_role and revoke_membership never leave a registered business without
\* an owner, whoever demotes or removes whom at the same time.
THEOREM OwnersRemain == Spec => []AlwaysAnOwner
<1>1. AccountsInv => AlwaysAnOwner
  BY DEF AccountsInv, Consistent
<1> QED
  BY <1>1, AccountsSafe, PTL

\* Between the transaction that revokes the user's tokens and the one that
\* issues the new one no earlier request slips a live token in.
THEOREM LaterRevokes == Spec => []LaterRequestRevokes
<1>1. AccountsInv => LaterRequestRevokes
  BY DEF AccountsInv, Own, Later, SameUse, LaterRequestRevokes
<1> QED
  BY <1>1, AccountsSafe, PTL

\* reset_password and a logout close every session that was open when they began.
THEOREM SessionsClosed == Spec => []NoSessionSurvives
<1>1. AccountsInv => NoSessionSurvives
  BY DEF AccountsInv, Own, Closed, NoSessionSurvives
<1> QED
  BY <1>1, AccountsSafe, PTL

\* approve_business, which has taken the business out of pending, always finds an
\* owner to invite.
THEOREM ApprovalsInvite == Spec => []ApprovedOwnersAreInvited
<1>1. AccountsInv => ApprovedOwnersAreInvited
  <2> SUFFICES ASSUME AccountsInv, NEW r \in Req, pc[r] \in {"idle", "done"},
                      op[r] # Nothing, op[r].name = "approve", result[r] # "refused"
               PROVE  result[r] \in {"crashed", "issued"}
    BY DEF ApprovedOwnersAreInvited
  <2> QED
    BY DEF AccountsInv, Own, Approved
<1> QED
  BY <1>1, AccountsSafe, PTL

-----------------------------------------------------------------------------
(* The refinement: each step is a step of Roster, or none.                 *)

\* The states of the tokens, as Roster sees them.
LEMMA TokenStates ==
  ASSUME NEW t \in Asked
  PROVE  /\ tokens[t] = Nothing => TokenState(t) = "none"
         /\ Live(t) => TokenState(t) = "live"
         /\ tokens[t] # Nothing /\ tokens[t].state = "used" => TokenState(t) = "spent"
         /\ tokens[t] # Nothing /\ tokens[t].state \in {"revoked", "expired"} =>
              TokenState(t) = "dead"
BY DEF TokenState, Live

\* Live tokens die; nothing else happens.
LEMMA TokensDie ==
  ASSUME TypeOK, NEW T \in SUBSET Asked, \A t \in T : Live(t),
         \A t \in T : tokens'[t] # Nothing /\ tokens'[t].state \in {"revoked", "expired"},
         \A t \in Asked \ T : tokens'[t] = tokens[t], UNCHANGED members
  PROVE  R!Next
<1> DEFINE token == [t \in Asked |-> TokenState(t)]
<1>1. \A t \in T : token[t] = "live" /\ token'[t] = "dead"
  BY TokenStates, AccountsAssumption DEF TokenState
<1>2. \A t \in Asked \ T : token'[t] = token[t]
  BY DEF TokenState
<1>3. token' = [t \in Asked |-> IF token'[t] = "dead" THEN "dead" ELSE token[t]]
  <2>1. \A t \in Asked : token'[t] = IF token'[t] = "dead" THEN "dead" ELSE token[t]
    BY <1>1, <1>2
  <2> QED
    BY <2>1
<1>4. \A t \in Asked : token'[t] # token[t] => token[t] = "live"
  BY <1>1, <1>2
<1>5. R!Die
  BY <1>3, <1>4 DEF R!Die
<1> QED
  BY <1>5 DEF R!Next

\* Every step of a request is a step of Roster, or leaves it alone.
LEMMA RequestOfRoster ==
  ASSUME AccountsInv, NEW r \in Req,
         \/ Arrive(r) \/ Approve(r) \/ Invite(r) \/ Session(r) \/ Members(r)
         \/ LockTimeout(r) \/ Crash(r)
  PROVE  R!Next \/ UNCHANGED R!vars
<1> DEFINE token == [t \in Asked |-> TokenState(t)]
<1>0. TypeOK /\ Consistent /\ Own(r) /\ r \in Asked
  BY DEF AccountsInv, Asked
<1>1. ASSUME UNCHANGED <<members, tokens>> PROVE UNCHANGED R!vars
  BY <1>1 DEF R!vars, TokenState
<1>2. ASSUME UNCHANGED tokens PROVE token' = token
  BY <1>2 DEF TokenState
<1>3. CASE Arrive(r)
  <2>1. CASE Register(r)
    <3>1. PICK o \in Operations :
            /\ Starts(r, "register", o) /\ UNCHANGED tokens
            /\ \/ UNCHANGED members
               \/ ~business.exists /\ members' = [members EXCEPT ![o.user] = "owner"]
      BY <2>1 DEF Register
    <3>2. CASE UNCHANGED members
      BY <1>1, <3>1, <3>2
    <3>3. CASE ~business.exists /\ members' = [members EXCEPT ![o.user] = "owner"]
      <4>1. members = [v \in User |-> NoRole]
        BY <1>0, <3>3 DEF TypeOK, Consistent
      <4>2. PICK u \in User : u = o.user
        BY <3>1, StartsChosen, OperationFields
      <4>3. R!Found(u)
        BY <1>2, <3>1, <3>3, <4>1, <4>2 DEF R!Found
      <4> QED
        BY <4>3 DEF R!Next
    <3> QED
      BY <3>1, <3>2, <3>3
  <2>2. CASE Arrive(r) /\ ~Register(r)
    <3>1. UNCHANGED <<members, tokens>>
      BY <2>2 DEF Arrive, BeginApprove, SetActive, BeginResend, BeginInvite, BeginForgot,
         BeginSpend, BeginLogin, Logout, BeginManage, tables
    <3> QED
      BY <1>1, <3>1
  <2> QED
    BY <1>3, <2>1, <2>2
<1>4. CASE Approve(r) \/ Session(r) \/ LookUp(r) \/ CreateUser(r) \/ RecheckAdd(r)
             \/ EnterManage(r) \/ LockTimeout(r) \/ Crash(r)
  <2>1. UNCHANGED <<members, tokens>>
    BY <1>4 DEF Approve, Unpend, Open, FindOwner, Session, ResetSessions, LoginMember,
       OpenSession, LookUp, CreateUser, RecheckAdd, EnterManage, LockTimeout, Crash, tables
  <2> QED
    BY <1>1, <2>1
<1>5. CASE RevokeTokens(r)
  <2>1. PICK T \in SUBSET Asked :
          T = LiveOf(memo[r], IF KindOf(r) = "reset" THEN {"reset"} ELSE Invitations)
    BY DEF LiveOf
  <2>2. (\A t \in T : Live(t)) /\ Revoke(T) /\ UNCHANGED members
    BY <1>5, <2>1 DEF RevokeTokens, LiveOf
  <2>3. \A t \in T : tokens[t] # Nothing
    BY <2>2 DEF Live
  <2>4. \A t \in T : tokens'[t] # Nothing /\ tokens'[t].state \in {"revoked", "expired"}
    BY <1>0, <2>2, <2>3, RevokeTells
  <2>5. \A t \in Asked \ T : tokens'[t] = tokens[t]
    BY <2>2 DEF Revoke
  <2> QED
    BY <1>0, <2>2, <2>4, <2>5, TokensDie
<1>6. CASE IssueToken(r)
  <2>1. /\ tokens' = [tokens EXCEPT ![r] =
                        [kind |-> KindOf(r), user |-> memo[r], state |-> "live"]]
        /\ tokens[r] = Nothing /\ UNCHANGED members
    BY <1>0, <1>6 DEF IssueToken, Issue, Own, Fresh
  <2>2. tokens'[r] # Nothing /\ tokens'[r].state = "live"
    <3>1. [kind |-> KindOf(r), user |-> memo[r], state |-> "live"] \in TokenRow
      BY <1>0, <1>6 DEF TokenRow, KindOf, Invitations, IssueToken, Issue, Own, Knows, KnowsAt, HasRow
    <3> QED
      BY <1>0, <2>1, <3>1, AccountsAssumption DEF TypeOK
  <2>3. token[r] = "none" /\ token'[r] = "live"
    BY <1>0, <2>1, <2>2 DEF TokenState
  <2>4. \A t \in Asked \ {r} : token'[t] = token[t]
    BY <1>0, <2>1 DEF TokenState, TypeOK
  <2>5. token' = [token EXCEPT ![r] = "live"]
    BY <2>3, <2>4
  <2>6. R!Issue(r)
    BY <2>1, <2>3, <2>5 DEF R!Issue
  <2> QED
    BY <1>0, <2>6 DEF R!Next
<1>7. CASE Spend(r)
  <2>1. /\ Is(op[r], {"accept", "reset"}) /\ tokens[op[r].token] # Nothing
        /\ memo[r] = tokens[op[r].token].user
        /\ tokens[op[r].token].kind = "reset" <=> op[r].name = "reset"
        /\ op[r].name = "accept" => business.exists
    BY <1>0, <1>7 DEF Own, Knows, KnowsAt, Spend, Consume
  <2>2. PICK t \in Asked : t = op[r].token
    BY <2>1, OperationFields DEF Is
  <2>3. PICK u \in User : u = memo[r]
    BY <1>0, <2>1, <2>2 DEF TypeOK, TokenRow
  <2>4. PICK role \in Roles \cup {NoRole} : op[r].name = "accept" => role = tokens[t].kind
    BY <1>0, <2>1, <2>2 DEF TypeOK, TokenRow, Invitations, Roles
  <2>5. CASE UNCHANGED <<members, tokens>>
    BY <1>1, <2>5
  <2>6. CASE /\ Live(t) /\ tokens' = [tokens EXCEPT ![t].state = "used"]
             /\ \/ UNCHANGED members
                \/ /\ op[r].name = "accept" /\ members[u] = NoRole
                   /\ members' = [members EXCEPT ![u] = tokens[t].kind]
    <3>1. /\ tokens'[t] \in TokenRow /\ tokens'[t].state = "used"
          /\ \A s \in Asked \ {t} : tokens'[s] = tokens[s]
      BY <1>0, <2>1, <2>2, <2>6, Restated
    <3>2. token[t] = "live" /\ token'[t] = "spent"
      BY <2>6, <3>1, AccountsAssumption DEF TokenState, Live
    <3>3. \A s \in Asked \ {t} : token'[s] = token[s]
      BY <3>1 DEF TokenState
    <3>4. token' = [token EXCEPT ![t] = "spent"]
      BY <3>2, <3>3
    <3>5. op[r].name = "accept" => role \in Roles
      BY <1>0, <2>1, <2>2, <2>4 DEF TypeOK, TokenRow, Invitations, Roles
    <3>6. op[r].name = "accept" => Owners # {}
      BY <1>0, <2>1 DEF Consistent, AlwaysAnOwner
    <3>7. R!Spend(t)
      BY <2>4, <2>6, <3>2, <3>4, <3>5, <3>6 DEF R!Spend, R!Owners, Owners
    <3> QED
      BY <3>7 DEF R!Next
  <2> QED
    BY <1>7, <2>2, <2>3, <2>5, <2>6 DEF Spend, Consume, StillLive
<1>8. CASE Join(r)
  <2>1. /\ Is(op[r], {"add"}) /\ HasRow(memo[r]) /\ business.exists /\ UNCHANGED tokens
    BY <1>0, <1>8 DEF Own, Knows, KnowsAt, Join
  <2>2. PICK u \in User, role \in R!Grantable : u = memo[r] /\ role = op[r].role
    BY <2>1, OperationFields DEF Is, HasRow, R!Grantable
  <2>3. CASE members[u] # NoRole
    BY <1>1, <1>8, <2>1, <2>2, <2>3 DEF Join
  <2>4. CASE members[u] = NoRole
    <3>1. R!Join(u, role)
      BY <1>0, <1>2, <1>8, <2>1, <2>2, <2>4 DEF Join, R!Join, R!Owners, Consistent,
         AlwaysAnOwner, Owners
    <3> QED
      BY <3>1 DEF R!Next
  <2> QED
    BY <2>3, <2>4
<1>9. CASE Manage(r)
  <2>1. /\ Is(op[r], {"manage"}) /\ memo[r] \in User /\ UNCHANGED tokens
        /\ IsOwner(op[r].actor) /\ members[memo[r]] # NoRole
        /\ \E w \in User \ {memo[r]} : IsOwner(w)
        /\ members' = [members EXCEPT ![memo[r]] = op[r].role]
    BY <1>0, <1>9 DEF Own, Knows, KnowsAt, Decided, Manage
  <2>2. PICK actor \in User, u \in User, role \in R!Grantable \cup {NoRole} :
          actor = op[r].actor /\ u = memo[r] /\ role = op[r].role
    BY <2>1, OperationFields DEF Is, R!Grantable
  <2>3. R!Owners # {u}
    BY <2>1, <2>2 DEF R!Owners, IsOwner
  <2>4. R!Manage(actor, u, role)
    BY <1>2, <2>1, <2>2, <2>3 DEF R!Manage, IsOwner
  <2> QED
    BY <2>4 DEF R!Next
<1> QED
  BY <1>3, <1>4, <1>5, <1>6, <1>7, <1>8, <1>9 DEF Invite, Members

\* However the requests interleave and wherever they crash, the members and the
\* tokens are those of atomic steps: only an owner manages, never the last owner
\* away, and a token is spent once, while it is live.
THEOREM AccountsImplementRoster == Spec => ImplementsRoster
<1>1. Init => R!Init
  <2> SUFFICES ASSUME Init PROVE R!Init
    OBVIOUS
  <2>1. TypeOK /\ Consistent
    BY AccountsInit DEF AccountsInv
  <2>2. \A t \in Asked : TokenState(t) \in {"none", "live"}
    BY AccountsAssumption DEF Init, TokenState
  <2>3. R!Owners = {} => members = [u \in User |-> NoRole]
    BY <2>1 DEF Init, R!Owners, TypeOK
  <2> QED
    BY <2>1, <2>2, <2>3 DEF R!Init, TypeOK
<1>2. AccountsInv /\ [Next]_vars => [R!Next]_(R!vars)
  <2> SUFFICES ASSUME AccountsInv, [Next]_vars PROVE R!Next \/ UNCHANGED R!vars
    OBVIOUS
  <2>1. ASSUME NEW t \in Lapsing, Expire(t) PROVE R!Next
    <3>1. TypeOK /\ t \in Asked /\ Live(t) /\ UNCHANGED members
          /\ tokens' = [tokens EXCEPT ![t].state = "expired"]
      BY <2>1, AccountsAssumption DEF AccountsInv, Expire
    <3>2. /\ tokens'[t] \in TokenRow /\ tokens'[t].state = "expired"
          /\ \A s \in Asked \ {t} : tokens'[s] = tokens[s]
      <4>1. tokens[t] # Nothing
        BY <3>1 DEF Live
      <4> QED
        BY <3>1, <4>1, Restated
    <3>3. PICK T \in SUBSET Asked : T = {t}
      BY <3>1
    <3>4. tokens'[t] # Nothing
      BY <3>2, AccountsAssumption
    <3> QED
      BY <3>1, <3>2, <3>3, <3>4, TokensDie
  <2>2. UNCHANGED vars => UNCHANGED R!vars
    BY DEF vars, tables, R!vars, TokenState
  <2> QED
    BY <2>1, <2>2, RequestOfRoster DEF Next
<1> QED
  BY <1>1, <1>2, AccountsSafe, PTL DEF Spec, ImplementsRoster, R!Spec
===============================================================================
