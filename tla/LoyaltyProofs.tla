---------------------------- MODULE LoyaltyProofs ----------------------------
(***************************************************************************)
(* Proofs about Loyalty, for any number of requests, customers,            *)
(* appointments, rewards and keys.                                         *)
(***************************************************************************)
EXTENDS Loyalty, FiniteSetTheorems, TLAPS

-----------------------------------------------------------------------------
(* The inductive invariant.                                                *)

Doing(r, names) == op[r] \in Operations /\ op[r].name \in names

\* What a request has made sure of before the step it is at.
Checked(r) ==
  /\ pc[r] \in {"award", "rate"} => Doing(r, {"status"})
  /\ pc[r] = "earn" => /\ Doing(r, {"status"})
                       /\ memo[r].phone = PhoneOf[op[r].appt] /\ memo[r].n > 0
  /\ pc[r] = "adjust" => Doing(r, {"adjust"})
  /\ pc[r] = "redeem" => Doing(r, {"redeem"})
  /\ pc[r] \in {"ensure", "settings"} => Doing(r, {"settings"}) /\ op[r].points >= 0
  /\ pc[r] = "toggle" => Doing(r, {"toggle"}) /\ memo[r].n > 0
  /\ pc[r] \in {"earn", "adjust", "redeem", "move"} => memo[r].phone \in Phone
  /\ pc[r] # "done" => result[r] = "none"

\* What a request that moves points knows as long as it holds the lock.
Holding(r) ==
  pc[r] = "move" =>
    /\ lock = r
    /\ memo[r].sum = total[memo[r].phone] + memo[r].n /\ memo[r].sum >= 0
    /\ Doing(r, {"status", "adjust", "redeem"})
    /\ op[r].name = "status" => /\ ~Earned(op[r].appt) /\ memo[r].n > 0
                                /\ memo[r].phone = PhoneOf[op[r].appt]
    /\ op[r].name = "redeem" => ~Redeemed(op[r].key) /\ memo[r].n < 0

\* Each redemption has its movement, each movement of a redemption one redemption.
Paid ==
  /\ \A x \in redemptions : \E m \in ledger :
       m.type = "redeem" /\ m.of = x.key /\ m.phone = x.phone /\ m.delta = -x.cost
  /\ \A m \in ledger : m.type = "redeem" => \E x \in redemptions : x.key = m.of
  /\ \A x, y \in redemptions : x.key = y.key => x = y

LoyaltyInv ==
  /\ TypeOK /\ NeverOverdrawn /\ Paid
  /\ \A r \in Req : Checked(r) /\ Holding(r)

\* A completed appointment was paid, or a request that completed it is still on
\* its way to pay, or ended for a reason.
Answers(r, a) ==
  /\ op[r] # Nothing /\ op[r].name = "status" /\ op[r].appt = a
  /\ \/ pc[r] \in {"award", "rate", "earn", "move"}
     \/ result[r] \in {"crashed", "error", "disabled", "missing_phone"}

Accounted ==
  \A a \in Appt : status[a] = "completed" => Earned(a) \/ \E r \in Req : Answers(r, a)

-----------------------------------------------------------------------------
(* Lemmas about requests and the shape of steps.                           *)

\* A request that has read nothing yet has a memo.
LEMMA BlankIsMemo == Blank \in Memo
BY DEF Blank, Memo

\* What a request remembers may change field by field.
LEMMA MemoWith ==
  ASSUME NEW m \in Memo, NEW n \in Int, NEW p \in Phone \cup {NoPhone}
  PROVE  /\ [m EXCEPT !.n = n] \in Memo /\ [m EXCEPT !.n = n].n = n
         /\ [m EXCEPT !.phone = p] \in Memo /\ [m EXCEPT !.phone = p].phone = p
<1>1. [m EXCEPT !.n = n] \in Memo
  BY DEF Memo
<1>2. [m EXCEPT !.phone = p] \in Memo
  BY DEF Memo
<1>3. [m EXCEPT !.n = n].n = n /\ [m EXCEPT !.phone = p].phone = p
  BY DEF Memo
<1> QED
  BY <1>1, <1>2, <1>3

\* A request that starts remembers points, a customer or both.
LEMMA BlankWith ==
  ASSUME NEW n \in Int, NEW p \in Phone \cup {NoPhone}
  PROVE  /\ [Blank EXCEPT !.n = n, !.phone = p] \in Memo
         /\ [Blank EXCEPT !.n = n, !.phone = p].n = n
         /\ [Blank EXCEPT !.n = n, !.phone = p].phone = p
         /\ [Blank EXCEPT !.n = n] \in Memo /\ [Blank EXCEPT !.n = n].n = n
         /\ [Blank EXCEPT !.phone = p] \in Memo /\ [Blank EXCEPT !.phone = p].phone = p
<1> DEFINE m == [Blank EXCEPT !.n = n]
<1>1. m \in Memo /\ m.n = n
  BY BlankIsMemo, MemoWith
<1>2. [m EXCEPT !.phone = p] \in Memo /\ [m EXCEPT !.phone = p].phone = p
  BY <1>1, MemoWith
<1>3. [m EXCEPT !.phone = p].n = n
  BY <1>1 DEF Memo
<1>4. [Blank EXCEPT !.n = n, !.phone = p] = [m EXCEPT !.phone = p]
  BY DEF Blank
<1>5. [Blank EXCEPT !.phone = p] \in Memo /\ [Blank EXCEPT !.phone = p].phone = p
  BY BlankIsMemo, MemoWith
<1> QED
  BY <1>1, <1>2, <1>3, <1>4, <1>5

\* The fields of each kind of operation.
LEMMA OperationFields ==
  ASSUME NEW o \in Operations
  PROVE  /\ o.name = "status" => o.appt \in Appt /\ o.to \in Statuses
         /\ o.name = "adjust" => o.phone \in Phone /\ o.delta \in Int
         /\ o.name = "redeem" => o.phone \in Phone /\ o.reward \in Reward /\ o.key \in Key
         /\ o.name = "settings" => o.enabled \in BOOLEAN /\ o.points \in Int
         /\ o.name = "reward" => /\ o.reward \in Reward /\ o.cost \in Int
                                 /\ o.active \in BOOLEAN
         /\ o.name = "toggle" => o.reward \in Reward /\ o.active \in BOOLEAN
BY LoyaltyAssumption DEF Operation

\* The parts of the typing that a request changes for itself.
Local(r) ==
  /\ pc' \in [Req -> Steps] /\ memo' \in [Req -> Memo] /\ op' \in [Req -> Operations \cup {Nothing}]
  /\ result' \in [Req -> Results] /\ lock' \in Req \cup {Nobody}
  /\ \A s \in Req \ {r} : /\ pc'[s] = pc[s] /\ memo'[s] = memo[s]
                          /\ op'[s] = op[s] /\ result'[s] = result[s]
  /\ lock' = lock \/ lock \in {r, Nobody}

\* The end of a request.
LEMMA EndLocal ==
  ASSUME TypeOK, NEW r \in Req, NEW answer \in Results, End(r, answer),
         op' = op \/ \E o \in Operations : op' = [op EXCEPT ![r] = o]
  PROVE  Local(r) /\ pc'[r] = "done"
BY BlankIsMemo DEF End, Unlock, Local, TypeOK, Steps

\* A request that goes on.
LEMMA GotoLocal ==
  ASSUME TypeOK, NEW r \in Req, NEW step \in Steps, NEW m \in Memo, Goto(r, step, m),
         lock' = lock \/ (lock' = r /\ LockFree(r))
  PROVE  /\ Local(r) /\ pc'[r] = step /\ memo'[r] = m
         /\ op'[r] = op[r] /\ result'[r] = result[r]
BY DEF Goto, LockFree, Local, TypeOK, Steps

\* Starting an operation writes only the request's own cells.
LEMMA BeginLocal ==
  ASSUME TypeOK, NEW r \in Req, NEW step \in Steps, NEW m \in Memo, Begin(r, step, m),
         NEW o \in Operations, op' = [op EXCEPT ![r] = o]
  PROVE  /\ Local(r) /\ pc'[r] = step /\ memo'[r] = m
         /\ op'[r] = o /\ result'[r] = result[r]
BY DEF Begin, Local, TypeOK, Steps

\* A step of one request outside the movements disturbs no other one.
LEMMA OthersKeep ==
  ASSUME LoyaltyInv, NEW r \in Req, Local(r), UNCHANGED <<total, ledger, redemptions>>
  PROVE  \A s \in Req \ {r} : Checked(s)' /\ Holding(s)'
<1> SUFFICES ASSUME NEW s \in Req, s # r PROVE Checked(s)' /\ Holding(s)'
  OBVIOUS
<1>1. Checked(s) /\ Holding(s)
  BY DEF LoyaltyInv
<1>2. Checked(s)'
  BY <1>1 DEF Checked, Doing, Local
<1>3. Holding(s)'
  <2> SUFFICES ASSUME pc'[s] = "move" PROVE Holding(s)'
    BY DEF Holding
  <2>1. lock = s /\ lock' = s
    BY <1>1, LoyaltyAssumption DEF Holding, Local
  <2> QED
    BY <1>1, <2>1 DEF Holding, Doing, Earned, Redeemed, Local
<1> QED
  BY <1>2, <1>3

\* A step that writes none of the tables keeps the invariant when what its
\* request knows stays true.
LEMMA QuietKeeps ==
  ASSUME LoyaltyInv, NEW r \in Req, Local(r), UNCHANGED <<total, ledger, redemptions>>,
         TypeOK', Checked(r)', Holding(r)'
  PROVE  LoyaltyInv'
<1>1. NeverOverdrawn' /\ Paid'
  BY DEF LoyaltyInv, NeverOverdrawn, Paid
<1>2. \A s \in Req : Checked(s)' /\ Holding(s)'
  BY OthersKeep
<1> QED
  BY <1>1, <1>2 DEF LoyaltyInv

\* Ending without a write.
LEMMA AbortKeeps ==
  ASSUME LoyaltyInv, NEW r \in Req, NEW answer \in Results, Abort(r, answer)
  PROVE  LoyaltyInv'
<1>1. Local(r) /\ pc'[r] = "done"
  BY EndLocal DEF Abort, LoyaltyInv
<1>2. TypeOK'
  BY <1>1 DEF Abort, tables, LoyaltyInv, TypeOK, Local
<1>3. Checked(r)' /\ Holding(r)'
  BY <1>1 DEF Checked, Holding
<1> QED
  BY <1>1, <1>2, <1>3, QuietKeeps DEF Abort, tables

\* Refusing a request keeps the invariant.
LEMMA RefuseKeeps ==
  ASSUME LoyaltyInv, NEW r \in Req, NEW answer \in Results, Refuse(r, answer),
         NEW o \in Operations, op' = [op EXCEPT ![r] = o]
  PROVE  LoyaltyInv'
<1>1. Local(r) /\ pc'[r] = "done"
  BY EndLocal DEF Refuse, LoyaltyInv
<1>2. TypeOK'
  BY <1>1 DEF Refuse, tables, LoyaltyInv, TypeOK, Local
<1>3. Checked(r)' /\ Holding(r)'
  BY <1>1 DEF Checked, Holding
<1> QED
  BY <1>1, <1>2, <1>3, QuietKeeps DEF Refuse, tables

\* Going on without a write.
LEMMA GotoKeeps ==
  ASSUME LoyaltyInv, NEW r \in Req, NEW step \in Steps, NEW m \in Memo, Goto(r, step, m),
         UNCHANGED <<status, tables>>, lock' = lock \/ (lock' = r /\ LockFree(r)),
         Checked(r)', Holding(r)'
  PROVE  LoyaltyInv'
<1>1. Local(r)
  BY GotoLocal DEF LoyaltyInv
<1>2. TypeOK'
  BY <1>1 DEF tables, LoyaltyInv, TypeOK, Local
<1> QED
  BY <1>1, <1>2, QuietKeeps DEF tables

\* Starting an operation keeps the invariant.
LEMMA BeginKeeps ==
  ASSUME LoyaltyInv, NEW r \in Req, NEW step \in Steps, NEW m \in Memo, Begin(r, step, m),
         NEW o \in Operations, op' = [op EXCEPT ![r] = o],
         status' \in [Appt -> Statuses], Checked(r)', Holding(r)'
  PROVE  LoyaltyInv'
<1>1. Local(r)
  BY BeginLocal DEF LoyaltyInv
<1>2. TypeOK'
  BY <1>1 DEF Begin, tables, LoyaltyInv, TypeOK, Local
<1> QED
  BY <1>1, <1>2, QuietKeeps DEF Begin, tables

-----------------------------------------------------------------------------
(* The steps that enter no movement.                                       *)

\* What a request begins with.
LEMMA ArriveKeeps ==
  ASSUME LoyaltyInv, NEW r \in Req, Arrive(r)
  PROVE  LoyaltyInv'
<1>0. TypeOK /\ Checked(r) /\ pc[r] = "idle" /\ result[r] = "none"
  <2>1. TypeOK /\ Checked(r)
    BY DEF LoyaltyInv
  <2>2. pc[r] = "idle"
    BY DEF Arrive, BeginStatus, BeginAdjust, BeginRedeem, BeginRecalculate, BeginSettings,
       SaveReward, BeginToggle, Starts
  <2> QED
    BY <2>1, <2>2 DEF Checked
<1>1. CASE BeginStatus(r)
  <2>1. PICK o \in Operations :
          /\ o.name = "status" /\ op' = [op EXCEPT ![r] = o]
          /\ \/ Refuse(r, "refused")
             \/ /\ status' = [status EXCEPT ![o.appt] = o.to]
                /\ Begin(r, "award", Blank)
             \/ /\ status' = [status EXCEPT ![o.appt] = o.to]
                /\ End(r, "updated") /\ UNCHANGED tables
    BY <1>1 DEF BeginStatus, Starts
  <2>2. status' = [status EXCEPT ![o.appt] = o.to] => status' \in [Appt -> Statuses]
    BY <1>0, <2>1, OperationFields DEF TypeOK
  <2>3. CASE Refuse(r, "refused")
    BY <2>1, <2>3, RefuseKeeps DEF Results
  <2>4. CASE Begin(r, "award", Blank) /\ status' = [status EXCEPT ![o.appt] = o.to]
    <3>1. /\ pc'[r] = "award" /\ memo'[r] = Blank
          /\ op'[r] = o /\ result'[r] = result[r]
      BY <1>0, <2>1, <2>4, BeginLocal, BlankIsMemo DEF Steps
    <3>2. Checked(r)' /\ Holding(r)'
      BY <1>0, <2>1, <3>1 DEF Checked, Holding, Doing
    <3> QED
      BY <2>1, <2>2, <2>4, <3>2, BeginKeeps, BlankIsMemo DEF Steps
  <2>5. CASE /\ status' = [status EXCEPT ![o.appt] = o.to]
             /\ End(r, "updated") /\ UNCHANGED tables
    <3>1. Local(r) /\ pc'[r] = "done"
      BY <1>0, <2>1, <2>5, EndLocal DEF Results
    <3>2. TypeOK'
      BY <1>0, <2>2, <2>5, <3>1 DEF tables, TypeOK, Local
    <3>3. Checked(r)' /\ Holding(r)'
      BY <3>1 DEF Checked, Holding
    <3> QED
      BY <2>5, <3>1, <3>2, <3>3, QuietKeeps DEF tables
  <2> QED
    BY <2>1, <2>3, <2>4, <2>5
<1>2. CASE BeginAdjust(r)
  <2>1. PICK o \in Operations :
          /\ o.name = "adjust" /\ op' = [op EXCEPT ![r] = o] /\ UNCHANGED status
          /\ \/ Refuse(r, "not_found") \/ Refuse(r, "negative_balance")
             \/ Begin(r, "adjust", [Blank EXCEPT !.n = o.delta, !.phone = o.phone])
    BY <1>2 DEF BeginAdjust, Starts
  <2> DEFINE m == [Blank EXCEPT !.n = o.delta, !.phone = o.phone]
  <2>2. m \in Memo /\ m.phone \in Phone
    <3>1. o.phone \in Phone /\ o.delta \in Int
      BY <2>1, OperationFields
    <3>2. PICK n \in Int, p \in Phone : n = o.delta /\ p = o.phone
      BY <3>1
    <3>3. /\ [Blank EXCEPT !.n = n, !.phone = p] \in Memo
          /\ [Blank EXCEPT !.n = n, !.phone = p].phone = p
      BY BlankWith
    <3> QED
      BY <3>2, <3>3
  <2>3. CASE Refuse(r, "not_found") \/ Refuse(r, "negative_balance")
    BY <2>1, <2>3, RefuseKeeps DEF Results
  <2>4. CASE Begin(r, "adjust", m)
    <3> HIDE DEF m
    <3>1. pc'[r] = "adjust" /\ memo'[r] = m /\ op'[r] = o /\ result'[r] = result[r]
      BY <1>0, <2>1, <2>2, <2>4, BeginLocal DEF Steps
    <3>2. Checked(r)' /\ Holding(r)'
      BY <1>0, <2>1, <2>2, <3>1 DEF Checked, Holding, Doing
    <3> QED
      BY <1>0, <2>1, <2>2, <2>4, <3>2, BeginKeeps DEF Steps, TypeOK
  <2> QED
    BY <2>1, <2>3, <2>4
<1>3. CASE BeginRedeem(r)
  <2>1. PICK o \in Operations :
          /\ o.name = "redeem" /\ op' = [op EXCEPT ![r] = o] /\ UNCHANGED status
          /\ \/ Refuse(r, "disabled")
             \/ Begin(r, "redeem", [Blank EXCEPT !.phone = o.phone])
    BY <1>3 DEF BeginRedeem, Starts
  <2> DEFINE m == [Blank EXCEPT !.phone = o.phone]
  <2>2. m \in Memo /\ m.phone \in Phone
    BY <2>1, OperationFields DEF Blank, Memo
  <2>3. CASE Refuse(r, "disabled")
    BY <2>1, <2>3, RefuseKeeps DEF Results
  <2>4. CASE Begin(r, "redeem", m)
    <3> HIDE DEF m
    <3>1. pc'[r] = "redeem" /\ memo'[r] = m /\ op'[r] = o /\ result'[r] = result[r]
      BY <1>0, <2>1, <2>2, <2>4, BeginLocal DEF Steps
    <3>2. Checked(r)' /\ Holding(r)'
      BY <1>0, <2>1, <2>2, <3>1 DEF Checked, Holding, Doing
    <3> QED
      BY <1>0, <2>1, <2>2, <2>4, <3>2, BeginKeeps DEF Steps, TypeOK
  <2> QED
    BY <2>1, <2>3, <2>4
<1>4. CASE BeginRecalculate(r)
  <2> DEFINE m == [Blank EXCEPT !.todo = accounts]
  <2>1. PICK o \in Operations :
          op' = [op EXCEPT ![r] = o] /\ UNCHANGED status /\ Begin(r, "recalculate", m)
    BY <1>4 DEF BeginRecalculate, Starts
  <2>2. m \in Memo
    BY <1>0, BlankIsMemo DEF Memo, TypeOK
  <2> HIDE DEF m
  <2>3. pc'[r] = "recalculate" /\ result'[r] = result[r]
    BY <1>0, <2>1, <2>2, BeginLocal DEF Steps
  <2>4. Checked(r)' /\ Holding(r)'
    BY <1>0, <2>3 DEF Checked, Holding
  <2> QED
    BY <1>0, <2>1, <2>2, <2>4, BeginKeeps DEF Steps, TypeOK
<1>5. CASE BeginSettings(r)
  <2>1. PICK o \in Operations :
          /\ o.name = "settings" /\ op' = [op EXCEPT ![r] = o] /\ UNCHANGED status
          /\ \/ Refuse(r, "invalid")
             \/ /\ ~(o.points < 0)
                /\ \E step \in {"ensure", "settings"} : Begin(r, step, Blank)
    BY <1>5 DEF BeginSettings, Starts, InvalidPoints
  <2>2. CASE Refuse(r, "invalid")
    BY <2>1, <2>2, RefuseKeeps DEF Results
  <2>3. ASSUME NEW step \in {"ensure", "settings"}, Begin(r, step, Blank), ~(o.points < 0)
        PROVE  LoyaltyInv'
    <3>0. step \in Steps
      BY DEF Steps
    <3>1. pc'[r] = step /\ op'[r] = o /\ result'[r] = result[r]
      BY <1>0, <2>1, <2>3, <3>0, BeginLocal, BlankIsMemo
    <3>2. o.points >= 0
      BY <2>1, <2>3, OperationFields
    <3>3. Checked(r)' /\ Holding(r)'
      BY <1>0, <2>1, <3>1, <3>2 DEF Checked, Holding, Doing
    <3> QED
      BY <1>0, <2>1, <2>3, <3>3, BeginKeeps, BlankIsMemo DEF Steps, TypeOK
  <2> QED
    BY <2>1, <2>2, <2>3
<1>6. CASE SaveReward(r)
  <2>1. PICK o \in Operations :
          /\ o.name = "reward" /\ op' = [op EXCEPT ![r] = o]
          /\ \/ Refuse(r, "invalid")
             \/ /\ ~(o.cost <= 0)
                /\ catalogue' = [catalogue EXCEPT
                                   ![o.reward] = [cost |-> o.cost, active |-> o.active]]
                /\ Complete(r, "saved") /\ UNCHANGED settings
    BY <1>6 DEF SaveReward, Starts
  <2>2. CASE Refuse(r, "invalid")
    BY <2>1, <2>2, RefuseKeeps DEF Results
  <2>3. CASE /\ ~(o.cost <= 0)
             /\ catalogue' = [catalogue EXCEPT
                                ![o.reward] = [cost |-> o.cost, active |-> o.active]]
             /\ Complete(r, "saved") /\ UNCHANGED settings
    <3>1. Local(r) /\ pc'[r] = "done"
      BY <1>0, <2>1, <2>3, EndLocal DEF Results, Complete
    <3>2. [cost |-> o.cost, active |-> o.active] \in [cost : Nat \ {0}, active : BOOLEAN]
      BY <2>1, <2>3, OperationFields
    <3>3. TypeOK'
      BY <1>0, <2>3, <3>1, <3>2 DEF Complete, TypeOK, Local
    <3>4. Checked(r)' /\ Holding(r)'
      BY <3>1 DEF Checked, Holding
    <3> QED
      BY <2>3, <3>1, <3>3, <3>4, QuietKeeps DEF Complete
  <2> QED
    BY <2>1, <2>2, <2>3
<1>7. CASE BeginToggle(r)
  <2>1. PICK o \in Operations :
          /\ o.name = "toggle" /\ op' = [op EXCEPT ![r] = o] /\ UNCHANGED status
          /\ Begin(r, "toggle", [Blank EXCEPT !.n = catalogue[o.reward].cost])
    BY <1>7 DEF BeginToggle, Starts
  <2> DEFINE m == [Blank EXCEPT !.n = catalogue[o.reward].cost]
  <2>2. m \in Memo /\ m.n > 0
    <3>1. catalogue[o.reward].cost \in Int /\ catalogue[o.reward].cost > 0
      BY <1>0, <2>1, OperationFields DEF TypeOK
    <3>2. m \in Memo /\ m.n = catalogue[o.reward].cost
      BY <3>1, BlankIsMemo, MemoWith, NoPhone \in Phone \cup {NoPhone}
    <3> QED BY <3>1, <3>2
  <2>2a. Begin(r, "toggle", m)
    BY <2>1
  <2> HIDE DEF m
  <2>3. pc'[r] = "toggle" /\ memo'[r] = m /\ op'[r] = o /\ result'[r] = result[r]
    BY <1>0, <2>1, <2>2, <2>2a, BeginLocal DEF Steps
  <2>4. Checked(r)' /\ Holding(r)'
    BY <1>0, <2>1, <2>2, <2>3 DEF Checked, Holding, Doing
  <2> QED
    BY <1>0, <2>1, <2>2, <2>2a, <2>4, BeginKeeps DEF Steps, TypeOK
<1> QED
  BY <1>1, <1>2, <1>3, <1>4, <1>5, <1>6, <1>7 DEF Arrive

\* On the way to the points of a completed appointment.
LEMMA AwardKeeps ==
  ASSUME LoyaltyInv, NEW r \in Req, AwardRead(r) \/ AwardRate(r)
  PROVE  LoyaltyInv'
<1>0. TypeOK /\ Checked(r)
  BY DEF LoyaltyInv
<1>1. CASE AwardRead(r)
  <2>1. CASE Abort(r, "not_completed")
    BY <2>1, AbortKeeps DEF Results
  <2>2. CASE Goto(r, "rate", Blank) /\ UNCHANGED <<status, tables, lock>>
    <3>1. pc'[r] = "rate" /\ op'[r] = op[r] /\ result'[r] = result[r]
      BY <1>0, <2>2, GotoLocal, BlankIsMemo DEF Steps
    <3>2. Checked(r)' /\ Holding(r)'
      BY <1>0, <1>1, <3>1 DEF AwardRead, Checked, Holding, Doing
    <3> QED
      BY <2>2, <3>2, GotoKeeps, BlankIsMemo DEF Steps
  <2> QED
    BY <1>1, <2>1, <2>2 DEF AwardRead
<1>2. CASE AwardRate(r)
  <2> DEFINE phone == PhoneOf[op[r].appt]
             m == [Blank EXCEPT !.n = settings.points, !.phone = phone]
  <2>1. CASE Abort(r, "disabled") \/ Abort(r, "missing_phone")
    BY <2>1, AbortKeeps DEF Results
  <2>2. CASE /\ Enabled /\ ~(settings.points <= 0) /\ phone # NoPhone
             /\ Goto(r, "earn", m) /\ UNCHANGED <<status, tables, lock>>
    <3>1. Doing(r, {"status"})
      BY <1>0, <1>2 DEF AwardRate, Checked
    <3>2. phone \in Phone
      BY <2>2, <3>1, OperationFields, LoyaltyAssumption DEF Doing
    <3>3. m \in Memo /\ m.phone = phone /\ m.n > 0
      <4>1. settings.points \in Int /\ settings.points > 0
        BY <1>0, <2>2 DEF TypeOK, Enabled
      <4>2. phone \in Phone \cup {NoPhone}
        BY <3>2
      <4> HIDE DEF phone
      <4>3. m \in Memo /\ m.phone = phone /\ m.n = settings.points
        BY <4>1, <4>2, BlankWith
      <4> QED BY <4>1, <4>3
    <3> HIDE DEF m
    <3>4. pc'[r] = "earn" /\ memo'[r] = m /\ op'[r] = op[r] /\ result'[r] = result[r]
      BY <1>0, <2>2, <3>3, GotoLocal DEF Steps
    <3>5. Checked(r)' /\ Holding(r)'
      BY <1>0, <1>2, <3>1, <3>2, <3>3, <3>4 DEF AwardRate, Checked, Holding, Doing
    <3> QED
      BY <2>2, <3>3, <3>5, GotoKeeps DEF Steps
  <2> QED
    BY <1>2, <2>1, <2>2 DEF AwardRate
<1> QED
  BY <1>1, <1>2

\* Saving the settings and a reward.
LEMMA SaveKeeps ==
  ASSUME LoyaltyInv, NEW r \in Req, Save(r)
  PROVE  LoyaltyInv'
<1>0. TypeOK /\ Checked(r)
  BY DEF LoyaltyInv
<1>1. CASE EnsureSettings(r)
  <2>1. CASE Abort(r, "error")
    BY <2>1, AbortKeeps DEF Results
  <2>2. CASE /\ settings' = [enabled |-> FALSE, points |-> 1]
             /\ Goto(r, "settings", Blank)
             /\ UNCHANGED <<status, accounts, balance, total, ledger, redemptions,
                            catalogue, lock>>
    <3>1. Local(r) /\ pc'[r] = "settings" /\ op'[r] = op[r] /\ result'[r] = result[r]
      BY <1>0, <2>2, GotoLocal, BlankIsMemo DEF Steps
    <3>2. TypeOK'
      BY <1>0, <2>2, <3>1 DEF TypeOK, Local
    <3>3. Checked(r)' /\ Holding(r)'
      BY <1>0, <1>1, <3>1 DEF EnsureSettings, Checked, Holding, Doing
    <3> QED
      BY <2>2, <3>1, <3>2, <3>3, QuietKeeps
  <2> QED
    BY <1>1, <2>1, <2>2 DEF EnsureSettings
<1>2. CASE SaveSettings(r)
  <2>1. Local(r) /\ pc'[r] = "done"
    BY <1>0, <1>2, EndLocal DEF Results, Complete, SaveSettings
  <2>2. [enabled |-> op[r].enabled, points |-> op[r].points] \in [enabled : BOOLEAN, points : Nat]
    BY <1>0, <1>2, OperationFields DEF SaveSettings, Checked, Doing
  <2>3. TypeOK'
    BY <1>0, <1>2, <2>1, <2>2 DEF SaveSettings, Complete, TypeOK, Local
  <2>4. Checked(r)' /\ Holding(r)'
    BY <2>1 DEF Checked, Holding
  <2> QED
    BY <1>2, <2>1, <2>3, <2>4, QuietKeeps DEF SaveSettings, Complete
<1>3. CASE Toggle(r)
  <2>1. Local(r) /\ pc'[r] = "done"
    BY <1>0, <1>3, EndLocal DEF Results, Complete, Toggle
  <2>2. [cost |-> memo[r].n, active |-> op[r].active] \in [cost : Nat \ {0}, active : BOOLEAN]
    BY <1>0, <1>3, OperationFields DEF Toggle, Checked, Doing, TypeOK, Memo
  <2>3. TypeOK'
    BY <1>0, <1>3, <2>1, <2>2 DEF Toggle, Complete, TypeOK, Local
  <2>4. Checked(r)' /\ Holding(r)'
    BY <2>1 DEF Checked, Holding
  <2> QED
    BY <1>3, <2>1, <2>3, <2>4, QuietKeeps DEF Toggle, Complete
<1> QED
  BY <1>1, <1>2, <1>3 DEF Save

\* Recalculating writes caches only.
LEMMA RecalculateKeeps ==
  ASSUME LoyaltyInv, NEW r \in Req, Recalculate(r)
  PROVE  LoyaltyInv'
<1>0. TypeOK /\ Checked(r)
  BY DEF LoyaltyInv
<1>1. ASSUME NEW m \in Memo, pc[r] = "recalculate", Goto(r, "recalculate", m),
             UNCHANGED <<status, tables, lock>>
      PROVE  LoyaltyInv'
  <2>1. pc'[r] = "recalculate" /\ result'[r] = result[r]
    BY <1>0, <1>1, GotoLocal DEF Steps
  <2>2. Checked(r)' /\ Holding(r)'
    BY <1>0, <1>1, <2>1 DEF Checked, Holding
  <2> QED
    BY <1>1, <2>2, GotoKeeps DEF Steps
<1>2. CASE RecalculateSum(r)
  <2>1. PICK p \in memo[r].todo :
          Goto(r, "recalculate", [memo[r] EXCEPT !.phone = p, !.sum = total[p]])
    BY <1>2 DEF RecalculateSum
  <2>2. [memo[r] EXCEPT !.phone = p, !.sum = total[p]] \in Memo
    BY <1>0, <2>1 DEF TypeOK, Memo
  <2> QED
    BY <1>1, <1>2, <2>1, <2>2 DEF RecalculateSum
<1>3. CASE RecalculateUpdate(r)
  <2> DEFINE p == memo[r].phone
             m == [memo[r] EXCEPT !.phone = NoPhone, !.todo = memo[r].todo \ {p}, !.sum = 0,
                     !.sums = [memo[r].sums EXCEPT ![p] = memo[r].sum]]
  <2>1. memo[r] \in Memo /\ p \in Phone
    BY <1>0, <1>3 DEF TypeOK, Memo, RecalculateUpdate
  <2>2. [memo[r].sums EXCEPT ![p] = memo[r].sum] \in [Phone -> Int \cup {Nothing}]
    BY <2>1 DEF Memo
  <2>3. m \in Memo
    <3>1. memo[r].todo \ {p} \in SUBSET Phone
      BY <2>1 DEF Memo
    <3>2. \A t \in SUBSET Phone, sums \in [Phone -> Int \cup {Nothing}] :
            [memo[r] EXCEPT !.phone = NoPhone, !.todo = t, !.sum = 0, !.sums = sums] \in Memo
      <4> TAKE t \in SUBSET Phone, sums \in [Phone -> Int \cup {Nothing}]
      <4>1. /\ \A m1 \in Memo : [m1 EXCEPT !.todo = t] \in Memo
            /\ \A m1 \in Memo : [m1 EXCEPT !.sum = 0] \in Memo
            /\ \A m1 \in Memo : [m1 EXCEPT !.sums = sums] \in Memo
        BY DEF Memo
      <4>2. [memo[r] EXCEPT !.phone = NoPhone] \in Memo
        BY <2>1, MemoWith, 0 \in Int
      <4>3. [memo[r] EXCEPT !.phone = NoPhone, !.todo = t, !.sum = 0, !.sums = sums]
              = [[[[memo[r] EXCEPT !.phone = NoPhone] EXCEPT !.todo = t] EXCEPT !.sum = 0]
                   EXCEPT !.sums = sums]
        OBVIOUS
      <4> QED BY <4>1, <4>2, <4>3
    <3> QED BY <2>2, <3>1, <3>2
  <2> QED
    BY <1>1, <1>3, <2>3 DEF RecalculateUpdate
<1>4. CASE RecalculateCommit(r)
  <2>1. Local(r) /\ pc'[r] = "done"
    BY <1>0, <1>4, EndLocal DEF Results, RecalculateCommit
  <2>2. balance' \in [Phone -> Int]
    BY <1>0, <1>4 DEF RecalculateCommit, TypeOK, Memo
  <2>3. TypeOK'
    BY <1>0, <1>4, <2>1, <2>2 DEF RecalculateCommit, TypeOK, Local
  <2>4. Checked(r)' /\ Holding(r)'
    BY <2>1 DEF Checked, Holding
  <2> QED
    BY <1>4, <2>1, <2>3, <2>4, QuietKeeps DEF RecalculateCommit
<1> QED
  BY <1>2, <1>3, <1>4 DEF Recalculate

-----------------------------------------------------------------------------
(* The movements.                                                          *)

\* A movement inserted under the lock, with the sum it leaves.
LEMMA EnterKeeps ==
  ASSUME LoyaltyInv, NEW r \in Req, LockFree(r), NEW n \in Int, Enter(r, n),
         pc[r] # "done", memo[r].phone \in Phone, total[memo[r].phone] + n >= 0,
         Doing(r, {"status", "adjust", "redeem"}),
         op[r].name = "status" => /\ ~Earned(op[r].appt) /\ n > 0
                                  /\ memo[r].phone = PhoneOf[op[r].appt],
         op[r].name = "redeem" => ~Redeemed(op[r].key) /\ n < 0
  PROVE  LoyaltyInv'
<1> DEFINE m == [memo[r] EXCEPT !.n = n, !.sum = total[memo[r].phone] + n]
<1>0. TypeOK /\ Checked(r)
  BY DEF LoyaltyInv
<1>1. /\ m \in Memo /\ m.n = n /\ m.phone = memo[r].phone
      /\ m.sum = total[memo[r].phone] + n
  <2>1. memo[r] \in Memo /\ total[memo[r].phone] + n \in Int
    BY <1>0 DEF TypeOK
  <2> DEFINE x == [memo[r] EXCEPT !.n = n]
             k == total[memo[r].phone] + n
  <2>2. x \in Memo /\ x.n = n /\ x.phone = memo[r].phone
    BY <2>1 DEF Memo
  <2>3. m = [x EXCEPT !.sum = k]
    OBVIOUS
  <2> HIDE DEF m, x, k
  <2>4. m \in Memo /\ m.sum = k /\ m.n = x.n /\ m.phone = x.phone
    BY <2>1, <2>2, <2>3 DEF Memo, k
  <2> QED
    BY <2>2, <2>4 DEF k
<1>2. Goto(r, "move", m) /\ lock' = r /\ UNCHANGED <<status, tables>>
  BY DEF Enter
<1> HIDE DEF m
<1>3. pc'[r] = "move" /\ memo'[r] = m /\ op'[r] = op[r] /\ result'[r] = result[r]
  BY <1>0, <1>1, <1>2, GotoLocal DEF Steps
<1>4. Checked(r)'
  BY <1>0, <1>1, <1>3 DEF Checked
<1>5. Holding(r)'
  BY <1>1, <1>2, <1>3 DEF Holding, Doing, Earned, Redeemed, tables
<1> QED
  BY <1>1, <1>2, <1>4, <1>5, GotoKeeps DEF Steps

\* The three ways into a movement, each with its checks.
LEMMA EnteringKeeps ==
  ASSUME LoyaltyInv, NEW r \in Req, EnterAward(r) \/ EnterAdjust(r) \/ EnterRedeem(r)
  PROVE  LoyaltyInv'
<1>0. TypeOK /\ Checked(r) /\ NeverOverdrawn
  BY DEF LoyaltyInv
<1>1. CASE EnterAward(r)
  <2>1. CASE Abort(r, "already_awarded")
    BY <2>1, AbortKeeps DEF Results
  <2>2. CASE ~Earned(op[r].appt) /\ Enter(r, memo[r].n)
    <3>1. /\ LockFree(r) /\ pc[r] # "done" /\ memo[r].phone \in Phone
          /\ Doing(r, {"status"}) /\ memo[r].phone = PhoneOf[op[r].appt] /\ memo[r].n > 0
      BY <1>0, <1>1 DEF EnterAward, Checked
    <3>2. memo[r].n \in Int /\ total[memo[r].phone] + memo[r].n >= 0
      <4>1. memo[r].n \in Int /\ total[memo[r].phone] \in Int /\ total[memo[r].phone] >= 0
        BY <1>0, <3>1 DEF TypeOK, Memo, NeverOverdrawn
      <4> QED BY <3>1, <4>1
    <3> QED
      BY <2>2, <3>1, <3>2, EnterKeeps DEF Doing
  <2> QED
    BY <1>1, <2>1, <2>2 DEF EnterAward
<1>2. CASE EnterAdjust(r)
  <2>1. CASE Abort(r, "negative_balance")
    BY <2>1, AbortKeeps DEF Results
  <2>2. CASE ~Overdraws(r) /\ Enter(r, memo[r].n)
    <3>1. /\ LockFree(r) /\ pc[r] # "done" /\ memo[r].phone \in Phone
          /\ Doing(r, {"adjust"})
      BY <1>0, <1>2 DEF EnterAdjust, Checked
    <3>2. memo[r].n \in Int /\ total[memo[r].phone] + memo[r].n >= 0
      <4>1. memo[r].n \in Int /\ total[memo[r].phone] \in Int
        BY <1>0, <3>1 DEF TypeOK, Memo
      <4> QED BY <2>2, <4>1 DEF Overdraws
    <3> QED
      BY <2>2, <3>1, <3>2, EnterKeeps DEF Doing
  <2> QED
    BY <1>2, <2>1, <2>2 DEF EnterAdjust
<1>3. CASE EnterRedeem(r)
  <2> DEFINE cost == catalogue[op[r].reward].cost
  <2>1. CASE \/ Abort(r, "already_processed") \/ Abort(r, "not_found")
             \/ Abort(r, "insufficient_points")
    BY <2>1, AbortKeeps DEF Results
  <2>2. CASE /\ ~Redeemed(op[r].key) /\ ~(total[memo[r].phone] < cost)
             /\ Enter(r, -cost)
    <3>1. /\ LockFree(r) /\ pc[r] # "done" /\ memo[r].phone \in Phone
          /\ Doing(r, {"redeem"})
      BY <1>0, <1>3 DEF EnterRedeem, Checked
    <3>2. cost \in Nat \ {0} /\ total[memo[r].phone] \in Int
      BY <1>0, <3>1, OperationFields DEF Doing, TypeOK
    <3> HIDE DEF cost
    <3>3. -cost \in Int /\ -cost < 0 /\ total[memo[r].phone] + (-cost) >= 0
      BY <2>2, <3>2
    <3> QED
      BY <2>2, <3>1, <3>3, EnterKeeps DEF Doing
  <2> QED
    BY <1>3, <2>1, <2>2 DEF EnterRedeem
<1> QED
  BY <1>1, <1>2, <1>3

\* What a request that is going to commit knows.
LEMMA AtMove ==
  ASSUME LoyaltyInv, NEW r \in Req, pc[r] = "move"
  PROVE  /\ memo[r].phone \in Phone /\ memo[r].n \in Int /\ memo[r].sum \in Int
         /\ Doing(r, {"status", "adjust", "redeem"})
         /\ \A s \in Req \ {r} : pc[s] # "move"
<1>1. Checked(r) /\ Holding(r) /\ TypeOK
  BY DEF LoyaltyInv
<1>2. \A s \in Req \ {r} : pc[s] # "move"
  BY <1>1 DEF LoyaltyInv, Holding
<1> QED
  BY <1>1, <1>2 DEF Checked, Holding, TypeOK, Memo

\* A movement is an entry of the ledger.
LEMMA MovementIsEntry ==
  ASSUME LoyaltyInv, NEW r \in Req, pc[r] = "move"
  PROVE  /\ Movement(r) \in Entry
         /\ Movement(r).phone = memo[r].phone /\ Movement(r).delta = memo[r].n
         /\ op[r].name = "status" => Movement(r).type = "earn" /\ Movement(r).of = op[r].appt
         /\ op[r].name = "adjust" => Movement(r).type = "adjust"
         /\ op[r].name = "redeem" => Movement(r).type = "redeem" /\ Movement(r).of = op[r].key
<1>1. /\ op[r].name = "status" => op[r].appt \in Appt
      /\ op[r].name = "redeem" => op[r].key \in Key
      /\ op[r].name \in {"status", "adjust", "redeem"}
      /\ memo[r].phone \in Phone /\ memo[r].n \in Int
  BY AtMove, OperationFields DEF Doing
<1>2. CASE op[r].name = "status"
  BY <1>1, <1>2 DEF Movement, Entry
<1>3. CASE op[r].name = "adjust"
  BY <1>1, <1>3 DEF Movement, Entry
<1>4. CASE op[r].name = "redeem"
  BY <1>1, <1>4 DEF Movement, Entry
<1> QED
  BY <1>1, <1>2, <1>3, <1>4

\* A movement keeps the ledger typed and its sums from falling below zero.
LEMMA InsertKeeps ==
  ASSUME LoyaltyInv, NEW r \in Req, pc[r] = "move", Insert(r), Local(r), pc'[r] = "done"
  PROVE  /\ total' = [total EXCEPT ![memo[r].phone] = memo[r].sum]
         /\ total' \in [Phone -> Int] /\ ledger' \subseteq Entry
         /\ NeverOverdrawn'
         /\ \A s \in Req : Checked(s)' /\ Holding(s)'
<1>1. memo[r].sum = total[memo[r].phone] + memo[r].n /\ memo[r].sum >= 0
  BY DEF LoyaltyInv, Holding
<1>2. total' = [total EXCEPT ![memo[r].phone] = memo[r].sum]
  BY <1>1 DEF Insert
<1>3. total' \in [Phone -> Int] /\ NeverOverdrawn'
  BY <1>1, <1>2, AtMove DEF LoyaltyInv, TypeOK, NeverOverdrawn
<1>4. ledger' \subseteq Entry
  BY MovementIsEntry DEF Insert, LoyaltyInv, TypeOK
<1>5. Checked(r)' /\ Holding(r)'
  BY DEF Checked, Holding
<1>6. \A s \in Req \ {r} : Checked(s)' /\ Holding(s)'
  BY AtMove DEF LoyaltyInv, Checked, Holding, Doing, Local
<1> QED
  BY <1>2, <1>3, <1>4, <1>5, <1>6

\* Earning and adjusting.
LEMMA CommitSumKeeps ==
  ASSUME LoyaltyInv, NEW r \in Req, CommitSum(r)
  PROVE  LoyaltyInv'
<1>0. TypeOK /\ pc[r] = "move" /\ op[r].name # "redeem" /\ Insert(r)
  BY DEF CommitSum, LoyaltyInv
<1>1. Local(r) /\ pc'[r] = "done"
  BY <1>0, EndLocal DEF CommitSum, Insert, Results
<1>2. /\ memo[r].phone \in Phone /\ memo[r].sum \in Int
      /\ Doing(r, {"status", "adjust", "redeem"})
  BY <1>0, AtMove
<1>3. TypeOK'
  BY <1>0, <1>1, <1>2, InsertKeeps DEF CommitSum, Insert, Summed, TypeOK, Local
<1>4. Paid'
  <2>1. Movement(r).type # "redeem"
    BY <1>0, <1>2, MovementIsEntry DEF Doing
  <2>2. ledger' = ledger \cup {Movement(r)} /\ redemptions' = redemptions
    BY DEF CommitSum, Insert
  <2> QED
    BY <2>1, <2>2 DEF LoyaltyInv, Paid
<1> QED
  BY <1>0, <1>1, <1>3, <1>4, InsertKeeps DEF LoyaltyInv

\* Redeeming.
LEMMA CommitRedeemKeeps ==
  ASSUME LoyaltyInv, NEW r \in Req, CommitRedeem(r)
  PROVE  LoyaltyInv'
<1> DEFINE p == memo[r].phone
           x == [by |-> r, key |-> op[r].key, phone |-> p, cost |-> -memo[r].n]
<1>0. TypeOK /\ pc[r] = "move" /\ op[r].name = "redeem"
  BY DEF CommitRedeem, LoyaltyInv
<1>1. CASE Abort(r, "cache_too_low")
  BY <1>1, AbortKeeps DEF Results
<1>2. CASE /\ Insert(r) /\ balance' = [balance EXCEPT ![p] = @ + memo[r].n]
           /\ redemptions' = redemptions \cup {x}
           /\ End(r, "redeemed") /\ UNCHANGED accounts
  <2>1. Local(r) /\ pc'[r] = "done"
    BY <1>0, <1>2, EndLocal DEF Insert, Results
  <2>2. /\ p \in Phone /\ memo[r].n \in Int /\ op[r].key \in Key
        /\ memo[r].n < 0 /\ ~Redeemed(op[r].key)
    <3>1. p \in Phone /\ memo[r].n \in Int /\ op[r].key \in Key
      BY <1>0, AtMove, OperationFields DEF Doing
    <3>2. memo[r].n < 0 /\ ~Redeemed(op[r].key)
      BY <1>0 DEF LoyaltyInv, Holding
    <3> QED BY <3>1, <3>2
  <2>3. x \in [by : Req, key : Key, phone : Phone, cost : Nat]
    BY <2>2
  <2>4. TypeOK'
    <3>1. balance' \in [Phone -> Int]
      BY <1>0, <1>2, <2>2 DEF TypeOK
    <3>2. redemptions' \subseteq [by : Req, key : Key, phone : Phone, cost : Nat]
      BY <1>0, <1>2, <2>3 DEF TypeOK
    <3>3. total' \in [Phone -> Int] /\ ledger' \subseteq Entry
      BY <1>0, <1>2, <2>1, InsertKeeps
    <3> QED
      BY <1>0, <1>2, <2>1, <3>1, <3>2, <3>3 DEF Insert, TypeOK, Local
  <2>5. Paid'
    <3>1. /\ Movement(r).type = "redeem" /\ Movement(r).of = x.key
          /\ Movement(r).phone = x.phone /\ Movement(r).delta = -x.cost
      BY <1>0, <2>2, MovementIsEntry
    <3>2. ledger' = ledger \cup {Movement(r)} /\ redemptions' = redemptions \cup {x}
      BY <1>2 DEF Insert
    <3>3. \A y \in redemptions : y.key # x.key
      BY <2>2 DEF Redeemed
    <3>4. Paid
      BY DEF LoyaltyInv
    <3> HIDE DEF x, p
    <3>5. \A y \in redemptions' : \E m \in ledger' :
            m.type = "redeem" /\ m.of = y.key /\ m.phone = y.phone /\ m.delta = -y.cost
      BY <3>1, <3>2, <3>4 DEF Paid
    <3>6. \A m \in ledger' : m.type = "redeem" => \E y \in redemptions' : y.key = m.of
      BY <3>1, <3>2, <3>4 DEF Paid
    <3>7. \A y, z \in redemptions' : y.key = z.key => y = z
      BY <3>2, <3>3, <3>4 DEF Paid
    <3> QED
      BY <3>5, <3>6, <3>7 DEF Paid
  <2> QED
    BY <1>0, <1>2, <2>1, <2>4, <2>5, InsertKeeps DEF LoyaltyInv
<1> QED
  BY <1>1, <1>2 DEF CommitRedeem

-----------------------------------------------------------------------------
(* The invariant, and what a step may do.                                  *)

Step(r) == Arrive(r) \/ Proceed(r) \/ LockTimeout(r) \/ Crash(r)

\* Every step of a request keeps the invariant.
LEMMA StepKeeps ==
  ASSUME LoyaltyInv, NEW r \in Req, Step(r)
  PROVE  LoyaltyInv'
<1>1. CASE LockTimeout(r) \/ Crash(r)
  BY <1>1, AbortKeeps DEF LockTimeout, Crash, Results
<1>2. CASE CommitSum(r) \/ CommitRedeem(r)
  BY <1>2, CommitSumKeeps, CommitRedeemKeeps
<1>3. CASE EnterAward(r) \/ EnterAdjust(r) \/ EnterRedeem(r)
  BY <1>3, EnteringKeeps
<1>4. CASE Arrive(r) \/ AwardRead(r) \/ AwardRate(r) \/ Recalculate(r) \/ Save(r)
  BY <1>4, ArriveKeeps, AwardKeeps, RecalculateKeeps, SaveKeeps
<1> QED
  BY <1>1, <1>2, <1>3, <1>4 DEF Step, Proceed, Award, Move

\* There are no points, no movements and no redemptions at first.
LEMMA LoyaltyInit == Init => LoyaltyInv
<1> SUFFICES ASSUME Init PROVE LoyaltyInv
  OBVIOUS
<1>1. TypeOK
  <2>1. settings = Nothing \/ settings \in [enabled : BOOLEAN, points : Nat]
    <3>1. [enabled |-> TRUE, points |-> 1] \in [enabled : BOOLEAN, points : Nat]
      OBVIOUS
    <3> QED BY <3>1 DEF Init
  <2>2. catalogue \in [Reward -> [cost : Nat \ {0}, active : BOOLEAN]]
    BY LoyaltyAssumption DEF Init
  <2>3. balance \in [Phone -> Int] /\ total \in [Phone -> Int] /\ accounts \subseteq Phone
    BY LoyaltyAssumption DEF Init
  <2>4. memo \in [Req -> Memo]
    BY BlankIsMemo DEF Init
  <2> QED
    BY <2>1, <2>2, <2>3, <2>4 DEF Init, TypeOK, Statuses, Steps, Results
<1>2. NeverOverdrawn /\ Paid
  BY LoyaltyAssumption DEF Init, NeverOverdrawn, Paid
<1>3. \A r \in Req : Checked(r) /\ Holding(r)
  BY DEF Init, Checked, Holding
<1> QED
  BY <1>1, <1>2, <1>3 DEF LoyaltyInv

\* Every step keeps the invariant.
LEMMA LoyaltyStep == LoyaltyInv /\ [Next]_vars => LoyaltyInv'
<1>1. LoyaltyInv /\ Next => LoyaltyInv'
  BY StepKeeps DEF Next, Step
<1>2. LoyaltyInv /\ UNCHANGED vars => LoyaltyInv'
  <2> SUFFICES ASSUME LoyaltyInv, UNCHANGED vars PROVE LoyaltyInv'
    OBVIOUS
  <2>1. TypeOK' /\ NeverOverdrawn' /\ Paid'
    BY DEF vars, tables, LoyaltyInv, TypeOK, NeverOverdrawn, Paid
  <2>2. \A r \in Req : Checked(r)' /\ Holding(r)'
    BY DEF vars, tables, LoyaltyInv, Checked, Holding, Doing, Earned, Redeemed
  <2> QED
    BY <2>1, <2>2 DEF LoyaltyInv
<1> QED
  BY <1>1, <1>2

\* Whatever requests award, redeem, adjust and recalculate points, in any order
\* and dying at any step, the caches, the ledger and the redemptions stay
\* consistent.
THEOREM LoyaltySafe == Spec => []LoyaltyInv
BY LoyaltyInit, LoyaltyStep, PTL DEF Spec

\* Only the commit of a movement writes the ledger; a recalculation and a commit
\* write the caches.
LEMMA WhoWrites ==
  ASSUME LoyaltyInv, NEW r \in Req, Step(r)
  PROVE  \/ /\ UNCHANGED <<total, ledger, redemptions>>
            /\ balance' = balance \/ RecalculateCommit(r)
         \/ CommitSum(r)
         \/ CommitRedeem(r) /\ Insert(r)
<1>1. CASE Arrive(r)
  BY <1>1 DEF Arrive, BeginStatus, BeginAdjust, BeginRedeem, BeginRecalculate, BeginSettings,
     SaveReward, BeginToggle, Refuse, Begin, Complete, tables
<1>2. CASE Award(r)
  BY <1>2 DEF Award, AwardRead, AwardRate, EnterAward, Abort, Enter, tables
<1>3. CASE Move(r)
  BY <1>3 DEF Move, EnterAdjust, EnterRedeem, CommitRedeem, Abort, Enter, tables
<1>4. CASE RecalculateSum(r) \/ RecalculateUpdate(r) \/ Save(r)
  BY <1>4 DEF RecalculateSum, RecalculateUpdate, Save, EnsureSettings, SaveSettings,
     Toggle, Abort, Complete, tables
<1>5. CASE RecalculateCommit(r)
  <2>1. UNCHANGED <<total, ledger, redemptions>>
    BY <1>5 DEF RecalculateCommit
  <2> QED
    BY <1>5, <2>1
<1>6. CASE LockTimeout(r) \/ Crash(r)
  BY <1>6 DEF LockTimeout, Crash, Abort, tables
<1> QED
  BY <1>1, <1>2, <1>3, <1>4, <1>5, <1>6 DEF Step, Proceed, Recalculate

-----------------------------------------------------------------------------
(* The theorems.                                                           *)

\* Every variable of the loyalty programme stays in its domain.
THEOREM LoyaltyTyped == Spec => []TypeOK
<1>1. LoyaltyInv => TypeOK
  BY DEF LoyaltyInv
<1> QED
  BY <1>1, LoyaltySafe, PTL

\* No customer's points fall below zero, however earnings, adjustments and
\* redemptions of the same customer overlap.
THEOREM PointsNeverNegative == Spec => []NeverOverdrawn
<1>1. LoyaltyInv => NeverOverdrawn
  BY DEF LoyaltyInv
<1> QED
  BY <1>1, LoyaltySafe, PTL

\* redeem_loyalty_reward commits a redemption with the movement that pays for it,
\* one of each per idempotency key.
THEOREM OnePaymentPerKey == Spec => []RedemptionsArePaid
<1>1. LoyaltyInv => RedemptionsArePaid
  <2> SUFFICES ASSUME LoyaltyInv PROVE RedemptionsArePaid
    OBVIOUS
  <2>1. Paid
    BY DEF LoyaltyInv
  <2>2. ASSUME NEW m \in ledger, m.type = "redeem"
        PROVE  Cardinality({x \in redemptions : x.key = m.of}) = 1
    <3>1. PICK x \in redemptions : x.key = m.of
      BY <2>1, <2>2 DEF Paid
    <3>2. {y \in redemptions : y.key = m.of} = {x}
      BY <2>1, <3>1 DEF Paid
    <3> QED
      BY <3>2, FS_Singleton
  <2> QED
    BY <2>1, <2>2 DEF RedemptionsArePaid, Paid
<1> QED
  BY <1>1, LoyaltySafe, PTL

\* Movements keep a right cache right; a cache and its ledger part only when a
\* recalculation commits sums that it read earlier.
THEOREM MovementsKeepCaches == Spec => OnlyRecalculatingDrifts
<1> DEFINE Drift == \A p \in Phone : balance[p] = total[p] /\ balance'[p] # total'[p] =>
                      \E r \in Req : result[r] = "none" /\ result'[r] = "recalculated"
<1>1. LoyaltyInv /\ [Next]_vars => [Drift]_vars
  <2> SUFFICES ASSUME LoyaltyInv, Next, NEW p \in Phone,
                      balance[p] = total[p], balance'[p] # total'[p]
               PROVE  \E r \in Req : result[r] = "none" /\ result'[r] = "recalculated"
    BY DEF vars
  <2>1. PICK r \in Req : Step(r)
    BY DEF Next, Step
  <2>2. TypeOK
    BY DEF LoyaltyInv
  <2>3. CASE RecalculateCommit(r)
    <3>1. result[r] = "none"
      BY <2>3 DEF LoyaltyInv, Checked, RecalculateCommit
    <3>2. result'[r] = "recalculated"
      BY <2>2, <2>3 DEF RecalculateCommit, End, TypeOK
    <3> QED BY <3>1, <3>2
  <2>4. CASE CommitSum(r)
    <3>1. memo[r].sum = total[memo[r].phone] + memo[r].n /\ memo[r].phone \in Phone
      BY <2>4, AtMove DEF LoyaltyInv, Holding, CommitSum
    <3> QED
      BY <2>2, <2>4, <3>1 DEF CommitSum, Insert, Summed, TypeOK
  <2>5. CASE CommitRedeem(r) /\ Insert(r)
    <3>1. memo[r].phone \in Phone /\ memo[r].n \in Int
      BY <2>5, AtMove DEF CommitRedeem
    <3>2. \/ balance' = [balance EXCEPT ![memo[r].phone] = @ + memo[r].n]
          \/ UNCHANGED <<balance, total>>
      BY <2>5 DEF CommitRedeem, Abort, tables
    <3>3. total' = [total EXCEPT ![memo[r].phone] = @ + memo[r].n]
      BY <2>5 DEF Insert
    <3> QED
      BY <2>2, <3>1, <3>2, <3>3 DEF TypeOK
  <2> QED
    BY <2>1, <2>3, <2>4, <2>5, WhoWrites
<1> QED
  BY <1>1, LoyaltySafe, PTL DEF Spec, OnlyRecalculatingDrifts

\* Every step on the points is a step of Points or leaves them alone: one
\* atomic earning, adjustment or redemption.
LEMMA StepOfPoints ==
  ASSUME LoyaltyInv, NEW r \in Req, Step(r)
  PROVE  P!Next \/ UNCHANGED P!points_vars
<1> DEFINE p == memo[r].phone
           paid == {m.of : m \in {e \in ledger : e.type = "earn"}}
           spent == {x.key : x \in redemptions}
<1>0. TypeOK
  BY DEF LoyaltyInv
<1>1. CASE UNCHANGED <<total, ledger, redemptions>>
  BY <1>1 DEF P!points_vars
<1>2. ASSUME pc[r] = "move", Insert(r)
      PROVE  /\ p \in Phone /\ memo[r].n \in Int /\ memo[r].sum = total[p] + memo[r].n
             /\ memo[r].sum >= 0
             /\ total' = [total EXCEPT ![p] = total'[p]]
             /\ total'[p] = total[p] + memo[r].n /\ total[p] \in Int
             /\ ledger' = ledger \cup {Movement(r)}
  <2>1. p \in Phone /\ memo[r].n \in Int
    BY <1>2, AtMove
  <2>2. memo[r].sum = total[p] + memo[r].n /\ memo[r].sum >= 0
    BY <1>2 DEF LoyaltyInv, Holding
  <2>3. total' = [total EXCEPT ![p] = total[p] + memo[r].n]
    BY <1>2 DEF Insert
  <2>4. total'[p] = total[p] + memo[r].n /\ total[p] \in Int
    BY <1>0, <2>1, <2>3 DEF TypeOK
  <2> QED
    BY <1>2, <2>1, <2>2, <2>3, <2>4 DEF Insert
<1>3. CASE CommitSum(r)
  <2>0. pc[r] = "move" /\ Insert(r) /\ op[r].name # "redeem" /\ redemptions' = redemptions
    BY <1>3 DEF CommitSum
  <2>1. CASE op[r].name = "status"
    <3>1. /\ op[r].appt \in Appt /\ ~Earned(op[r].appt) /\ memo[r].n > 0
          /\ p = PhoneOf[op[r].appt]
      BY <2>0, <2>1, AtMove, OperationFields DEF LoyaltyInv, Holding, Doing
    <3>2. Movement(r).type = "earn" /\ Movement(r).of = op[r].appt
      BY <2>0, <2>1, MovementIsEntry
    <3>3. paid' = paid \cup {op[r].appt}
      BY <1>2, <2>0, <3>2
    <3>4. op[r].appt \notin paid
      BY <3>1 DEF Earned
    <3>5. total'[p] > total[p]
      BY <1>2, <2>0, <3>1
    <3>6. PICK a \in Appt : a = op[r].appt
      BY <3>1
    <3>7. P!Earn(a)
      BY <1>2, <2>0, <3>1, <3>3, <3>4, <3>5, <3>6 DEF P!Earn
    <3> QED
      BY <3>7 DEF P!Next
  <2>2. CASE op[r].name = "adjust"
    <3>1. Movement(r).type = "adjust"
      BY <2>0, <2>2, MovementIsEntry
    <3>2. paid' = paid
      BY <1>2, <2>0, <3>1
    <3>3. P!Adjust(p)
      BY <1>2, <2>0, <3>2 DEF P!Adjust
    <3> QED
      BY <1>2, <2>0, <3>3 DEF P!Next
  <2> QED
    BY <2>0, <2>1, <2>2, AtMove DEF Doing
<1>4. CASE CommitRedeem(r) /\ Insert(r)
  <2>0. pc[r] = "move" /\ op[r].name = "redeem"
    BY <1>4 DEF CommitRedeem
  <2>1. op[r].key \in Key /\ ~Redeemed(op[r].key) /\ memo[r].n < 0
    BY <2>0, AtMove, OperationFields DEF LoyaltyInv, Holding, Doing
  <2>2. Movement(r).type = "redeem" /\ Movement(r).of = op[r].key
    BY <2>0, MovementIsEntry
  <2>3. paid' = paid
    BY <1>2, <1>4, <2>0, <2>2
  <2>4. CASE redemptions' = redemptions
    <3>1. P!Adjust(p)
      BY <1>2, <1>4, <2>0, <2>3, <2>4 DEF P!Adjust
    <3> QED
      BY <1>2, <1>4, <2>0, <3>1 DEF P!Next
  <2>5. CASE redemptions' = redemptions \cup
               {[by |-> r, key |-> op[r].key, phone |-> p, cost |-> -memo[r].n]}
    <3> DEFINE x == [by |-> r, key |-> op[r].key, phone |-> p, cost |-> -memo[r].n]
    <3>0. PICK k \in Key : k = op[r].key
      BY <2>1
    <3>1. spent' = spent \cup {k}
      <4>1. x.key = k
        BY <3>0
      <4> HIDE DEF x
      <4> QED BY <2>5, <4>1 DEF x
    <3>2. k \notin spent
      BY <2>1, <3>0 DEF Redeemed
    <3>3. total'[p] < total[p]
      BY <1>2, <1>4, <2>0, <2>1
    <3>4. P!Spend(p, k)
      BY <1>2, <1>4, <2>0, <2>3, <3>1, <3>2, <3>3 DEF P!Spend
    <3> QED
      BY <1>2, <1>4, <2>0, <3>4 DEF P!Next
  <2> QED
    BY <1>4, <2>4, <2>5 DEF CommitRedeem, Abort, tables
<1> QED
  BY <1>1, <1>3, <1>4, WhoWrites

\* What services/loyalty.py does to the points of a business implements Points:
\* every behaviour is a sequence of atomic movements that never overdraw.
THEOREM LoyaltyImplementsPoints == Spec => ImplementsPoints
<1>1. Init => P!Init
  BY DEF Init, P!Init
<1>2. LoyaltyInv /\ [Next]_vars => [P!Next]_(P!points_vars)
  <2>1. LoyaltyInv /\ Next => P!Next \/ UNCHANGED P!points_vars
    BY StepOfPoints DEF Next, Step
  <2>2. UNCHANGED vars => UNCHANGED P!points_vars
    BY DEF vars, tables, P!points_vars
  <2> QED
    BY <2>1, <2>2
<1> QED
  BY <1>1, <1>2, LoyaltySafe, PTL DEF Spec, ImplementsPoints, P!Spec

-----------------------------------------------------------------------------
(* Why a completed appointment has no points.                              *)

\* A step of a request leaves the others, and what was earned, alone.
LEMMA OnlyItself ==
  ASSUME LoyaltyInv, NEW r \in Req, Step(r)
  PROVE  /\ pc[r] # "done" /\ ledger \subseteq ledger'
         /\ \A s \in Req \ {r} : pc'[s] = pc[s] /\ op'[s] = op[s] /\ result'[s] = result[s]
<1>0. TypeOK /\ Checked(r)
  BY DEF LoyaltyInv
<1>1. ledger \subseteq ledger'
  BY WhoWrites DEF CommitSum, Insert
<1>2. CASE Arrive(r)
  <2>1. PICK o \in Operations :
          /\ pc[r] = "idle" /\ op' = [op EXCEPT ![r] = o]
          /\ \E step \in Steps : pc' = [pc EXCEPT ![r] = step]
          /\ \/ UNCHANGED result
             \/ \E answer \in Results : result' = [result EXCEPT ![r] = answer]
    <3>1. CASE BeginStatus(r)
      BY <3>1 DEF BeginStatus, Starts, Refuse, Begin, End, Steps, Results
    <3>2. CASE BeginAdjust(r)
      BY <3>2 DEF BeginAdjust, Starts, Refuse, Begin, End, Steps, Results
    <3>3. CASE BeginRedeem(r)
      BY <3>3 DEF BeginRedeem, Starts, Refuse, Begin, End, Steps, Results
    <3>4. CASE BeginRecalculate(r)
      BY <3>4 DEF BeginRecalculate, Starts, Begin, Steps
    <3>5. CASE BeginSettings(r)
      BY <3>5 DEF BeginSettings, Starts, Refuse, Begin, End, Steps, Results
    <3>6. CASE SaveReward(r)
      BY <3>6 DEF SaveReward, Starts, Refuse, Complete, End, Steps, Results
    <3>7. CASE BeginToggle(r)
      BY <3>7 DEF BeginToggle, Starts, Begin, Steps
    <3> QED
      BY <1>2, <3>1, <3>2, <3>3, <3>4, <3>5, <3>6, <3>7 DEF Arrive
  <2> QED
    BY <1>0, <1>1, <2>1 DEF TypeOK
<1>3. CASE Award(r)
  BY <1>0, <1>1, <1>3 DEF TypeOK, Award, AwardRead, AwardRate, EnterAward, Abort, Enter,
     Goto, End
<1>4. CASE Move(r)
  BY <1>0, <1>1, <1>4 DEF TypeOK, Move, EnterAdjust, EnterRedeem, CommitSum, CommitRedeem,
     Insert, Abort, Enter, Goto, End
<1>5. CASE Recalculate(r) \/ Save(r)
  BY <1>0, <1>1, <1>5 DEF TypeOK, Recalculate, RecalculateSum, RecalculateUpdate,
     RecalculateCommit, Save, EnsureSettings, SaveSettings, Toggle, Abort, Complete,
     Goto, End
<1>6. CASE LockTimeout(r) \/ Crash(r)
  BY <1>0, <1>1, <1>6 DEF TypeOK, LockTimeout, Crash, Abort, End
<1> QED
  BY <1>2, <1>3, <1>4, <1>5, <1>6 DEF Step, Proceed

\* Only update_appointment_status_scoped completes an appointment, and the same
\* request then goes for its points.
LEMMA WhoCompletes ==
  ASSUME LoyaltyInv, NEW r \in Req, Step(r), NEW a \in Appt,
         status'[a] = "completed", status[a] # "completed"
  PROVE  Answers(r, a)'
<1>0. TypeOK
  BY DEF LoyaltyInv
<1>1. CASE BeginStatus(r)
  <2>1. PICK o \in Operations :
          /\ o.name = "status" /\ op' = [op EXCEPT ![r] = o]
          /\ \/ UNCHANGED status
             \/ /\ status' = [status EXCEPT ![o.appt] = o.to]
                /\ o.to = "completed" => Begin(r, "award", Blank)
    BY <1>1 DEF BeginStatus, Starts, Refuse
  <2>2. o.appt = a /\ o.to = "completed" /\ Begin(r, "award", Blank)
    BY <1>0, <2>1, OperationFields DEF TypeOK
  <2>3. pc'[r] = "award" /\ op'[r] = o /\ o # Nothing
    BY <1>0, <2>1, <2>2, LoyaltyAssumption DEF Begin, TypeOK
  <2> QED
    BY <2>1, <2>2, <2>3 DEF Answers
<1>2. CASE Arrive(r) /\ ~BeginStatus(r)
  BY <1>2 DEF Arrive, BeginAdjust, BeginRedeem, BeginRecalculate, BeginSettings,
     SaveReward, BeginToggle, Refuse, Complete
<1>3. CASE Award(r)
  BY <1>3 DEF Award, AwardRead, AwardRate, EnterAward, Abort, Enter
<1>4. CASE Move(r)
  BY <1>4 DEF Move, EnterAdjust, EnterRedeem, CommitSum, CommitRedeem, Insert, Abort, Enter
<1>5. CASE Recalculate(r) \/ Save(r)
  BY <1>5 DEF Recalculate, RecalculateSum, RecalculateUpdate, RecalculateCommit, Save,
     EnsureSettings, SaveSettings, Toggle, Abort, Complete
<1>6. CASE LockTimeout(r) \/ Crash(r)
  BY <1>6 DEF LockTimeout, Crash, Abort
<1> QED
  BY <1>1, <1>2, <1>3, <1>4, <1>5, <1>6 DEF Step, Proceed

\* A request that goes for the points of an appointment pays, goes on or ends
\* with a reason, unless the appointment is not completed any more.
LEMMA PayerAnswers ==
  ASSUME LoyaltyInv, NEW r \in Req, Step(r), NEW a \in Appt, Answers(r, a),
         status[a] = "completed"
  PROVE  Earned(a)' \/ Answers(r, a)'
<1>0. TypeOK /\ Checked(r)
  BY DEF LoyaltyInv
<1>1. pc[r] \in {"award", "rate", "earn", "move"}
  BY <1>0, OnlyItself DEF Answers, Checked
<1>2. op[r] # Nothing /\ op[r].name = "status" /\ op[r].appt = a
  BY DEF Answers
<1>3. ASSUME op' = op,
             \/ pc' = [pc EXCEPT ![r] = "rate"] \/ pc' = [pc EXCEPT ![r] = "earn"]
             \/ pc' = [pc EXCEPT ![r] = "move"]
             \/ \E answer \in {"crashed", "error", "disabled", "missing_phone"} :
                  result' = [result EXCEPT ![r] = answer]
      PROVE  Answers(r, a)'
  BY <1>0, <1>2, <1>3 DEF Answers, TypeOK
<1>4. CASE AwardRead(r)
  BY <1>2, <1>3, <1>4 DEF AwardRead, Goto
<1>5. CASE AwardRate(r)
  BY <1>3, <1>5 DEF AwardRate, Abort, End, Goto
<1>6. CASE EnterAward(r)
  <2>1. CASE Earned(a)
    BY <2>1, OnlyItself DEF Earned
  <2>2. CASE ~Earned(a)
    BY <1>2, <1>3, <1>6, <2>2 DEF EnterAward, Enter, Goto
  <2> QED BY <2>1, <2>2
<1>7. CASE CommitSum(r)
  <2>1. Movement(r) \in ledger' /\ Movement(r).type = "earn" /\ Movement(r).of = a
    BY <1>2, <1>7, MovementIsEntry DEF CommitSum, Insert
  <2> QED
    BY <2>1 DEF Earned
<1>8. CASE LockTimeout(r) \/ Crash(r)
  BY <1>3, <1>8 DEF LockTimeout, Crash, Abort, End
<1>9. Step(r) /\ pc[r] \in {"award", "rate", "earn", "move"} /\ op[r].name = "status" =>
        \/ AwardRead(r) \/ AwardRate(r) \/ EnterAward(r) \/ CommitSum(r)
        \/ LockTimeout(r) \/ Crash(r)
  BY DEF Step, Arrive, BeginStatus, BeginAdjust, BeginRedeem, BeginRecalculate,
     BeginSettings, SaveReward, BeginToggle, Starts, Proceed, Award, Move, EnterAdjust,
     EnterRedeem, CommitRedeem, Recalculate, RecalculateSum, RecalculateUpdate,
     RecalculateCommit, Save, EnsureSettings, SaveSettings, Toggle
<1> QED
  BY <1>1, <1>2, <1>4, <1>5, <1>6, <1>7, <1>8, <1>9

\* award_points_for_completed leaves no completed appointment without its points
\* in silence: some request that completed it crashed, timed out or had nothing
\* to pay with, however completions and corrections overlap.
THEOREM CompletedArePaidOrExplained == Spec => []UnpaidHasAReason
<1>1. Init => Accounted
  BY DEF Init, Accounted
<1>2. LoyaltyInv /\ Accounted /\ [Next]_vars => Accounted'
  <2> SUFFICES ASSUME LoyaltyInv, Accounted, [Next]_vars, NEW a \in Appt,
                      status'[a] = "completed"
               PROVE  Earned(a)' \/ \E s \in Req : Answers(s, a)'
    BY DEF Accounted
  <2>1. CASE UNCHANGED vars
    BY <2>1 DEF vars, tables, Accounted, Earned, Answers
  <2>2. ASSUME NEW r \in Req, Step(r)
        PROVE  Earned(a)' \/ \E s \in Req : Answers(s, a)'
    <3>1. CASE status[a] # "completed"
      BY <2>2, <3>1, WhoCompletes
    <3>2. CASE status[a] = "completed" /\ Earned(a)
      BY <2>2, <3>2, OnlyItself DEF Earned
    <3>3. ASSUME status[a] = "completed", NEW s \in Req, Answers(s, a)
          PROVE  Earned(a)' \/ Answers(s, a)'
      <4>1. CASE s = r
        BY <2>2, <3>3, <4>1, PayerAnswers
      <4>2. CASE s # r
        BY <2>2, <3>3, <4>2, OnlyItself DEF Answers
      <4> QED BY <4>1, <4>2
    <3> QED
      BY <3>1, <3>2, <3>3 DEF Accounted
  <2> QED
    BY <2>1, <2>2 DEF Next, Step
<1>3. LoyaltyInv /\ Accounted => UnpaidHasAReason
  BY DEF LoyaltyInv, Checked, Accounted, UnpaidHasAReason, Answers, Earned
<1> QED
  BY <1>1, <1>2, <1>3, LoyaltySafe, PTL DEF Spec
===============================================================================
