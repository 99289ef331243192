------------------------------- MODULE Loyalty -------------------------------
(***************************************************************************)
(* Loyalty points of one business (services/loyalty.py): appointments that *)
(* the panel completes earn points, the panel adjusts and recalculates     *)
(* them, customers redeem them.  Movements are appended to a ledger; the   *)
(* balance kept in each account is a cache of the ledger's sum.            *)
(*                                                                         *)
(* Every request is one operation of a web worker.  Movements run under an *)
(* advisory lock of the business; recalculating the caches, saving rewards *)
(* and saving the settings do not.  A request may crash between any two of *)
(* its steps: what it had not committed is rolled back.                    *)
(***************************************************************************)
EXTENDS Integers, FiniteSets

CONSTANTS
  Req,         \* requests
  Phone,       \* normalised phones of at least seven digits
  Appt,        \* appointments
  PhoneOf,     \* the phone of each appointment, NoPhone if it has no such phone
  Reward,      \* rewards of the catalogue
  Key,         \* idempotency keys of redemptions
  Operations,  \* the operations the requests may ask for
  Cost,        \* points each reward costs at first
  Opening,     \* points that the movements before the start add up to
  NoPhone, Nobody, Nothing

VARIABLES
  status,      \* status of each appointment
  settings,    \* Nothing, or whether the programme is on and what it pays
  accounts,    \* phones that have an account
  balance,     \* cached points of each account
  total,       \* SUM(delta) of the ledger, per account
  ledger,      \* committed movements
  redemptions, \* committed redemptions
  catalogue,   \* cost and availability of each reward
  lock,        \* the request that holds the business's loyalty lock
  pc,          \* the next step of each request
  op,          \* its operation
  memo,        \* what it has read and will use later
  result       \* how it ended

tables == <<settings, accounts, balance, total, ledger, redemptions, catalogue>>
vars == <<status, tables, lock, pc, op, memo, result>>

-----------------------------------------------------------------------------

Statuses == {"confirmed", "completed", "cancelled", "no_show"}
Memo == [phone : Phone \cup {NoPhone}, n : Int, sum : Int,
         todo : SUBSET Phone, sums : [Phone -> Int \cup {Nothing}]]
Blank == [phone |-> NoPhone, n |-> 0, sum |-> 0, todo |-> {},
          sums |-> [p \in Phone |-> Nothing]]

\* What a request may ask for.
Operation ==
  [name : {"status"}, appt : Appt, to : Statuses]
    \cup [name : {"adjust"}, phone : Phone, delta : Int]
    \cup [name : {"redeem"}, phone : Phone, reward : Reward, key : Key]
    \cup [name : {"recalculate"}]
    \cup [name : {"settings"}, enabled : BOOLEAN, points : Int]
    \cup [name : {"reward"}, reward : Reward, cost : Int, active : BOOLEAN]
    \cup [name : {"toggle"}, reward : Reward, active : BOOLEAN]

\* Nobody starts in debt, and the catalogue holds no free reward.
ASSUME LoyaltyAssumption ==
  /\ NoPhone \notin Phone /\ Nobody \notin Req /\ Nothing \notin Operations
  /\ Operations \subseteq Operation
  /\ PhoneOf \in [Appt -> Phone \cup {NoPhone}]
  /\ Opening \in [Phone -> Nat]
  /\ Cost \in [Reward -> Nat \ {0}]

\* No other request has updated the row of the account without committing.
RowFree(r, p) == \A s \in Req \ {r} : memo[s].sums[p] = Nothing

\* Mutants: one earning per customer; the key of a redemption is not looked up.
EarnedByPhone(a) == \E m \in ledger : m.type = "earn" /\ m.phone = PhoneOf[a]
NeverRedeemed(k) == FALSE

Earned(a) == \E m \in ledger : m.type = "earn" /\ m.of = a
Redeemed(k) == \E x \in redemptions : x.key = k
Enabled == settings # Nothing /\ settings.enabled

\* Mutant: nobody waits for the lock.
LockIgnored(r) == TRUE
LockFree(r) == lock \in {Nobody, r}

Unlock(r) == lock' = IF lock = r THEN Nobody ELSE lock

\* The request ends, its transaction and its lock with it.
End(r, answer) ==
  /\ pc' = [pc EXCEPT ![r] = "done"]
  /\ result' = [result EXCEPT ![r] = answer]
  /\ memo' = [memo EXCEPT ![r] = Blank]
  /\ Unlock(r)

Abort(r, answer) ==
  /\ End(r, answer)
  /\ UNCHANGED <<status, tables, op>>

\* The request goes on to a step, remembering m.
Goto(r, step, m) ==
  /\ pc' = [pc EXCEPT ![r] = step]
  /\ memo' = [memo EXCEPT ![r] = m]
  /\ UNCHANGED <<op, result>>

Starts(r, name, o) ==
  /\ pc[r] = "idle" /\ o.name = name
  /\ op' = [op EXCEPT ![r] = o]

\* The movement of delta n is inserted under the lock, then the ledger summed.
Enter(r, n) ==
  /\ lock' = r
  /\ Goto(r, "move", [memo[r] EXCEPT !.n = n, !.sum = total[memo[r].phone] + n])
  /\ UNCHANGED <<status, tables>>

\* A request whose first statement decides what comes next.
Begin(r, step, m) ==
  /\ pc' = [pc EXCEPT ![r] = step]
  /\ memo' = [memo EXCEPT ![r] = m]
  /\ UNCHANGED <<tables, lock, result>>

Refuse(r, answer) ==
  /\ End(r, answer)
  /\ UNCHANGED <<status, tables>>

\* A request that is one statement.
Complete(r, answer) ==
  /\ End(r, answer)
  /\ UNCHANGED <<status, accounts, balance, total, ledger, redemptions>>

-----------------------------------------------------------------------------
(* Completing an appointment and paying for it.                            *)

\* admin_update_appointment_status: the new status commits on its own.
BeginStatus(r) == \E o \in Operations :
  /\ Starts(r, "status", o)
  /\ IF status[o.appt] = o.to \/ (status[o.appt] = "cancelled" /\ o.to = "confirmed")
       THEN Refuse(r, "refused")
       ELSE /\ status' = [status EXCEPT ![o.appt] = o.to]
            /\ IF o.to = "completed"
                 THEN Begin(r, "award", Blank)
                 ELSE End(r, "updated") /\ UNCHANGED tables

\* award_points_for_completed reads the appointment again, without any lock,
AwardRead(r) ==
  /\ pc[r] = "award"
  /\ IF status[op[r].appt] # "completed"
       THEN Abort(r, "not_completed")
       ELSE Goto(r, "rate", Blank) /\ UNCHANGED <<status, tables, lock>>

\* then the settings, on a second connection.
AwardRate(r) ==
  LET phone == PhoneOf[op[r].appt] IN
  /\ pc[r] = "rate"
  /\ IF ~Enabled \/ settings.points <= 0
       THEN Abort(r, "disabled")
     ELSE IF phone = NoPhone
       THEN Abort(r, "missing_phone")
       ELSE /\ Goto(r, "earn", [Blank EXCEPT !.n = settings.points, !.phone = phone])
            /\ UNCHANGED <<status, tables, lock>>

\* The unique index lets one movement per appointment pass.
EnterAward(r) ==
  /\ pc[r] = "earn" /\ LockFree(r)
  /\ IF Earned(op[r].appt) THEN Abort(r, "already_awarded")
                           ELSE Enter(r, memo[r].n)

-----------------------------------------------------------------------------
(* Adjusting and redeeming points.                                         *)

\* adjust_points first looks at the cached balance, without the lock,
BeginAdjust(r) == \E o \in Operations :
  /\ Starts(r, "adjust", o)
  /\ UNCHANGED status
  /\ IF o.phone \notin accounts
       THEN Refuse(r, "not_found")
     ELSE IF o.delta = 0 \/ balance[o.phone] + o.delta < 0
       THEN Refuse(r, "negative_balance")
       ELSE Begin(r, "adjust", [Blank EXCEPT !.n = o.delta, !.phone = o.phone])

\* Mutant: the check before the lock is the only one.
NeverOverdraws(r) == FALSE

Overdraws(r) == total[memo[r].phone] + memo[r].n < 0

\* and sums the ledger with the movement in it under the lock.
EnterAdjust(r) ==
  /\ pc[r] = "adjust" /\ LockFree(r)
  /\ IF Overdraws(r) THEN Abort(r, "negative_balance") ELSE Enter(r, memo[r].n)

\* gestionar_turno, "canjear": only with the programme on and an account.
BeginRedeem(r) == \E o \in Operations :
  /\ Starts(r, "redeem", o)
  /\ UNCHANGED status
  /\ IF ~Enabled \/ o.phone \notin accounts
       THEN Refuse(r, "disabled")
       ELSE Begin(r, "redeem", [Blank EXCEPT !.phone = o.phone])

\* Under the lock: the key, the reward and the sum of the ledger.
EnterRedeem(r) ==
  LET reward == catalogue[op[r].reward] IN
  /\ pc[r] = "redeem" /\ LockFree(r)
  /\ IF Redeemed(op[r].key)
       THEN Abort(r, "already_processed")
     ELSE IF ~reward.active
       THEN Abort(r, "not_found")
     ELSE IF total[memo[r].phone] < reward.cost
       THEN Abort(r, "insufficient_points")
       ELSE Enter(r, -reward.cost)

\* The movement a request appends to the ledger.
Movement(r) ==
  [by |-> r, phone |-> memo[r].phone, delta |-> memo[r].n,
   type |-> CASE op[r].name = "status" -> "earn"
              [] op[r].name = "adjust" -> "adjust"
              [] op[r].name = "redeem" -> "redeem",
   of |-> CASE op[r].name = "status" -> op[r].appt
            [] op[r].name = "adjust" -> Nothing
            [] op[r].name = "redeem" -> op[r].key]

Insert(r) ==
  /\ ledger' = ledger \cup {Movement(r)}
  /\ total' = [total EXCEPT ![memo[r].phone] = @ + memo[r].n]
  /\ UNCHANGED <<status, settings, catalogue, op>>

\* Mutant: the balance is summed before the movement is inserted.
StaleSum(r) == memo[r].sum - memo[r].n

Summed(r) == memo[r].sum

\* Earning and adjusting write the sum to the cache and commit.
CommitSum(r) ==
  /\ pc[r] = "move" /\ op[r].name # "redeem" /\ RowFree(r, memo[r].phone)
  /\ Insert(r)
  /\ accounts' = accounts \cup {memo[r].phone}
  /\ balance' = [balance EXCEPT ![memo[r].phone] = Summed(r)]
  /\ End(r, "moved")
  /\ UNCHANGED redemptions

\* Redeeming takes the cost from the cache if the cache can pay it; if not,
\* everything is rolled back.
CommitRedeem(r) ==
  LET p == memo[r].phone IN
  /\ pc[r] = "move" /\ op[r].name = "redeem" /\ RowFree(r, p)
  /\ IF balance[p] < -memo[r].n
       THEN Abort(r, "cache_too_low")
       ELSE /\ Insert(r)
            /\ balance' = [balance EXCEPT ![p] = @ + memo[r].n]
            /\ redemptions' = redemptions \cup
                 {[by |-> r, key |-> op[r].key, phone |-> p, cost |-> -memo[r].n]}
            /\ End(r, "redeemed")
            /\ UNCHANGED accounts

-----------------------------------------------------------------------------
(* Recalculating the caches: one transaction, without the lock.            *)

BeginRecalculate(r) == \E o \in Operations :
  /\ Starts(r, "recalculate", o)
  /\ UNCHANGED status
  /\ Begin(r, "recalculate", [Blank EXCEPT !.todo = accounts])

RecalculateSum(r) ==
  /\ pc[r] = "recalculate" /\ memo[r].phone = NoPhone
  /\ \E p \in memo[r].todo :
       Goto(r, "recalculate", [memo[r] EXCEPT !.phone = p, !.sum = total[p]])
  /\ UNCHANGED <<status, tables, lock>>

\* The row stays locked until the recalculation commits.
RecalculateUpdate(r) ==
  LET p == memo[r].phone IN
  /\ pc[r] = "recalculate" /\ p # NoPhone /\ RowFree(r, p)
  /\ Goto(r, "recalculate",
          [memo[r] EXCEPT !.phone = NoPhone, !.todo = @ \ {p}, !.sum = 0,
             !.sums = [@ EXCEPT ![p] = memo[r].sum]])
  /\ UNCHANGED <<status, tables, lock>>

RecalculateCommit(r) ==
  LET sums == memo[r].sums IN
  /\ pc[r] = "recalculate" /\ memo[r].phone = NoPhone /\ memo[r].todo = {}
  /\ balance' = [p \in Phone |-> IF sums[p] = Nothing THEN balance[p] ELSE sums[p]]
  /\ End(r, "recalculated")
  /\ UNCHANGED <<status, settings, accounts, total, ledger, redemptions, catalogue, op>>

-----------------------------------------------------------------------------
(* Settings and rewards.                                                   *)

\* Mutant: points are not validated.
AnyPoints(o) == FALSE

InvalidPoints(o) == o.points < 0

\* update_loyalty_settings_scoped: the row is made on first use, off and with
\* one point per appointment, after a look that it is missing.
BeginSettings(r) == \E o \in Operations :
  /\ Starts(r, "settings", o)
  /\ UNCHANGED status
  /\ IF InvalidPoints(o)
       THEN Refuse(r, "invalid")
       ELSE Begin(r, IF settings = Nothing THEN "ensure" ELSE "settings", Blank)

\* ensure_loyalty_settings_scoped, on a connection of its own: a concurrent
\* first use makes it fail on the unique business.
EnsureSettings(r) ==
  /\ pc[r] = "ensure"
  /\ IF settings # Nothing
       THEN Abort(r, "error")
       ELSE /\ settings' = [enabled |-> FALSE, points |-> 1]
            /\ Goto(r, "settings", Blank)
            /\ UNCHANGED <<status, accounts, balance, total, ledger, redemptions,
                           catalogue, lock>>

SaveSettings(r) ==
  /\ pc[r] = "settings"
  /\ settings' = [enabled |-> op[r].enabled, points |-> op[r].points]
  /\ Complete(r, "saved")
  /\ UNCHANGED <<op, catalogue>>

\* save_reward, from the form of the panel
SaveReward(r) == \E o \in Operations :
  /\ Starts(r, "reward", o)
  /\ IF o.cost <= 0
       THEN Refuse(r, "invalid")
       ELSE /\ catalogue' = [catalogue EXCEPT
                               ![o.reward] = [cost |-> o.cost, active |-> o.active]]
            /\ Complete(r, "saved")
            /\ UNCHANGED settings

\* admin_recompensa_estado reads the whole reward,
BeginToggle(r) == \E o \in Operations :
  /\ Starts(r, "toggle", o)
  /\ UNCHANGED status
  /\ Begin(r, "toggle", [Blank EXCEPT !.n = catalogue[o.reward].cost])

\* and saves it back with the availability asked for.
Toggle(r) ==
  /\ pc[r] = "toggle"
  /\ catalogue' = [catalogue EXCEPT
                     ![op[r].reward] = [cost |-> memo[r].n, active |-> op[r].active]]
  /\ Complete(r, "saved")
  /\ UNCHANGED <<op, settings>>

-----------------------------------------------------------------------------
(* Waits and crashes.                                                      *)

\* lock_timeout, on the business lock or on a row
LockTimeout(r) ==
  /\ \/ pc[r] \in {"earn", "adjust", "redeem"} /\ ~LockFree(r)
     \/ pc[r] \in {"move", "recalculate"} /\ memo[r].phone # NoPhone
        /\ ~RowFree(r, memo[r].phone)
  /\ Abort(r, "error")

Crash(r) ==
  /\ pc[r] \notin {"idle", "done"}
  /\ Abort(r, "crashed")

Init ==
  /\ status = [a \in Appt |-> "confirmed"]
  /\ settings \in {Nothing, [enabled |-> TRUE, points |-> 1]}
  /\ accounts = {p \in Phone : Opening[p] > 0}
  /\ balance = Opening
  /\ total = Opening
  /\ ledger = {}
  /\ redemptions = {}
  /\ catalogue = [w \in Reward |-> [cost |-> Cost[w], active |-> TRUE]]
  /\ lock = Nobody
  /\ pc = [r \in Req |-> "idle"]
  /\ op = [r \in Req |-> Nothing]
  /\ memo = [r \in Req |-> Blank]
  /\ result = [r \in Req |-> "none"]

Arrive(r) == \/ BeginStatus(r) \/ BeginAdjust(r) \/ BeginRedeem(r)
             \/ BeginRecalculate(r) \/ BeginSettings(r) \/ SaveReward(r)
             \/ BeginToggle(r)

Award(r) == AwardRead(r) \/ AwardRate(r) \/ EnterAward(r)

Move(r) == EnterAdjust(r) \/ EnterRedeem(r) \/ CommitSum(r) \/ CommitRedeem(r)

Recalculate(r) == RecalculateSum(r) \/ RecalculateUpdate(r) \/ RecalculateCommit(r)

Save(r) == EnsureSettings(r) \/ SaveSettings(r) \/ Toggle(r)

Proceed(r) == Award(r) \/ Move(r) \/ Recalculate(r) \/ Save(r)

Next == \E r \in Req : Arrive(r) \/ Proceed(r) \/ LockTimeout(r) \/ Crash(r)

Spec == Init /\ [][Next]_vars

-----------------------------------------------------------------------------
(* Properties.                                                             *)

Steps == {"idle", "award", "rate", "earn", "adjust", "redeem", "move",
          "recalculate", "ensure", "settings", "toggle", "done"}
Results == {"none", "refused", "updated", "not_completed", "disabled",
            "missing_phone", "already_awarded", "not_found", "negative_balance",
            "already_processed", "insufficient_points", "moved", "cache_too_low",
            "redeemed", "recalculated", "invalid", "error", "saved", "crashed"}
Entry == [by : Req, phone : Phone, delta : Int, type : {"earn", "adjust", "redeem"},
          of : Appt \cup Key \cup {Nothing}]

\* Every variable stays in its domain.
TypeOK ==
  /\ status \in [Appt -> Statuses]
  /\ settings = Nothing \/ settings \in [enabled : BOOLEAN, points : Nat]
  /\ accounts \subseteq Phone
  /\ balance \in [Phone -> Int]
  /\ total \in [Phone -> Int]
  /\ ledger \subseteq Entry
  /\ redemptions \subseteq [by : Req, key : Key, phone : Phone, cost : Nat]
  /\ catalogue \in [Reward -> [cost : Nat \ {0}, active : BOOLEAN]]
  /\ lock \in Req \cup {Nobody}
  /\ pc \in [Req -> Steps]
  /\ op \in [Req -> Operations \cup {Nothing}]
  /\ memo \in [Req -> Memo]
  /\ result \in [Req -> Results]

\* Whatever requests overlap, the points of every customer are those of a
\* sequence of atomic movements that never overdraw: an appointment pays once,
\* a redemption key is spent once, and crashes leave no half movement.
P == INSTANCE Points WITH
       points <- total,
       paid   <- {m.of : m \in {e \in ledger : e.type = "earn"}},
       spent  <- {x.key : x \in redemptions}
ImplementsPoints == P!Spec

\* The points of the ledger are never negative: checks made on the cached
\* balance or on a sum are still good when the movement commits.
NeverOverdrawn == \A p \in Phone : total[p] >= 0

\* A redemption and the movement that pays for it are committed together, one
\* of each per key and for the same points.
RedemptionsArePaid ==
  /\ \A x \in redemptions : \E m \in ledger :
       m.type = "redeem" /\ m.of = x.key /\ m.phone = x.phone /\ m.delta = -x.cost
  /\ \A m \in ledger : m.type = "redeem" =>
       Cardinality({x \in redemptions : x.key = m.of}) = 1

\* No movement makes a right cache wrong: only a recalculation that overlapped
\* a movement may leave an account whose cache is not the sum of its ledger.
OnlyRecalculatingDrifts ==
  [][\A p \in Phone : balance[p] = total[p] /\ balance'[p] # total'[p] =>
       \E r \in Req : result[r] = "none" /\ result'[r] = "recalculated"]_vars

\* When all is quiet, an appointment left completed without points has a
\* reason: a request that completed it crashed, timed out or found nothing to pay.
UnpaidHasAReason ==
  (\A r \in Req : pc[r] \in {"idle", "done"}) =>
    \A a \in {b \in Appt : status[b] = "completed"} :
      \/ \E m \in ledger : m.type = "earn" /\ m.of = a
      \/ \E r \in Req : /\ op[r] # Nothing /\ op[r].name = "status" /\ op[r].appt = a
                     /\ result[r] \in {"crashed", "error", "disabled", "missing_phone"}
==============================================================================
