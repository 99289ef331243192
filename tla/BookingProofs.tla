---------------------------- MODULE BookingProofs ----------------------------
(***************************************************************************)
(* Proofs about Booking, for any number of requests, days, contacts,       *)
(* resources and stored appointments: its types, the absence of circular   *)
(* waits, the agenda without double bookings, the quota of each contact,   *)
(* and that the whole implements Calendar.                                 *)
(***************************************************************************)
EXTENDS Booking, FiniteSetTheorems, WellFoundedInduction, TLAPS

-----------------------------------------------------------------------------
(* Typing.                                                                 *)

\* Only a request that has named its service function waits for locks.
TypeInv == TypeOK /\ \A r \in Req : pc[r] = "locking" => op[r] # "none"

\* The absent appointment is a row.
LEMMA BlankIsRow == Blank \in Row
BY RowsAssumption DEF Blank, Row, Status

\* Initially every variable is in its domain.
LEMMA InitTyped == Init => TypeInv
<1> SUFFICES ASSUME Init PROVE TypeInv
  OBVIOUS
<1>1. appts \in [Id -> Row]
  BY BlankIsRow, BookingAssumption DEF Init, Id
<1>2. now \in Instant
  BY BookingAssumption DEF Init
<1>3. want \in [Req -> Row]
  BY BlankIsRow DEF Init
<1>4. origin \in [Req -> Instant]
  BY BookingAssumption DEF Init
<1>5. target \in [Req -> Id]
  BY DEF Init, Id
<1> QED
  BY <1>1, <1>2, <1>3, <1>4, <1>5
     DEF Init, TypeInv, TypeOK, Label, Operation, Answer, Id

\* The end of a transaction keeps the local state typed.
LEMMA FinishTyped ==
  ASSUME TypeInv, NEW r \in Req, NEW a \in Answer, Finish(r, a)
  PROVE  /\ pc' \in [Req -> Label] /\ pc'[r] = "done"
         /\ \A s \in Req \ {r} : pc'[s] = pc[s]
         /\ reply' \in [Req -> Answer \cup {"none"}]
         /\ wait' \in [Req -> SUBSET Nat] /\ held' \in [Req -> SUBSET Nat]
         /\ want' \in [Req -> Row] /\ origin' \in [Req -> Instant]
BY BlankIsRow, BookingAssumption DEF Finish, TypeInv, TypeOK, Label

\* Rolling back stays in the types.
LEMMA AbortTyped ==
  ASSUME TypeInv, NEW r \in Req, NEW a \in Answer, Abort(r, a)
  PROVE  TypeInv'
BY FinishTyped DEF Abort, data, TypeInv, TypeOK

\* Going on to the next query stays in the types.
LEMMA ContinueTyped ==
  ASSUME TypeInv, NEW r \in Req, NEW step \in Label \ {"locking"}, Continue(r, step)
  PROVE  TypeInv'
BY DEF Continue, data, local, TypeInv, TypeOK

\* Refusing a request before its locks stays in the types.
LEMMA RefuseTyped ==
  ASSUME TypeInv, NEW r \in Req, NEW kind \in Operation, NEW a \in Id,
         NEW answer \in Answer, Refuse(r, kind, a, answer)
  PROVE  TypeInv'
BY DEF Refuse, data, TypeInv, TypeOK, Label, Operation

\* Starting the operation of a request stays in the types.
LEMMA BeginTyped ==
  ASSUME TypeInv, NEW r \in Req, NEW kind \in Operation, NEW a \in Id,
         NEW row \in Row, NEW slot \in Instant, NEW keys \in SUBSET Nat,
         Begin(r, kind, a, row, slot, keys)
  PROVE  TypeInv'
BY DEF Begin, data, TypeInv, TypeOK, Label, Operation

\* A day of the schedule, and the contacts of a row, are lock keys.
LEMMA KeysAreNat ==
  /\ Day \subseteq Nat
  /\ \A row \in Row : ContactLocks(row) \subseteq Nat /\ row.date \in Nat
BY RowsAssumption, BookingAssumption DEF ContactLocks, Row

\* What a request may ask for is a row.
LEMMA AskedRows ==
  /\ \A b \in Bookings : b.op \in {"book", "manual"} /\ b.row \in Row
  /\ \A m \in Moves, row \in Row :
       /\ m.op \in {"move", "shift"} /\ m.date \in Nat
       /\ [row EXCEPT !.date = m.date, !.time = m.time, !.res = m.res] \in Row
  /\ \A row \in Row, s \in Status \cup {"absent"} : [row EXCEPT !.status = s] \in Row
BY RowsAssumption, BookingAssumption DEF Row

\* A request that arrives is refused, or opens a transaction that is going to
\* lock the day it wants.
LEMMA ArriveShape ==
  ASSUME TypeInv, NEW r \in Req, Arrive(r)
  PROVE  /\ pc[r] = "idle"
         /\ \E kind \in Operation, a \in Id :
              /\ kind \in {"book", "manual"} => a = r
              /\ \/ \E answer \in Answer : Refuse(r, kind, a, answer)
                 \/ \E row \in Row, slot \in Instant, keys \in SUBSET Nat :
                      /\ Begin(r, kind, a, row, slot, keys)
                      /\ row.date \in keys /\ row.status # "absent"
                      /\ kind \in {"book", "manual"} \/ appts[a].status # "absent"
<1>1. CASE BeginCreate(r)
  <2>1. PICK b \in Bookings :
          \/ Refuse(r, b.op, r, "contact_limit")
          \/ Refuse(r, b.op, r, "invalid")
          \/ \E keys \in {{b.row.date}, {b.row.date} \cup ContactLocks(b.row)} :
               Begin(r, b.op, r, b.row, Start, keys)
    BY <1>1 DEF BeginCreate
  <2>2. r \in Id /\ b.op \in Operation \cap {"book", "manual"} /\ b.row \in Row
    BY AskedRows DEF Id, Operation
  <2>3. /\ {"contact_limit", "invalid"} \subseteq Answer /\ Start \in Instant
        /\ b.row.status # "absent"
    BY BookingAssumption DEF Answer
  <2>4. {b.row.date} \in SUBSET Nat /\ {b.row.date} \cup ContactLocks(b.row) \in SUBSET Nat
    BY <2>2, KeysAreNat
  <2>5. pc[r] = "idle"
    BY <1>1 DEF BeginCreate
  <2> QED
    BY <2>1, <2>2, <2>3, <2>4, <2>5
<1>2. CASE BeginMove(r)
  <2>1. PICK a \in Id, m \in Moves :
          \/ Refuse(r, m.op, a, "not_found")
          \/ /\ appts[a].status # "absent"
             /\ \E keys \in {{appts[a].date, m.date},
                             {appts[a].date, m.date} \cup ContactLocks(appts[a])} :
                  Begin(r, m.op, a,
                        [appts[a] EXCEPT !.date = m.date, !.time = m.time, !.res = m.res],
                        [day |-> appts[a].date, min |-> appts[a].time], keys)
    BY <1>2 DEF BeginMove, MoveLocks, DayLocks
  <2> DEFINE row == [appts[a] EXCEPT !.date = m.date, !.time = m.time, !.res = m.res]
  <2>2. appts[a] \in Row /\ m.op \in Operation \ {"book", "manual"} /\ m.date \in Nat
    BY AskedRows DEF TypeInv, TypeOK, Operation
  <2>3. row \in Row /\ row.date = m.date /\ row.status = appts[a].status
    BY <2>2, AskedRows DEF Row
  <2>4. "not_found" \in Answer /\ [day |-> appts[a].date, min |-> appts[a].time] \in Instant
    BY <2>2 DEF Answer, Instant, Row
  <2>5. /\ {appts[a].date, m.date} \in SUBSET Nat
        /\ {appts[a].date, m.date} \cup ContactLocks(appts[a]) \in SUBSET Nat
    BY <2>2, KeysAreNat
  <2>6. pc[r] = "idle"
    BY <1>2 DEF BeginMove
  <2> HIDE DEF row
  <2>7. \/ Refuse(r, m.op, a, "not_found")
        \/ /\ appts[a].status # "absent"
           /\ \E keys \in SUBSET Nat :
                /\ row.date \in keys
                /\ Begin(r, m.op, a, row, [day |-> appts[a].date, min |-> appts[a].time], keys)
    BY <2>1, <2>3, <2>5 DEF row
  <2> QED
    BY <2>7, <2>2, <2>3, <2>4, <2>6
<1>3. CASE BeginCancel(r) \/ BeginStatus(r)
  <2>1. PICK a \in Id, s \in Status, kind \in {"cancel", "status"} :
          \/ Refuse(r, kind, a, "refused")
          \/ /\ appts[a].status # "absent"
             /\ Begin(r, kind, a, [appts[a] EXCEPT !.status = s], Start, {appts[a].date})
    <3>1. CASE BeginCancel(r)
      BY <3>1, "cancelled" \in Status DEF BeginCancel, Status
    <3>2. CASE BeginStatus(r)
      BY <3>2, "cancelled" \in Status DEF BeginStatus, Status
    <3> QED
      BY <1>3, <3>1, <3>2
  <2> DEFINE row == [appts[a] EXCEPT !.status = s]
  <2>2. /\ appts[a] \in Row /\ "refused" \in Answer
        /\ kind \in Operation \ {"book", "manual"}
    BY DEF TypeInv, TypeOK, Operation, Answer
  <2>3. row \in Row /\ row.date = appts[a].date /\ row.status # "absent"
    BY <2>2, AskedRows DEF Row, Status
  <2>4. Start \in Instant /\ {appts[a].date} \in SUBSET Nat
    BY <2>2, BookingAssumption, KeysAreNat
  <2>5. pc[r] = "idle"
    BY <1>3 DEF BeginCancel, BeginStatus
  <2> HIDE DEF row
  <2>6. \/ Refuse(r, kind, a, "refused")
        \/ appts[a].status # "absent" /\ Begin(r, kind, a, row, Start, {appts[a].date})
    BY <2>1 DEF row
  <2> QED
    BY <2>2, <2>3, <2>4, <2>5, <2>6
<1> QED
  BY <1>1, <1>2, <1>3 DEF Arrive

\* Every arriving request stays in the types.
LEMMA ArriveTyped ==
  ASSUME TypeInv, NEW r \in Req, Arrive(r)
  PROVE  TypeInv'
BY ArriveShape, RefuseTyped, BeginTyped

\* Taking locks, giving up on them and dying stay in the types.
LEMMA LocksTyped ==
  ASSUME TypeInv, NEW r \in Req, Acquire(r) \/ LockTimeout(r) \/ Crash(r)
  PROVE  TypeInv'
<1>1. CASE Acquire(r)
  <2>1. op[r] \in Operation
    BY <1>1 DEF Acquire, TypeInv, TypeOK
  <2>2. FirstStep(r) \in Label \ {"locking"}
    BY <2>1 DEF FirstStep, Operation, Label
  <2>3. PICK k \in wait[r] :
          /\ held' = [held EXCEPT ![r] = @ \cup {k}]
          /\ wait' = [wait EXCEPT ![r] = @ \ {k}]
          /\ pc' = [pc EXCEPT ![r] = IF wait[r] = {k} THEN FirstStep(r) ELSE "locking"]
    BY <1>1 DEF Acquire
  <2>4. k \in Nat
    BY DEF TypeInv, TypeOK
  <2>5. pc' \in [Req -> Label] /\ held' \in [Req -> SUBSET Nat] /\ wait' \in [Req -> SUBSET Nat]
    BY <2>2, <2>3, <2>4 DEF TypeInv, TypeOK, Label
  <2>6. pc[r] = "locking" /\ UNCHANGED <<data, now, local, reply>>
    BY <1>1 DEF Acquire
  <2> QED
    BY <2>2, <2>3, <2>5, <2>6 DEF data, local, TypeInv, TypeOK
<1>2. CASE LockTimeout(r)
  <2>1. op[r] \in Operation
    BY <1>2 DEF LockTimeout, TypeInv, TypeOK
  <2>2. PICK a \in {"busy", "refused", "error"} : Abort(r, a)
    BY <1>2, <2>1 DEF LockTimeout, Operation
  <2> QED
    BY <2>2, AbortTyped DEF Answer
<1>3. CASE Crash(r)
  BY <1>3, AbortTyped DEF Crash, Answer
<1> QED
  BY <1>1, <1>2, <1>3

\* Every query stays in the types.
LEMMA QueryTyped ==
  ASSUME TypeInv, NEW r \in Req, Query(r)
  PROVE  TypeInv'
<1>1. CASE Reread(r)
  <2>1. CASE \E a \in Answer : Abort(r, a)
    BY <2>1, AbortTyped
  <2>2. CASE ~(\E a \in Answer : Abort(r, a))
    <3>1. /\ pc' = [pc EXCEPT ![r] = IF op[r] = "move" THEN "occupied" ELSE "overlap"]
          /\ want' = [want EXCEPT ![r] = MovedRow(r)]
          /\ UNCHANGED <<data, now, op, target, origin, wait, held, reply>>
      BY <1>1, <2>2 DEF Reread, Answer
    <3>2. MovedRow(r) \in Row
      <4>1. appts[target[r]] \in Row /\ want[r] \in Row
        BY DEF TypeInv, TypeOK
      <4> QED
        BY <4>1, RowsAssumption DEF MovedRow, Row
    <3> QED
      BY <3>1, <3>2 DEF data, TypeInv, TypeOK, Label
  <2> QED
    BY <2>1, <2>2
<1>2. CASE Replay(r) \/ QuotaPhone(r) \/ QuotaEmail(r) \/ OverlapCheck(r) \/ Occupied(r)
           \/ Winner(r)
  <2>1. \/ \E a \in Answer : Abort(r, a)
        \/ \E step \in Label \ {"locking"} : Continue(r, step)
    BY <1>2 DEF Replay, QuotaPhone, QuotaEmail, OverlapCheck, Occupied, Winner, Answer, Label
  <2> QED
    BY <2>1, AbortTyped, ContinueTyped
<1> QED
  BY <1>1, <1>2 DEF Query

\* Every write stays in the types.
LEMMA WriteTyped ==
  ASSUME TypeInv, NEW r \in Req, Write(r)
  PROVE  TypeInv'
<1>1. ASSUME NEW a \in Id, NEW row \in Row, NEW answer \in Answer,
             appts' = [appts EXCEPT ![a] = row], Finish(r, answer),
             UNCHANGED <<now, op, target>>, unlimited' \subseteq Id, reopened' \subseteq Id
      PROVE  TypeInv'
  BY <1>1, FinishTyped DEF TypeInv, TypeOK
<1>2. target[r] \in Id /\ appts[target[r]] \in Row /\ want[r] \in Row /\ r \in Id
  BY DEF TypeInv, TypeOK, Id
<1>3. CASE \E a \in Answer : Abort(r, a)
  BY <1>3, AbortTyped
<1>4. CASE Insert(r) /\ ~(\E a \in Answer : Abort(r, a))
  <2>1. CASE SlotTaken(want[r], r) \/ KeyTaken(want[r])
    BY <1>4, <2>1 DEF Insert, data, local, TypeInv, TypeOK, Label
  <2>2. CASE ~(SlotTaken(want[r], r) \/ KeyTaken(want[r]))
    <3>1. /\ appts' = [appts EXCEPT ![r] = want[r]] /\ Finish(r, "created")
          /\ unlimited' \in {unlimited, unlimited \cup {r}}
          /\ UNCHANGED <<now, op, target, reopened>>
      BY <1>4, <2>2 DEF Insert
    <3>2. "created" \in Answer /\ unlimited' \subseteq Id /\ reopened' \subseteq Id
      BY <3>1, <1>2 DEF Answer, TypeInv, TypeOK
    <3> QED
      BY <3>1, <3>2, <1>1, <1>2
  <2> QED
    BY <2>1, <2>2
<1>5. CASE Update(r) /\ ~(\E a \in Answer : Abort(r, a))
  <2> DEFINE row == UpdatedRow(r)
  <2>1. /\ appts' = [appts EXCEPT ![target[r]] = row] /\ Finish(r, "rescheduled")
        /\ unlimited' \in {unlimited \cup {target[r]}, unlimited \ {target[r]}}
        /\ reopened' = reopened \ {target[r]}
        /\ UNCHANGED <<now, op, target>>
    BY <1>5 DEF Update, Answer
  <2>2. row \in Row
    BY <1>2 DEF UpdatedRow, Row
  <2>3. "rescheduled" \in Answer /\ unlimited' \subseteq Id /\ reopened' \subseteq Id
    BY <2>1, <1>2 DEF Answer, TypeInv, TypeOK
  <2> QED
    BY <2>1, <2>2, <2>3, <1>1, <1>2
<1>6. CASE (Cancel(r) \/ SetStatus(r)) /\ ~(\E a \in Answer : Abort(r, a))
  <2>1. PICK s \in Status \cup {"absent"}, a \in {"cancelled", "updated"} :
          /\ appts' = [appts EXCEPT ![target[r]].status = s] /\ Finish(r, a)
          /\ unlimited' \in {unlimited, unlimited \cup {target[r]}}
          /\ reopened' \in {reopened, reopened \cup {target[r]}}
          /\ UNCHANGED <<now, op, target>>
    <3>1. CASE Cancel(r)
      BY <1>6, <3>1 DEF Cancel, Answer, Status
    <3>2. CASE SetStatus(r)
      <4>1. want[r].status \in Status \cup {"absent"}
        BY <3>2, <1>2 DEF SetStatus, Row
      <4>2. /\ appts' = [appts EXCEPT ![target[r]].status = want[r].status]
            /\ Finish(r, "updated")
            /\ unlimited' \in {unlimited, unlimited \cup {target[r]}}
            /\ reopened' \in {reopened, reopened \cup {target[r]}}
            /\ UNCHANGED <<now, op, target>>
        BY <1>6, <3>2 DEF SetStatus, Answer
      <4> QED
        BY <4>1, <4>2
    <3> QED
      BY <1>6, <3>1, <3>2
  <2>2. [appts[target[r]] EXCEPT !.status = s] \in Row
    BY <1>2, AskedRows
  <2>3. appts' = [appts EXCEPT ![target[r]] = [appts[target[r]] EXCEPT !.status = s]]
    BY <2>1
  <2>4. a \in Answer /\ unlimited' \subseteq Id /\ reopened' \subseteq Id
    BY <2>1, <1>2 DEF Answer, TypeInv, TypeOK
  <2> QED
    BY <2>1, <2>2, <2>3, <2>4, <1>1, <1>2
<1> QED
  BY <1>3, <1>4, <1>5, <1>6 DEF Write

\* Every step stays in the types.
LEMMA NextTyped == TypeInv /\ [Next]_vars => TypeInv'
<1> SUFFICES ASSUME TypeInv, [Next]_vars PROVE TypeInv'
  OBVIOUS
<1>1. ASSUME NEW r \in Req, Arrive(r) \/ Proceed(r) \/ LockTimeout(r) \/ Crash(r)
      PROVE  TypeInv'
  BY <1>1, ArriveTyped, LocksTyped, QueryTyped, WriteTyped DEF Proceed
<1>2. CASE Tick
  BY <1>2, BookingAssumption DEF Tick, data, local, TypeInv, TypeOK
<1>3. CASE UNCHANGED vars
  BY <1>3 DEF vars, TypeInv, TypeOK
<1> QED
  BY <1>1, <1>2, <1>3 DEF Next

\* Every variable stays in its domain, whatever the requests do.
THEOREM Typing == Spec => []TypeOK
<1>1. Spec => []TypeInv
  BY InitTyped, NextTyped, PTL DEF Spec
<1>2. TypeInv => TypeOK
  BY DEF TypeInv
<1> QED
  BY <1>1, <1>2, PTL

-----------------------------------------------------------------------------
(* Waiting: every request asks for its locks in the same order.            *)

\* The key of its list that a request asks for next.
First(keys, k) == k \in keys /\ \A l \in keys \ {k} : Before(k, l)

\* The keys are asked for in one order, contacts before days and each kind
\* ascending: what a request holds comes before what it waits for.
Climbs(r) ==
  /\ held[r] # {} => Running(r)
  /\ \A k \in held[r], l \in wait[r] : Before(k, l)

LockInv == TypeInv /\ \A r \in Req : Climbs(r)

\* The key a blocked request waits for.
NextKey(r) == CHOOSE k \in wait[r] : First(wait[r], k)

\* The blocked requests that wait for a later key.
Above(r) == {s \in Req : Blocked(s) /\ Before(NextKey(r), NextKey(s))}

\* Before is a strict order of the lock keys.
LEMMA BeforeIsOrder ==
  /\ \A k \in Nat : ~Before(k, k)
  /\ \A k, l, m \in Nat : Before(k, l) /\ Before(l, m) => Before(k, m)
BY BookingAssumption DEF Before, IsContactKey

\* A request that is blocked waits for one key, the first of its list.
LEMMA BlockedWaits ==
  ASSUME TypeInv, NEW r \in Req, Blocked(r)
  PROVE  /\ NextKey(r) \in Nat /\ First(wait[r], NextKey(r)) /\ ~Free(NextKey(r), r)
<1>1. PICK k \in wait[r] : First(wait[r], k) /\ ~Free(k, r)
  BY DEF Blocked, First
<1>2. First(wait[r], NextKey(r))
  BY <1>1 DEF NextKey
<1>3. NextKey(r) = k
  <2>1. k \in Nat /\ NextKey(r) \in Nat
    BY <1>2 DEF First, TypeInv, TypeOK
  <2> QED
    BY <1>1, <1>2, <2>1, BeforeIsOrder DEF First
<1> QED
  BY <1>1, <1>2, <1>3 DEF TypeInv, TypeOK

\* A request takes keys in order, and only while it runs.
LEMMA LockStep == LockInv /\ [Next]_vars => LockInv'
<1> SUFFICES ASSUME LockInv, [Next]_vars PROVE LockInv'
  OBVIOUS
<1>1. TypeInv /\ TypeInv' /\ \A r \in Req : Climbs(r)
  BY NextTyped DEF LockInv
<1>2. CASE Tick \/ UNCHANGED vars
  BY <1>1, <1>2 DEF Tick, vars, data, local, LockInv, Climbs, Running
<1>3. ASSUME NEW r \in Req, Arrive(r) \/ Proceed(r) \/ LockTimeout(r) \/ Crash(r)
      PROVE  \A s \in Req : Climbs(s)'
  <2>1. CASE Acquire(r)
    <3>1. PICK k \in wait[r] :
            /\ \A l \in wait[r] \ {k} : Before(k, l)
            /\ held' = [held EXCEPT ![r] = @ \cup {k}]
            /\ wait' = [wait EXCEPT ![r] = @ \ {k}]
            /\ pc' = [pc EXCEPT ![r] = IF wait[r] = {k} THEN FirstStep(r) ELSE "locking"]
      BY <2>1 DEF Acquire
    <3>2. FirstStep(r) \notin {"idle", "done"}
      <4>1. op[r] \in Operation
        BY <1>1, <2>1 DEF Acquire, TypeInv, TypeOK
      <4> QED
        BY <4>1 DEF FirstStep, Operation
    <3> QED
      BY <1>1, <3>1, <3>2 DEF Climbs, Running, TypeInv, TypeOK
  <2>2. CASE Arrive(r)
    <3>1. /\ pc[r] = "idle" /\ UNCHANGED held
          /\ \/ pc' = [pc EXCEPT ![r] = "done"] /\ UNCHANGED wait
             \/ \E keys \in SUBSET Nat :
                  pc' = [pc EXCEPT ![r] = "locking"] /\ wait' = [wait EXCEPT ![r] = keys]
      BY <1>1, <2>2, ArriveShape DEF Begin, Refuse
    <3> QED
      BY <1>1, <3>1 DEF Climbs, Running, TypeInv, TypeOK
  <2>3. ASSUME NEW a, Finish(r, a) PROVE \A s \in Req : Climbs(s)'
    BY <1>1, <2>3 DEF Finish, Climbs, Running, TypeInv, TypeOK
  <2>4. CASE LockTimeout(r) \/ Crash(r)
    BY <2>3, <2>4 DEF LockTimeout, Crash, Abort
  <2>5. ASSUME NEW l, Continue(r, l), l \notin {"idle", "done"} PROVE \A s \in Req : Climbs(s)'
    BY <1>1, <2>5 DEF Continue, Climbs, Running, TypeInv, TypeOK
  <2>6. CASE Query(r)
    <3>1. CASE Reread(r) /\ ~\E a \in Answer : Abort(r, a)
      <4>1. /\ pc' = [pc EXCEPT ![r] = IF op[r] = "move" THEN "occupied" ELSE "overlap"]
            /\ UNCHANGED <<wait, held>>
        BY <3>1 DEF Reread, Answer
      <4> QED
        BY <1>1, <4>1 DEF Climbs, Running, TypeInv, TypeOK
    <3>2. CASE Replay(r) \/ QuotaPhone(r) \/ QuotaEmail(r) \/ OverlapCheck(r) \/ Occupied(r)
                 \/ Winner(r)
      BY <2>3, <2>5, <3>2 DEF Replay, QuotaPhone, QuotaEmail, OverlapCheck, Occupied, Winner, Abort
    <3> QED
      BY <2>3, <2>6, <3>1, <3>2 DEF Query, Abort
  <2>7. CASE Insert(r) /\ pc' = [pc EXCEPT ![r] = "winner"]
    <3>1. pc[r] = "write"
      BY <2>7 DEF Insert
    <3>2. held' = [held EXCEPT ![r] = {}] /\ UNCHANGED wait
      BY <1>1, <2>7, <3>1 DEF Insert, Finish, TypeInv, TypeOK
    <3> QED
      BY <1>1, <2>7, <3>2 DEF Climbs, Running, TypeInv, TypeOK
  <2>8. CASE Write(r) /\ ~(Insert(r) /\ pc' = [pc EXCEPT ![r] = "winner"])
    BY <2>3, <2>8 DEF Write, Insert, Update, Cancel, SetStatus, Abort
  <2> QED
    BY <1>3, <2>1, <2>2, <2>4, <2>6, <2>7, <2>8 DEF Proceed
<1> QED
  BY <1>1, <1>2, <1>3 DEF Next, LockInv

\* Of the requests that are blocked, one waits for a key that no other blocked
\* request comes after.
LEMMA SomeIsLast ==
  ASSUME TypeInv, \E r \in Req : Blocked(r)
  PROVE  \E r \in Req : Blocked(r) /\ Above(r) = {}
<1> DEFINE T == {Above(r) : r \in {s \in Req : Blocked(s)}}
<1>1. T \subseteq FiniteSubsetsOf(Req) /\ T # {}
  <2>1. \A r : Above(r) \in SUBSET Req
    BY DEF Above
  <2>2. \A r : IsFiniteSet(Above(r))
    BY <2>1, FS_Subset, BookingAssumption
  <2> QED
    BY <2>1, <2>2 DEF FiniteSubsetsOf
<1>2. PICK A \in T : \A B \in T : ~(<<B, A>> \in StrictSubsetOrdering(Req))
  <2> HIDE DEF T
  <2>1. IsWellFoundedOn(StrictSubsetOrdering(Req), FiniteSubsetsOf(Req))
    BY FS_StrictSubsetOrderingWellFounded
  <2> QED
    BY <1>1, <2>1, WFMin
<1>3. PICK r \in Req : Blocked(r) /\ A = Above(r)
  OBVIOUS
<1>4. SUFFICES ASSUME NEW s \in Above(r) PROVE FALSE
  BY <1>3
<1>5. s \in Req /\ Blocked(s) /\ Before(NextKey(r), NextKey(s))
  BY <1>4 DEF Above
<1>6. Above(s) \subseteq Above(r) /\ s \notin Above(s)
  <2>1. \A q \in Req : Blocked(q) => NextKey(q) \in Nat
    BY BlockedWaits
  <2> QED
    BY <1>3, <1>5, <2>1, BeforeIsOrder DEF Above
<1>7. <<Above(s), Above(r)>> \in StrictSubsetOrdering(Req)
  <2>1. Above(s) \in SUBSET Req /\ Above(r) \in SUBSET Req
    BY DEF Above
  <2> QED
    BY <1>4, <1>6, <2>1 DEF StrictSubsetOrdering
<1> QED
  BY <1>2, <1>3, <1>5, <1>7

\* acquire_contact_locks and _acquire_day_locks never make requests wait for
\* each other in a circle: a request that waits for the last of the keys waited
\* for is kept by one that can run.
THEOREM NoCircularWait == Spec => []NoDeadlock
<1>1. Init => LockInv
  BY InitTyped DEF Init, LockInv, Climbs
<1>2. LockInv => NoDeadlock
  <2> SUFFICES ASSUME LockInv, \E r \in Req : Blocked(r)
               PROVE  \E s \in Req : Running(s) /\ held[s] # {} /\ ~Blocked(s)
    BY DEF NoDeadlock
  <2>1. TypeInv /\ \A r \in Req : Climbs(r)
    BY DEF LockInv
  <2>2. PICK r \in Req : Blocked(r) /\ Above(r) = {}
    BY <2>1, SomeIsLast
  <2>3. PICK s \in Req : s # r /\ NextKey(r) \in held[s]
    BY <2>1, <2>2, BlockedWaits DEF Free
  <2>4. Running(s) /\ held[s] # {}
    BY <2>1, <2>3 DEF Climbs
  <2>5. ~Blocked(s)
    <3> SUFFICES ASSUME Blocked(s) PROVE FALSE
      OBVIOUS
    <3>1. NextKey(s) \in wait[s]
      BY <2>1, BlockedWaits DEF First
    <3>2. Before(NextKey(r), NextKey(s))
      BY <2>1, <2>3, <3>1 DEF Climbs
    <3> QED
      BY <2>2, <3>2 DEF Above
  <2> QED
    BY <2>4, <2>5
<1> QED
  BY <1>1, <1>2, LockStep, PTL DEF Spec

-----------------------------------------------------------------------------
(* The agenda: what a request has checked about the day it locked is still *)
(* true when it writes its row.                                            *)

\* Two requests never hold the same lock.
Mutual == \A r, s \in Req : r # s => held[r] \cap held[s] = {}

Guarded == {"replay", "quotaPhone", "quotaEmail", "overlap", "write", "reread", "occupied"}

\* The day a request writes on is locked, or among the locks it waits for.
Covered(r) ==
  /\ pc[r] = "locking" => want[r].date \in held[r] \cup wait[r]
  /\ pc[r] \in Guarded => want[r].date \in held[r]

\* Each service function runs its own statements.
Stage(r) ==
  /\ pc[r] \in {"replay", "winner"} => op[r] \in {"book", "manual"}
  /\ pc[r] \in {"quotaPhone", "quotaEmail"} => op[r] \in {"book", "move"}
  /\ pc[r] = "overlap" => op[r] \in {"book", "manual", "move", "shift"}
  /\ pc[r] = "reread" => op[r] \in {"move", "shift"}
  /\ pc[r] = "occupied" => op[r] = "move"

\* The row a request works on: its own, not yet there, or one that is there,
\* whose duration it copied under the lock.
Targets(r) ==
  /\ pc[r] # "done" => appts[r].status = "absent"
  /\ Running(r) => want[r].status # "absent"
  /\ op[r] \in {"book", "manual"} => target[r] = r
  /\ Running(r) /\ op[r] \notin {"book", "manual"} => appts[target[r]].status # "absent"
  /\ pc[r] \in Guarded \ {"reread"} /\ op[r] \in {"move", "shift"}
       => want[r].dur = appts[target[r]].dur

\* No confirmed row on any resource overlaps the slot.
Clear(row, self) ==
  \A i \in Id \ ({self} \cup reopened) : Confirmed(i) => ~Overlap(row, appts[i])

\* What the checks found is still true.  The client's move needs more than
\* Fits: its UPDATE keeps the resource the row has by then, which the panel may
\* have changed after it was read.
Checked(r) ==
  /\ pc[r] = "write" /\ op[r] \in {"book", "manual", "shift"} => Cal!Fits(want[r], target[r])
  /\ pc[r] \in {"overlap", "quotaPhone", "quotaEmail", "write"} /\ op[r] = "move"
       => Clear(want[r], target[r])

Sound(r) == Covered(r) /\ Stage(r) /\ Targets(r) /\ Checked(r)

AgendaInv == TypeInv /\ Mutual /\ (\A r \in Req : Sound(r)) /\ NoDoubleBooking

\* Calendar looks at rows as Booking does.
LEMMA SameConflict ==
  ASSUME NEW a, NEW b
  PROVE  /\ Cal!Conflict(a, b) <=> Conflict(a, b)
         /\ Cal!Overlap(a, b) <=> Overlap(a, b)
BY DEF Cal!Conflict, Conflict, Cal!Overlap, Overlap, Cal!SharesResource, SharesResource,
       Cal!End, End

\* The agenda is empty at first.
LEMMA AgendaInit == Init => AgendaInv
<1> SUFFICES ASSUME Init PROVE AgendaInv
  OBVIOUS
<1>1. TypeInv
  BY InitTyped
<1>2. Mutual
  BY DEF Init, Mutual
<1>3. ASSUME NEW r \in Req PROVE Sound(r)
  <2>1. r \in Id /\ r \notin Prior
    BY BookingAssumption DEF Id
  <2> QED
    BY <2>1 DEF Init, Sound, Covered, Stage, Targets, Checked, Guarded, Running, Blank
<1>4. NoDoubleBooking
  BY BookingAssumption, SameConflict DEF Init, NoDoubleBooking, Cal!NoDoubleBooking, Blank, Id
<1> QED
  BY <1>1, <1>2, <1>3, <1>4 DEF AgendaInv

-----------------------------------------------------------------------------
(* Steps that do not write on the agenda.                                  *)

StepOf(r) == Arrive(r) \/ Proceed(r) \/ LockTimeout(r) \/ Crash(r)

\* A step changes the local state of one request only.
LEMMA OnlyItself ==
  ASSUME TypeInv, NEW r \in Req, StepOf(r), NEW s \in Req \ {r}
  PROVE  /\ pc'[s] = pc[s] /\ op'[s] = op[s] /\ target'[s] = target[s]
         /\ want'[s] = want[s] /\ wait'[s] = wait[s] /\ held'[s] = held[s]
<1>1. CASE Arrive(r)
  BY <1>1, ArriveShape DEF Begin, Refuse, TypeInv, TypeOK
<1>2. CASE Acquire(r) \/ LockTimeout(r) \/ Crash(r)
  BY <1>2 DEF Acquire, LockTimeout, Crash, Abort, Finish, local, TypeInv, TypeOK
<1>3. CASE Query(r)
  BY <1>3 DEF Query, Replay, QuotaPhone, QuotaEmail, OverlapCheck, Reread, Occupied, Winner,
              Abort, Finish, Continue, local, TypeInv, TypeOK
<1>4. CASE Write(r)
  BY <1>4 DEF Write, Insert, Update, Cancel, SetStatus, Abort, Finish, local, TypeInv, TypeOK
<1> QED
  BY <1>1, <1>2, <1>3, <1>4 DEF StepOf, Proceed

\* A lock is taken only when nobody else holds it.
LEMMA LocksExclude ==
  ASSUME TypeInv, Mutual, NEW r \in Req, StepOf(r)
  PROVE  Mutual'
<1>1. CASE Acquire(r)
  <2>1. PICK k \in wait[r] : Free(k, r) /\ held' = [held EXCEPT ![r] = @ \cup {k}]
    BY <1>1 DEF Acquire
  <2> QED
    BY <2>1 DEF Free, Mutual, TypeInv, TypeOK
<1>2. CASE ~Acquire(r)
  <2>1. held'[r] \in {{}, held[r]}
    <3>1. CASE Arrive(r)
      BY <3>1, ArriveShape DEF Begin, Refuse
    <3>2. CASE LockTimeout(r) \/ Crash(r)
      BY <3>2 DEF LockTimeout, Crash, Abort, Finish, TypeInv, TypeOK
    <3>3. CASE Query(r)
      BY <3>3 DEF Query, Replay, QuotaPhone, QuotaEmail, OverlapCheck, Reread, Occupied, Winner,
                  Abort, Finish, Continue, local, TypeInv, TypeOK
    <3>4. CASE Write(r)
      BY <3>4 DEF Write, Insert, Update, Cancel, SetStatus, Abort, Finish, local, TypeInv, TypeOK
    <3> QED
      BY <1>2, <3>1, <3>2, <3>3, <3>4 DEF StepOf, Proceed
  <2>2. \A s \in Req \ {r} : held'[s] = held[s]
    BY OnlyItself
  <2> QED
    BY <2>1, <2>2 DEF Mutual
<1> QED
  BY <1>1, <1>2

\* As long as the agenda does not change, neither does what a request knows.
LEMMA StillSound ==
  ASSUME NEW s \in Req, Sound(s), UNCHANGED <<appts, reopened>>,
         pc'[s] = pc[s], op'[s] = op[s], target'[s] = target[s],
         want'[s] = want[s], wait'[s] = wait[s], held'[s] = held[s]
  PROVE  Sound(s)'
<1>1. Covered(s)' /\ Stage(s)' /\ Targets(s)'
  BY DEF Sound, Covered, Stage, Targets, Running
<1>2. Checked(s)'
  BY DEF Sound, Checked, Clear, Confirmed, Cal!Fits, Cal!Conflict, Cal!Overlap,
         Cal!SharesResource, Cal!End
<1> QED
  BY <1>1, <1>2 DEF Sound

\* A transaction that rolls back leaves what its request knows true.
LEMMA AbortSound ==
  ASSUME TypeInv, NEW r \in Req, Sound(r), NEW a \in Answer, Abort(r, a)
  PROVE  Sound(r)'
<1>1. pc'[r] = "done" /\ op'[r] = op[r] /\ target'[r] = target[r]
  BY FinishTyped DEF Abort
<1> QED
  BY <1>1 DEF Sound, Covered, Stage, Targets, Checked, Running, Guarded

\* A request that goes on with its transaction takes its knowledge along.
LEMMA ContinueSound ==
  ASSUME TypeInv, NEW r \in Req, Sound(r), NEW step \in Guarded, Continue(r, step),
         pc[r] \in Guarded,
         step = "replay" => op[r] \in {"book", "manual"},
         step \in {"quotaPhone", "quotaEmail"} => op[r] \in {"book", "move"},
         step = "overlap" => op[r] \in {"book", "manual", "move", "shift"},
         step # "reread", step = "occupied" => op[r] = "move",
         pc[r] # "reread",
         step = "write" /\ op[r] \in {"book", "manual", "shift"} => Cal!Fits(want[r], target[r]),
         step \in {"overlap", "quotaPhone", "quotaEmail", "write"} /\ op[r] = "move"
           => Clear(want[r], target[r])
  PROVE  Sound(r)'
<1>1. /\ pc'[r] = step
      /\ UNCHANGED <<appts, reopened, op, target, want, wait, held>>
  BY DEF Continue, data, local, TypeInv, TypeOK
<1>2. Covered(r)' /\ Stage(r)' /\ Targets(r)'
  BY <1>1 DEF Sound, Covered, Stage, Targets, Running, Guarded
<1>3. Checked(r)'
  BY <1>1 DEF Checked, Clear, Confirmed, Cal!Fits, Cal!Conflict, Cal!Overlap,
         Cal!SharesResource, Cal!End
<1> QED
  BY <1>2, <1>3 DEF Sound

\* An arriving request writes nothing and knows only what it has read.
LEMMA ArriveSound ==
  ASSUME TypeInv, NEW r \in Req, Sound(r), Arrive(r)
  PROVE  Sound(r)' /\ UNCHANGED <<appts, reopened>>
<1>1. /\ pc[r] = "idle" /\ appts[r].status = "absent"
  BY ArriveShape DEF Sound, Targets
<1>2. PICK kind \in Operation, a \in Id :
        /\ kind \in {"book", "manual"} => a = r
        /\ \/ \E answer \in Answer : Refuse(r, kind, a, answer)
           \/ \E row \in Row, slot \in Instant, keys \in SUBSET Nat :
                /\ Begin(r, kind, a, row, slot, keys)
                /\ row.date \in keys /\ row.status # "absent"
                /\ kind \in {"book", "manual"} \/ appts[a].status # "absent"
  BY ArriveShape
<1>3. CASE \E answer \in Answer : Refuse(r, kind, a, answer)
  <2>1. /\ pc'[r] = "done" /\ op'[r] = kind /\ target'[r] = a
        /\ UNCHANGED <<appts, reopened>>
    BY <1>3 DEF Refuse, data, TypeInv, TypeOK
  <2> QED
    BY <1>2, <2>1 DEF Sound, Covered, Stage, Targets, Checked, Running, Guarded
<1>4. CASE \E row \in Row, slot \in Instant, keys \in SUBSET Nat :
             /\ Begin(r, kind, a, row, slot, keys)
             /\ row.date \in keys /\ row.status # "absent"
             /\ kind \in {"book", "manual"} \/ appts[a].status # "absent"
  <2>1. /\ pc'[r] = "locking" /\ op'[r] = kind /\ target'[r] = a
        /\ want'[r].date \in wait'[r] /\ want'[r].status # "absent"
        /\ kind \in {"book", "manual"} \/ appts[a].status # "absent"
        /\ UNCHANGED <<appts, reopened>>
    BY <1>4 DEF Begin, data, TypeInv, TypeOK
  <2> QED
    BY <1>1, <1>2, <2>1 DEF Sound, Covered, Stage, Targets, Checked, Running, Guarded
<1> QED
  BY <1>2, <1>3, <1>4

\* Taking a lock, giving up on it or dying writes no appointment.
LEMMA LocksSound ==
  ASSUME TypeInv, NEW r \in Req, Sound(r), Acquire(r) \/ LockTimeout(r) \/ Crash(r)
  PROVE  Sound(r)' /\ UNCHANGED <<appts, reopened>>
<1>1. CASE Acquire(r)
  <2>1. pc[r] = "locking" /\ op[r] \in Operation
    BY <1>1 DEF Acquire, TypeInv, TypeOK
  <2>2. PICK k \in wait[r] :
          /\ held'[r] = held[r] \cup {k} /\ wait'[r] = wait[r] \ {k}
          /\ pc'[r] = IF wait[r] = {k} THEN FirstStep(r) ELSE "locking"
    BY <1>1 DEF Acquire, TypeInv, TypeOK
  <2>3. UNCHANGED <<appts, reopened, op, target, want>>
    BY <1>1 DEF Acquire, data, local
  <2>4. \/ op[r] \in {"move", "shift"} /\ FirstStep(r) = "reread"
        \/ op[r] \in {"cancel", "status"} /\ FirstStep(r) = "write"
        \/ op[r] \in {"book", "manual"} /\ FirstStep(r) = "replay"
        \/ op[r] = "book" /\ FirstStep(r) = "quotaPhone"
        \/ op[r] = "manual" /\ FirstStep(r) = "overlap"
    BY <2>1 DEF FirstStep, Operation
  <2>5. Covered(r)'
    BY <2>1, <2>2, <2>3, <2>4 DEF Sound, Covered, Guarded
  <2>6. Stage(r)' /\ Targets(r)' /\ Checked(r)'
    BY <2>1, <2>2, <2>3, <2>4 DEF Sound, Stage, Targets, Checked, Running, Guarded
  <2> QED
    BY <2>3, <2>5, <2>6 DEF Sound
<1>2. CASE LockTimeout(r) \/ Crash(r)
  <2>1. PICK a \in Answer : Abort(r, a)
    <3>1. CASE LockTimeout(r)
      <4>1. op[r] \in Operation
        BY <3>1 DEF LockTimeout, TypeInv, TypeOK
      <4> QED
        BY <3>1, <4>1 DEF LockTimeout, Operation, Answer
    <3>2. CASE Crash(r)
      BY <3>2 DEF Crash, Answer
    <3> QED
      BY <1>2, <3>1, <3>2
  <2> QED
    BY <2>1, AbortSound DEF Abort, data
<1> QED
  BY <1>1, <1>2

\* A query writes nothing, and what it learns holds while its locks do.
LEMMA QuerySound ==
  ASSUME TypeInv, NEW r \in Req, Sound(r), Query(r)
  PROVE  Sound(r)' /\ UNCHANGED <<appts, reopened>>
<1>1. UNCHANGED <<appts, reopened>>
  BY DEF Query, Replay, QuotaPhone, QuotaEmail, OverlapCheck, Reread, Occupied, Winner,
         Abort, Continue, data
<1>2. CASE \E a \in Answer : Abort(r, a)
  BY <1>1, <1>2, AbortSound
<1>3. CASE Reread(r) /\ ~(\E a \in Answer : Abort(r, a))
  <2>1. /\ pc'[r] = IF op[r] = "move" THEN "occupied" ELSE "overlap"
        /\ want'[r] = MovedRow(r)
        /\ UNCHANGED <<op, target, wait, held>>
        /\ pc[r] = "reread" /\ Confirmed(target[r])
    BY <1>3 DEF Reread, Answer, TypeInv, TypeOK
  <2>2. appts[target[r]] \in Row /\ want[r] \in Row
    BY DEF TypeInv, TypeOK
  <2>3. /\ MovedRow(r).date = want[r].date /\ MovedRow(r).status = "confirmed"
        /\ MovedRow(r).dur = appts[target[r]].dur
    BY <2>1, <2>2 DEF MovedRow, Row, Confirmed
  <2>4. op[r] \in {"move", "shift"}
    BY <2>1 DEF Sound, Stage
  <2> QED
    BY <1>1, <2>1, <2>3, <2>4 DEF Sound, Covered, Stage, Targets, Checked, Running, Guarded
<1>4. CASE Replay(r) /\ ~(\E a \in Answer : Abort(r, a))
  <2>1. /\ pc[r] = "replay"
        /\ Continue(r, IF op[r] = "book" THEN "quotaPhone" ELSE "overlap")
    BY <1>4 DEF Replay, Answer
  <2>2. op[r] \in {"book", "manual"}
    BY <2>1 DEF Sound, Stage
  <2> QED
    BY <1>1, <2>1, <2>2, ContinueSound DEF Guarded
<1>5. CASE QuotaPhone(r) /\ ~(\E a \in Answer : Abort(r, a))
  <2>1. pc[r] = "quotaPhone" /\ Continue(r, "quotaEmail")
    BY <1>5 DEF QuotaPhone, Answer
  <2> QED
    BY <1>1, <2>1, ContinueSound DEF Guarded, Sound, Stage, Checked
<1>6. CASE QuotaEmail(r) /\ ~(\E a \in Answer : Abort(r, a))
  <2>1. /\ pc[r] = "quotaEmail"
        /\ Continue(r, IF op[r] = "book" THEN "overlap" ELSE "write")
    BY <1>6 DEF QuotaEmail, Answer
  <2>2. op[r] \in {"book", "move"}
    BY <2>1 DEF Sound, Stage
  <2> QED
    BY <1>1, <2>1, <2>2, ContinueSound DEF Guarded, Sound, Checked
<1>7. CASE OverlapCheck(r) /\ ~(\E a \in Answer : Abort(r, a))
  <2>1. /\ pc[r] = "overlap"
        /\ Continue(r, IF op[r] = "move" THEN "quotaPhone" ELSE "write")
        /\ \A i \in Id \ {target[r]} : Confirmed(i) => ~Conflict(want[r], appts[i])
    BY <1>7 DEF OverlapCheck, Answer
  <2>2. op[r] \in {"book", "manual", "move", "shift"}
    BY <2>1 DEF Sound, Stage
  <2>3. Cal!Fits(want[r], target[r])
    BY <2>1, SameConflict DEF Cal!Fits, Confirmed
  <2> QED
    BY <1>1, <2>1, <2>2, <2>3, ContinueSound DEF Guarded, Sound, Checked
<1>8. CASE Occupied(r) /\ ~(\E a \in Answer : Abort(r, a))
  <2>1. /\ pc[r] = "occupied" /\ Continue(r, "overlap")
        /\ \A i \in Id : Confirmed(i) => ~Overlap(want[r], appts[i])
    BY <1>8 DEF Occupied, Answer
  <2>2. op[r] = "move" /\ Clear(want[r], target[r])
    BY <2>1 DEF Sound, Stage, Clear
  <2> QED
    BY <1>1, <2>1, <2>2, ContinueSound DEF Guarded
<1>9. CASE Winner(r)
  BY <1>1, <1>9, AbortSound DEF Winner, Answer
<1> QED
  BY <1>2, <1>3, <1>4, <1>5, <1>6, <1>7, <1>8, <1>9 DEF Query

-----------------------------------------------------------------------------
(* Steps that write on the agenda.                                         *)

\* Request r puts row a on the day it has locked, where it fits.
Place(r, a, row) ==
  /\ appts' = [appts EXCEPT ![a] = row]
  /\ reopened' \in {reopened, reopened \ {a}}
  /\ pc[r] = "write" /\ row.date = want[r].date /\ row.status # "absent"
  /\ a = r \/ (appts[a].status # "absent" /\ row.dur = appts[a].dur)
  /\ \A i \in Id \ ({a} \cup reopened) : Confirmed(i) => ~Conflict(row, appts[i])

\* Row a changes its status; a confirmed one is remembered as unchecked.
Restate(a, status) ==
  /\ appts' = [appts EXCEPT ![a].status = status]
  /\ appts[a].status # "absent" /\ status # "absent"
  /\ reopened' = IF status = "confirmed" THEN reopened \cup {a} ELSE reopened

\* What a write does to the appointments: a row placed, a status changed, or
\* nothing.
LEMMA WriteEffect ==
  ASSUME TypeInv, NEW r \in Req, Sound(r), Write(r)
  PROVE  /\ Sound(r)'
         /\ \/ UNCHANGED <<appts, reopened>>
            \/ \E a \in Id, row \in Row : Place(r, a, row)
            \/ \E a \in Id, status \in Status : Restate(a, status)
<1>1. /\ target[r] \in Id /\ appts[target[r]] \in Row /\ want[r] \in Row /\ r \in Id
      /\ appts \in [Id -> Row]
  BY DEF TypeInv, TypeOK, Id
<1>2. CASE \E a \in Answer : Abort(r, a)
  BY <1>2, AbortSound DEF Abort, data
<1>3. ASSUME NEW answer \in Answer, Finish(r, answer), UNCHANGED <<op, target>>
      PROVE  Sound(r)'
  <2>1. pc'[r] = "done" /\ op'[r] = op[r] /\ target'[r] = target[r]
    BY <1>3, FinishTyped
  <2> QED
    BY <2>1 DEF Sound, Covered, Stage, Targets, Checked, Running, Guarded
<1>4. CASE Insert(r) /\ ~(\E a \in Answer : Abort(r, a))
  <2>1. pc[r] = "write" /\ op[r] \in {"book", "manual"} /\ target[r] = r
    BY <1>4 DEF Insert, Sound, Targets
  <2>2. CASE SlotTaken(want[r], r) \/ KeyTaken(want[r])
    <3>1. /\ pc'[r] = "winner"
          /\ UNCHANGED <<appts, reopened, op, target, want>>
      BY <1>4, <2>2 DEF Insert, data, local, TypeInv, TypeOK
    <3> QED
      BY <2>1, <3>1 DEF Sound, Covered, Stage, Targets, Checked, Running, Guarded
  <2>3. CASE ~(SlotTaken(want[r], r) \/ KeyTaken(want[r]))
    <3>1. /\ appts' = [appts EXCEPT ![r] = want[r]] /\ reopened' = reopened
          /\ Finish(r, "created") /\ UNCHANGED <<op, target>>
      BY <1>4, <2>3 DEF Insert
    <3>2. want[r].status # "absent" /\ Cal!Fits(want[r], r)
      BY <2>1 DEF Sound, Targets, Checked, Running
    <3>3. \A i \in Id \ ({r} \cup reopened) : Confirmed(i) => ~Conflict(want[r], appts[i])
      BY <3>2, SameConflict DEF Cal!Fits, Confirmed
    <3>4. Place(r, r, want[r])
      BY <2>1, <3>1, <3>2, <3>3 DEF Place
    <3>5. "created" \in Answer
      BY DEF Answer
    <3> QED
      BY <1>1, <1>3, <3>1, <3>4, <3>5
  <2> QED
    BY <2>2, <2>3
<1>5. CASE Update(r) /\ ~(\E a \in Answer : Abort(r, a))
  <2> DEFINE a == target[r]
             row == UpdatedRow(r)
  <2>1. /\ pc[r] = "write" /\ op[r] \in {"move", "shift"} /\ Confirmed(a)
        /\ appts' = [appts EXCEPT ![a] = row] /\ reopened' = reopened \ {a}
        /\ Finish(r, "rescheduled") /\ UNCHANGED <<op, target>>
    BY <1>5 DEF Update, Answer
  <2>2. want[r].dur = appts[a].dur
    BY <2>1 DEF Sound, Targets, Guarded
  <2>3. /\ row \in Row /\ row.date = want[r].date /\ row.time = want[r].time
        /\ row.dur = want[r].dur /\ row.status = "confirmed"
        /\ op[r] = "shift" => row.res = want[r].res
    BY <1>1, <2>1, <2>2 DEF UpdatedRow, Row, Confirmed
  <2> HIDE DEF row
  <2>4. \A i \in Id \ ({a} \cup reopened) : Confirmed(i) => ~Conflict(row, appts[i])
    <3>1. CASE op[r] = "shift"
      <4>1. Cal!Fits(want[r], a)
        BY <2>1, <3>1 DEF Sound, Checked
      <4>2. \A b : Conflict(row, b) <=> Conflict(want[r], b)
        BY <2>3, <3>1 DEF Conflict, Overlap, SharesResource, End
      <4> QED
        BY <4>1, <4>2, SameConflict DEF Cal!Fits, Confirmed
    <3>2. CASE op[r] = "move"
      <4>1. Clear(want[r], a)
        BY <2>1, <3>2 DEF Sound, Checked
      <4>2. \A b : Overlap(row, b) <=> Overlap(want[r], b)
        BY <2>3 DEF Overlap, End
      <4> QED
        BY <4>1, <4>2 DEF Clear, Conflict
    <3> QED
      BY <2>1, <3>1, <3>2
  <2>5. Place(r, a, row)
    BY <2>1, <2>2, <2>3, <2>4 DEF Place, Confirmed
  <2>6. "rescheduled" \in Answer
    BY DEF Answer
  <2> QED
    BY <1>1, <1>3, <2>1, <2>3, <2>5, <2>6
<1>6. CASE (Cancel(r) \/ SetStatus(r)) /\ ~(\E a \in Answer : Abort(r, a))
  <2>1. PICK status \in Status, answer \in Answer :
          /\ Restate(target[r], status) /\ Finish(r, answer)
          /\ UNCHANGED <<op, target>>
    <3>1. CASE Cancel(r)
      <4>1. "cancelled" \in Status /\ "cancelled" \in Answer
        BY DEF Status, Answer
      <4> QED
        BY <1>6, <3>1, <4>1 DEF Cancel, Answer, Restate, Confirmed
    <3>2. CASE SetStatus(r)
      <4>1. /\ pc[r] = "write" /\ op[r] = "status"
            /\ appts' = [appts EXCEPT ![target[r]].status = want[r].status]
            /\ reopened' = IF want[r].status = "confirmed" THEN reopened \cup {target[r]}
                                                          ELSE reopened
            /\ Finish(r, "updated") /\ UNCHANGED <<op, target>>
        BY <1>6, <3>2 DEF SetStatus, Answer
      <4>2. want[r].status # "absent" /\ appts[target[r]].status # "absent"
        BY <4>1 DEF Sound, Targets, Running
      <4>3. want[r].status \in Status /\ "updated" \in Answer
        BY <1>1, <4>2 DEF Row, Answer
      <4> QED
        BY <4>1, <4>2, <4>3 DEF Restate
    <3> QED
      BY <1>6, <3>1, <3>2
  <2> QED
    BY <1>1, <1>3, <2>1
<1> QED
  BY <1>2, <1>4, <1>5, <1>6 DEF Write

\* Overlap of two appointments does not depend on which one is first.
LEMMA ConflictSymmetric ==
  ASSUME NEW a, NEW b
  PROVE  Conflict(a, b) <=> Conflict(b, a)
BY DEF Conflict, Overlap, SharesResource

\* Only the slot, the duration and the resource of a row matter for conflicts.
LEMMA SameSpan ==
  ASSUME NEW a, NEW b, NEW c,
         b.date = c.date, b.time = c.time, b.dur = c.dur, b.res = c.res
  PROVE  /\ Overlap(a, b) <=> Overlap(a, c)
         /\ Conflict(a, b) <=> Conflict(a, c)
BY DEF Conflict, Overlap, SharesResource, End

\* A row placed on a day that another request has not locked changes nothing of
\* what that request knows.
LEMMA PlaceKeepsSound ==
  ASSUME TypeInv, Mutual, NEW r \in Req, Sound(r), NEW a \in Id, NEW row \in Row,
         Place(r, a, row), NEW s \in Req \ {r}, Sound(s),
         pc'[s] = pc[s], op'[s] = op[s], target'[s] = target[s],
         want'[s] = want[s], wait'[s] = wait[s], held'[s] = held[s]
  PROVE  Sound(s)'
<1>1. /\ appts'[a] = row /\ \A i \in Id \ {a} : appts'[i] = appts[i]
      /\ target[s] \in Id /\ s \in Id
  BY DEF Place, TypeInv, TypeOK, Id
<1>2. pc[s] \in Guarded => want[s].date # row.date
  <2>1. want[r].date \in held[r] /\ want[r].date = row.date
    BY DEF Place, Sound, Covered, Guarded
  <2>2. pc[s] \in Guarded => want[s].date \in held[s]
    BY DEF Sound, Covered
  <2> QED
    BY <2>1, <2>2 DEF Mutual
<1>3. Covered(s)' /\ Stage(s)'
  BY DEF Sound, Covered, Stage
<1>4. Targets(s)'
  <2>1. pc[s] # "done" => appts'[s].status = "absent"
    <3>1. pc[s] # "done" => appts[s].status = "absent"
      BY DEF Sound, Targets
    <3> QED
      BY <1>1, <3>1 DEF Place
  <2>2. Running(s) /\ op[s] \notin {"book", "manual"} =>
          /\ appts'[target[s]].status # "absent"
          /\ appts'[target[s]].dur = appts[target[s]].dur
    <3>1. CASE target[s] = a /\ a # r
      BY <1>1, <3>1 DEF Place
    <3>2. CASE target[s] = a /\ a = r
      <4>1. appts[r].status = "absent"
        BY DEF Place, Sound, Targets
      <4> QED
        BY <3>2, <4>1 DEF Sound, Targets
    <3>3. CASE target[s] # a
      BY <1>1, <3>3 DEF Sound, Targets
    <3> QED
      BY <3>1, <3>2, <3>3
  <2> QED
    BY <2>1, <2>2 DEF Sound, Targets, Running, Guarded
<1>5. Checked(s)'
  <2>1. pc[s] \in Guarded => ~Overlap(want[s], row) /\ ~Conflict(want[s], row)
    BY <1>2 DEF Overlap, Conflict
  <2>2. \A i \in Id \ reopened' : i # a => i \notin reopened
    BY DEF Place
  <2>3. pc[s] = "write" /\ op[s] \in {"book", "manual", "shift"} =>
          \A i \in Id \ ({target[s]} \cup reopened') :
            appts'[i].status = "confirmed" => ~Conflict(want[s], appts'[i])
    BY <1>1, <2>1, <2>2, SameConflict DEF Sound, Checked, Cal!Fits, Guarded
  <2>4. pc[s] \in {"overlap", "quotaPhone", "quotaEmail", "write"} /\ op[s] = "move" =>
          \A i \in Id \ ({target[s]} \cup reopened') :
            appts'[i].status = "confirmed" => ~Overlap(want[s], appts'[i])
    BY <1>1, <2>1, <2>2 DEF Sound, Checked, Clear, Confirmed, Guarded
  <2>5. Cal!Fits(want[s], target[s])' <=>
          \A i \in Id \ ({target'[s]} \cup reopened') :
            appts'[i].status = "confirmed" => ~Conflict(want'[s], appts'[i])
    BY DEF Cal!Fits, Conflict, Cal!Conflict, Overlap, Cal!Overlap, SharesResource,
           Cal!SharesResource, End, Cal!End
  <2> QED
    BY <2>3, <2>4, <2>5 DEF Checked, Clear, Confirmed, Overlap, End
<1> QED
  BY <1>3, <1>4, <1>5 DEF Sound

\* Nor does a change of status: a row that is confirmed again is not guarded.
LEMMA RestateKeepsSound ==
  ASSUME TypeInv, NEW a \in Id, NEW status \in Status, Restate(a, status),
         NEW s \in Req, Sound(s),
         pc'[s] = pc[s], op'[s] = op[s], target'[s] = target[s],
         want'[s] = want[s], wait'[s] = wait[s], held'[s] = held[s]
  PROVE  Sound(s)'
<1>1. \A i \in Id : /\ appts'[i].date = appts[i].date /\ appts'[i].time = appts[i].time
                    /\ appts'[i].dur = appts[i].dur /\ appts'[i].res = appts[i].res
                    /\ i # a => appts'[i].status = appts[i].status
  BY DEF Restate, TypeInv, TypeOK, Row
<1>2. /\ appts[a].status # "absent" /\ appts'[a].status = status /\ status # "absent"
      /\ target[s] \in Id /\ s \in Id
  BY DEF Restate, TypeInv, TypeOK, Row, Id
<1>3. \A i \in Id \ reopened' : /\ i \notin reopened
                                /\ appts'[i].status = "confirmed" => Confirmed(i)
  BY <1>1, <1>2 DEF Restate, Confirmed
<1>4. Covered(s)' /\ Stage(s)' /\ Targets(s)'
  <2>1. pc[s] # "done" => appts'[s].status = "absent"
    BY <1>1, <1>2 DEF Sound, Targets
  <2>2. Running(s) /\ op[s] \notin {"book", "manual"} =>
          appts'[target[s]].status # "absent"
    BY <1>1, <1>2 DEF Sound, Targets
  <2>3. appts'[target[s]].dur = appts[target[s]].dur
    BY <1>1, <1>2
  <2>4. Targets(s)'
    BY <2>1, <2>2, <2>3 DEF Sound, Targets, Running, Guarded
  <2> QED
    BY <2>4 DEF Sound, Covered, Stage
<1>5. ASSUME NEW i \in Id, NEW b
      PROVE  /\ Overlap(b, appts'[i]) <=> Overlap(b, appts[i])
             /\ Conflict(b, appts'[i]) <=> Conflict(b, appts[i])
  BY <1>1, SameSpan
<1>6. Checked(s)'
  <2>1. pc[s] = "write" /\ op[s] \in {"book", "manual", "shift"} =>
          \A i \in Id \ ({target[s]} \cup reopened') :
            appts'[i].status = "confirmed" => ~Conflict(want[s], appts'[i])
    BY <1>3, <1>5, SameConflict DEF Sound, Checked, Cal!Fits, Confirmed
  <2>2. pc[s] \in {"overlap", "quotaPhone", "quotaEmail", "write"} /\ op[s] = "move" =>
          \A i \in Id \ ({target[s]} \cup reopened') :
            appts'[i].status = "confirmed" => ~Overlap(want[s], appts'[i])
    BY <1>3, <1>5 DEF Sound, Checked, Clear
  <2>3. Cal!Fits(want[s], target[s])' <=>
          \A i \in Id \ ({target'[s]} \cup reopened') :
            appts'[i].status = "confirmed" => ~Conflict(want'[s], appts'[i])
    BY DEF Cal!Fits, Conflict, Cal!Conflict, Overlap, Cal!Overlap, SharesResource,
           Cal!SharesResource, End, Cal!End
  <2> QED
    BY <2>1, <2>2, <2>3 DEF Checked, Clear, Confirmed, Overlap, End
<1> QED
  BY <1>4, <1>6 DEF Sound

\* A row placed where it fits, or restated, makes no double booking.
LEMMA NoneAdded ==
  ASSUME TypeInv, NoDoubleBooking, NEW r \in Req, NEW a \in Id,
         \/ \E row \in Row : Place(r, a, row)
         \/ \E status \in Status : Restate(a, status)
  PROVE  NoDoubleBooking'
<1>1. \A i, j \in Id \ reopened : i # j /\ Confirmed(i) /\ Confirmed(j)
                                   => ~Conflict(appts[i], appts[j])
  BY SameConflict DEF NoDoubleBooking, Cal!NoDoubleBooking, Confirmed
<1>2. \A i, j \in Id \ reopened' :
        /\ i # j /\ appts'[i].status = "confirmed" /\ appts'[j].status = "confirmed"
        => ~Conflict(appts'[i], appts'[j])
  <2>1. CASE \E row \in Row : Place(r, a, row)
    <3>1. PICK row \in Row : Place(r, a, row)
      BY <2>1
    <3>2. /\ appts'[a] = row /\ \A i \in Id \ {a} : appts'[i] = appts[i]
          /\ \A i \in Id \ reopened' : i # a => i \notin reopened
          /\ \A i \in Id \ ({a} \cup reopened) : Confirmed(i) => ~Conflict(row, appts[i])
      BY <3>1 DEF Place, TypeInv, TypeOK
    <3> QED
      BY <1>1, <3>2, ConflictSymmetric DEF Confirmed
  <2>2. CASE \E status \in Status : Restate(a, status)
    <3>1. PICK status \in Status : Restate(a, status)
      BY <2>2
    <3>2. \A i \in Id : /\ appts'[i].date = appts[i].date /\ appts'[i].time = appts[i].time
                        /\ appts'[i].dur = appts[i].dur /\ appts'[i].res = appts[i].res
                        /\ i # a => appts'[i].status = appts[i].status
      BY <3>1 DEF Restate, TypeInv, TypeOK, Row
    <3>3. \A i \in Id \ reopened' : /\ i \notin reopened
                                    /\ appts'[i].status = "confirmed" => Confirmed(i)
      BY <3>1, <3>2 DEF Restate, Confirmed, TypeInv, TypeOK, Row
    <3>4. \A i, j \in Id : Conflict(appts'[i], appts'[j]) <=> Conflict(appts[i], appts[j])
      BY <3>2, SameSpan, ConflictSymmetric
    <3> QED
      BY <1>1, <3>3, <3>4
  <2> QED
    BY <2>1, <2>2
<1> QED
  BY <1>2 DEF NoDoubleBooking, Cal!NoDoubleBooking, Conflict, Cal!Conflict, Overlap,
              Cal!Overlap, SharesResource, Cal!SharesResource, End, Cal!End

-----------------------------------------------------------------------------
(* No double booking.                                                      *)

\* Every step keeps the invariant.
LEMMA AgendaStep == AgendaInv /\ [Next]_vars => AgendaInv'
<1> SUFFICES ASSUME AgendaInv, [Next]_vars PROVE AgendaInv'
  OBVIOUS
<1>1. TypeInv /\ Mutual /\ (\A s \in Req : Sound(s)) /\ NoDoubleBooking
  BY DEF AgendaInv
<1>2. TypeInv'
  BY <1>1, NextTyped
<1>3. CASE Tick \/ UNCHANGED vars
  <2>1. UNCHANGED <<appts, reopened, pc, op, target, want, wait, held>>
    BY <1>3 DEF Tick, vars, data, local
  <2>2. Mutual' /\ \A s \in Req : Sound(s)'
    BY <1>1, <2>1, StillSound DEF Mutual
  <2>3. NoDoubleBooking'
    BY <1>1, <2>1 DEF NoDoubleBooking, Cal!NoDoubleBooking, Cal!Conflict, Cal!Overlap,
                      Cal!SharesResource, Cal!End
  <2> QED
    BY <1>2, <2>2, <2>3 DEF AgendaInv
<1>4. ASSUME NEW r \in Req, StepOf(r) PROVE AgendaInv'
  <2>1. Mutual'
    BY <1>1, <1>4, LocksExclude
  <2>2. \A s \in Req \ {r} : /\ pc'[s] = pc[s] /\ op'[s] = op[s] /\ target'[s] = target[s]
                             /\ want'[s] = want[s] /\ wait'[s] = wait[s]
                             /\ held'[s] = held[s]
    BY <1>1, <1>4, OnlyItself
  <2>3. /\ Sound(r)'
        /\ \/ UNCHANGED <<appts, reopened>>
           \/ \E a \in Id, row \in Row : Place(r, a, row)
           \/ \E a \in Id, status \in Status : Restate(a, status)
    BY <1>1, <1>4, ArriveSound, LocksSound, QuerySound, WriteEffect DEF StepOf, Proceed
  <2>4. (\A s \in Req \ {r} : Sound(s)') /\ NoDoubleBooking'
    <3>1. CASE UNCHANGED <<appts, reopened>>
      <4>1. \A s \in Req \ {r} : Sound(s)'
        BY <1>1, <2>2, <3>1, StillSound
      <4>2. NoDoubleBooking'
        BY <1>1, <3>1 DEF NoDoubleBooking, Cal!NoDoubleBooking, Cal!Conflict, Cal!Overlap,
                          Cal!SharesResource, Cal!End
      <4> QED
        BY <4>1, <4>2
    <3>2. CASE \E a \in Id, row \in Row : Place(r, a, row)
      BY <1>1, <2>2, <3>2, PlaceKeepsSound, NoneAdded
    <3>3. CASE \E a \in Id, status \in Status : Restate(a, status)
      BY <1>1, <2>2, <3>3, RestateKeepsSound, NoneAdded
    <3> QED
      BY <2>3, <3>1, <3>2, <3>3
  <2> QED
    BY <1>2, <2>1, <2>3, <2>4 DEF AgendaInv
<1> QED
  BY <1>3, <1>4 DEF Next, StepOf

\* No resource is ever booked twice for the same time, however the requests of
\* create, reschedule, cancel and status change interleave, crash or time out.
THEOREM NeverDoubleBooked == Spec => []NoDoubleBooking
<1>1. Spec => []AgendaInv
  BY AgendaInit, AgendaStep, PTL DEF Spec
<1>2. AgendaInv => NoDoubleBooking
  BY DEF AgendaInv
<1> QED
  BY <1>1, <1>2, PTL

-----------------------------------------------------------------------------
(* The quota: what a request has counted of the contacts it locked is      *)
(* still true when it writes its row.                                      *)

\* The appointments that count against the quota of a contact.
Counts(kind, contact) == Upcoming(appts, now.day, kind, contact) \ unlimited

\* There is room for one more appointment of the contact of the wanted row.
Room(r, kind) ==
  want[r][kind] # NoContact =>
    Cardinality(Counts(kind, want[r][kind]) \ {target[r]}) < MaxActive

\* The statements a request runs once it has counted its phone, and its e-mail.
PhonePassed(r) == pc[r] \in {"quotaEmail", "write"} \/ (pc[r] = "overlap" /\ op[r] = "book")
EmailPassed(r) == pc[r] = "write" \/ (pc[r] = "overlap" /\ op[r] = "book")

\* The contacts of a request that counts are locked, or going to be.
Contacted(r) ==
  /\ pc[r] = "locking" => ContactLocks(want[r]) \subseteq held[r] \cup wait[r]
  /\ pc[r] \in Guarded => ContactLocks(want[r]) \subseteq held[r]

\* No row has the key and the phone of a booking that did not find its key.
FreshKey(r) ==
  \A i \in Id : ~(appts[i].key = want[r].key /\ appts[i].phone = want[r].phone)

\* What a running request knows of contacts and keys: a row has a phone, a move
\* copies the contacts of its row, a count that found room still does.
Known(r) ==
  /\ Running(r) => want[r].phone \in Contact
  /\ Running(r) /\ op[r] \in {"book", "manual"} => want[r].status = "confirmed"
  /\ Running(r) /\ op[r] = "manual" => want[r].key = NoKey
  /\ Running(r) /\ op[r] = "move" => /\ want[r].phone = appts[target[r]].phone
                                     /\ want[r].email = appts[target[r]].email
  /\ op[r] \in {"book", "move"} =>
       /\ Contacted(r)
       /\ PhonePassed(r) => Room(r, "phone")
       /\ EmailPassed(r) => Room(r, "email")
  /\ op[r] = "book" /\ want[r].key # NoKey
       /\ pc[r] \in {"quotaPhone", "quotaEmail", "overlap", "write"} => FreshKey(r)

Phoned == \A i \in Id : appts[i].status # "absent" => appts[i].phone \in Contact

QuotaInv == AgendaInv /\ ContactQuota /\ Phoned /\ \A r \in Req : Known(r)

-----------------------------------------------------------------------------
(* The appointments that count.                                            *)

Kind == {"phone", "email"}

\* An appointment that counts against the quota of its contacts.
Counted(i) == appts[i].status = "confirmed" /\ appts[i].date >= now.day /\ i \notin unlimited

\* What the step of a request does to what counts: nothing more than the row it
\* has counted for; and to the rows: they keep their contacts and their key, or
\* are the one it books.
Effect(r) ==
  /\ \A i \in Id : Counted(i)' =>
       \/ Counted(i) /\ appts'[i].phone = appts[i].phone /\ appts'[i].email = appts[i].email
       \/ /\ i = target[r] /\ pc[r] = "write" /\ op[r] \in {"book", "move"}
          /\ appts'[i].phone = want[r].phone /\ appts'[i].email = want[r].email
  /\ \A i \in Id :
       \/ /\ appts'[i].phone = appts[i].phone /\ appts'[i].email = appts[i].email
          /\ appts'[i].key = appts[i].key
          /\ appts'[i].status = "absent" <=> appts[i].status = "absent"
       \/ i = r /\ pc[r] = "write" /\ op[r] \in {"book", "manual"} /\ appts'[i] = want[r]

\* Few appointments are upcoming: the table is finite.
LEMMA CountsFinite ==
  ASSUME TypeInv, NEW kind, NEW c
  PROVE  /\ IsFiniteSet(Upcoming(appts, now.day, kind, c))
         /\ Counts(kind, c) \subseteq Upcoming(appts, now.day, kind, c)
         /\ Upcoming(appts, now.day, kind, c) \subseteq Id
         /\ Counts(kind, c) = {i \in Id : Counted(i) /\ appts[i][kind] = c}
<1>1. IsFiniteSet(Id)
  BY BookingAssumption, FS_Union DEF Id
<1>2. Upcoming(appts, now.day, kind, c) \subseteq Id
  BY DEF Upcoming, TypeInv, TypeOK
<1>3. Counts(kind, c) = {i \in Id : Counted(i) /\ appts[i][kind] = c}
  BY DEF Counts, Upcoming, Counted, TypeInv, TypeOK
<1> QED
  BY <1>1, <1>2, <1>3, FS_Subset DEF Counts

\* Fewer elements are not more.
LEMMA Fewer ==
  ASSUME NEW S, NEW T, IsFiniteSet(T), S \subseteq T, NEW n \in Nat, Cardinality(T) < n
  PROVE  IsFiniteSet(S) /\ Cardinality(S) < n /\ Cardinality(S) \in Nat
<1>1. IsFiniteSet(S) /\ Cardinality(S) <= Cardinality(T)
  BY FS_Subset
<1>2. Cardinality(S) \in Nat /\ Cardinality(T) \in Nat
  BY <1>1, FS_CardinalityType
<1> QED
  BY <1>1, <1>2

\* A step adds to the count of a contact at most the row it has counted for.
LEMMA EffectOnCounts ==
  ASSUME TypeInv, TypeInv', NEW r \in Req, Effect(r), NEW kind \in Kind, NEW c
  PROVE  \/ Counts(kind, c)' \subseteq Counts(kind, c)
         \/ /\ pc[r] = "write" /\ op[r] \in {"book", "move"} /\ want[r][kind] = c
            /\ Counts(kind, c)' \subseteq Counts(kind, c) \cup {target[r]}
<1>1. Counts(kind, c)' = {i \in Id : Counted(i)' /\ appts'[i][kind] = c}
  BY DEF Counts, Upcoming, Counted, TypeInv, TypeOK
<1>2. Counts(kind, c) = {i \in Id : Counted(i) /\ appts[i][kind] = c}
  BY CountsFinite
<1>3. ASSUME NEW i \in Id, Counted(i)', appts'[i][kind] = c
      PROVE  \/ Counted(i) /\ appts[i][kind] = c
             \/ /\ i = target[r] /\ pc[r] = "write" /\ op[r] \in {"book", "move"}
                /\ want[r][kind] = c
  <2>1. CASE kind = "phone"
    BY <1>3, <2>1 DEF Effect
  <2>2. CASE kind = "email"
    BY <1>3, <2>2 DEF Effect
  <2> QED
    BY <2>1, <2>2 DEF Kind
<1> QED
  BY <1>1, <1>2, <1>3

\* Calendar counts as Booking does.
LEMMA SameUpcoming ==
  ASSUME NEW table, NEW day, NEW kind, NEW c
  PROVE  Cal!Upcoming(table, day, kind, c) = Upcoming(table, day, kind, c)
BY DEF Cal!Upcoming, Upcoming

\* Calendar's cardinality is the same operator.
LEMMA SameCardinality ==
  ASSUME NEW S
  PROVE  Cal!Cardinality(S) = Cardinality(S)
BY DEF Cal!Cardinality, Cardinality

\* ContactQuota, in terms of what counts.
LEMMA QuotaOfCounts ==
  ContactQuota <=> \A c \in Contact, kind \in Kind : Cardinality(Counts(kind, c)) <= MaxActive
<1>1. \A c, kind : Counts(kind, c) = Cal!Upcoming(appts, now.day, kind, c) \ unlimited
  BY SameUpcoming DEF Counts
<1> QED
  BY <1>1, SameCardinality DEF ContactQuota, Cal!ContactQuota, Kind

\* A write for which there was room keeps every contact within its quota.
LEMMA QuotaKept ==
  ASSUME TypeInv, TypeInv', ContactQuota, NEW r \in Req, Known(r), Effect(r)
  PROVE  ContactQuota'
<1> SUFFICES ASSUME NEW c \in Contact, NEW kind \in Kind
             PROVE  Cardinality(Counts(kind, c)') <= MaxActive
  <2>1. \A c, kind : Counts(kind, c)' = Cal!Upcoming(appts', now'.day, kind, c) \ unlimited'
    BY SameUpcoming DEF Counts
  <2> QED
    BY <2>1, SameCardinality DEF ContactQuota, Cal!ContactQuota, Kind
<1>1. Cardinality(Counts(kind, c)) <= MaxActive /\ IsFiniteSet(Counts(kind, c))
  <2>1. Cardinality(Counts(kind, c)) <= MaxActive
    BY QuotaOfCounts
  <2> QED
    BY <2>1, CountsFinite, FS_Subset
<1>2. MaxActive \in Nat
  BY RowsAssumption
<1>3. CASE Counts(kind, c)' \subseteq Counts(kind, c)
  <2>1. Cardinality(Counts(kind, c)) < MaxActive + 1
    BY <1>1, <1>2, FS_CardinalityType
  <2>2. Cardinality(Counts(kind, c)') < MaxActive + 1 /\ Cardinality(Counts(kind, c)') \in Nat
    BY <1>1, <1>2, <1>3, <2>1, Fewer
  <2> QED
    BY <1>2, <2>2
<1>4. CASE /\ pc[r] = "write" /\ op[r] \in {"book", "move"} /\ want[r][kind] = c
           /\ Counts(kind, c)' \subseteq Counts(kind, c) \cup {target[r]}
  <2> DEFINE S == Counts(kind, c) \ {target[r]}
  <2>1. Room(r, kind)
    BY <1>4 DEF Known, PhonePassed, EmailPassed, Kind
  <2>2. Cardinality(S) < MaxActive
    BY <1>4, <2>1, RowsAssumption DEF Room
  <2>3. IsFiniteSet(S) /\ Cardinality(S) \in Nat
    BY <1>1, FS_Subset, FS_CardinalityType
  <2>4. /\ IsFiniteSet(S \cup {target[r]})
        /\ Cardinality(S \cup {target[r]}) < MaxActive + 1
    BY <1>2, <2>2, <2>3, FS_AddElement
  <2>5. Counts(kind, c)' \subseteq S \cup {target[r]}
    BY <1>4
  <2>6. Cardinality(Counts(kind, c)') < MaxActive + 1 /\ Cardinality(Counts(kind, c)') \in Nat
    BY <1>2, <2>4, <2>5, Fewer
  <2> QED
    BY <1>2, <2>6
<1> QED
  BY <1>3, <1>4, EffectOnCounts

\* The keys of its contacts keep a request apart from all that count for them.
LEMMA ContactsExclude ==
  ASSUME TypeInv, Mutual, NEW r \in Req, NEW s \in Req \ {r}, Known(r), Known(s),
         pc[r] \in Guarded, pc[s] \in Guarded,
         op[r] \in {"book", "move"}, op[s] \in {"book", "move"},
         NEW c \in Contact, c \in {want[r].phone, want[r].email},
         c \in {want[s].phone, want[s].email}
  PROVE  FALSE
<1>1. ContactKey[c] \in ContactLocks(want[r]) /\ ContactKey[c] \in ContactLocks(want[s])
  BY RowsAssumption DEF ContactLocks
<1> QED
  BY <1>1 DEF Known, Contacted, Mutual

\* What a request knows survives the steps of the others.
LEMMA OthersKnow ==
  ASSUME TypeInv, TypeInv', Mutual, NEW r \in Req, Known(r), Sound(r), Effect(r),
         NEW s \in Req \ {r}, Known(s), Sound(s),
         pc'[s] = pc[s], op'[s] = op[s], target'[s] = target[s],
         want'[s] = want[s], wait'[s] = wait[s], held'[s] = held[s]
  PROVE  Known(s)'
<1>1. /\ target[s] \in Id /\ r \in Id /\ want[s] \in Row /\ want[r] \in Row
      /\ pc[r] = "write" => appts[r].status = "absent"
  BY DEF TypeInv, TypeOK, Id, Sound, Targets
<1>2. Running(s) /\ op[s] = "move" => /\ want[s].phone = appts'[target[s]].phone
                                      /\ want[s].email = appts'[target[s]].email
  <2>1. Running(s) /\ op[s] = "move" => appts[target[s]].status # "absent"
    BY DEF Sound, Targets
  <2> QED
    BY <1>1, <2>1 DEF Known, Effect
<1>3. Contacted(s)' <=> Contacted(s)
  BY DEF Contacted, ContactLocks
<1>4. ASSUME NEW kind \in Kind, Room(s, kind), op[s] \in {"book", "move"},
             PhonePassed(s) \/ EmailPassed(s)
      PROVE  Room(s, kind)'
  <2> SUFFICES ASSUME want[s][kind] # NoContact
               PROVE  Cardinality(Counts(kind, want[s][kind])' \ {target[s]}) < MaxActive
    BY DEF Room
  <2> DEFINE c == want[s][kind]
  <2>1. c \in Contact /\ c \in {want[s].phone, want[s].email} /\ pc[s] \in Guarded
    BY <1>1, <1>4 DEF Kind, Row, PhonePassed, EmailPassed, Guarded
  <2>2. Counts(kind, c)' \subseteq Counts(kind, c)
    <3> SUFFICES ASSUME pc[r] = "write", op[r] \in {"book", "move"}, want[r][kind] = c
                 PROVE  FALSE
      BY EffectOnCounts
    <3>1. c \in {want[r].phone, want[r].email} /\ pc[r] \in Guarded
      BY DEF Kind, Guarded
    <3> QED
      BY <1>4, <2>1, <3>1, ContactsExclude
  <2>3. Cardinality(Counts(kind, c) \ {target[s]}) < MaxActive
    BY <1>4 DEF Room
  <2>4. IsFiniteSet(Counts(kind, c) \ {target[s]})
    BY CountsFinite, FS_Subset
  <2> QED
    BY <2>2, <2>3, <2>4, Fewer, RowsAssumption
<1>5. ASSUME op[s] = "book", want[s].key # NoKey, FreshKey(s),
             pc[s] \in {"quotaPhone", "quotaEmail", "overlap", "write"}
      PROVE  FreshKey(s)'
  <2> SUFFICES ASSUME NEW i \in Id, appts'[i].key = want[s].key,
                      appts'[i].phone = want[s].phone
               PROVE  FALSE
    BY DEF FreshKey
  <2>1. /\ i = r /\ pc[r] = "write" /\ op[r] \in {"book", "manual"} /\ appts'[i] = want[r]
    BY <1>5 DEF FreshKey, Effect
  <2>2. op[r] = "book" /\ want[r].phone = want[s].phone /\ want[s].phone \in Contact
    BY <1>5, <2>1 DEF Known, Running
  <2> QED
    BY <1>5, <2>1, <2>2, ContactsExclude DEF Guarded
<1> QED
  BY <1>2, <1>3, <1>4, <1>5 DEF Known, Running, PhonePassed, EmailPassed, Kind

-----------------------------------------------------------------------------
(* What a request learns of contacts and keys by its own steps.            *)

\* A transaction begins for a row with a phone, and is going to lock the contacts
\* that it counts for.
Asks(r, kind, a, row, slot, keys) ==
  /\ Begin(r, kind, a, row, slot, keys)
  /\ row.phone \in Contact
  /\ kind \in {"book", "manual"} => row.status = "confirmed"
  /\ kind = "manual" => row.key = NoKey
  /\ kind = "move" => row.phone = appts[a].phone /\ row.email = appts[a].email
  /\ kind \in {"book", "move"} => ContactLocks(row) \subseteq keys

\* A request that arrives asks for a row with a phone, and is going to lock the
\* contacts it counts for.
LEMMA ArriveAsks ==
  ASSUME TypeInv, Phoned, NEW r \in Req, Arrive(r)
  PROVE  \E kind \in Operation, a \in Id :
           \/ \E answer : Refuse(r, kind, a, answer)
           \/ \E row \in Row, slot \in Instant, keys \in SUBSET Nat :
                Asks(r, kind, a, row, slot, keys)
<1>1. CASE BeginCreate(r)
  <2>1. PICK b \in Bookings :
          \/ \E answer : Refuse(r, b.op, r, answer)
          \/ Begin(r, b.op, r, b.row, Start,
                   {b.row.date} \cup (IF b.op = "book" THEN ContactLocks(b.row) ELSE {}))
    BY <1>1 DEF BeginCreate
  <2>2. /\ b.op \in {"book", "manual"} /\ b.row \in Row /\ b.row.phone \in Contact
        /\ b.row.status = "confirmed"
        /\ b.op = "manual" => b.row.key = NoKey
    BY AskedRows, BookingAssumption
  <2>3. r \in Id /\ b.op \in Operation /\ b.op # "move"
    BY <2>2 DEF Id, Operation
  <2>4. CASE \E answer : Refuse(r, b.op, r, answer)
    BY <2>3, <2>4
  <2>5. CASE Begin(r, b.op, r, b.row, Start,
                   {b.row.date} \cup (IF b.op = "book" THEN ContactLocks(b.row) ELSE {}))
    <3> DEFINE keys == {b.row.date} \cup (IF b.op = "book" THEN ContactLocks(b.row) ELSE {})
    <3>1. /\ keys \in SUBSET Nat
          /\ b.op \in {"book", "move"} => ContactLocks(b.row) \subseteq keys
      BY <2>2, KeysAreNat
    <3>2. Begin(r, b.op, r, b.row, Start, keys)
      BY <2>5
    <3> HIDE DEF keys
    <3>3. Asks(r, b.op, r, b.row, Start, keys)
      BY <2>2, <2>3, <3>1, <3>2 DEF Asks
    <3> QED
      BY <2>2, <2>3, <3>1, <3>3, BookingAssumption
  <2> QED
    BY <2>1, <2>4, <2>5
<1>2. CASE BeginMove(r)
  <2>1. PICK a \in Id, m \in Moves :
          IF appts[a].status = "absent"
            THEN Refuse(r, m.op, a, "not_found")
            ELSE Begin(r, m.op, a,
                       [appts[a] EXCEPT !.date = m.date, !.time = m.time, !.res = m.res],
                       [day |-> appts[a].date, min |-> appts[a].time],
                       MoveLocks(m.op, appts[a], m.date))
    BY <1>2 DEF BeginMove
  <2> DEFINE row == [appts[a] EXCEPT !.date = m.date, !.time = m.time, !.res = m.res]
             keys == MoveLocks(m.op, appts[a], m.date)
  <2>2. appts[a] \in Row
    BY DEF TypeInv, TypeOK
  <2>3. /\ row \in Row /\ row.phone = appts[a].phone /\ row.email = appts[a].email
        /\ m.op \in {"move", "shift"} /\ m.op \in Operation /\ m.date \in Nat
    BY <2>2, AskedRows DEF Row, Operation
  <2>4. /\ keys \in SUBSET Nat
        /\ m.op = "move" => ContactLocks(row) \subseteq keys
    BY <2>2, <2>3, KeysAreNat DEF MoveLocks, DayLocks, ContactLocks
  <2>5. CASE appts[a].status = "absent"
    BY <2>1, <2>3, <2>5
  <2>6. CASE appts[a].status # "absent"
    <3>1. row.phone \in Contact
      BY <2>3, <2>6 DEF Phoned
    <3>2. Begin(r, m.op, a, row, [day |-> appts[a].date, min |-> appts[a].time], keys)
      BY <2>1, <2>6
    <3>4. [day |-> appts[a].date, min |-> appts[a].time] \in Instant
      BY <2>2 DEF Row, Instant
    <3> HIDE DEF row, keys
    <3>3. Asks(r, m.op, a, row, [day |-> appts[a].date, min |-> appts[a].time], keys)
      BY <2>3, <2>4, <3>1, <3>2 DEF Asks
    <3> QED
      BY <2>3, <2>4, <3>3, <3>4
  <2> QED
    BY <2>5, <2>6
<1>3. CASE BeginCancel(r) \/ BeginStatus(r)
  <2>1. PICK kind \in {"cancel", "status"}, a \in Id, s \in Status :
          \/ \E answer : Refuse(r, kind, a, answer)
          \/ /\ Begin(r, kind, a, [appts[a] EXCEPT !.status = s], Start, {appts[a].date})
             /\ appts[a].status # "absent"
    <3>1. CASE BeginCancel(r)
      <4>1. "cancelled" \in Status
        BY DEF Status
      <4> QED
        BY <3>1, <4>1 DEF BeginCancel
    <3>2. CASE BeginStatus(r)
      <4>1. "confirmed" \in Status
        BY DEF Status
      <4> QED
        BY <3>2, <4>1 DEF BeginStatus
    <3> QED
      BY <1>3, <3>1, <3>2
  <2> DEFINE row == [appts[a] EXCEPT !.status = s]
  <2>2. appts[a] \in Row /\ kind \in Operation
    BY DEF TypeInv, TypeOK, Operation
  <2>3. row \in Row /\ row.phone = appts[a].phone /\ {appts[a].date} \in SUBSET Nat
    BY <2>2, AskedRows DEF Row
  <2>4. CASE \E answer : Refuse(r, kind, a, answer)
    BY <2>2, <2>4
  <2>5. CASE /\ Begin(r, kind, a, row, Start, {appts[a].date})
             /\ appts[a].status # "absent"
    <3>1. row.phone \in Contact
      BY <2>3, <2>5 DEF Phoned
    <3> HIDE DEF row
    <3>2. Asks(r, kind, a, row, Start, {appts[a].date})
      BY <2>2, <2>5, <3>1 DEF Asks
    <3> QED
      BY <2>2, <2>3, <3>2, BookingAssumption
  <2> QED
    BY <2>1, <2>4, <2>5
<1> QED
  BY <1>1, <1>2, <1>3 DEF Arrive

\* A request that is answered knows nothing any more.
LEMMA AnsweredKnows ==
  ASSUME NEW r \in Req, pc'[r] = "done"
  PROVE  Known(r)'
BY DEF Known, Running, Contacted, PhonePassed, EmailPassed, Guarded

\* The steps that do not write leave appointments and their counts alone.
Unwritten == UNCHANGED <<appts, unlimited, reopened, now>>

\* What a request that arrives, or takes a lock, knows.
LEMMA EarlyKnows ==
  ASSUME TypeInv, Phoned, NEW r \in Req, Sound(r), Known(r),
         Arrive(r) \/ Acquire(r) \/ LockTimeout(r) \/ Crash(r)
  PROVE  Known(r)' /\ Unwritten
<1>1. CASE Arrive(r)
  <2>1. PICK kind \in Operation, a \in Id :
           \/ \E answer : Refuse(r, kind, a, answer)
           \/ \E row \in Row, slot \in Instant, keys \in SUBSET Nat :
                Asks(r, kind, a, row, slot, keys)
    BY <1>1, ArriveAsks
  <2>2. CASE \E answer : Refuse(r, kind, a, answer)
    <3>1. pc'[r] = "done" /\ Unwritten
      BY <2>2 DEF Refuse, data, Unwritten, TypeInv, TypeOK
    <3> QED
      BY <3>1, AnsweredKnows
  <2>3. CASE \E row \in Row, slot \in Instant, keys \in SUBSET Nat :
               Asks(r, kind, a, row, slot, keys)
    <3>1. PICK row \in Row, slot \in Instant, keys \in SUBSET Nat :
            Asks(r, kind, a, row, slot, keys)
      BY <2>3
    <3>2. /\ pc'[r] = "locking" /\ op'[r] = kind /\ target'[r] = a /\ want'[r] = row
          /\ wait'[r] = keys /\ Unwritten
      BY <3>1 DEF Asks, Begin, data, Unwritten, TypeInv, TypeOK
    <3>3. Contacted(r)' <=> ContactLocks(row) \subseteq held'[r] \cup keys
      BY <3>2 DEF Contacted, Guarded, ContactLocks
    <3> QED
      BY <3>1, <3>2, <3>3 DEF Asks, Known, Running, PhonePassed, EmailPassed, Unwritten
  <2> QED
    BY <2>1, <2>2, <2>3
<1>2. CASE Acquire(r)
  <2>1. pc[r] = "locking" /\ op[r] \in Operation
    BY <1>2 DEF Acquire, TypeInv, TypeOK
  <2>2. PICK k \in wait[r] :
          /\ held'[r] = held[r] \cup {k} /\ wait'[r] = wait[r] \ {k}
          /\ pc'[r] = IF wait[r] = {k} THEN FirstStep(r) ELSE "locking"
    BY <1>2 DEF Acquire, TypeInv, TypeOK
  <2>3. UNCHANGED <<op, target, want>> /\ Unwritten
    BY <1>2 DEF Acquire, data, local, Unwritten
  <2>4. /\ op[r] = "move" => FirstStep(r) = "reread"
        /\ op[r] = "book" => IF want[r].key # NoKey THEN FirstStep(r) = "replay"
                                                    ELSE FirstStep(r) = "quotaPhone"
    BY <2>1 DEF FirstStep, Operation
  <2>5. op[r] \in {"book", "move"} => Contacted(r)'
    <3>1. ContactLocks(want[r])' = ContactLocks(want[r])
      BY <2>3 DEF ContactLocks
    <3> QED
      BY <2>1, <2>2, <2>4, <3>1 DEF Known, Contacted, Guarded
  <2>6. Running(r)
    BY <2>1 DEF Running
  <2>7. op[r] \in {"book", "move"} => ~PhonePassed(r)' /\ ~EmailPassed(r)'
    BY <2>2, <2>3, <2>4 DEF PhonePassed, EmailPassed
  <2>8. op[r] = "book" /\ want[r].key # NoKey
          => pc'[r] \notin {"quotaPhone", "quotaEmail", "overlap", "write"}
    BY <2>2, <2>4
  <2> QED
    BY <2>3, <2>5, <2>6, <2>7, <2>8 DEF Known, Unwritten
<1>3. CASE LockTimeout(r) \/ Crash(r)
  <2>1. pc'[r] = "done" /\ Unwritten
    BY <1>3 DEF LockTimeout, Crash, Abort, Finish, data, Unwritten, TypeInv, TypeOK
  <2> QED
    BY <2>1, AnsweredKnows
<1> QED
  BY <1>1, <1>2, <1>3

\* A request that goes on keeps what it knows, and adds what its query found.
LEMMA ContinueKnows ==
  ASSUME TypeInv, NEW r \in Req, Known(r), NEW step \in Guarded, Continue(r, step),
         pc[r] \in Guarded,
         step = "quotaEmail" /\ op[r] \in {"book", "move"} => Room(r, "phone"),
         step \in {"overlap", "write"} /\ op[r] = "book" => Room(r, "phone") /\ Room(r, "email"),
         step = "write" /\ op[r] = "move" => Room(r, "phone") /\ Room(r, "email"),
         op[r] = "book" /\ want[r].key # NoKey => FreshKey(r)
  PROVE  Known(r)'
<1>1. pc'[r] = step /\ UNCHANGED <<op, target, want, wait, held>> /\ Unwritten
  BY DEF Continue, data, local, Unwritten, TypeInv, TypeOK
<1>2. /\ \A kind : Room(r, kind)' <=> Room(r, kind)
      /\ FreshKey(r)' <=> FreshKey(r)
      /\ ContactLocks(want[r])' = ContactLocks(want[r])
  BY <1>1 DEF Room, Counts, Upcoming, FreshKey, ContactLocks, Unwritten
<1>3. Contacted(r) => Contacted(r)'
  BY <1>1, <1>2 DEF Contacted, Guarded
<1>4. Running(r)
  BY DEF Running, Guarded
<1> QED
  BY <1>1, <1>2, <1>3, <1>4 DEF Known, PhonePassed, EmailPassed, Guarded, Unwritten

\* A count that finds the contact below its limit finds room.
LEMMA BelowLimit ==
  ASSUME TypeInv, NEW r \in Req, NEW kind \in Kind, ~AtLimit(kind, want[r][kind], target[r])
  PROVE  Room(r, kind)
<1> SUFFICES ASSUME want[r][kind] # NoContact
             PROVE  Cardinality(Counts(kind, want[r][kind]) \ {target[r]}) < MaxActive
  BY DEF Room
<1> DEFINE c == want[r][kind]
           S == Upcoming(appts, now.day, kind, c) \ {target[r]}
<1>1. IsFiniteSet(S) /\ Cardinality(S) \in Nat
  BY CountsFinite, FS_Subset, FS_CardinalityType
<1>2. Cardinality(S) < MaxActive
  BY <1>1, RowsAssumption DEF AtLimit
<1>3. Counts(kind, c) \ {target[r]} \subseteq S
  BY CountsFinite
<1> HIDE DEF S, c
<1> QED
  BY <1>1, <1>2, <1>3, Fewer, RowsAssumption DEF c

\* What a request knows after a query.
LEMMA QueryKnows ==
  ASSUME TypeInv, Phoned, NEW r \in Req, Sound(r), Known(r), Query(r)
  PROVE  Known(r)' /\ Unwritten
<1>1. Unwritten
  BY DEF Query, Replay, QuotaPhone, QuotaEmail, OverlapCheck, Reread, Occupied, Winner,
         Abort, Continue, data, Unwritten
<1>2. CASE \E a \in Answer : Abort(r, a)
  <2>1. pc'[r] = "done"
    BY <1>2, FinishTyped DEF Abort
  <2> QED
    BY <1>1, <2>1, AnsweredKnows
<1>3. CASE Reread(r) /\ ~(\E a \in Answer : Abort(r, a))
  <2>1. /\ pc[r] = "reread" /\ Confirmed(target[r])
        /\ pc'[r] = IF op[r] = "move" THEN "occupied" ELSE "overlap"
        /\ want'[r] = MovedRow(r)
        /\ UNCHANGED <<op, target, wait, held>>
    BY <1>3 DEF Reread, Answer, TypeInv, TypeOK
  <2>2. appts[target[r]] \in Row /\ target[r] \in Id /\ op[r] \in {"move", "shift"}
    BY <2>1 DEF TypeInv, TypeOK, Sound, Stage
  <2>3. /\ MovedRow(r).phone = appts[target[r]].phone
        /\ MovedRow(r).email = appts[target[r]].email
        /\ MovedRow(r).phone \in Contact
    BY <2>1, <2>2 DEF MovedRow, Row, Phoned, Confirmed
  <2>4. op[r] = "move" => /\ ContactLocks(want[r]) \subseteq held[r]
                          /\ ContactLocks(want'[r]) = ContactLocks(want[r])
    BY <2>1, <2>3 DEF Known, Contacted, Running, Guarded, ContactLocks
  <2>5. op[r] = "move" => Contacted(r)'
    BY <2>1, <2>4 DEF Contacted, ContactLocks
  <2> QED
    BY <1>1, <2>1, <2>2, <2>3, <2>5 DEF Known, PhonePassed, EmailPassed, Unwritten
<1>4. CASE Replay(r) /\ ~(\E a \in Answer : Abort(r, a))
  <2>1. /\ pc[r] = "replay"
        /\ Continue(r, IF op[r] = "book" THEN "quotaPhone" ELSE "overlap")
        /\ \A i \in Id : appts[i].key # want[r].key
    BY <1>4 DEF Replay, Answer
  <2>2. op[r] \in {"book", "manual"} /\ FreshKey(r)
    BY <2>1 DEF Sound, Stage, FreshKey
  <2> QED
    BY <1>1, <2>1, <2>2, ContinueKnows DEF Guarded
<1>5. CASE QuotaPhone(r) /\ ~(\E a \in Answer : Abort(r, a))
  <2>1. /\ pc[r] = "quotaPhone" /\ Continue(r, "quotaEmail")
        /\ ~AtLimit("phone", want[r].phone, target[r])
    BY <1>5 DEF QuotaPhone, Answer
  <2>2. Room(r, "phone")
    BY <2>1, BelowLimit DEF Kind
  <2> QED
    BY <1>1, <2>1, <2>2, ContinueKnows DEF Guarded, Known
<1>6. CASE QuotaEmail(r) /\ ~(\E a \in Answer : Abort(r, a))
  <2>1. /\ pc[r] = "quotaEmail"
        /\ Continue(r, IF op[r] = "book" THEN "overlap" ELSE "write")
        /\ ~AtLimit("email", want[r].email, target[r])
    BY <1>6 DEF QuotaEmail, Answer
  <2>2. Room(r, "email")
    BY <2>1, BelowLimit DEF Kind
  <2>3. op[r] \in {"book", "move"}
    BY <2>1 DEF Sound, Stage
  <2> QED
    BY <1>1, <2>1, <2>2, <2>3, ContinueKnows DEF Guarded, Known, PhonePassed
<1>7. CASE OverlapCheck(r) /\ ~(\E a \in Answer : Abort(r, a))
  <2>1. /\ pc[r] = "overlap"
        /\ Continue(r, IF op[r] = "move" THEN "quotaPhone" ELSE "write")
    BY <1>7 DEF OverlapCheck, Answer
  <2> QED
    BY <1>1, <2>1, ContinueKnows DEF Guarded, Known, PhonePassed, EmailPassed
<1>8. CASE Occupied(r) /\ ~(\E a \in Answer : Abort(r, a))
  <2>1. pc[r] = "occupied" /\ Continue(r, "overlap")
    BY <1>8 DEF Occupied, Answer
  <2>2. op[r] = "move"
    BY <2>1 DEF Sound, Stage
  <2> QED
    BY <1>1, <2>1, <2>2, ContinueKnows DEF Guarded
<1>9. CASE Winner(r)
  <2>1. {"already_created", "occupied"} \subseteq Answer
    BY DEF Answer
  <2> QED
    BY <1>2, <1>9, <2>1 DEF Winner
<1> QED
  BY <1>2, <1>3, <1>4, <1>5, <1>6, <1>7, <1>8, <1>9 DEF Query

\* Where nothing is written, nothing changes.
LEMMA UnwrittenEffect ==
  ASSUME NEW r \in Req, Unwritten
  PROVE  Effect(r)
BY DEF Unwritten, Effect, Counted

\* What a write does to the counts, and what its request knows then.
LEMMA WriteKnows ==
  ASSUME TypeInv, NEW r \in Req, Sound(r), Known(r), Write(r)
  PROVE  Known(r)' /\ Effect(r) /\ UNCHANGED now
<1>1. /\ target[r] \in Id /\ appts[target[r]] \in Row /\ want[r] \in Row /\ r \in Id
      /\ appts \in [Id -> Row]
  BY DEF TypeInv, TypeOK, Id
<1>2. CASE \E a \in Answer : Abort(r, a)
  <2>1. pc'[r] = "done" /\ Unwritten
    BY <1>2, FinishTyped DEF Abort, data, Unwritten
  <2> QED
    BY <2>1, AnsweredKnows, UnwrittenEffect DEF Unwritten
<1>3. ASSUME NEW answer \in Answer, Finish(r, answer) PROVE Known(r)'
  <2>1. pc'[r] = "done"
    BY <1>3, FinishTyped
  <2> QED
    BY <2>1, AnsweredKnows
<1>4. CASE Insert(r) /\ ~(\E a \in Answer : Abort(r, a))
  <2>1. pc[r] = "write" /\ op[r] \in {"book", "manual"} /\ target[r] = r
    BY <1>4 DEF Insert, Sound, Targets
  <2>2. CASE SlotTaken(want[r], r) \/ KeyTaken(want[r])
    <3>1. pc'[r] = "winner" /\ UNCHANGED <<op, target, want>> /\ Unwritten
      BY <1>4, <2>2 DEF Insert, data, local, Unwritten, TypeInv, TypeOK
    <3>2. Contacted(r)' /\ ~PhonePassed(r)' /\ ~EmailPassed(r)'
      BY <3>1 DEF Contacted, PhonePassed, EmailPassed, Guarded
    <3>3. Known(r)'
      BY <2>1, <3>1, <3>2 DEF Known, Running, Unwritten
    <3> QED
      BY <3>1, <3>3, UnwrittenEffect DEF Unwritten
  <2>3. CASE ~(SlotTaken(want[r], r) \/ KeyTaken(want[r]))
    <3>1. /\ appts' = [appts EXCEPT ![r] = want[r]] /\ UNCHANGED now
          /\ unlimited' = IF op[r] = "manual" THEN unlimited \cup {r} ELSE unlimited
          /\ Finish(r, "created") /\ "created" \in Answer
      BY <1>4, <2>3 DEF Insert, Answer
    <3>2. \A i \in Id : i # r => appts'[i] = appts[i] /\ (i \in unlimited' <=> i \in unlimited)
      BY <1>1, <3>1
    <3>3. appts'[r] = want[r] /\ (op[r] = "manual" => r \in unlimited')
      BY <1>1, <3>1
    <3>4. Effect(r)
      BY <2>1, <3>1, <3>2, <3>3 DEF Effect, Counted
    <3> QED
      BY <1>3, <3>1, <3>4
  <2> QED
    BY <2>2, <2>3
<1>5. CASE Update(r) /\ ~(\E a \in Answer : Abort(r, a))
  <2> DEFINE a == target[r]
             row == UpdatedRow(r)
  <2>1. /\ pc[r] = "write" /\ op[r] \in {"move", "shift"} /\ Confirmed(a)
        /\ appts' = [appts EXCEPT ![a] = row] /\ UNCHANGED now
        /\ unlimited' = IF op[r] = "shift" THEN unlimited \cup {a} ELSE unlimited \ {a}
        /\ Finish(r, "rescheduled") /\ "rescheduled" \in Answer
    BY <1>5 DEF Update, Answer
  <2>2. /\ row.phone = appts[a].phone /\ row.email = appts[a].email
        /\ row.key = appts[a].key /\ row.status = "confirmed"
    BY <1>1, <2>1 DEF UpdatedRow, Row, Confirmed
  <2> HIDE DEF row
  <2>3. \A i \in Id : i # a => appts'[i] = appts[i] /\ (i \in unlimited' <=> i \in unlimited)
    BY <1>1, <2>1
  <2>4. appts'[a] = row /\ (op[r] = "shift" => a \in unlimited')
    BY <1>1, <2>1
  <2>5. op[r] = "move" => row.phone = want[r].phone /\ row.email = want[r].email
    BY <2>1, <2>2 DEF Known, Running
  <2>6. Effect(r)
    BY <2>1, <2>2, <2>3, <2>4, <2>5 DEF Effect, Counted, Confirmed
  <2> QED
    BY <1>3, <2>1, <2>6
<1>6. CASE (Cancel(r) \/ SetStatus(r)) /\ ~(\E a \in Answer : Abort(r, a))
  <2> DEFINE a == target[r]
  <2>1. PICK status \in Status, answer \in Answer :
          /\ appts' = [appts EXCEPT ![a].status = status] /\ UNCHANGED now
          /\ unlimited' = IF status = "confirmed" THEN unlimited \cup {a} ELSE unlimited
          /\ Finish(r, answer)
          /\ appts[a].status # "absent" /\ status # "absent"
    <3>1. "cancelled" \in Answer /\ "updated" \in Answer /\ "cancelled" \in Status
      BY DEF Answer, Status
    <3>2. CASE Cancel(r)
      <4>1. /\ appts' = [appts EXCEPT ![a].status = "cancelled"] /\ UNCHANGED now
            /\ unlimited' = unlimited /\ Finish(r, "cancelled") /\ appts[a].status # "absent"
        BY <1>6, <3>2 DEF Cancel, Confirmed, Answer
      <4> QED
        BY <3>1, <4>1
    <3>3. CASE SetStatus(r)
      <4>1. pc[r] = "write" /\ op[r] = "status"
        BY <3>3 DEF SetStatus
      <4>2. want[r].status # "absent" /\ appts[a].status # "absent"
        BY <4>1 DEF Sound, Targets, Running
      <4>3. /\ appts' = [appts EXCEPT ![a].status = want[r].status] /\ UNCHANGED now
            /\ unlimited' = IF want[r].status = "confirmed" THEN unlimited \cup {a}
                                                           ELSE unlimited
            /\ Finish(r, "updated")
        BY <1>6, <3>3 DEF SetStatus, Answer
      <4>4. want[r].status \in Status
        BY <1>1, <4>2 DEF Row
      <4> QED
        BY <3>1, <4>2, <4>3, <4>4
    <3> QED
      BY <1>6, <3>2, <3>3
  <2>2. \A i \in Id : i # a => appts'[i] = appts[i] /\ (i \in unlimited' <=> i \in unlimited)
    BY <1>1, <2>1
  <2>3. /\ appts'[a].phone = appts[a].phone /\ appts'[a].email = appts[a].email
        /\ appts'[a].key = appts[a].key /\ appts'[a].status = status
        /\ status = "confirmed" => a \in unlimited'
    BY <1>1, <2>1 DEF Row
  <2>4. Effect(r)
    BY <2>1, <2>2, <2>3 DEF Effect, Counted
  <2> QED
    BY <1>3, <2>1, <2>4
<1> QED
  BY <1>2, <1>4, <1>5, <1>6 DEF Write

\* The agenda begins within the quota.
LEMMA QuotaInit == Init => QuotaInv
<1> SUFFICES ASSUME Init PROVE QuotaInv
  OBVIOUS
<1>1. AgendaInv
  BY AgendaInit
<1>2. ContactQuota
  <2> SUFFICES ASSUME NEW c \in Contact, NEW kind \in Kind
               PROVE  Cardinality(Counts(kind, c)) <= MaxActive
    BY QuotaOfCounts
  <2>1. Counts(kind, c) \subseteq Upcoming(Stored, Start.day, kind, c)
    BY BookingAssumption DEF Init, Counts, Upcoming, Blank, Id
  <2>2. Upcoming(Stored, Start.day, kind, c) \subseteq Prior
    BY BookingAssumption DEF Upcoming
  <2>3. IsFiniteSet(Upcoming(Stored, Start.day, kind, c))
    BY <2>2, FS_Subset, BookingAssumption
  <2>4. /\ Cardinality(Counts(kind, c)) <= Cardinality(Upcoming(Stored, Start.day, kind, c))
        /\ IsFiniteSet(Counts(kind, c))
    BY <2>1, <2>3, FS_Subset
  <2>5. Cardinality(Upcoming(Stored, Start.day, kind, c)) <= MaxActive
    BY BookingAssumption DEF Kind
  <2> QED
    BY <2>3, <2>4, <2>5, FS_CardinalityType, RowsAssumption
<1>3. Phoned
  BY BookingAssumption DEF Init, Phoned, Blank, Id
<1>4. \A r \in Req : Known(r)
  BY DEF Init, Known, Running, Contacted, PhonePassed, EmailPassed, Guarded
<1> QED
  BY <1>1, <1>2, <1>3, <1>4 DEF QuotaInv

\* Every step keeps the invariant.
LEMMA QuotaStep == QuotaInv /\ [Next]_vars => QuotaInv'
<1> SUFFICES ASSUME QuotaInv, [Next]_vars PROVE QuotaInv'
  OBVIOUS
<1>1. /\ AgendaInv /\ AgendaInv' /\ TypeInv /\ TypeInv' /\ Mutual
      /\ \A r \in Req : Sound(r) /\ Known(r)
      /\ ContactQuota /\ Phoned
  BY AgendaStep DEF QuotaInv, AgendaInv
<1>2. CASE Tick \/ UNCHANGED vars
  <2>1. /\ UNCHANGED <<appts, unlimited, pc, op, target, want, wait, held>>
        /\ now'.day >= now.day
    BY <1>1, <1>2 DEF Tick, Later, vars, data, local, TypeInv, TypeOK, Instant
  <2>2. \A i \in Id : Counted(i)' => Counted(i)
    <3>1. \A i \in Id : appts[i].date \in Nat
      BY <1>1 DEF TypeInv, TypeOK, Row
    <3>2. now.day \in Nat /\ now'.day \in Nat
      BY <1>1 DEF TypeInv, TypeOK, Instant
    <3> QED
      BY <2>1, <3>1, <3>2 DEF Counted
  <2>3. ASSUME NEW kind, NEW c
        PROVE  /\ Counts(kind, c)' \subseteq Counts(kind, c) /\ IsFiniteSet(Counts(kind, c))
    <3>1. Counts(kind, c)' = {i \in Id : Counted(i)' /\ appts'[i][kind] = c}
      BY <1>1 DEF Counts, Upcoming, Counted, TypeInv, TypeOK
    <3>2. /\ Counts(kind, c) = {i \in Id : Counted(i) /\ appts[i][kind] = c}
          /\ IsFiniteSet(Counts(kind, c))
      BY <1>1, CountsFinite, FS_Subset
    <3> QED
      BY <2>1, <2>2, <3>1, <3>2
  <2>4. ContactQuota'
    <3>1. \A c \in Contact, kind \in Kind : Cardinality(Counts(kind, c)') <= MaxActive
      <4> SUFFICES ASSUME NEW c \in Contact, NEW kind \in Kind
                   PROVE  Cardinality(Counts(kind, c)') <= MaxActive
        OBVIOUS
      <4>1. Cardinality(Counts(kind, c)) <= MaxActive
        BY <1>1, QuotaOfCounts
      <4>2. /\ IsFiniteSet(Counts(kind, c)')
            /\ Cardinality(Counts(kind, c)') <= Cardinality(Counts(kind, c))
        BY <2>3, FS_Subset
      <4> QED
        BY <2>3, <4>1, <4>2, FS_CardinalityType, RowsAssumption
    <3>2. \A c, kind : Counts(kind, c)' = Cal!Upcoming(appts', now'.day, kind, c) \ unlimited'
      BY SameUpcoming DEF Counts
    <3> QED
      BY <3>1, <3>2, SameCardinality DEF ContactQuota, Cal!ContactQuota, Kind
  <2>5. ASSUME NEW r \in Req PROVE Known(r)'
    <3>1. ASSUME NEW kind, Room(r, kind) PROVE Room(r, kind)'
      <4>1. want[r][kind] # NoContact =>
              Cardinality(Counts(kind, want[r][kind])' \ {target[r]}) < MaxActive
        <5> DEFINE S == Counts(kind, want[r][kind]) \ {target[r]}
        <5>1. IsFiniteSet(S) /\ Counts(kind, want[r][kind])' \ {target[r]} \subseteq S
          BY <2>3, <2>1, FS_Subset
        <5>2. want[r][kind] # NoContact => Cardinality(S) < MaxActive
          BY <3>1 DEF Room
        <5> HIDE DEF S
        <5> QED
          BY <5>1, <5>2, Fewer, RowsAssumption
      <4> QED
        BY <2>1, <4>1 DEF Room
    <3>2. Contacted(r)' <=> Contacted(r)
      BY <2>1 DEF Contacted, ContactLocks
    <3> QED
      BY <1>1, <2>1, <3>1, <3>2 DEF Known, Running, PhonePassed, EmailPassed, FreshKey
  <2>6. Phoned'
    BY <1>1, <2>1 DEF Phoned
  <2> QED
    BY <1>1, <2>4, <2>5, <2>6 DEF QuotaInv
<1>3. ASSUME NEW r \in Req, StepOf(r) PROVE QuotaInv'
  <2>1. Known(r)' /\ Effect(r)
    <3>1. CASE Write(r)
      BY <1>1, <3>1, WriteKnows
    <3>2. CASE ~Write(r)
      BY <1>1, <1>3, <3>2, EarlyKnows, QueryKnows, UnwrittenEffect DEF StepOf, Proceed
    <3> QED
      BY <3>1, <3>2
  <2>2. ContactQuota'
    BY <1>1, <2>1, QuotaKept
  <2>3. ASSUME NEW s \in Req \ {r} PROVE Known(s)'
    BY <1>1, <1>3, <2>1, OnlyItself, OthersKnow
  <2>4. Phoned'
    <3> SUFFICES ASSUME NEW i \in Id, appts'[i].status # "absent"
                 PROVE  appts'[i].phone \in Contact
      BY DEF Phoned
    <3>1. CASE /\ appts'[i].phone = appts[i].phone
               /\ appts'[i].status = "absent" <=> appts[i].status = "absent"
      BY <1>1, <3>1 DEF Phoned
    <3>2. CASE i = r /\ pc[r] = "write" /\ op[r] \in {"book", "manual"} /\ appts'[i] = want[r]
      BY <1>1, <3>2 DEF Known, Running
    <3> QED
      BY <2>1, <3>1, <3>2 DEF Effect
  <2> QED
    BY <1>1, <2>1, <2>2, <2>3, <2>4 DEF QuotaInv
<1> QED
  BY <1>2, <1>3 DEF Next, StepOf

\* The quota's invariant holds in every reachable state.
LEMMA QuotaAlways == Spec => []QuotaInv
BY QuotaInit, QuotaStep, PTL DEF Spec

-----------------------------------------------------------------------------
(* What follows of quota and checks.                                       *)

\* enforce_contact_booking_limit counts under the locks of the contacts: no phone
\* and no e-mail passes MAX_ACTIVE_BOOKINGS_PER_CONTACT, even by bookings of
\* different days at once.
THEOREM QuotaHolds == Spec => []ContactQuota
<1>1. QuotaInv => ContactQuota
  BY DEF QuotaInv
<1> QED
  BY <1>1, QuotaAlways, PTL

\* Room is what Calendar asks of a row that counts.
LEMMA RoomIsQuota ==
  ASSUME TypeInv, NEW r \in Req, Room(r, "phone"), Room(r, "email"), want[r].phone \in Contact,
         NEW row, row.phone = want[r].phone, row.email = want[r].email
  PROVE  Cal!WithinQuota(row, target[r])
<1>1. \A kind, c : Counts(kind, c) \ {target[r]}
                     = Cal!Upcoming(appts, now.day, kind, c) \ ({target[r]} \cup unlimited)
  BY SameUpcoming DEF Counts
<1> QED
  BY <1>1, SameCardinality, RowsAssumption DEF Room, Cal!WithinQuota

\* No confirmed row on any resource is no confirmed row on the same one.
LEMMA ClearFits ==
  ASSUME NEW row, NEW self, Clear(row, self)
  PROVE  Cal!Fits(row, self)
BY SameConflict DEF Clear, Cal!Fits, Confirmed, Conflict

\* When a request writes, what its quota and overlap queries found still holds: the
\* unique index has nothing to catch.
THEOREM ChecksHold == Spec => []CheckStillHolds
<1>1. QuotaInv => CheckStillHolds
  <2> SUFFICES ASSUME QuotaInv, NEW r \in Req, pc[r] = "write"
               PROVE  /\ op[r] \in {"book", "manual", "move", "shift"}
                           => Cal!Fits(want[r], target[r])
                      /\ op[r] \in {"book", "move"} => Cal!WithinQuota(want[r], target[r])
    BY DEF CheckStillHolds
  <2>1. TypeInv /\ Sound(r) /\ Known(r)
    BY DEF QuotaInv, AgendaInv
  <2>2. op[r] \in {"book", "manual", "move", "shift"} => Cal!Fits(want[r], target[r])
    BY <2>1, ClearFits DEF Sound, Checked
  <2>3. op[r] \in {"book", "move"} => Cal!WithinQuota(want[r], target[r])
    <3> SUFFICES ASSUME op[r] \in {"book", "move"} PROVE Cal!WithinQuota(want[r], target[r])
      OBVIOUS
    <3>1. Room(r, "phone") /\ Room(r, "email") /\ want[r].phone \in Contact
      BY <2>1 DEF Known, PhonePassed, EmailPassed, Running
    <3> QED
      BY <2>1, <3>1, RoomIsQuota
  <2> QED
    BY <2>2, <2>3
<1> QED
  BY <1>1, QuotaAlways, PTL

\* A booking sent again with its key and its phone is not told that its slot is
\* occupied when it is its own first sending that occupies it.
THEOREM RetriesFind == Spec => RetryFindsItsBooking
<1>1. QuotaInv /\ [Next]_vars =>
        [\A r \in Req :
           /\ op[r] = "book" /\ want[r].key # NoKey
           /\ reply[r] = "none" /\ reply'[r] = "occupied"
           => \A i \in Id : ~(appts[i].key = want[r].key /\ appts[i].phone = want[r].phone)]_vars
  <2> SUFFICES ASSUME QuotaInv, Next, NEW r \in Req, op[r] = "book", want[r].key # NoKey,
                      reply[r] = "none", reply'[r] = "occupied"
               PROVE  FreshKey(r)
    BY DEF FreshKey
  <2>1. TypeInv /\ Sound(r) /\ Known(r)
    BY DEF QuotaInv, AgendaInv
  <2>2. ASSUME NEW s \in Req \ {r}, StepOf(s) PROVE reply'[r] = reply[r]
    <3>1. CASE Arrive(s)
      BY <2>1, <2>2, <3>1, ArriveShape DEF Begin, Refuse, TypeInv, TypeOK
    <3>2. CASE Acquire(s) \/ LockTimeout(s) \/ Crash(s)
      BY <2>1, <2>2, <3>2 DEF Acquire, LockTimeout, Crash, Abort, Finish, TypeInv, TypeOK
    <3>3. CASE Query(s)
      BY <2>1, <2>2, <3>3 DEF Query, Replay, QuotaPhone, QuotaEmail, OverlapCheck, Reread,
         Occupied, Winner, Abort, Finish, Continue, TypeInv, TypeOK
    <3>4. CASE Write(s)
      BY <2>1, <2>2, <3>4 DEF Write, Insert, Update, Cancel, SetStatus, Abort, Finish,
         TypeInv, TypeOK
    <3> QED
      BY <2>2, <3>1, <3>2, <3>3, <3>4 DEF StepOf, Proceed
  <2>3. StepOf(r)
    BY <2>1, <2>2 DEF Next, StepOf, Tick
  <2>4. CASE Winner(r)
    BY <2>1, <2>4 DEF Winner, Abort, Finish, KeyTaken, FreshKey, TypeInv, TypeOK
  <2>5. CASE OverlapCheck(r)
    BY <2>1, <2>5 DEF OverlapCheck, Known
  <2>6. CASE ~(Winner(r) \/ OverlapCheck(r))
    <3>1. op[r] # "move" /\ op[r] # "shift" /\ op[r] # "none"
      OBVIOUS
    <3>2. CASE Arrive(r)
      BY <2>1, <3>2 DEF Arrive, BeginCreate, BeginMove, BeginCancel, BeginStatus, Begin, Refuse,
         TypeInv, TypeOK
    <3>3. CASE Acquire(r) \/ LockTimeout(r) \/ Crash(r)
      BY <2>1, <3>3 DEF Acquire, LockTimeout, Crash, Abort, Finish, TypeInv, TypeOK
    <3>4. CASE Query(r)
      BY <2>1, <2>6, <3>4 DEF Query, Replay, QuotaPhone, QuotaEmail, Reread, Occupied,
         Abort, Finish, Continue, Sound, Stage, TypeInv, TypeOK
    <3>5. CASE Write(r)
      BY <2>1, <3>5 DEF Write, Insert, Update, Cancel, SetStatus, Abort, Finish, TypeInv, TypeOK
    <3> QED
      BY <2>3, <3>2, <3>3, <3>4, <3>5 DEF StepOf, Proceed
  <2> QED
    BY <2>4, <2>5, <2>6
<1> QED
  BY <1>1, QuotaAlways, PTL DEF Spec, RetryFindsItsBooking

-----------------------------------------------------------------------------
(* Booking implements Calendar.                                            *)

\* The row a reschedule writes fits, though the panel may have changed its
\* resource after the client's request read it.
LEMMA UpdateFits ==
  ASSUME TypeInv, NEW r \in Req, Sound(r), pc[r] = "write", op[r] \in {"move", "shift"}
  PROVE  Cal!Fits(UpdatedRow(r), target[r])
<1> DEFINE row == UpdatedRow(r)
<1>1. appts[target[r]] \in Row /\ want[r] \in Row
  BY DEF TypeInv, TypeOK
<1>2. want[r].dur = appts[target[r]].dur
  BY DEF Sound, Targets, Guarded
<1>3. /\ row.date = want[r].date /\ row.time = want[r].time /\ row.dur = want[r].dur
      /\ op[r] = "shift" => row.res = want[r].res
  BY <1>1, <1>2 DEF UpdatedRow, Row
<1> HIDE DEF row
<1>4. CASE op[r] = "shift"
  <2>1. Cal!Fits(want[r], target[r])
    BY <1>4 DEF Sound, Checked
  <2>2. \A b : Conflict(row, b) <=> Conflict(want[r], b)
    BY <1>3, <1>4 DEF Conflict, Overlap, SharesResource, End
  <2> QED
    BY <2>1, <2>2, SameConflict DEF Cal!Fits, row
<1>5. CASE op[r] = "move"
  <2>1. Clear(want[r], target[r])
    BY <1>5 DEF Sound, Checked
  <2>2. \A b : Overlap(row, b) <=> Overlap(want[r], b)
    BY <1>3 DEF Overlap, End
  <2>3. Clear(row, target[r])
    BY <2>1, <2>2 DEF Clear
  <2> QED
    BY <2>3, ClearFits DEF row
<1> QED
  BY <1>4, <1>5

\* Every write is one step of the calendar.
LEMMA WriteIsLegal ==
  ASSUME TypeInv, NEW r \in Req, Sound(r), Known(r), Write(r)
  PROVE  Cal!Next \/ UNCHANGED Cal!calendar
<1>1. /\ target[r] \in Id /\ appts[target[r]] \in Row /\ want[r] \in Row /\ r \in Id
      /\ appts \in [Id -> Row]
  BY DEF TypeInv, TypeOK, Id
<1>2. CASE \E a \in Answer : Abort(r, a)
  BY <1>2 DEF Abort, data, Cal!calendar
<1>3. CASE Insert(r) /\ ~(\E a \in Answer : Abort(r, a))
  <2>1. pc[r] = "write" /\ op[r] \in {"book", "manual"} /\ target[r] = r
    BY <1>3 DEF Insert, Sound, Targets
  <2>2. CASE SlotTaken(want[r], r) \/ KeyTaken(want[r])
    BY <1>3, <2>2 DEF Insert, data, Cal!calendar
  <2>3. CASE ~(SlotTaken(want[r], r) \/ KeyTaken(want[r]))
    <3>1. /\ appts' = [appts EXCEPT ![r] = want[r]] /\ UNCHANGED <<now, reopened>>
          /\ unlimited' = IF op[r] = "manual" THEN unlimited \cup {r} ELSE unlimited
      BY <1>3, <2>3 DEF Insert
    <3>2. /\ appts[r].status = "absent" /\ want[r].status = "confirmed"
          /\ Cal!Fits(want[r], r)
      BY <2>1 DEF Sound, Targets, Checked, Known, Running
    <3>3. want[r].key = NoKey \/ \A j \in Id : appts[j].key # want[r].key
      BY <2>3 DEF KeyTaken
    <3>4. op[r] = "book" => Cal!WithinQuota(want[r], r)
      <4> SUFFICES ASSUME op[r] = "book" PROVE Cal!WithinQuota(want[r], r)
        OBVIOUS
      <4>1. Room(r, "phone") /\ Room(r, "email") /\ want[r].phone \in Contact
        BY <2>1 DEF Known, PhonePassed, EmailPassed, Running
      <4> QED
        BY <2>1, <4>1, RoomIsQuota
    <3>5. Cal!Book(r, want[r])
      BY <2>1, <3>1, <3>2, <3>3, <3>4 DEF Cal!Book
    <3>6. appts'[r] = want[r]
      BY <1>1, <3>1
    <3> QED
      BY <1>1, <3>5, <3>6 DEF Cal!Next
  <2> QED
    BY <2>2, <2>3
<1>4. CASE Update(r) /\ ~(\E a \in Answer : Abort(r, a))
  <2> DEFINE a == target[r]
             row == UpdatedRow(r)
  <2>1. /\ pc[r] = "write" /\ op[r] \in {"move", "shift"} /\ appts[a].status = "confirmed"
        /\ appts' = [appts EXCEPT ![a] = row] /\ reopened' = reopened \ {a} /\ UNCHANGED now
        /\ unlimited' = IF op[r] = "shift" THEN unlimited \cup {a} ELSE unlimited \ {a}
    BY <1>4 DEF Update, Answer, Confirmed
  <2>2. /\ row = [appts[a] EXCEPT !.date = row.date, !.time = row.time, !.res = row.res]
        /\ row.phone = appts[a].phone /\ row.email = appts[a].email
    BY <1>1 DEF UpdatedRow, Row
  <2>3. Cal!Fits(row, a)
    BY <2>1, UpdateFits
  <2> HIDE DEF row
  <2>4. op[r] = "move" => Cal!WithinQuota(row, a)
    <3> SUFFICES ASSUME op[r] = "move" PROVE Cal!WithinQuota(row, a)
      OBVIOUS
    <3>1. /\ Room(r, "phone") /\ Room(r, "email") /\ want[r].phone \in Contact
          /\ want[r].phone = appts[a].phone /\ want[r].email = appts[a].email
      BY <2>1 DEF Known, PhonePassed, EmailPassed, Running
    <3> QED
      BY <2>2, <3>1, RoomIsQuota
  <2>5. Cal!Move(a, row.date, row.time, row.res)
    BY <2>1, <2>2, <2>3, <2>4 DEF Cal!Move
  <2>6. appts'[a] = row
    BY <1>1, <2>1
  <2> QED
    BY <1>1, <2>5, <2>6 DEF Cal!Next
<1>5. CASE Cancel(r) /\ ~(\E a \in Answer : Abort(r, a))
  <2>1. Cal!Cancel(target[r])
    BY <1>5 DEF Cancel, Answer, Confirmed, Cal!Cancel
  <2> QED
    BY <1>1, <2>1 DEF Cal!Next
<1>6. CASE SetStatus(r) /\ ~(\E a \in Answer : Abort(r, a))
  <2> DEFINE a == target[r]
             s == want[r].status
  <2>1. /\ pc[r] = "write" /\ op[r] = "status" /\ appts[a].status # s
        /\ appts' = [appts EXCEPT ![a].status = s] /\ UNCHANGED now
        /\ unlimited' = IF s = "confirmed" THEN unlimited \cup {a} ELSE unlimited
        /\ reopened' = IF s = "confirmed" THEN reopened \cup {a} ELSE reopened
    BY <1>6 DEF SetStatus, Answer
  <2>2. appts[a].status # "absent" /\ s # "absent"
    BY <2>1 DEF Sound, Targets, Running
  <2>3. appts[a].status \in Cal!Status /\ s \in Cal!Status /\ appts'[a].status = s
    BY <1>1, <2>1, <2>2 DEF Row, Status, Cal!Status
  <2>4. CASE s = "confirmed"
    <3>1. Cal!Reopen(a)
      BY <2>1, <2>3, <2>4 DEF Cal!Reopen
    <3> QED
      BY <1>1, <3>1 DEF Cal!Next
  <2>5. CASE s # "confirmed"
    <3>1. Cal!Close(a, appts'[a].status)
      BY <2>1, <2>2, <2>3, <2>5 DEF Cal!Close
    <3> QED
      BY <1>1, <3>1 DEF Cal!Next
  <2> QED
    BY <2>4, <2>5
<1> QED
  BY <1>2, <1>3, <1>4, <1>5, <1>6 DEF Write

\* What the appointment code does, however its requests interleave, time out or
\* crash, is a sequence of legal atomic changes of the agenda.
THEOREM BookingImplementsCalendar == Spec => ImplementsCalendar
<1>1. Init => Cal!Init
  <2> SUFFICES ASSUME Init PROVE Cal!Init
    OBVIOUS
  <2>1. TypeInv /\ NoDoubleBooking /\ ContactQuota
    BY QuotaInit DEF QuotaInv, AgendaInv
  <2>2. Row = Cal!Row /\ Instant = Cal!Instant
    BY DEF Row, Cal!Row, Status, Cal!Status, Instant, Cal!Instant
  <2> QED
    BY <2>1, <2>2 DEF Init, Cal!Init, TypeInv, TypeOK, NoDoubleBooking, ContactQuota
<1>2. QuotaInv /\ [Next]_vars => [Cal!Next]_(Cal!calendar)
  <2> SUFFICES ASSUME QuotaInv, [Next]_vars PROVE Cal!Next \/ UNCHANGED Cal!calendar
    OBVIOUS
  <2>1. TypeInv /\ Phoned /\ \A r \in Req : Sound(r) /\ Known(r)
    BY DEF QuotaInv, AgendaInv
  <2>2. CASE UNCHANGED vars
    BY <2>2 DEF vars, Cal!calendar
  <2>3. CASE Tick
    <3>1. now' \in Instant /\ Later(now', now) /\ UNCHANGED <<appts, unlimited, reopened>>
      BY <2>3, BookingAssumption DEF Tick, data
    <3>2. Cal!Tick
      BY <3>1 DEF Cal!Tick, Later, Cal!Later, Instant, Cal!Instant
    <3> QED
      BY <3>2 DEF Cal!Next
  <2>4. ASSUME NEW r \in Req, StepOf(r) PROVE Cal!Next \/ UNCHANGED Cal!calendar
    <3>1. CASE Write(r)
      BY <2>1, <3>1, WriteIsLegal
    <3>2. CASE ~Write(r)
      <4>1. Unwritten
        BY <2>1, <2>4, <3>2, EarlyKnows, QueryKnows DEF StepOf, Proceed
      <4> QED
        BY <4>1 DEF Unwritten, Cal!calendar
    <3> QED
      BY <3>1, <3>2
  <2> QED
    BY <2>2, <2>3, <2>4 DEF Next, StepOf
<1> QED
  BY <1>1, <1>2, QuotaAlways, PTL DEF Spec, ImplementsCalendar, Cal!Spec
==============================================================================
