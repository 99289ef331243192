------------------------------- MODULE Booking -------------------------------
(***************************************************************************)
(* The appointment core of TurnoGo (services/appointments.py, with         *)
(* update_appointment_status_scoped of database/database.py) as it runs on *)
(* PostgreSQL for ONE business: every service function is a database       *)
(* transaction in READ COMMITTED, so one action below is one SQL statement *)
(* (it sees what is committed when it runs) together with the Python that  *)
(* follows it up to the next statement.  Mutual exclusion comes only from  *)
(* the transaction-scoped advisory locks on contacts and calendar days.    *)
(*                                                                         *)
(* A request r \in Req is one HTTP request.  A request that books inserts  *)
(* the row whose id is r.  INSERT or UPDATE and the COMMIT that follows    *)
(* are one action: a row lock taken by the write is given back at once.    *)
(***************************************************************************)
EXTENDS Rows

CONSTANTS
  Req,          \* requests, each served once
  Prior,        \* ids of the appointments already in the table
  Stored,       \* those appointments: [Prior -> Row]
  Active,       \* the resources that are active in this business
  ContactKey,   \* contact_lock_ordinal: [Contact -> Nat], may collide
  Namespace,    \* first lock key of the contacts (2^30 in the code)
  Instants,     \* the readings of the business clock
  Start,        \* the first of them
  Bookings,     \* payloads of create_appointment: a set of [op, row]
  Moves,        \* reschedules: a set of [op, date, time, res]
  Statuses      \* statuses the panel's form may send

Id == Prior \cup Req

\* The stored rows are an agenda that respects its rules.  A payload asks for a
\* confirmed row with a phone (validate_phone), and only the public form sends
\* idempotency keys; contact keys and days are disjoint ranges of lock keys.
ASSUME BookingAssumption ==
  /\ Prior \cap Req = {} /\ IsFiniteSet(Prior) /\ IsFiniteSet(Req)
  /\ Stored \in [Prior -> Row]
  /\ \A i \in Prior : Stored[i].status # "absent" /\ Stored[i].phone \in Contact
  /\ \A i, j \in Prior :
       i # j /\ Stored[i].status = "confirmed" /\ Stored[j].status = "confirmed"
         => ~Conflict(Stored[i], Stored[j])
  /\ \A c \in Contact, kind \in {"phone", "email"} :
       Cardinality(Upcoming(Stored, Start.day, kind, c)) <= MaxActive
  /\ Active \subseteq Resource
  /\ Namespace \in Nat /\ \A d \in Day : d < Namespace
  /\ ContactKey \in [Contact -> {k \in Nat : k >= Namespace}]
  /\ Instants \subseteq Instant /\ Start \in Instants
  /\ Bookings \subseteq [op : {"book", "manual"}, row : Row]
  /\ \A b \in Bookings : b.row.status = "confirmed" /\ b.row.phone \in Contact
  /\ \A b \in Bookings : b.op = "manual" => b.row.key = NoKey
  /\ Moves \subseteq [op : {"move", "shift"}, date : Day, time : Nat,
                      res : Resource \cup {NoResource}]

Blank == [status |-> "absent", date |-> 0, time |-> 0, dur |-> 0,
          res |-> NoResource, phone |-> NoContact, email |-> NoContact,
          key |-> NoKey]

VARIABLES
  appts,      \* the appointments table
  now,        \* the business clock
  pc,         \* the statement each request runs next
  op,         \* the service function a request calls
  target,     \* the appointment it works on
  want,       \* the row as the request would leave it
  origin,     \* the slot of the target as read before any lock
  wait,       \* lock keys still to be acquired
  held,       \* advisory locks held by the open transaction
  reply,      \* reason returned by the service function
  unlimited,  \* history: rows put on the agenda without a quota check
  reopened    \* history: rows confirmed again by a status change

data == <<appts, unlimited, reopened>>
local == <<op, target, want, origin>>
vars == <<appts, now, pc, op, target, want, origin, wait, held, reply,
          unlimited, reopened>>

-----------------------------------------------------------------------------
(* Reads of the schedule, the clock and the table.                         *)

\* validate_appointment_date: not before today, and the day is open
ValidDate(day) == day \in Day /\ day >= now.day /\ DOMAIN Blocks[day] # {}

\* validate_appointment_time: not a past hour of today
PastTime(day, time) == day = now.day /\ time <= now.min

Confirmed(i) == appts[i].status = "confirmed"

\* _check_contact_limit_exceeded, one contact at a time, the row itself apart
AtLimit(kind, contact, self) ==
  /\ contact # NoContact
  /\ Cardinality(Upcoming(appts, now.day, kind, contact) \ {self}) >= MaxActive

\* Mutants: no lock on the e-mail; no lock on any contact.
PhoneLockOnly(row) == {ContactKey[row.phone]}
NoContactLocks(row) == {}

\* acquire_contact_locks: the keys of the contacts that are present
ContactLocks(row) == {ContactKey[c] : c \in {row.phone, row.email} \ {NoContact}}

-----------------------------------------------------------------------------
(* Transactions.                                                           *)

IsContactKey(k) == k >= Namespace

\* Mutant: contacts first, but no order among the keys of a kind.
Unsorted(k, l) == IsContactKey(k) \/ ~IsContactKey(l)

\* Contacts before calendar days, and ascending within each kind.
Before(k, l) == IF IsContactKey(k) = IsContactKey(l) THEN k < l
                                                     ELSE IsContactKey(k)

Free(k, r) == \A s \in Req \ {r} : k \notin held[s]

Running(r) == pc[r] \notin {"idle", "done"}

\* The transaction ends (COMMIT or ROLLBACK frees its locks) with an answer.
Finish(r, answer) ==
  /\ pc' = [pc EXCEPT ![r] = "done"]
  /\ reply' = [reply EXCEPT ![r] = answer]
  /\ wait' = [wait EXCEPT ![r] = {}]
  /\ held' = [held EXCEPT ![r] = {}]
  /\ want' = [want EXCEPT ![r] = Blank]
  /\ origin' = [origin EXCEPT ![r] = Start]

Abort(r, answer) ==
  /\ Finish(r, answer)
  /\ UNCHANGED <<data, now, op, target>>

Continue(r, step) ==
  /\ pc' = [pc EXCEPT ![r] = step]
  /\ UNCHANGED <<data, now, local, wait, held, reply>>

\* BEGIN, and the set of advisory locks the transaction takes first.
Begin(r, kind, a, row, slot, keys) ==
  /\ pc' = [pc EXCEPT ![r] = "locking"]
  /\ op' = [op EXCEPT ![r] = kind]
  /\ target' = [target EXCEPT ![r] = a]
  /\ want' = [want EXCEPT ![r] = row]
  /\ origin' = [origin EXCEPT ![r] = slot]
  /\ wait' = [wait EXCEPT ![r] = keys]
  /\ UNCHANGED <<data, now, held, reply>>

\* The request is answered before it waits for any lock.
Refuse(r, kind, a, answer) ==
  /\ pc' = [pc EXCEPT ![r] = "done"]
  /\ op' = [op EXCEPT ![r] = kind]
  /\ target' = [target EXCEPT ![r] = a]
  /\ reply' = [reply EXCEPT ![r] = answer]
  /\ UNCHANGED <<data, now, want, origin, wait, held>>

\* The first statement after the locks.
FirstStep(r) ==
  CASE op[r] \in {"move", "shift"}                    -> "reread"
    [] op[r] \in {"cancel", "status"}                 -> "write"
    [] op[r] \in {"book", "manual"}                   ->
         IF want[r].key # NoKey THEN "replay"
         ELSE IF op[r] = "book" THEN "quotaPhone" ELSE "overlap"

\* pg_advisory_xact_lock on the next key, once nobody else holds it.
Acquire(r) ==
  /\ pc[r] = "locking"
  /\ \E k \in wait[r] :
       /\ \A l \in wait[r] \ {k} : Before(k, l)
       /\ Free(k, r)
       /\ held' = [held EXCEPT ![r] = @ \cup {k}]
       /\ wait' = [wait EXCEPT ![r] = @ \ {k}]
       /\ pc' = [pc EXCEPT ![r] = IF wait[r] = {k} THEN FirstStep(r)
                                                   ELSE "locking"]
  /\ UNCHANGED <<data, now, local, reply>>

\* lock_timeout runs out: each service function answers in its own way.
LockTimeout(r) ==
  /\ pc[r] = "locking"
  /\ \E k \in wait[r] : /\ \A l \in wait[r] \ {k} : Before(k, l)
                        /\ ~Free(k, r)
  /\ Abort(r, CASE op[r] \in {"move", "shift"}    -> "busy"
                [] op[r] \in {"cancel", "status"} -> "refused"
                [] op[r] \in {"book", "manual"}   -> "error")

\* The worker dies or the connection drops: the server rolls back.
Crash(r) == Running(r) /\ Abort(r, "error")

-----------------------------------------------------------------------------
(* create_appointment                                                      *)

\* The public route counts the contact first: fail fast, without a lock.
EarlyLimit(row, r) == AtLimit("phone", row.phone, r) \/ AtLimit("email", row.email, r)

\* The payload is validated and the transaction begins.
BeginCreate(r) ==
  /\ pc[r] = "idle"
  /\ \E b \in Bookings :
       LET row == b.row IN
       IF b.op = "book" /\ EarlyLimit(row, r)
         THEN Refuse(r, b.op, r, "contact_limit")
       ELSE IF \/ row.res \notin Active \cup {NoResource}
               \/ ~ValidDate(row.date)
               \/ PastTime(row.date, row.time)
               \/ row.time \notin Slots(row.date, row.dur)
         THEN Refuse(r, b.op, r, "invalid")
       ELSE Begin(r, b.op, r, row, Start,
                  {row.date} \cup (IF b.op = "book" THEN ContactLocks(row)
                                                    ELSE {}))

\* SELECT ... WHERE idempotency_key = ?, after the locks.
Replay(r) ==
  /\ pc[r] = "replay"
  /\ IF \E i \in Id : appts[i].key = want[r].key
       THEN Abort(r, "already_created")
       ELSE Continue(r, IF op[r] = "book" THEN "quotaPhone" ELSE "overlap")

\* enforce_contact_booking_limit: one count per contact, the moved row apart.
QuotaPhone(r) ==
  /\ pc[r] = "quotaPhone"
  /\ IF AtLimit("phone", want[r].phone, target[r])
       THEN Abort(r, "contact_limit")
       ELSE Continue(r, "quotaEmail")

QuotaEmail(r) ==
  /\ pc[r] = "quotaEmail"
  /\ IF AtLimit("email", want[r].email, target[r])
       THEN Abort(r, "contact_limit")
       ELSE Continue(r, IF op[r] = "book" THEN "overlap" ELSE "write")

\* The overlap SELECT of all four functions that place a row on the agenda;
\* the closing time is checked just before it.
OverlapCheck(r) ==
  /\ pc[r] = "overlap"
  /\ IF ~FitsClosing(want[r].date, want[r].time, End(want[r]))
       THEN Abort(r, "invalid")
     ELSE IF \E i \in Id \ {target[r]} : Confirmed(i) /\ Conflict(want[r], appts[i])
       THEN Abort(r, "occupied")
     ELSE Continue(r, IF op[r] = "move" THEN "quotaPhone" ELSE "write")

\* Would the row break the unique index on confirmed slots?
SlotTaken(row, self) ==
  \E i \in Id \ {self} : Confirmed(i) /\ SameSlot(row, appts[i])

KeyTaken(row) == row.key # NoKey /\ \E i \in Id : appts[i].key = row.key

\* INSERT and COMMIT, or IntegrityError and ROLLBACK.
Insert(r) ==
  /\ pc[r] = "write" /\ op[r] \in {"book", "manual"}
  /\ IF SlotTaken(want[r], r) \/ KeyTaken(want[r])
       THEN /\ pc' = [pc EXCEPT ![r] = "winner"]
            /\ held' = [held EXCEPT ![r] = {}]
            /\ UNCHANGED <<data, now, local, wait, reply>>
       ELSE /\ appts' = [appts EXCEPT ![r] = want[r]]
            /\ unlimited' = IF op[r] = "manual" THEN unlimited \cup {r}
                                                ELSE unlimited
            /\ Finish(r, "created")
            /\ UNCHANGED <<now, op, target, reopened>>

\* After the IntegrityError the winner is read again by key, without locks.
Winner(r) ==
  /\ pc[r] = "winner"
  /\ Abort(r, IF KeyTaken(want[r]) THEN "already_created" ELSE "occupied")

-----------------------------------------------------------------------------
(* reschedule_appointment ("move", the client) and                         *)
(* reschedule_appointment_admin ("shift", the panel)                       *)

\* Mutant: only the day of origin is locked.
OriginLock(kind, row, date) ==
  {row.date} \cup (IF kind = "move" THEN ContactLocks(row) ELSE {})

\* The day the row is on and the one it moves to, as _acquire_day_locks orders them.
DayLocks(row, date) == {row.date, date}

\* Both days, in either function; the client's also locks the contact.
MoveLocks(kind, row, date) ==
  DayLocks(row, date) \cup (IF kind = "move" THEN ContactLocks(row) ELSE {})

\* The row is read, whatever its status, to know which locks to take.
BeginMove(r) ==
  /\ pc[r] = "idle"
  /\ \E a \in Id, m \in Moves :
       IF appts[a].status = "absent"
         THEN Refuse(r, m.op, a, "not_found")
         ELSE Begin(r, m.op, a,
                    [appts[a] EXCEPT !.date = m.date, !.time = m.time, !.res = m.res],
                    [day |-> appts[a].date, min |-> appts[a].time],
                    MoveLocks(m.op, appts[a], m.date))

\* The row as the request moves it: duration and contact are those of the
\* row, and so is the resource unless the panel names another.
MovedRow(r) ==
  [appts[target[r]] EXCEPT !.date = want[r].date, !.time = want[r].time,
     !.res = IF op[r] = "shift" /\ want[r].res # NoResource THEN want[r].res ELSE @]

\* What the panel's function checks and the client's does not.
ShiftInvalid(r) ==
  \/ want[r].res \notin Active \cup {NoResource}
  \/ PastTime(want[r].date, want[r].time)

\* The row again, now under the locks, and the validation of the new slot.
Reread(r) ==
  LET row == MovedRow(r) IN
  /\ pc[r] = "reread"
  /\ IF ~Confirmed(target[r])
       THEN Abort(r, "not_found")
     ELSE IF /\ op[r] = "move"
             /\ origin[r] = [day |-> row.date, min |-> row.time]
       THEN Abort(r, "rescheduled")
     ELSE IF \/ op[r] = "shift" /\ ShiftInvalid(r)
             \/ ~ValidDate(row.date)
             \/ row.time \notin Slots(row.date, row.dur)
       THEN Abort(r, "invalid")
     ELSE /\ pc' = [pc EXCEPT ![r] = IF op[r] = "move" THEN "occupied"
                                                       ELSE "overlap"]
          /\ want' = [want EXCEPT ![r] = row]
          /\ UNCHANGED <<data, now, op, target, origin, wait, held, reply>>

\* Mutant: the look at the whole business is dropped as redundant with the
\* overlap check.
OccupiedDropped(r) == pc[r] = "occupied" /\ Continue(r, "overlap")

\* The client's reschedule looks at the whole business first, at its own row
\* too; fetchone() returns any of the rows found.
Occupied(r) ==
  LET busy == {i \in Id : Confirmed(i) /\ Overlap(want[r], appts[i])} IN
  /\ pc[r] = "occupied"
  /\ \/ \E i \in busy : Abort(r, IF i = target[r] THEN "invalid" ELSE "occupied")
     \/ busy = {} /\ Continue(r, "overlap")

\* Mutant: the UPDATE forgets status = 'confirmed'.
UpdateAnyStatus(r) ==
  LET a == target[r] IN
  /\ pc[r] = "write" /\ op[r] \in {"move", "shift"}
  /\ appts' = [appts EXCEPT ![a].date = want[r].date, ![a].time = want[r].time]
  /\ unlimited' = IF op[r] = "shift" THEN unlimited \cup {a} ELSE unlimited \ {a}
  /\ reopened' = reopened \ {a}
  /\ Finish(r, "rescheduled")
  /\ UNCHANGED <<now, op, target>>

\* The client's statement does not set resource_id, the panel's sets the one
\* resolved when it read the row.
UpdatedRow(r) ==
  [appts[target[r]] EXCEPT !.date = want[r].date, !.time = want[r].time,
     !.res = IF op[r] = "shift" THEN want[r].res ELSE @]

\* UPDATE ... WHERE status = 'confirmed'.
Update(r) ==
  LET a   == target[r]
      row == UpdatedRow(r)
  IN
  /\ pc[r] = "write" /\ op[r] \in {"move", "shift"}
  /\ IF ~Confirmed(a)
       THEN Abort(r, "not_found")
     ELSE IF SlotTaken(row, a)
       THEN Abort(r, "occupied")
     ELSE /\ appts' = [appts EXCEPT ![a] = row]
          /\ unlimited' = IF op[r] = "shift" THEN unlimited \cup {a}
                                             ELSE unlimited \ {a}
          /\ reopened' = reopened \ {a}
          /\ Finish(r, "rescheduled")
          /\ UNCHANGED <<now, op, target>>

-----------------------------------------------------------------------------
(* cancel_appointment ("cancel", the client) and                           *)
(* update_appointment_status_scoped ("status", the panel)                  *)

BeginCancel(r) ==
  /\ pc[r] = "idle"
  /\ \E a \in Id :
       IF appts[a].status = "absent"
         THEN Refuse(r, "cancel", a, "refused")
         ELSE Begin(r, "cancel", a, [appts[a] EXCEPT !.status = "cancelled"],
                    Start, {appts[a].date})

\* SELECT and UPDATE, both on status = 'confirmed', under the lock.
Cancel(r) ==
  /\ pc[r] = "write" /\ op[r] = "cancel"
  /\ IF ~Confirmed(target[r])
       THEN Abort(r, "refused")
       ELSE /\ appts' = [appts EXCEPT ![target[r]].status = "cancelled"]
            /\ Finish(r, "cancelled")
            /\ UNCHANGED <<now, op, target, unlimited, reopened>>

\* Mutant: the status sent by the form is not validated.
BeginStatusUnchecked(r) ==
  /\ pc[r] = "idle"
  /\ \E a \in Id, s \in Statuses :
       /\ appts[a].status # "absent"
       /\ Begin(r, "status", a, [appts[a] EXCEPT !.status = s], Start,
                {appts[a].date})

\* The status is read, and a resurrection refused, before the lock.
BeginStatus(r) ==
  /\ pc[r] = "idle"
  /\ \E a \in Id, s \in Statuses :
       IF \/ s \notin Status
          \/ appts[a].status = "absent"
          \/ appts[a].status = "cancelled" /\ s = "confirmed"
         THEN Refuse(r, "status", a, "refused")
         ELSE Begin(r, "status", a, [appts[a] EXCEPT !.status = s],
                    Start, {appts[a].date})

\* UPDATE ... WHERE status <> ?; the unique index may refuse a confirmation.
SetStatus(r) ==
  LET a == target[r]
      s == want[r].status
  IN
  /\ pc[r] = "write" /\ op[r] = "status"
  /\ IF appts[a].status = s
       THEN Abort(r, "refused")
     ELSE IF s = "confirmed" /\ SlotTaken(appts[a], a)
       THEN Abort(r, "error")
     ELSE /\ appts' = [appts EXCEPT ![a].status = s]
          /\ unlimited' = IF s = "confirmed" THEN unlimited \cup {a} ELSE unlimited
          /\ reopened' = IF s = "confirmed" THEN reopened \cup {a} ELSE reopened
          /\ Finish(r, "updated")
          /\ UNCHANGED <<now, op, target>>

-----------------------------------------------------------------------------

\* The business clock moves on.
Tick ==
  /\ \E t \in Instants :
       /\ Later(t, now)
       /\ now' = t
  /\ UNCHANGED <<data, pc, local, wait, held, reply>>

Init ==
  /\ appts = [i \in Id |-> IF i \in Prior THEN Stored[i] ELSE Blank]
  /\ now = Start
  /\ pc = [r \in Req |-> "idle"]
  /\ op = [r \in Req |-> "none"]
  /\ target = [r \in Req |-> r]
  /\ want = [r \in Req |-> Blank]
  /\ origin = [r \in Req |-> Start]
  /\ wait = [r \in Req |-> {}]
  /\ held = [r \in Req |-> {}]
  /\ reply = [r \in Req |-> "none"]
  /\ unlimited = {}
  /\ reopened = {}

Arrive(r) == BeginCreate(r) \/ BeginMove(r) \/ BeginCancel(r) \/ BeginStatus(r)

Query(r) == Replay(r) \/ QuotaPhone(r) \/ QuotaEmail(r) \/ OverlapCheck(r)
              \/ Reread(r) \/ Occupied(r) \/ Winner(r)

Write(r) == Insert(r) \/ Update(r) \/ Cancel(r) \/ SetStatus(r)

Proceed(r) == Acquire(r) \/ Query(r) \/ Write(r)

Next == \/ \E r \in Req : Arrive(r) \/ Proceed(r) \/ LockTimeout(r) \/ Crash(r)
        \/ Tick

Spec == Init /\ [][Next]_vars

\* A worker thread runs its request until it is answered; lock timeouts and
\* crashes may happen, but no request relies on them.
FairSpec == Spec /\ \A r \in Req : WF_vars(Proceed(r))

-----------------------------------------------------------------------------
(* Properties.                                                             *)

Label == {"idle", "locking", "replay", "quotaPhone", "quotaEmail", "overlap",
          "write", "winner", "reread", "occupied", "done"}
Operation == {"book", "manual", "move", "shift", "cancel", "status"}
Answer == {"created", "already_created", "rescheduled", "cancelled", "updated",
           "refused", "not_found", "busy", "occupied", "contact_limit", "invalid",
           "error"}

\* Every variable stays in its domain.
TypeOK ==
  /\ appts \in [Id -> Row]
  /\ now \in Instant
  /\ pc \in [Req -> Label]
  /\ op \in [Req -> Operation \cup {"none"}]
  /\ target \in [Req -> Id]
  /\ want \in [Req -> Row]
  /\ origin \in [Req -> Instant]
  /\ wait \in [Req -> SUBSET Nat]
  /\ held \in [Req -> SUBSET Nat]
  /\ reply \in [Req -> Answer \cup {"none"}]
  /\ unlimited \subseteq Id
  /\ reopened \subseteq Id

\* The promise of Calendar, on the same table, clock and history.
Cal == INSTANCE Calendar

\* Every interleaving of requests, crashes and lock timeouts is a sequence of
\* legal atomic changes of the agenda: nothing is placed on an occupied
\* resource, over a contact's quota, or by moving a row that is not confirmed.
ImplementsCalendar == Cal!Spec

\* No resource is ever booked twice for the same time.
NoDoubleBooking == Cal!NoDoubleBooking

\* No contact passes its quota, even with requests on different days.
ContactQuota == Cal!ContactQuota

\* A request waits for the next key of its list.
Blocked(r) ==
  /\ pc[r] = "locking"
  /\ \E k \in wait[r] : (\A l \in wait[r] \ {k} : Before(k, l)) /\ ~Free(k, r)

\* The requests never wait for each other in a circle: when one is blocked,
\* another one holds locks and can run.
NoDeadlock ==
  (\E r \in Req : Blocked(r)) =>
     \E s \in Req : Running(s) /\ held[s] # {} /\ ~Blocked(s)

\* What the checks concluded is still true when the row is written, so the
\* unique index never has to catch a collision that they let through.
CheckStillHolds ==
  \A r \in Req : pc[r] = "write" =>
    /\ op[r] \in {"book", "manual", "move", "shift"} => Cal!Fits(want[r], target[r])
    /\ op[r] \in {"book", "move"} => Cal!WithinQuota(want[r], target[r])

\* A keyed booking is not refused as occupied by the appointment that an
\* earlier request with its key and its phone has booked.
RetryFindsItsBooking ==
  [][\A r \in Req :
       /\ op[r] = "book" /\ want[r].key # NoKey
       /\ reply[r] = "none" /\ reply'[r] = "occupied"
       => \A i \in Id : ~(appts[i].key = want[r].key /\ appts[i].phone = want[r].phone)]_vars

\* Every request that arrives is answered, without counting on lock timeouts: in
\* the end none is under way.
EveryRequestAnswered == <>[](\A r \in Req : ~Running(r))

==============================================================================
