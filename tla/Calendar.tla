------------------------------ MODULE Calendar -------------------------------
(***************************************************************************)
(* What the booking code promises: an agenda whose every change is one     *)
(* atomic, legal step, as if no two requests ever overlapped in time.      *)
(*                                                                         *)
(* Two sets remember what the panel does without the checks of the public  *)
(* flow: the rows it placed without counting the contact's quota and the   *)
(* rows it confirmed again without looking at the agenda.                  *)
(***************************************************************************)
EXTENDS Rows

CONSTANT Id     \* ids of appointments, a finite set

VARIABLES appts, now, unlimited, reopened

calendar == <<appts, now, unlimited, reopened>>

\* The row collides with no confirmed appointment but itself; what the panel
\* reopened unchecked is not guarded.
Fits(row, self) ==
  \A i \in Id \ ({self} \cup reopened) :
    appts[i].status = "confirmed" => ~Conflict(row, appts[i])

\* One more appointment of the row's contacts stays within the quota.
WithinQuota(row, self) ==
  LET counted(kind, c) ==
        Upcoming(appts, now.day, kind, c) \ ({self} \cup unlimited)
  IN  /\ Cardinality(counted("phone", row.phone)) < MaxActive
      /\ row.email # NoContact =>
           Cardinality(counted("email", row.email)) < MaxActive

\* A new appointment, with a key no other row has.
Book(i, row) ==
  /\ appts[i].status = "absent"
  /\ row.status = "confirmed"
  /\ row.key = NoKey \/ \A j \in Id : appts[j].key # row.key
  /\ Fits(row, i)
  /\ \/ WithinQuota(row, i) /\ UNCHANGED unlimited
     \/ unlimited' = unlimited \cup {i}
  /\ appts' = [appts EXCEPT ![i] = row]
  /\ UNCHANGED <<now, reopened>>

\* A confirmed appointment takes another slot, and perhaps another resource.
Move(i, date, time, res) ==
  LET row == [appts[i] EXCEPT !.date = date, !.time = time, !.res = res] IN
  /\ appts[i].status = "confirmed"
  /\ Fits(row, i)
  /\ \/ WithinQuota(row, i) /\ unlimited' = unlimited \ {i}
     \/ unlimited' = unlimited \cup {i}
  /\ appts' = [appts EXCEPT ![i] = row]
  /\ reopened' = reopened \ {i}
  /\ UNCHANGED now

\* The client cancels a confirmed appointment.
Cancel(i) ==
  /\ appts[i].status = "confirmed"
  /\ appts' = [appts EXCEPT ![i].status = "cancelled"]
  /\ UNCHANGED <<now, unlimited, reopened>>

\* The panel closes an appointment, or confirms it again.
Close(i, s) ==
  /\ appts[i].status # "absent" /\ s \in Status \ {"confirmed"}
  /\ appts' = [appts EXCEPT ![i].status = s]
  /\ UNCHANGED <<now, unlimited, reopened>>

Reopen(i) ==
  /\ appts[i].status \in Status \ {"confirmed"}
  /\ appts' = [appts EXCEPT ![i].status = "confirmed"]
  /\ unlimited' = unlimited \cup {i}
  /\ reopened' = reopened \cup {i}
  /\ UNCHANGED now

Tick == /\ now' \in Instant /\ Later(now', now)
        /\ UNCHANGED <<appts, unlimited, reopened>>

-----------------------------------------------------------------------------

\* No two confirmed appointments use the same resource (or the whole business)
\* at the same time; rows the panel reopened unchecked are apart.
NoDoubleBooking ==
  \A i, j \in Id \ reopened :
    /\ i # j
    /\ appts[i].status = "confirmed"
    /\ appts[j].status = "confirmed"
    => ~Conflict(appts[i], appts[j])

\* No phone and no e-mail has more than MaxActive upcoming confirmed
\* appointments that went through the quota of the public flow.
ContactQuota ==
  \A c \in Contact, kind \in {"phone", "email"} :
    Cardinality(Upcoming(appts, now.day, kind, c) \ unlimited) <= MaxActive

Init ==
  /\ appts \in [Id -> Row]
  /\ now \in Instant
  /\ unlimited = {} /\ reopened = {}
  /\ NoDoubleBooking
  /\ ContactQuota

\* The row and the slot that a step chooses are read off its outcome.
Next ==
  \/ \E i \in Id : LET row == appts'[i] IN
       \/ Book(i, row)
       \/ Move(i, row.date, row.time, row.res)
       \/ Cancel(i)
       \/ Close(i, row.status)
       \/ Reopen(i)
  \/ Tick

Spec == Init /\ [][Next]_calendar
==============================================================================
