-------------------------------- MODULE Rows ---------------------------------
(***************************************************************************)
(* The appointments table of one business and the pure functions that the  *)
(* booking code computes over its rows: interval overlap, the slot grid,   *)
(* the closing check and the contacts' upcoming appointments.              *)
(***************************************************************************)
EXTENDS Integers, FiniteSets

CONSTANTS
  Resource,     \* resources a request may name
  NoResource,   \* resource_id IS NULL: the appointment blocks every resource
  Contact,      \* normalised phones and e-mails
  NoContact,    \* no e-mail given
  Key, NoKey,   \* idempotency keys
  Day,          \* calendar days, as ordinals
  Blocks,       \* opening blocks of each day, in order: Seq([open, close])
  Step,         \* slot_duration + break_between_slots, in minutes
  MaxActive     \* MAX_ACTIVE_BOOKINGS_PER_CONTACT

\* Days are positive ordinals; the sentinels are not values.
ASSUME RowsAssumption ==
  /\ Day \subseteq Nat \ {0}
  /\ NoResource \notin Resource /\ NoContact \notin Contact /\ NoKey \notin Key
  /\ Step \in Nat \ {0}
  /\ MaxActive \in Nat \ {0}

Status == {"confirmed", "cancelled", "completed", "no_show"}

\* "absent" is an id without a row.
Row == [status : Status \cup {"absent"}, date : Nat, time : Nat, dur : Nat,
        res : Resource \cup {NoResource}, phone : Contact \cup {NoContact},
        email : Contact \cup {NoContact}, key : Key \cup {NoKey}]

Instant == [day : Nat, min : Nat]

Later(s, t) == s.day > t.day \/ (s.day = t.day /\ s.min > t.min)

\* appointment_end
End(row) == row.time + row.dur

\* ? < appointment_end AND ? > appointment_time
Overlap(a, b) == a.date = b.date /\ a.time < End(b) /\ End(a) > b.time

\* resource_id = ? OR resource_id IS NULL; without a resource, every row
SharesResource(a, b) ==
  \/ a.res = b.res
  \/ a.res = NoResource
  \/ b.res = NoResource

Conflict(a, b) == Overlap(a, b) /\ SharesResource(a, b)

\* The columns of the index unique_confirmed_appointment_slot.
SameSlot(a, b) == a.date = b.date /\ a.time = b.time /\ a.res = b.res

\* get_available_slots: the grid of starts of a day for a duration.
Slots(day, dur) ==
  UNION {{t \in b.open .. (b.close - 1) :
            (t - b.open) % Step = 0 /\ t + dur <= b.close}
           : b \in {Blocks[day][i] : i \in DOMAIN Blocks[day]}}

\* _fits_closing: the first block that contains the start decides.
FitsClosing(day, time, end) ==
  LET inside == {i \in DOMAIN Blocks[day] :
                   Blocks[day][i].open <= time /\ time < Blocks[day][i].close}
  IN  \E i \in inside : /\ \A j \in inside : i <= j
                        /\ end <= Blocks[day][i].close

\* _upcoming_confirmed_count, with kind "phone" or "email".
Upcoming(table, today, kind, contact) ==
  {i \in DOMAIN table : /\ table[i].status = "confirmed"
                        /\ table[i][kind] = contact
                        /\ table[i].date >= today}
==============================================================================
