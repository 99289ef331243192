------------------------------ MODULE MCBooking ------------------------------
(* Small instances of Booking for TLC: days of four minutes with a slot each *)
(* minute and appointments of two, two resources, two phones, one e-mail.    *)
EXTENDS BookingClaims, TLC

CONSTANTS r1, r2, r3, p1, p2, resA, resB, resC, ana, beto, mail, k1

Symmetry == Permutations(Req)

OneBlock == [d \in Day |-> <<[open |-> 0, close |-> 4]>>]

\* beto and the e-mail collide on one lock key.
Colliding == [c \in Contact |-> IF c = ana THEN 100 ELSE 101]

Morning == [day |-> 1, min |-> 0]
Noon == [day |-> 1, min |-> 2]
Tomorrow == [day |-> 2, min |-> 0]
Still == {Morning}
NoonOnly == {Noon}
Overnight == {Morning, Tomorrow}

Appt(d, t, res, phone, email, key) ==
  [status |-> "confirmed", date |-> d, time |-> t, dur |-> 2, res |-> res,
   phone |-> phone, email |-> email, key |-> key]
Plain(d, t, res, phone) == Appt(d, t, res, phone, NoContact, NoKey)
Slot(kind, d, t, res) == [op |-> kind, date |-> d, time |-> t, res |-> res]
Payload(kind, row) == [op |-> kind, row |-> row]

None == {}
NoStored == [i \in {} |-> i]

\* Agenda: two rows of different resources on days 1 and 2, moved, closed and
\* reopened by the client and the panel against each other and new bookings;
\* one status and one resource are not valid.
AgendaStored == [i \in Prior |-> IF i = p1 THEN Plain(1, 0, resA, ana)
                                           ELSE Plain(2, 0, resB, beto)]
AgendaBookings == {Payload("book", Plain(2, 1, NoResource, beto))}
AgendaMoves == {Slot("move", 2, 1, NoResource), Slot("shift", 3, 0, NoResource),
                Slot("shift", 3, 1, resB), Slot("shift", 1, 1, resC)}
AgendaStatuses == {"completed", "confirmed", "archived"}

\* Quota: one upcoming appointment per contact; yesterday's row of ana may be
\* moved forward, bookings share phone, e-mail or key across days.
QuotaStored == [i \in Prior |-> Plain(1, 0, resA, ana)]
QuotaBookings == {Payload("book", Appt(2, 0, resA, beto, mail, k1)),
                  Payload("book", Appt(3, 0, resA, ana, mail, NoKey)),
                  Payload("book", Appt(3, 1, NoResource, beto, NoContact, k1)),
                  Payload("book", Appt(3, 2, resB, ana, NoContact, k1)),
                  Payload("manual", Plain(3, 2, NoResource, ana))}
QuotaMoves == {Slot("move", 3, 1, NoResource), Slot("shift", 2, 0, resB)}

\* Claims.
OneStored == [i \in Prior |-> Plain(1, 0, resA, ana)]
Reopening == {"completed", "confirmed"}
MoveToTwo == {Slot("move", 2, 0, NoResource)}
==============================================================================
