-------------------------------- MODULE Points -------------------------------
(***************************************************************************)
(* What the loyalty programme of a business promises: points per customer  *)
(* that never go below zero, paid once for each appointment and spent once *)
(* for each redemption key, every change being one atomic step.            *)
(***************************************************************************)
EXTENDS Integers

CONSTANTS
  Phone,      \* customers, by normalised phone
  Appt,       \* appointments
  PhoneOf,    \* the customer of each appointment
  Opening,    \* points each customer has at the start
  Key         \* idempotency keys of redemptions

VARIABLES
  points,     \* points of each customer
  paid,       \* appointments that were paid
  spent       \* redemption keys that were used

points_vars == <<points, paid, spent>>

\* An appointment that was not paid yet brings points to its customer.
Earn(a) ==
  LET p == PhoneOf[a] IN
  /\ a \notin paid /\ p \in Phone
  /\ points'[p] > points[p]
  /\ points' = [points EXCEPT ![p] = points'[p]]
  /\ paid' = paid \cup {a}
  /\ UNCHANGED spent

\* The panel corrects a customer's points.
Adjust(p) ==
  /\ points'[p] >= 0
  /\ points' = [points EXCEPT ![p] = points'[p]]
  /\ UNCHANGED <<paid, spent>>

\* A customer exchanges points for a reward, under a key of its own.
Spend(p, k) ==
  /\ k \notin spent
  /\ points'[p] >= 0 /\ points'[p] < points[p]
  /\ points' = [points EXCEPT ![p] = points'[p]]
  /\ spent' = spent \cup {k}
  /\ UNCHANGED paid

Init ==
  /\ points = Opening
  /\ paid = {}
  /\ spent = {}

Next == \/ \E a \in Appt : Earn(a)
        \/ \E p \in Phone : Adjust(p) \/ \E k \in Key : Spend(p, k)

Spec == Init /\ [][Next]_points_vars
==============================================================================
