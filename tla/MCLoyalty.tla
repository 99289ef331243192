------------------------------ MODULE MCLoyalty ------------------------------
(* A small instance of Loyalty for TLC: ana, with four points, two          *)
(* appointments and two keys, rewards of two and of five points; beto with   *)
(* one point; an appointment whose phone is no phone.                        *)
EXTENDS Loyalty, TLC

CONSTANTS r1, r2, r3, ana, beto, a1, a2, a3, w1, w2, k1, k2

Symmetry == Permutations(Req)

Phones == [a \in Appt |-> IF a = a3 THEN NoPhone ELSE ana]
FourAndOne == [p \in Phone |-> IF p = ana THEN 4 ELSE 1]
Costs == [w \in Reward |-> IF w = w1 THEN 2 ELSE 5]

Asks(name) == [name |-> name]
Completes(a) == [name |-> "status", appt |-> a, to |-> "completed"]
Leaves(a, to) == [name |-> "status", appt |-> a, to |-> to]
Adjusts(p, n) == [name |-> "adjust", phone |-> p, delta |-> n]
Redeems(w, k) == [name |-> "redeem", phone |-> ana, reward |-> w, key |-> k]

AllOperations ==
  {Asks("recalculate"), Completes(a1), Completes(a2), Completes(a3), Leaves(a1, "no_show"),
   Adjusts(ana, 1), Adjusts(ana, -3), Redeems(w1, k1), Redeems(w1, k2), Redeems(w2, k2),
   [name |-> "settings", enabled |-> TRUE, points |-> 2],
   [name |-> "settings", enabled |-> FALSE, points |-> -1],
   [name |-> "reward", reward |-> w1, cost |-> 1, active |-> FALSE],
   [name |-> "toggle", reward |-> w1, active |-> TRUE]}
==============================================================================
