-------------------------------- MODULE MCHours --------------------------------
(* Small instances of Hours for TLC: one day of six minutes with one or two   *)
(* blocks and one that may open, two services, one resource that may appear.  *)
EXTENDS Hours, TLC

CONSTANTS p1, p2, c1, c2, cut, dye, chair, room

Block(from, to) == [open |-> from, close |-> to]
Split == <<Block(0, 2), Block(3, 6)>>
Entry(isOpen, blocks) == [open |-> isOpen, blocks |-> blocks]
WeekOf(today, tomorrow) == (1 :> today) @@ (2 :> tomorrow)

AllForms ==
  [service  |-> {[id |-> s, new |-> n, active |-> a, dur |-> t] :
                   s \in Service, n \in BOOLEAN, a \in {TRUE}, t \in {0, 1, 3}},
   settings |-> {[slot |-> s, gap |-> g] : s \in {Nothing, -1, 1, 2}, g \in {Nothing, 1}},
   week     |-> {WeekOf(x, y) :
                   x \in {Entry(TRUE, <<Block(0, 3)>>), Entry(TRUE, <<Block(1, 4), Block(2, 6)>>),
                          Entry(FALSE, <<>>), Entry(TRUE, <<Block(3, Nothing)>>)},
                   y \in {Entry(FALSE, <<Block(0, 2)>>)}}]

AllAsks == {[service |-> s, date |-> 1, time |-> t, res |-> r] :
              s \in {cut}, t \in {3, 4}, r \in {NoResource, chair}}

AllInitial ==
  {[week |-> WeekOf(Split, <<>>), grid |-> [slot |-> 1, gap |-> 0],
    service |-> (cut :> [active |-> TRUE, dur |-> 2]) @@ (dye :> [active |-> FALSE, dur |-> 0]),
    resource |-> (chair :> "active") @@ (room :> "absent")]}

Symmetry == Permutations(Panel) \cup Permutations(Client)
================================================================================
