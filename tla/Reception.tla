------------------------------- MODULE Reception -------------------------------
(***************************************************************************)
(* What the booking assistant promises for every message it receives: the  *)
(* message joins one conversation, that of its sender when the sender is   *)
(* known; it changes at most one appointment; it is answered at most once, *)
(* and no answer confirms a change that the message has not made.  Whatever *)
(* else the language model says is hearsay: an answer may pass it on, true *)
(* or not.                                                                 *)
(***************************************************************************)
CONSTANTS Message, Conversation, Change, Hearsay, Nothing

VARIABLES
  thread,     \* the conversation each message joined
  change,     \* the change each message made
  answered,   \* whether it was answered
  told        \* the change its answer confirms, or Hearsay

vars == <<thread, change, answered, told>>

Init ==
  /\ thread = [m \in Message |-> Nothing]
  /\ change = [m \in Message |-> Nothing]
  /\ answered = [m \in Message |-> FALSE]
  /\ told = [m \in Message |-> Nothing]

Take(m, c) ==
  /\ thread[m] = Nothing /\ ~answered[m]
  /\ thread' = [thread EXCEPT ![m] = c]
  /\ UNCHANGED <<change, answered, told>>

Make(m, x) ==
  /\ thread[m] # Nothing /\ change[m] = Nothing /\ ~answered[m]
  /\ change' = [change EXCEPT ![m] = x]
  /\ UNCHANGED <<thread, answered, told>>

Tell(m) ==
  /\ ~answered[m]
  /\ answered' = [answered EXCEPT ![m] = TRUE]
  /\ \/ UNCHANGED told
     \/ change[m] # Nothing /\ told' = [told EXCEPT ![m] = change[m]]
     \/ told' = [told EXCEPT ![m] = Hearsay]
  /\ UNCHANGED <<thread, change>>

Next == \E m \in Message :
  \/ \E c \in Conversation : Take(m, c)
  \/ \E x \in Change : Make(m, x)
  \/ Tell(m)

Spec == Init /\ [][Next]_vars
================================================================================
