---------------------------- MODULE BookingClaims ----------------------------
(***************************************************************************)
(* Statements that docstrings, comments, tests or answers of the           *)
(* repository make about the booking code.  Each is checked on its own     *)
(* against what the code does; the run shows an execution that breaks it.  *)
(***************************************************************************)
EXTENDS Booking

\* The public API's answer to a reschedule: the reasons it turns into an error;
\* for every other one it says "El turno fue reprogramado correctamente."
PublicAnswer(reason) ==
  IF reason \in {"contact_limit", "occupied", "not_found", "invalid", "error"}
    THEN "error" ELSE "success"

Answered(r) == reply[r] = "none" /\ reply'[r] # "none"

AtRequestedSlot(r) ==
  LET row == appts'[target[r]] IN
  row.status = "confirmed" /\ row.date = want[r].date /\ row.time = want[r].time

\* A cancelled appointment never becomes confirmed
\* (docstring of update_appointment_status_scoped).
CancelledStaysCancelled ==
  [][\A i \in Id : appts[i].status = "cancelled" => appts'[i].status # "confirmed"]_vars

\* When the public API reports a reschedule as done, the appointment is where
\* it was asked to be.
ReportedMovesHappened ==
  [][\A r \in Req :
       /\ op[r] = "move" /\ Answered(r)
       /\ PublicAnswer(reply'[r]) = "success"
       /\ reply'[r] # "rescheduled"
       => AtRequestedSlot(r)]_vars
==============================================================================
