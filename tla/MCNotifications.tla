--------------------------- MODULE MCNotifications ---------------------------
(* Small instances of Notifications for TLC. *)
EXTENDS Notifications, TLC

CONSTANTS w, c1, c2, d, n1, n2

\* A client without e-mail: the thread has nothing to send.
NoMail == [s \in Web |-> {}]
==============================================================================
