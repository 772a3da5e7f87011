------------------------- MODULE MCNotificationOutbox -------------------------
(* A small instance of NotificationOutbox for TLC. *)
EXTENDS NotificationOutbox

TwoEvents == 1..2

\* The older event may be replayed once.
OlderReplayed == [e \in TwoEvents |-> IF e = 1 THEN 1 ELSE 0]

=============================================================================
