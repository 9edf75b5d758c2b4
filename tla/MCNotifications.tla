-------------------------- MODULE MCNotifications --------------------------
(* Model values for checking Notifications with TLC. *)
EXTENDS Notifications, TLC

CONSTANTS w1, w2, p1

MCWorkers == {w1, w2}
MCProcesses == {p1}
MCProcess == [w \in MCWorkers |-> p1]
=============================================================================
