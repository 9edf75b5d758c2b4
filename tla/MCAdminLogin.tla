---------------------------- MODULE MCAdminLogin ----------------------------
(* Model values for checking AdminLogin with TLC. *)
EXTENDS AdminLogin

CONSTANTS w1, w2

MCWorkers == {w1, w2}
=============================================================================
