----------------------------- MODULE MCStartup -----------------------------
(* Model values for checking Startup with TLC. *)
EXTENDS Startup

CONSTANTS w1, w2

MCWorkers == {w1, w2}
MCSections == 1 .. 2
=============================================================================
