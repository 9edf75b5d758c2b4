---------------------------- MODULE MCTwoFactor ----------------------------
(* Model values for checking TwoFactor with TLC; no symmetry, as the run    *)
(* checks liveness.                                                         *)
EXTENDS TwoFactor

CONSTANTS w1, w2, c1, c2

MCWorkers == {w1, w2}
MCCodes == {c1, c2}
=============================================================================
