----------------------------- MODULE MCSessions -----------------------------
(* Model values for checking Sessions with TLC; no symmetry, as the runs    *)
(* check liveness.                                                          *)
EXTENDS Sessions

CONSTANTS w1, w2, b1, b2

MCWorkers == {w1, w2}
MCBrowsers == {b1, b2}
=============================================================================
