---------------------------- MODULE MCZoneUpdate ----------------------------
(* Model values for checking ZoneUpdate with TLC; no symmetry, as the run   *)
(* checks liveness.                                                         *)
EXTENDS ZoneUpdate

CONSTANTS w1, w2, dev, other, a1, a2

MCWorkers == {w1, w2}
MCNames == {dev, other}
MCAddrs == {a1, a2}
=============================================================================
