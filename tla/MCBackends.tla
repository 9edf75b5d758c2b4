----------------------------- MODULE MCBackends -----------------------------
(* Model values for checking Backends with TLC. *)
EXTENDS Backends, TLC

CONSTANTS w1, w2, d1

MCWorkers == {w1, w2}
MCDomains == {d1}
Symmetry == Permutations(MCWorkers)
=============================================================================
