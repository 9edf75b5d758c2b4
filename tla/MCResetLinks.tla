---------------------------- MODULE MCResetLinks ----------------------------
(* Model values and symmetry for checking ResetLinks with TLC. *)
EXTENDS ResetLinks, TLC

CONSTANTS w1, w2

MCWorkers == {w1, w2}

MCSymmetry == Permutations(MCWorkers)
=============================================================================
