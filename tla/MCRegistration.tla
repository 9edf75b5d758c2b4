--------------------------- MODULE MCRegistration ---------------------------
(* Model values and symmetry for checking Registration with TLC. *)
EXTENDS Registration, TLC

CONSTANTS w1, w2, b1, b2, e1, e2

MCWorkers == {w1, w2}
MCBrowsers == {b1, b2}
MCEmails == {e1, e2}

MCSymmetry == Permutations(MCWorkers) \cup Permutations(MCBrowsers)
                \cup Permutations(MCEmails)
=============================================================================
