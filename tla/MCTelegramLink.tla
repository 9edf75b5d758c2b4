--------------------------- MODULE MCTelegramLink ---------------------------
(* Model values and symmetry for checking TelegramLink with TLC. *)
EXTENDS TelegramLink, TLC

CONSTANTS w1, w2, a1, a2, a3, c1

MCWorkers == {w1, w2}
MCAccounts == {a1, a2, a3}
MCChats == {c1}

MCSymmetry == Permutations(MCWorkers) \cup Permutations(MCAccounts)
=============================================================================
