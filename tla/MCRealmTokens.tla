--------------------------- MODULE MCRealmTokens ---------------------------
(* Model values and symmetry for checking RealmTokens with TLC, and the      *)
(* check of the names that stand behind its scopes.                          *)
EXTENDS RealmTokens, TLC

CONSTANTS w1, w2, sc1, nm1, p1, p2

MCWorkers == {w1, w2}
MCScopes == {sc1}
MCNames == {nm1}
MCPerms == {p1}
MCTwoPerms == {p1, p2}

MCSymmetry == Permutations(MCWorkers)

-----------------------------------------------------------------------------
\* All names of up to n labels, two of which differ.
Scope == INSTANCE RealmScope WITH Labels <- {1, 2}
NamesUpTo(n) == UNION {[1 .. k -> {1, 2}] : k \in 0 .. n}
MCRealms == [type : Scope!Types, value : NamesUpTo(2), domain : NamesUpTo(3)]

ASSUME MatchIsCover == \A r \in MCRealms, h \in NamesUpTo(4) :
                          Scope!matches_hostname(r, h) <=> Scope!Covers(r, h)
ASSUME CheckExact == \A r \in MCRealms, z \in NamesUpTo(3), n \in NamesUpTo(3) :
                        Scope!CheckIsExact(r, z, n)
ASSUME DdnsExact == \A r \in MCRealms, h \in NamesUpTo(5) : Scope!DdnsIsExact(r, h)
=============================================================================
