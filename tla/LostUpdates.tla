---------------------------- MODULE LostUpdates ----------------------------
(***************************************************************************)
(* A value that is read, changed in Python and written back as a whole     *)
(* loses updates: a worker that was held up takes it back to where it was  *)
(* read.  This module says how often it can be changed all the same.       *)
(*                                                                         *)
(* Each worker stands on a level: on the one it has read, if it is about   *)
(* to write, and else on the one the value has.  A write takes its worker, *)
(* and everybody who is not about to write, to the level above its own.    *)
(* What matters is how many stand on each level or below it, the ladder:   *)
(* every write leads to one that is further, where the lowest level on     *)
(* which two ladders differ decides, and no ladder comes back.             *)
(***************************************************************************)
EXTENDS Integers, FiniteSets

\* How many of K workers, and more do not count, stand on each of the levels
\* 0 .. L-1 or below.  There are (L + K over K) of these.
Ladders(L, K) ==
    {d \in [0 .. L - 1 -> 0 .. K] : \A x, y \in 0 .. L - 1 : x <= y => d[x] <= d[y]}

\* The workers W stand on the levels f.
Below(W, f, x) == {w \in W : f[w] <= x}
Ladder(W, f, L, K) ==
    [x \in 0 .. L - 1 |-> LET n == Cardinality(Below(W, f, x)) IN IF n < K THEN n ELSE K]

Further(d, e, L) == \E x \in 0 .. L - 1 :
                       e[x] < d[x] /\ \A y \in 0 .. x - 1 : e[y] = d[y]

\* The ladders still to come, and how many they are.
Ahead(d, L, K) == {e \in Ladders(L, K) : Further(d, e, L)}
Left(W, f, L, K) == Cardinality(Ahead(Ladder(W, f, L, K), L, K))

\* The invariant of a counter that is at a after n increments, when P are
\* about to write: every increment so far is a ladder gone, or somebody who is
\* still due.  None was made if the counter was set back and nobody read it
\* since.
Due(f, P, L) == {w \in P : f[w] < L}
Kept(W, f, P, L, n, a) ==
    /\ n + Left(W, f, L, Cardinality(W)) < Cardinality(Ladders(L, Cardinality(W)))
                                             + Cardinality(Due(f, P, L))
    /\ a = 0 => n <= Cardinality(Due(f, P, 1))

\* When the value is set back each time that one more worker joins, the ladders
\* of one worker, of two and so on are gone through, one after the other: so
\* many steps from one to the next.
Start(L, K) == [x \in 0 .. L - 1 |-> K]
Stages(L, K) == UNION {{j} \X (Ladders(L, j) \ {Start(L, j)}) : j \in 1 .. K}
Changes(L, K) == Cardinality(Stages(L, K))

\* One more, as long as nobody has reached the top.
Spare(W, f, L) == IF \A w \in W : f[w] < L THEN 1 ELSE 0
=============================================================================
