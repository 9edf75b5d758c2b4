------------------------- MODULE AdminLogin_proofs -------------------------
(***************************************************************************)
(* Theorems about AdminLogin, for any workers and threshold: types, the    *)
(* codes mailed in an interval, the sessions opened with the password      *)
(* alone, and the wrong passwords compared.                                *)
(***************************************************************************)
EXTENDS AdminLogin, FiniteSetTheorems, TLAPS

USE DEF Do, Holds, Load

Most == Cardinality(Workers)

LEMMA MostType == Most \in Nat
  BY WorkersAssumption, FS_CardinalityType DEF Most

-----------------------------------------------------------------------------
(***************************************************************************)
(* Ladders (LostUpdates): how far the workers can still climb, and that    *)
(* every write takes them further.                                         *)
(***************************************************************************)
LEMMA WorkersFinite == IsFiniteSet(Workers)
  BY WorkersAssumption

\* Every nonempty set of numbers has a least one.
LEMMA LeastOf ==
    ASSUME NEW T \in SUBSET Nat, T # {}
    PROVE  \E x \in T : \A y \in T : x <= y
  <1> DEFINE R == {ss \in Nat \X Nat : ss[1] < ss[2]}
  <1>1. IsWellFoundedOn(R, Nat)
    BY NatLessThanWellFounded DEF OpToRel
  <1>2. \E x \in T : \A y \in T : <<y, x>> \notin R
    <2> HIDE DEF R
    <2> QED
      BY <1>1, WFMin
  <1>3. \A x, y \in T : <<y, x>> \notin R => x <= y
    OBVIOUS
  <1> QED
    BY <1>2, <1>3

\* There are finitely many ladders.
LEMMA LaddersFinite ==
    ASSUME NEW L \in Nat, NEW K \in Nat
    PROVE  /\ IsFiniteSet(Ladders(L, K)) /\ Cardinality(Ladders(L, K)) \in Nat
           /\ \A S \in SUBSET Ladders(L, K) :
                 /\ IsFiniteSet(S) /\ Cardinality(S) \in Nat
                 /\ Cardinality(S) <= Cardinality(Ladders(L, K))
                 /\ S # Ladders(L, K) => Cardinality(S) < Cardinality(Ladders(L, K))
  <1> DEFINE D == 0 .. L - 1
             E == 0 .. K
             g == [d \in Ladders(L, K) |-> {<<x, d[x]>> : x \in D}]
  <1>1. IsFiniteSet(D) /\ IsFiniteSet(E)
    BY FS_Interval
  <1>2. IsFiniteSet(SUBSET (D \X E))
    BY <1>1, FS_Product, FS_SUBSET
  <1>3. g \in [Ladders(L, K) -> SUBSET (D \X E)]
    BY DEF Ladders
  <1>4. ASSUME NEW d \in Ladders(L, K), NEW e \in Ladders(L, K), g[d] = g[e]
        PROVE  d = e
    <2>1. d \in [D -> E] /\ e \in [D -> E]
      BY DEF Ladders
    <2>2. ASSUME NEW x \in D PROVE d[x] = e[x]
      <3>1. <<x, d[x]>> \in g[e]
        BY <1>4
      <3>2. PICK y \in D : <<x, d[x]>> = <<y, e[y]>>
        BY <3>1
      <3> QED
        BY <3>2
    <2> QED
      BY <2>1, <2>2
  <1>5. g \in Injection(Ladders(L, K), SUBSET (D \X E))
    BY <1>3, <1>4 DEF Injection, IsInjective
  <1>6. IsFiniteSet(Ladders(L, K))
    BY <1>2, <1>5, FS_Injection
  <1>7. Cardinality(Ladders(L, K)) \in Nat
    BY <1>6, FS_CardinalityType
  <1>8. ASSUME NEW S \in SUBSET Ladders(L, K)
        PROVE  /\ IsFiniteSet(S) /\ Cardinality(S) \in Nat
               /\ Cardinality(S) <= Cardinality(Ladders(L, K))
               /\ S # Ladders(L, K) => Cardinality(S) < Cardinality(Ladders(L, K))
    <2>1. IsFiniteSet(S) /\ Cardinality(S) <= Cardinality(Ladders(L, K))
          /\ (Cardinality(S) = Cardinality(Ladders(L, K)) => S = Ladders(L, K))
      BY <1>6, FS_Subset
    <2>2. Cardinality(S) \in Nat
      BY <2>1, FS_CardinalityType
    <2> QED
      BY <1>7, <2>1, <2>2
  <1> QED
    BY <1>6, <1>7, <1>8

LEMMA LaddersSome ==
    ASSUME NEW L \in Nat, NEW K \in Nat
    PROVE  Cardinality(Ladders(L, K)) \in Nat \ {0}
  <1>1. [x \in 0 .. L - 1 |-> 0] \in Ladders(L, K)
    BY DEF Ladders
  <1>2. {} \in SUBSET Ladders(L, K) /\ {} # Ladders(L, K)
    BY <1>1
  <1>3. Cardinality({}) < Cardinality(Ladders(L, K)) /\ Cardinality(Ladders(L, K)) \in Nat
    BY <1>2, LaddersFinite
  <1>4. Cardinality({}) = 0
    BY FS_EmptySet
  <1> QED
    BY <1>3, <1>4

\* Workers on levels stand on a ladder.
LEMMA BelowFacts ==
    ASSUME NEW f \in [Workers -> Nat], NEW x
    PROVE  /\ IsFiniteSet(Below(Workers, f, x)) /\ Cardinality(Below(Workers, f, x)) \in Nat
           /\ \A S \in SUBSET Below(Workers, f, x) :
                 /\ Cardinality(S) \in Nat /\ Cardinality(S) <= Cardinality(Below(Workers, f, x))
                 /\ S # Below(Workers, f, x) => Cardinality(S) < Cardinality(Below(Workers, f, x))
  <1>1. Below(Workers, f, x) \in SUBSET Workers
    BY DEF Below
  <1>2. IsFiniteSet(Below(Workers, f, x))
    BY <1>1, WorkersFinite, FS_Subset
  <1>3. Cardinality(Below(Workers, f, x)) \in Nat
    BY <1>2, FS_CardinalityType
  <1>4. ASSUME NEW S \in SUBSET Below(Workers, f, x)
        PROVE  /\ IsFiniteSet(S) /\ Cardinality(S) <= Cardinality(Below(Workers, f, x))
               /\ Cardinality(S) = Cardinality(Below(Workers, f, x)) => S = Below(Workers, f, x)
    BY <1>2, FS_Subset
  <1>5. \A S \in SUBSET Below(Workers, f, x) : Cardinality(S) \in Nat
    BY <1>4, FS_CardinalityType
  <1> QED
    BY <1>2, <1>3, <1>4, <1>5

LEMMA NotAll ==
    ASSUME NEW f \in [Workers -> Nat], NEW x, Below(Workers, f, x) # Workers
    PROVE  Cardinality(Below(Workers, f, x)) < Cardinality(Workers)
  <1>1. Below(Workers, f, x) \in SUBSET Workers
    BY DEF Below
  <1>2. /\ Cardinality(Below(Workers, f, x)) <= Cardinality(Workers)
        /\ Cardinality(Below(Workers, f, x)) # Cardinality(Workers)
    BY <1>1, WorkersFinite, FS_Subset
  <1>3. Cardinality(Below(Workers, f, x)) \in Nat /\ Cardinality(Workers) \in Nat
    BY BelowFacts, WorkersFinite, FS_CardinalityType
  <1> QED
    BY <1>2, <1>3

LEMMA LadderType ==
    ASSUME NEW L \in Nat, NEW K \in Nat, NEW f \in [Workers -> Nat]
    PROVE  Ladder(Workers, f, L, K) \in Ladders(L, K)
  <1> DEFINE d == Ladder(Workers, f, L, K)
             n(x) == Cardinality(Below(Workers, f, x))
  <1>1. \A x \in 0 .. L - 1 : n(x) \in Nat
    BY BelowFacts
  <1>2. \A x \in 0 .. L - 1 : d[x] = IF n(x) < K THEN n(x) ELSE K
    BY DEF Ladder
  <1>3. d \in [0 .. L - 1 -> 0 .. K]
    <2> HIDE DEF n
    <2>1. \A x \in 0 .. L - 1 : d[x] \in 0 .. K
      BY <1>1, <1>2
    <2> QED
      BY <2>1 DEF Ladder
  <1>4. ASSUME NEW x \in 0 .. L - 1, NEW y \in 0 .. L - 1, x <= y
        PROVE  d[x] <= d[y]
    <2>1. Below(Workers, f, x) \in SUBSET Below(Workers, f, y)
      BY <1>4 DEF Below
    <2>2. n(x) <= n(y)
      BY <2>1, BelowFacts
    <2> HIDE DEF n, d
    <2> QED
      BY <1>1, <1>2, <2>2
  <1> QED
    BY <1>3, <1>4 DEF Ladders

\* Being further is a strict order.
LEMMA FurtherOrder ==
    ASSUME NEW L \in Nat, NEW K \in Nat, NEW d \in Ladders(L, K), NEW e \in Ladders(L, K)
    PROVE  /\ ~Further(d, d, L)
           /\ \A c \in Ladders(L, K) : Further(d, e, L) /\ Further(e, c, L) => Further(d, c, L)
  <1>1. ~Further(d, d, L)
    BY DEF Further, Ladders
  <1>2. ASSUME NEW c \in Ladders(L, K), Further(d, e, L), Further(e, c, L)
        PROVE  Further(d, c, L)
    <2>1. \A x \in 0 .. L - 1 : d[x] \in Int /\ e[x] \in Int /\ c[x] \in Int
      BY DEF Ladders
    <2>2. PICK x \in 0 .. L - 1 : e[x] < d[x] /\ \A y \in 0 .. x - 1 : e[y] = d[y]
      BY <1>2 DEF Further
    <2>3. PICK z \in 0 .. L - 1 : c[z] < e[z] /\ \A y \in 0 .. z - 1 : c[y] = e[y]
      BY <1>2 DEF Further
    <2>4. CASE x <= z
      <3>1. c[x] < d[x]
        BY <2>1, <2>2, <2>3, <2>4
      <3>2. \A y \in 0 .. x - 1 : c[y] = d[y]
        BY <2>2, <2>3, <2>4
      <3> QED
        BY <3>1, <3>2 DEF Further
    <2>5. CASE z < x
      <3>1. c[z] < d[z]
        BY <2>1, <2>2, <2>3, <2>5
      <3>2. \A y \in 0 .. z - 1 : c[y] = d[y]
        BY <2>2, <2>3, <2>5
      <3> QED
        BY <3>1, <3>2 DEF Further
    <2> QED
      BY <2>4, <2>5
  <1> QED
    BY <1>1, <1>2

\* The ladders ahead are fewer than all, and fewer after a step to one of them.
LEMMA LeftFacts ==
    ASSUME NEW L \in Nat, NEW K \in Nat, NEW f \in [Workers -> Nat]
    PROVE  /\ Left(Workers, f, L, K) \in Nat
           /\ Left(Workers, f, L, K) < Cardinality(Ladders(L, K))
  <1> DEFINE d == Ladder(Workers, f, L, K)
  <1>1. d \in Ladders(L, K)
    BY LadderType
  <1>2. d \notin Ahead(d, L, K)
    BY <1>1, FurtherOrder DEF Ahead
  <1>3. Ahead(d, L, K) \in SUBSET Ladders(L, K) /\ Ahead(d, L, K) # Ladders(L, K)
    BY <1>1, <1>2 DEF Ahead
  <1> QED
    BY <1>3, LaddersFinite DEF Left

LEMMA Fewer ==
    ASSUME NEW L \in Nat, NEW K \in Nat, NEW f \in [Workers -> Nat], NEW g \in [Workers -> Nat],
           Further(Ladder(Workers, f, L, K), Ladder(Workers, g, L, K), L)
    PROVE  Left(Workers, g, L, K) + 1 <= Left(Workers, f, L, K)
  <1> DEFINE d == Ladder(Workers, f, L, K)
             e == Ladder(Workers, g, L, K)
             S == Ahead(d, L, K)
             T == Ahead(e, L, K)
  <1>1. d \in Ladders(L, K) /\ e \in Ladders(L, K)
    BY LadderType
  <1>2. e \in S /\ e \notin T /\ T \in SUBSET S
    <2> HIDE DEF d, e
    <2>1. \A c \in Ladders(L, K) : Further(e, c, L) => Further(d, c, L)
      BY <1>1, FurtherOrder DEF d, e
    <2>2. ~Further(e, e, L)
      BY <1>1, FurtherOrder
    <2> QED
      BY <1>1, <2>1, <2>2 DEF Ahead, d, e
  <1>3. IsFiniteSet(S) /\ Cardinality(S) \in Nat
    <2>1. S \in SUBSET Ladders(L, K)
      BY DEF Ahead
    <2> QED
      BY <2>1, LaddersFinite
  <1>4. Cardinality(T) <= Cardinality(S) /\ Cardinality(T) # Cardinality(S) /\ Cardinality(T) \in Nat
    <2> HIDE DEF S, T
    <2>1. IsFiniteSet(T) /\ Cardinality(T) <= Cardinality(S) /\ (Cardinality(S) = Cardinality(T) => S = T)
      BY <1>2, <1>3, FS_Subset
    <2> QED
      BY <1>2, <2>1, FS_CardinalityType
  <1> QED
    BY <1>3, <1>4 DEF Left

\* A step leads further if on some level fewer stand at or below than before,
\* and not too many for it to count, while nothing changes below.
LEMMA Climb ==
    ASSUME NEW L \in Nat, NEW K \in Nat, NEW f \in [Workers -> Nat], NEW g \in [Workers -> Nat],
           NEW a \in 0 .. L - 1,
           \A x \in 0 .. a - 1 : Below(Workers, g, x) = Below(Workers, f, x),
           Below(Workers, g, a) \in SUBSET Below(Workers, f, a),
           Below(Workers, g, a) # Below(Workers, f, a),
           Cardinality(Below(Workers, g, a)) < K
    PROVE  Left(Workers, g, L, K) + 1 <= Left(Workers, f, L, K)
  <1> DEFINE n(x) == Cardinality(Below(Workers, f, x))
             m(x) == Cardinality(Below(Workers, g, x))
             d == Ladder(Workers, f, L, K)
             e == Ladder(Workers, g, L, K)
  <1>1. \A x \in 0 .. L - 1 : /\ d[x] = IF n(x) < K THEN n(x) ELSE K
                              /\ e[x] = IF m(x) < K THEN m(x) ELSE K
    BY DEF Ladder
  <1>2. m(a) < n(a) /\ m(a) < K /\ m(a) \in Nat /\ n(a) \in Nat
    BY BelowFacts
  <1>3. e[a] < d[a]
    <2> HIDE DEF m, n, d, e
    <2> QED
      BY <1>1, <1>2
  <1>4. \A x \in 0 .. a - 1 : e[x] = d[x]
    BY <1>1
  <1>5. Further(d, e, L)
    BY <1>3, <1>4 DEF Further
  <1> QED
    BY <1>5, Fewer

\* Nobody goes down: the step leads further or changes nothing that counts.
LEMMA Rise ==
    ASSUME NEW L \in Nat, NEW K \in Nat, NEW f \in [Workers -> Nat], NEW g \in [Workers -> Nat],
           \A x \in 0 .. L - 1 : Below(Workers, g, x) \in SUBSET Below(Workers, f, x)
    PROVE  Left(Workers, g, L, K) <= Left(Workers, f, L, K)
  <1> DEFINE n(x) == Cardinality(Below(Workers, f, x))
             m(x) == Cardinality(Below(Workers, g, x))
             d == Ladder(Workers, f, L, K)
             e == Ladder(Workers, g, L, K)
             T == {x \in 0 .. L - 1 : e[x] # d[x]}
  <1>1. \A x \in 0 .. L - 1 : /\ d[x] = IF n(x) < K THEN n(x) ELSE K
                              /\ e[x] = IF m(x) < K THEN m(x) ELSE K
    BY DEF Ladder
  <1>2. \A x \in 0 .. L - 1 : m(x) <= n(x) /\ m(x) \in Nat /\ n(x) \in Nat
    BY BelowFacts
  <1>3. \A x \in 0 .. L - 1 : e[x] <= d[x] /\ e[x] \in Nat /\ d[x] \in Nat
    <2> HIDE DEF m, n, d, e
    <2> QED
      BY <1>1, <1>2
  <1>4. Left(Workers, g, L, K) \in Nat /\ Left(Workers, f, L, K) \in Nat
    BY LeftFacts
  <1>5. CASE T = {}
    <2>1. d \in Ladders(L, K) /\ e \in Ladders(L, K)
      BY LadderType
    <2>2. e = d
      <3>1. \A x \in 0 .. L - 1 : e[x] = d[x]
        BY <1>5
      <3> HIDE DEF d, e
      <3> QED
        BY <2>1, <3>1 DEF Ladders
    <2> QED
      BY <1>4, <2>2 DEF Left
  <1>6. CASE T # {}
    <2>1. PICK x \in T : \A y \in T : x <= y
      <3>1. T \in SUBSET Nat
        OBVIOUS
      <3> HIDE DEF T
      <3> QED
        BY <1>6, <3>1, LeastOf
    <2>2. e[x] < d[x] /\ x \in 0 .. L - 1
      BY <1>3
    <2>3. \A y \in 0 .. x - 1 : e[y] = d[y]
      <3> HIDE DEF d, e
      <3> QED
        BY <2>1
    <2>4. Further(d, e, L)
      BY <2>2, <2>3 DEF Further
    <2>5. Left(Workers, g, L, K) + 1 <= Left(Workers, f, L, K)
      BY <2>4, Fewer
    <2> QED
      BY <1>4, <2>5
  <1> QED
    BY <1>5, <1>6

\* Whoever leaves the ladder at its top has it go further once more.
LEMMA Leap ==
    ASSUME NEW L \in Nat, NEW K, K = Cardinality(Workers),
           NEW f \in [Workers -> Nat], NEW g \in [Workers -> Nat], NEW A \in SUBSET Workers,
           \A w \in A : f[w] < L /\ g[w] >= L,
           \A w \in Workers \ A : g[w] = f[w] \/ (g[w] >= L /\ f[w] >= L)
    PROVE  Left(Workers, g, L, K) + Cardinality(A) <= Left(Workers, f, L, K)
  <1> DEFINE Leaps(h, B) == /\ \A w \in B : h[w] < L /\ g[w] >= L
                            /\ \A w \in Workers \ B : g[w] = h[w] \/ (g[w] >= L /\ h[w] >= L)
             Bad(n) == \E h \in [Workers -> Nat], B \in SUBSET Workers :
                          /\ Leaps(h, B) /\ Cardinality(B) = n
                          /\ ~(Left(Workers, g, L, K) + n <= Left(Workers, h, L, K))
             T == {n \in Nat : Bad(n)}
  <1>1. K \in Nat /\ \A B \in SUBSET Workers : IsFiniteSet(B) /\ Cardinality(B) \in Nat
    BY WorkersFinite, FS_Subset, FS_CardinalityType
  <1>2. \A h \in [Workers -> Nat] : Left(Workers, h, L, K) \in Nat
    BY <1>1, LeftFacts
  <1>3. T = {}
    <2> SUFFICES ASSUME T # {} PROVE FALSE
      OBVIOUS
    <2>1. PICK n \in T : \A y \in T : n <= y
      <3>1. T \in SUBSET Nat
        OBVIOUS
      <3> HIDE DEF T
      <3> QED
        BY <3>1, LeastOf
    <2>2. PICK h \in [Workers -> Nat], B \in SUBSET Workers :
             /\ Leaps(h, B) /\ Cardinality(B) = n
             /\ ~(Left(Workers, g, L, K) + n <= Left(Workers, h, L, K))
      OBVIOUS
    <2>3. B # {}
      <3> SUFFICES ASSUME B = {} PROVE FALSE
        OBVIOUS
      <3>1. n = 0
        BY <2>2, FS_EmptySet
      <3>2. \A x \in 0 .. L - 1 : Below(Workers, g, x) \in SUBSET Below(Workers, h, x)
        BY <2>2 DEF Below
      <3>3. Left(Workers, g, L, K) <= Left(Workers, h, L, K)
        BY <1>1, <3>2, Rise
      <3> QED
        BY <1>2, <2>2, <3>1, <3>3
    <2>4. PICK w \in B : TRUE
      BY <2>3
    <2> DEFINE i == [h EXCEPT ![w] = g[w]]
               C == B \ {w}
    <2>5. i \in [Workers -> Nat] /\ C \in SUBSET Workers /\ Leaps(i, C)
      BY <2>2
    <2>6. Cardinality(C) = n - 1 /\ n - 1 \in Nat
      <3>1. Cardinality(C) = n - 1
        BY <1>1, <2>2, FS_RemoveElement
      <3> QED
        BY <1>1, <2>5, <3>1
    <2>7. Left(Workers, g, L, K) + (n - 1) <= Left(Workers, i, L, K)
      <3>1. n - 1 \notin T
        BY <2>1, <2>6
      <3> HIDE DEF i, C, Leaps
      <3> QED
        BY <2>5, <2>6, <3>1
    <2>8. Left(Workers, i, L, K) + 1 <= Left(Workers, h, L, K)
      <3>1. h[w] \in 0 .. L - 1 /\ g[w] >= L /\ i[w] = g[w]
        BY <2>2
      <3>2. \A x \in 0 .. h[w] - 1 : Below(Workers, i, x) = Below(Workers, h, x)
        BY <3>1 DEF Below
      <3>3. /\ Below(Workers, i, h[w]) \in SUBSET Below(Workers, h, h[w])
            /\ w \in Below(Workers, h, h[w]) /\ w \notin Below(Workers, i, h[w])
        BY <3>1 DEF Below
      <3>4. Cardinality(Below(Workers, i, h[w])) < K
        <4>1. Cardinality(Below(Workers, i, h[w])) < Cardinality(Below(Workers, h, h[w]))
          BY <3>3, BelowFacts
        <4>2. Cardinality(Below(Workers, h, h[w])) <= K
          <5>1. Below(Workers, h, h[w]) \in SUBSET Workers
            BY DEF Below
          <5> QED
            BY <5>1, WorkersFinite, FS_Subset
        <4>3. Cardinality(Below(Workers, i, h[w])) \in Nat /\ Cardinality(Below(Workers, h, h[w])) \in Nat
          BY <2>5, BelowFacts
        <4> QED
          BY <1>1, <4>1, <4>2, <4>3
      <3> HIDE DEF i
      <3> QED
        BY <1>1, <2>5, <3>1, <3>2, <3>3, <3>4, Climb
    <2>9. /\ ~(Left(Workers, g, L, K) + n <= Left(Workers, h, L, K))
          /\ n \in Nat /\ Left(Workers, g, L, K) \in Nat
          /\ Left(Workers, h, L, K) \in Nat /\ Left(Workers, i, L, K) \in Nat
      BY <1>2, <2>2, <2>5
    <2> HIDE DEF i
    <2> QED
      BY <2>7, <2>8, <2>9
  <1>4. Leaps(f, A)
    OBVIOUS
  <1> QED
    <2>1. Cardinality(A) \notin T
      BY <1>3
    <2> HIDE DEF Leaps
    <2> QED
      BY <1>1, <1>4, <2>1

\* A ladder for each level, so there are more of them than levels.
LEMMA LaddersRoom ==
    ASSUME NEW L \in Nat, NEW K \in Nat \ {0}
    PROVE  L < Cardinality(Ladders(L, K))
  <1> DEFINE g == [i \in 0 .. L |-> [x \in 0 .. L - 1 |-> IF x < i THEN 0 ELSE K]]
  <1>1. \A i \in 0 .. L : g[i] \in Ladders(L, K)
    BY DEF Ladders
  <1>2. ASSUME NEW i \in 0 .. L, NEW j \in 0 .. L, i < j PROVE g[i] # g[j]
    <2>1. g[i][i] = K /\ g[j][i] = 0
      BY <1>2
    <2> QED
      BY <2>1
  <1>3. g \in Injection(0 .. L, Ladders(L, K))
    <2> HIDE DEF g
    <2>1. g \in [0 .. L -> Ladders(L, K)]
      BY <1>1 DEF g
    <2>2. \A i, j \in 0 .. L : g[i] = g[j] => i = j
      BY <1>2
    <2> QED
      BY <2>1, <2>2 DEF Injection, IsInjective
  <1>4. Cardinality(0 .. L) = L + 1
    BY FS_Interval
  <1>5. Cardinality(0 .. L) <= Cardinality(Ladders(L, K))
    BY <1>3, LaddersFinite, FS_Injection
  <1>6. Cardinality(Ladders(L, K)) \in Nat
    BY LaddersFinite
  <1> HIDE DEF g
  <1> QED
    BY <1>4, <1>5, <1>6

\* Those who are about to write and have not reached the top.
LEMMA DueSize ==
    ASSUME NEW L \in Nat, NEW f \in [Workers -> Nat], NEW P \in SUBSET Workers
    PROVE  /\ Due(f, P, L) \in SUBSET Workers /\ IsFiniteSet(Due(f, P, L))
           /\ Cardinality(Due(f, P, L)) \in Nat
           /\ Cardinality(Due(f, P, L)) <= Left(Workers, f, L, Cardinality(Workers))
  <1> DEFINE A == Due(f, P, L)
             g == [w \in Workers |-> IF w \in A THEN L ELSE f[w]]
  <1>1. A \in SUBSET Workers
    BY DEF Due
  <1>2. IsFiniteSet(A) /\ Cardinality(A) \in Nat /\ Cardinality(Workers) \in Nat
    BY <1>1, WorkersFinite, FS_Subset, FS_CardinalityType
  <1>3. g \in [Workers -> Nat] /\ \A w \in Workers : g[w] = IF w \in A THEN L ELSE f[w]
    OBVIOUS
  <1>4. \A w \in A : f[w] < L
    BY DEF Due
  <1>5. Left(Workers, g, L, Cardinality(Workers)) + Cardinality(A)
          <= Left(Workers, f, L, Cardinality(Workers))
    <2> HIDE DEF A, g
    <2> QED
      BY <1>1, <1>3, <1>4, Leap
  <1>6. /\ Left(Workers, g, L, Cardinality(Workers)) \in Nat
        /\ Left(Workers, f, L, Cardinality(Workers)) \in Nat
    BY <1>2, <1>3, LeftFacts
  <1> QED
    BY <1>1, <1>2, <1>5, <1>6

\* The worker v writes the level above the one it has read and takes X, the
\* workers that are not about to write, along: the ladder gets as much
\* further as there are fewer left who are due.
LEMMA WriteClimbs ==
    ASSUME NEW L \in Nat, NEW f \in [Workers -> Nat], NEW g \in [Workers -> Nat],
           NEW P \in SUBSET Workers, NEW v \in Workers, NEW X \in SUBSET (Workers \ {v}),
           NEW a \in Nat, NEW b \in Nat, b = f[v] + 1 \/ (b >= L /\ f[v] + 1 >= L),
           g[v] = b,
           \A w \in X : f[w] = a /\ g[w] = b,
           \A w \in Workers \ (X \cup {v}) : g[w] = f[w]
    PROVE  Left(Workers, g, L, Cardinality(Workers)) + Cardinality(Due(f, P, L))
             <= Left(Workers, f, L, Cardinality(Workers)) + Cardinality(Due(g, P \ {v}, L))
  <1> DEFINE K == Cardinality(Workers)
             s == f[v]
             F == Left(Workers, f, L, K)
             G == Left(Workers, g, L, K)
             D == Due(f, P, L)
             E == Due(g, P \ {v}, L)
  <1>1. K \in Nat /\ s \in Nat
    BY WorkersFinite, FS_CardinalityType
  <1>2. F \in Nat /\ G \in Nat
    BY <1>1, LeftFacts
  <1>3. IsFiniteSet(D) /\ IsFiniteSet(E) /\ Cardinality(D) \in Nat /\ Cardinality(E) \in Nat
    BY DueSize
  <1>4. ASSUME NEW A \in SUBSET Workers, D \subseteq E \cup A
        PROVE  Cardinality(D) <= Cardinality(E) + Cardinality(A) /\ Cardinality(A) \in Nat
    <2> HIDE DEF D, E
    <2>1. IsFiniteSet(A) /\ Cardinality(A) \in Nat
      BY WorkersFinite, FS_Subset, FS_CardinalityType
    <2>2. IsFiniteSet(E \cap A) /\ Cardinality(E \cap A) \in Nat
      BY <1>3, FS_Intersection, FS_CardinalityType
    <2>3. IsFiniteSet(E \cup A)
          /\ Cardinality(E \cup A) = Cardinality(E) + Cardinality(A) - Cardinality(E \cap A)
      BY <1>3, <2>1, FS_Union
    <2>4. Cardinality(D) <= Cardinality(E \cup A)
      BY <1>4, <2>3, FS_Subset
    <2> QED
      BY <1>3, <2>1, <2>2, <2>3, <2>4
  <1>5. CASE b >= L
    <2> DEFINE A == {w \in X \cup {v} : f[w] < L}
    <2>1. A \in SUBSET Workers /\ D \subseteq E \cup A
      BY DEF Due
    <2>2. \A w \in A : f[w] < L /\ g[w] >= L
      BY <1>5
    <2>3. \A w \in Workers \ A : g[w] = f[w] \/ (g[w] >= L /\ f[w] >= L)
      BY <1>5
    <2>4. G + Cardinality(A) <= F
      <3> HIDE DEF A
      <3> QED
        BY <2>1, <2>2, <2>3, Leap
    <2>5. Cardinality(D) <= Cardinality(E) + Cardinality(A) /\ Cardinality(A) \in Nat
      BY <1>4, <2>1
    <2> HIDE DEF A, D, E, F, G
    <2> QED
      BY <1>2, <1>3, <2>4, <2>5 DEF D, E, F, G
  <1>6. CASE b < L
    <2>1. b = s + 1 /\ s \in 0 .. L - 1
      BY <1>1, <1>6
    <2>2. D \subseteq E \cup {v}
      BY <1>6 DEF Due
    <2>3. Cardinality(D) <= Cardinality(E) + 1
      <3>1. Cardinality({v}) = 1 /\ {v} \in SUBSET Workers
        BY FS_Singleton
      <3> HIDE DEF D, E
      <3> QED
        BY <1>4, <2>2, <3>1
    <2>4. ASSUME NEW x \in Nat, Below(Workers, g, x) # Workers
          PROVE  Cardinality(Below(Workers, g, x)) < K
      BY <2>4, NotAll
    <2>5. G + 1 <= F
      <3>1. CASE X = {} \/ s <= a
        <4>1. \A x \in 0 .. s - 1 : Below(Workers, g, x) = Below(Workers, f, x)
          BY <1>1, <2>1, <3>1 DEF Below
        <4>2. /\ Below(Workers, g, s) \in SUBSET Below(Workers, f, s)
              /\ v \in Below(Workers, f, s) /\ v \notin Below(Workers, g, s)
          BY <1>1, <2>1, <3>1 DEF Below
        <4>3. Cardinality(Below(Workers, g, s)) < K
          BY <1>1, <2>4, <4>2
        <4> HIDE DEF s
        <4> QED
          BY <1>1, <2>1, <4>1, <4>2, <4>3, Climb
      <3>2. CASE X # {} /\ a < s
        <4>1. PICK y \in X : TRUE
          BY <3>2
        <4>2. \A x \in 0 .. a - 1 : Below(Workers, g, x) = Below(Workers, f, x)
          BY <1>1, <2>1, <3>2 DEF Below
        <4>3. /\ Below(Workers, g, a) \in SUBSET Below(Workers, f, a)
              /\ y \in Below(Workers, f, a) /\ y \notin Below(Workers, g, a)
          BY <1>1, <2>1, <3>2, <4>1 DEF Below
        <4>4. Cardinality(Below(Workers, g, a)) < K
          BY <2>4, <4>3
        <4>5. a \in 0 .. L - 1
          BY <1>1, <2>1, <3>2
        <4> QED
          BY <1>1, <4>2, <4>3, <4>4, <4>5, Climb
      <3> QED
        BY <1>1, <3>1, <3>2
    <2> HIDE DEF D, E, F, G
    <2> QED
      BY <1>2, <1>3, <2>3, <2>5 DEF D, E, F, G
  <1> QED
    BY <1>5, <1>6

\* A counter that is set back, or was never used.
LEMMA KeptReset ==
    ASSUME NEW L \in Nat, NEW f \in [Workers -> Nat], NEW P \in SUBSET Workers, NEW a
    PROVE  Kept(Workers, f, P, L, 0, a)
  <1> DEFINE K == Cardinality(Workers)
  <1>1. K \in Nat
    BY WorkersFinite, FS_CardinalityType
  <1>2. Cardinality(Due(f, P, L)) \in Nat /\ Cardinality(Due(f, P, 1)) \in Nat
    BY DueSize
  <1>3. Left(Workers, f, L, K) \in Nat /\ Left(Workers, f, L, K) < Cardinality(Ladders(L, K))
    BY <1>1, LeftFacts
  <1>4. Cardinality(Ladders(L, K)) \in Nat
    BY <1>1, LaddersFinite
  <1> QED
    BY <1>2, <1>3, <1>4 DEF Kept

LEMMA KeptLess ==
    ASSUME NEW L \in Nat, NEW f \in [Workers -> Nat], NEW P \in SUBSET Workers, NEW a,
           NEW n \in Nat, NEW m \in Nat, m <= n, Kept(Workers, f, P, L, n, a)
    PROVE  Kept(Workers, f, P, L, m, a)
  <1> DEFINE K == Cardinality(Workers)
             C == Cardinality(Ladders(L, K))
             D == Cardinality(Due(f, P, L))
             E == Cardinality(Due(f, P, 1))
             F == Left(Workers, f, L, K)
  <1>1. K \in Nat
    BY WorkersFinite, FS_CardinalityType
  <1>2. F \in Nat /\ C \in Nat /\ D \in Nat /\ E \in Nat
    BY <1>1, LeftFacts, DueSize, LaddersFinite
  <1>3. n + F < C + D /\ (a = 0 => n <= E)
    BY DEF Kept
  <1>4. m + F < C + D /\ (a = 0 => m <= E)
    <2> HIDE DEF C, D, E, F
    <2> QED
      BY <1>2, <1>3
  <1> QED
    BY <1>4 DEF Kept

\* Somebody who has found the counter below its limit is due.
LEMMA KeptTry ==
    ASSUME NEW L \in Nat, NEW f \in [Workers -> Nat], NEW P \in SUBSET Workers, NEW n \in Nat,
           NEW w \in Workers \ P, f[w] < L, Kept(Workers, f, P, L, n, f[w])
    PROVE  Kept(Workers, f, P \cup {w}, L, n + 1, f[w])
  <1> DEFINE K == Cardinality(Workers)
             D(m) == Due(f, P, m)
             E(m) == Due(f, P \cup {w}, m)
  <1>1. K \in Nat
    BY WorkersFinite, FS_CardinalityType
  <1>2. \A m \in Nat : f[w] < m => Cardinality(E(m)) = Cardinality(D(m)) + 1
    <2> SUFFICES ASSUME NEW m \in Nat, f[w] < m PROVE Cardinality(E(m)) = Cardinality(D(m)) + 1
      OBVIOUS
    <2>1. E(m) = D(m) \cup {w} /\ w \notin D(m)
      BY DEF Due
    <2>2. IsFiniteSet(D(m))
      BY DueSize
    <2> HIDE DEF D, E
    <2> QED
      BY <2>1, <2>2, FS_AddElement
  <1>3. \A m \in Nat : Cardinality(E(m)) \in Nat /\ Cardinality(D(m)) \in Nat
    BY DueSize
  <1>4. Left(Workers, f, L, K) \in Nat /\ Cardinality(Ladders(L, K)) \in Nat
    BY <1>1, LeftFacts, LaddersFinite
  <1>5. n + Left(Workers, f, L, K) < Cardinality(Ladders(L, K)) + Cardinality(D(L))
        /\ (f[w] = 0 => n <= Cardinality(D(1)))
    BY DEF Kept
  <1> HIDE DEF D, E, K
  <1>6. n + 1 + Left(Workers, f, L, K) < Cardinality(Ladders(L, K)) + Cardinality(E(L))
    BY <1>2, <1>3, <1>4, <1>5
  <1>7. f[w] = 0 => n + 1 <= Cardinality(E(1))
    BY <1>2, <1>3, <1>5
  <1> QED
    BY <1>6, <1>7 DEF Kept, E, K

\* A write.
LEMMA KeptWrite ==
    ASSUME NEW L \in Nat, NEW f \in [Workers -> Nat], NEW g \in [Workers -> Nat],
           NEW P \in SUBSET Workers, NEW v \in Workers, NEW X \in SUBSET (Workers \ {v}),
           NEW a \in Nat, NEW b \in Nat \ {0}, b = f[v] + 1 \/ (b >= L /\ f[v] + 1 >= L),
           g[v] = b,
           \A w \in X : f[w] = a /\ g[w] = b,
           \A w \in Workers \ (X \cup {v}) : g[w] = f[w],
           NEW n \in Nat, Kept(Workers, f, P, L, n, a)
    PROVE  Kept(Workers, g, P \ {v}, L, n, b)
  <1> DEFINE K == Cardinality(Workers)
             C == Cardinality(Ladders(L, K))
             F == Left(Workers, f, L, K)
             G == Left(Workers, g, L, K)
             D == Cardinality(Due(f, P, L))
             E == Cardinality(Due(g, P \ {v}, L))
  <1>1. G + D <= F + E
    BY WriteClimbs, ZenonT(60)
  <1>2. K \in Nat
    BY WorkersFinite, FS_CardinalityType
  <1>3. F \in Nat /\ G \in Nat /\ C \in Nat /\ D \in Nat /\ E \in Nat
    BY <1>2, LeftFacts, DueSize, LaddersFinite
  <1>4. n + F < C + D
    BY DEF Kept
  <1>5. n + G < C + E
    <2> HIDE DEF C, D, E, F, G
    <2> QED
      BY <1>1, <1>3, <1>4
  <1> QED
    BY <1>5 DEF Kept

\* What the invariant is for.
LEMMA KeptBound ==
    ASSUME NEW L \in Nat, NEW f \in [Workers -> Nat], NEW P \in SUBSET Workers, NEW n \in Nat, NEW a,
           Kept(Workers, f, P, L, n, a)
    PROVE  n <= Cardinality(Ladders(L, Cardinality(Workers))) - 1
  <1> DEFINE K == Cardinality(Workers)
             C == Cardinality(Ladders(L, K))
             F == Left(Workers, f, L, K)
             D == Cardinality(Due(f, P, L))
  <1>1. K \in Nat
    BY WorkersFinite, FS_CardinalityType
  <1>2. F \in Nat /\ C \in Nat /\ D \in Nat /\ D <= F
    BY <1>1, LeftFacts, DueSize, LaddersFinite
  <1>3. n + F < C + D
    BY DEF Kept
  <1> HIDE DEF C, D, F
  <1>4. n <= C - 1
    BY <1>2, <1>3
  <1> QED
    BY <1>4 DEF C

LEMMA MaxWrongType == MaxWrong \in Nat
  <1>1. Threshold \in Nat /\ Cardinality(Workers) \in Nat
    BY ThresholdAssumption, WorkersFinite, FS_CardinalityType
  <1>2. Cardinality(Ladders(Threshold, Cardinality(Workers))) \in Nat \ {0}
    BY <1>1, LaddersSome
  <1> QED
    BY <1>2 DEF MaxWrong

LEMMA UpToType == \A n \in Nat : UpTo(n) \in 0 .. MaxWrong + 1
  BY MaxWrongType DEF UpTo

-----------------------------------------------------------------------------
(***************************************************************************)
(* Jobs                                                                    *)
(***************************************************************************)
\* What a job of each kind carries.
LEMMA JobKind ==
    ASSUME NEW j \in Job
    PROVE  /\ j.k = "write" => j.seen \in 0 .. MaxWrong + 1
           /\ j.k = "force" => j.must \in BOOLEAN
           /\ j.k = "change" => /\ j.mail \in BOOLEAN /\ j.mail2fa \in BOOLEAN
                                /\ j.must \in BOOLEAN
           /\ j.k = "enable" => j.totp \in BOOLEAN
           /\ j.k = "disable" => j.totp \in BOOLEAN /\ j.secret \in BOOLEAN
  BY DEF Job, Idle

\* The jobs there are.
LEMMA JobIn ==
    /\ Idle \in Job
    /\ \A k \in {"fail", "clear", "check", "send", "mark", "grant"} : [k |-> k] \in Job
    /\ \A n \in 0 .. MaxWrong + 1 : [k |-> "write", seen |-> n] \in Job
    /\ \A x \in BOOLEAN : /\ [k |-> "force", must |-> x] \in Job
                          /\ [k |-> "enable", totp |-> x] \in Job
    /\ \A x, y \in BOOLEAN : [k |-> "disable", totp |-> x, secret |-> y] \in Job
    /\ \A x, y, z \in BOOLEAN : [k |-> "change", mail |-> x, mail2fa |-> y, must |-> z] \in Job
  BY DEF Job

LEMMA Does == ASSUME TypeOK, NEW w \in Workers, NEW j \in Job, job' = [job EXCEPT ![w] = j]
              PROVE  job' \in [Workers -> Job]
  BY DEF TypeOK

LEMMA RowType == TypeOK => /\ account.mail \in BOOLEAN /\ account.mail2fa \in BOOLEAN
                           /\ account.must \in BOOLEAN /\ account.totp \in BOOLEAN
                           /\ account.secret \in BOOLEAN
  BY DEF TypeOK, AccountRow

LEMMA AfterPasswordType == TypeOK => AfterPassword \in Job
  BY RowType, JobIn DEF AfterPassword

-----------------------------------------------------------------------------
(***************************************************************************)
(* Types                                                                   *)
(***************************************************************************)
\* A changed row is a row.
LEMMA RowIn ==
    ASSUME TypeOK, NEW m \in BOOLEAN, NEW f \in BOOLEAN, NEW u \in BOOLEAN, NEW t \in BOOLEAN,
           NEW s \in BOOLEAN
    PROVE  /\ [account EXCEPT !.must = u, !.mail = m, !.mail2fa = f] \in AccountRow
           /\ [account EXCEPT !.secret = s, !.totp = t] \in AccountRow
           /\ [account EXCEPT !.must = u] \in AccountRow
           /\ [account EXCEPT !.mail = m] \in AccountRow
  BY DEF TypeOK, AccountRow

LEMMA TypeInit == Init => TypeOK
  <1> SUFFICES ASSUME Init PROVE TypeOK
    OBVIOUS
  <1>1. account \in AccountRow /\ guessing \in BOOLEAN
    BY DEF Init
  <1>2. job \in [Workers -> Job]
    BY JobIn DEF Init
  <1>3. 0 \in 0 .. MaxWrong + 1 /\ 0 \in 0 .. Cardinality(Workers) + 1
    BY MaxWrongType, MostType DEF Most
  <1>4. count \in 0 .. MaxWrong + 1 /\ tries \in 0 .. MaxWrong + 1
    BY <1>3 DEF Init
  <1>5. mails \in 0 .. Cardinality(Workers) + 1 /\ bare \in 0 .. Cardinality(Workers) + 1
    BY <1>3 DEF Init
  <1>6. lock = "none" /\ recent = FALSE /\ out = {}
    BY DEF Init
  <1> QED
    BY <1>1, <1>2, <1>4, <1>5, <1>6 DEF TypeOK, Locks

\* Steps that concern the record of failed attempts.
LEMMA TypeRecord ==
    ASSUME TypeOK, NEW w \in Workers,
           \/ \E right \in BOOLEAN : EnterPassword(w, right)
           \/ ReadRecord(w) \/ WriteRecord(w) \/ ClearRecord(w)
    PROVE  TypeOK'
  <1> USE MaxWrongType, MostType, JobIn, Does DEF lockVars, mailVars, userVars
  <1>1. ASSUME NEW right \in BOOLEAN, EnterPassword(w, right) PROVE TypeOK'
    <2>1. tries' \in 0 .. MaxWrong + 1
      BY <1>1, UpToType DEF EnterPassword, TypeOK
    <2> QED
      BY <1>1, <2>1 DEF EnterPassword, TypeOK
  <1>2. CASE ReadRecord(w)
    <2>1. (IF lock = "over" THEN 0 ELSE count) \in 0 .. MaxWrong + 1
      BY DEF TypeOK
    <2>2. job' \in [Workers -> Job]
      BY <1>2, <2>1 DEF ReadRecord
    <2> QED
      BY <1>2, <2>2 DEF ReadRecord, TypeOK
  <1>3. CASE WriteRecord(w)
    <2>1. job[w].seen + 1 \in Nat
      BY <1>3, JobKind DEF WriteRecord, TypeOK
    <2>2. count' \in 0 .. MaxWrong + 1
      BY <1>3, <2>1, UpToType DEF WriteRecord
    <2> QED
      BY <1>3, <2>2 DEF WriteRecord, TypeOK, Locks
  <1>4. CASE ClearRecord(w)
    <2>1. job' \in [Workers -> Job]
      BY <1>4, AfterPasswordType DEF ClearRecord
    <2>2. out' \subseteq Cookies
      BY <1>4 DEF ClearRecord, TypeOK, Cookies
    <2> QED
      BY <1>4, <2>1, <2>2 DEF ClearRecord, TypeOK, Locks
  <1> QED
    BY <1>1, <1>2, <1>3, <1>4

\* Steps that mail a code.
LEMMA TypeMail ==
    ASSUME TypeOK, NEW w \in Workers,
           CheckInterval(w) \/ ChooseMail(w) \/ AskAgain(w) \/ SendCode(w) \/ MarkSent(w)
    PROVE  TypeOK'
  <1> USE MaxWrongType, MostType, JobIn, Does DEF lockVars, mailVars, userVars
  <1>1. CASE CheckInterval(w)
    BY <1>1 DEF CheckInterval, TypeOK
  <1>2. CASE ChooseMail(w) \/ AskAgain(w)
    BY <1>2 DEF ChooseMail, AskAgain, TypeOK
  <1>3. CASE SendCode(w)
    <2>1. mails' \in 0 .. Cardinality(Workers) + 1
      BY <1>3 DEF SendCode, TypeOK, Most
    <2>3. out' \subseteq Cookies
      BY <1>3 DEF SendCode, TypeOK, Cookies
    <2>2. job' \in [Workers -> Job]
      BY <1>3 DEF SendCode
    <2> QED
      BY <1>3, <2>1, <2>2, <2>3 DEF SendCode, TypeOK
  <1>4. CASE MarkSent(w)
    BY <1>4 DEF MarkSent, TypeOK
  <1> QED
    BY <1>1, <1>2, <1>3, <1>4

\* Steps that open or end a session.
LEMMA TypeSession ==
    ASSUME TypeOK,
           \/ \E w \in Workers : CompleteLogin(w) \/ ForceSetup(w)
           \/ EnterCode \/ Logout \/ EnterPortal \/ ShowSecret \/ ShowPortalSecret
    PROVE  TypeOK'
  <1> USE MaxWrongType, MostType, JobIn, Does DEF lockVars, mailVars, userVars
  <1>2. CountBare => bare' \in 0 .. Cardinality(Workers) + 1
    BY DEF CountBare, Most, TypeOK
  <1>3. ASSUME NEW w \in Workers, CompleteLogin(w) PROVE TypeOK'
    <2>1. job' \in [Workers -> Job]
      BY <1>3 DEF CompleteLogin
    <2> QED
      BY <1>2, <1>3, <2>1 DEF CompleteLogin, TypeOK, Cookies
  <1>4. ASSUME NEW w \in Workers, ForceSetup(w) PROVE TypeOK'
    <2>1. job' \in [Workers -> Job]
      BY <1>4 DEF ForceSetup
    <2>2. job[w].must \in BOOLEAN
      BY <1>4, JobKind DEF ForceSetup, TypeOK
    <2>3. account' \in AccountRow
      BY <1>4, <2>2, RowType DEF ForceSetup, TypeOK, AccountRow
    <2> QED
      BY <1>2, <1>4, <2>1, <2>3 DEF ForceSetup, TypeOK, Cookies
  <1>5. CASE EnterCode \/ Logout \/ EnterPortal \/ ShowSecret \/ ShowPortalSecret
    BY <1>5 DEF EnterCode, Logout, EnterPortal, ShowSecret, ShowPortalSecret, TypeOK, Cookies
  <1> QED
    BY <1>3, <1>4, <1>5

\* Steps of the pages that change the account.
LEMMA TypePages ==
    ASSUME TypeOK,
           \/ \E w \in Workers :
                \/ LoadChangePassword(w) \/ LoadEnable(w) \/ LoadDisable(w)
                \/ LoadPortalEnable(w) \/ LoadPortalDisable(w)
                \/ CommitChangePassword(w) \/ CommitEnable(w) \/ CommitDisable(w)
           \/ SetMail
    PROVE  TypeOK'
  <1> USE MaxWrongType, MostType, JobIn, Does, RowType DEF lockVars, mailVars, userVars
  <1>1. \A row : Becomes(row) => bare' \in 0 .. Cardinality(Workers) + 1 /\ account' = row
    BY DEF Becomes, TypeOK, Most
  <1>2. ASSUME NEW w \in Workers, LoadChangePassword(w) PROVE TypeOK'
    <2>1. job' \in [Workers -> Job]
      BY <1>2 DEF LoadChangePassword
    <2> QED
      BY <1>2, <2>1 DEF LoadChangePassword, TypeOK
  <1>3. ASSUME NEW w \in Workers, EnableTotp(w) PROVE TypeOK'
    BY <1>3 DEF EnableTotp, TypeOK
  <1>4. ASSUME NEW w \in Workers, DisableTotp(w) PROVE TypeOK'
    BY <1>4 DEF DisableTotp, TypeOK
  <1>5. ASSUME NEW w \in Workers, CommitChangePassword(w) PROVE TypeOK'
    <2>1. job[w].mail \in BOOLEAN /\ job[w].mail2fa \in BOOLEAN /\ job[w].must \in BOOLEAN
      BY <1>5, JobKind DEF CommitChangePassword, TypeOK
    <2>2. PICK m, g, f \in BOOLEAN : Becomes([account EXCEPT !.must = m, !.mail = g, !.mail2fa = f])
      BY <1>5, <2>1 DEF CommitChangePassword
    <2>3. account' \in AccountRow
      <3>1. [account EXCEPT !.must = m, !.mail = g, !.mail2fa = f] \in AccountRow
        BY RowIn
      <3> QED
        BY <2>2, <3>1 DEF Becomes
    <2>4. job' \in [Workers -> Job]
      BY <1>5 DEF CommitChangePassword
    <2> QED
      BY <1>1, <1>5, <2>2, <2>3, <2>4 DEF CommitChangePassword, TypeOK
  <1>6. ASSUME NEW w \in Workers, CommitEnable(w) PROVE TypeOK'
    <2>1. job[w].totp \in BOOLEAN
      BY <1>6, JobKind DEF CommitEnable, TypeOK
    <2>2. account' \in AccountRow
      <3>1. PICK t \in BOOLEAN : Becomes([account EXCEPT !.secret = TRUE, !.totp = t])
        BY <1>6, <2>1 DEF CommitEnable
      <3>2. [account EXCEPT !.secret = TRUE, !.totp = t] \in AccountRow
        BY RowIn
      <3> QED
        BY <3>1, <3>2 DEF Becomes
    <2> QED
      BY <1>1, <1>6, <2>2 DEF CommitEnable, TypeOK
  <1>7. ASSUME NEW w \in Workers, CommitDisable(w) PROVE TypeOK'
    <2>1. job[w].totp \in BOOLEAN /\ job[w].secret \in BOOLEAN
      BY <1>7, JobKind DEF CommitDisable, TypeOK
    <2>2. account' \in AccountRow
      <3>1. PICK s, t \in BOOLEAN : Becomes([account EXCEPT !.secret = s, !.totp = t])
        BY <1>7, <2>1 DEF CommitDisable
      <3>2. [account EXCEPT !.secret = s, !.totp = t] \in AccountRow
        BY RowIn
      <3> QED
        BY <3>1, <3>2 DEF Becomes
    <2> QED
      BY <1>1, <1>7, <2>2 DEF CommitDisable, TypeOK
  <1>8. CASE SetMail
    <2>1. account' \in AccountRow
      <3>1. [account EXCEPT !.mail = TRUE] \in AccountRow
        BY RowIn
      <3> QED
        BY <1>8, <3>1 DEF SetMail, Becomes
    <2> QED
      BY <1>1, <1>8, <2>1 DEF SetMail, TypeOK
  <1> QED
    BY <1>2, <1>3, <1>4, <1>5, <1>6, <1>7, <1>8
       DEF LoadEnable, LoadDisable, LoadPortalEnable, LoadPortalDisable

LEMMA TypeTime == ASSUME TypeOK, Lapse \/ NextInterval PROVE TypeOK'
  <1>1. CASE Lapse
    BY <1>1, MaxWrongType DEF Lapse, TypeOK, Locks, mailVars, userVars
  <1>2. CASE NextInterval
    <2> DEFINE M == {w \in Workers : job[w].k = "mark"}
    <2>1. Cardinality(M) \in 0 .. Most
      <3>1. M \in SUBSET Workers
        OBVIOUS
      <3> QED
        BY <3>1, WorkersAssumption, FS_Subset, FS_CardinalityType DEF Most
    <2>2. mails' \in 0 .. Cardinality(Workers) + 1
      BY <1>2, <2>1, MostType DEF NextInterval, Most
    <2> QED
      BY <1>2, <2>2 DEF NextInterval, TypeOK, lockVars, userVars
  <1> QED
    BY <1>1, <1>2

LEMMA TypeStep == TypeOK /\ [Next]_vars => TypeOK'
  <1> SUFFICES ASSUME TypeOK, [Next]_vars PROVE TypeOK'
    OBVIOUS
  <1>1. CASE UNCHANGED vars
    BY <1>1 DEF vars, TypeOK
  <1>2. CASE Next
    BY <1>2, TypeRecord, TypeMail, TypeSession, TypePages, TypeTime DEF Next, Handle
  <1> QED
    BY <1>1, <1>2

\* Every variable keeps its type; a lock has reached the threshold.
THEOREM TypeCorrect == Spec => []TypeOK
  BY TypeInit, TypeStep, PTL DEF Spec

-----------------------------------------------------------------------------
(***************************************************************************)
(* Mails of one interval                                                   *)
(***************************************************************************)
At(k) == {w \in Workers : job[w].k = k}

\* While no mark stands, every mail of the interval has a worker that is about
\* to write it; and the mails sent and the ones on their way share the workers.
MailInv ==
    /\ ~recent => mails <= Cardinality(At("mark"))
    /\ mails + Cardinality(At("send")) <= Most

\* Two disjoint sets of workers are at most all of them.
LEMMA Disjoint ==
    ASSUME NEW A \in SUBSET Workers, NEW B \in SUBSET Workers, A \cap B = {}
    PROVE  /\ IsFiniteSet(A) /\ Cardinality(A) \in Nat /\ Cardinality(B) \in Nat
           /\ Cardinality(A) + Cardinality(B) <= Most
  <1>1. IsFiniteSet(A) /\ Cardinality(A) \in Nat /\ IsFiniteSet(B) /\ Cardinality(B) \in Nat
    BY WorkersAssumption, FS_Subset, FS_CardinalityType
  <1>2. A \cup B \in SUBSET Workers
    OBVIOUS
  <1>3. Cardinality(A \cup B) <= Most
    BY <1>2, WorkersAssumption, FS_Subset DEF Most
  <1>4. Cardinality(A \cup B) = Cardinality(A) + Cardinality(B) - Cardinality(A \cap B)
    BY <1>1, FS_Union
  <1>5. Cardinality(A \cap B) = 0
    BY FS_EmptySet
  <1> QED
    BY <1>1, <1>3, <1>4, <1>5

LEMMA AtFinite == \A k : IsFiniteSet(At(k)) /\ Cardinality(At(k)) \in Nat
  <1> SUFFICES ASSUME NEW k PROVE IsFiniteSet(At(k)) /\ Cardinality(At(k)) \in Nat
    OBVIOUS
  <1>1. At(k) \in SUBSET Workers
    BY DEF At
  <1> QED
    BY <1>1, WorkersAssumption, FS_Subset, FS_CardinalityType

LEMMA SendersAndMarkers == Cardinality(At("send")) + Cardinality(At("mark")) <= Most
  <1>1. At("send") \in SUBSET Workers /\ At("mark") \in SUBSET Workers
        /\ At("send") \cap At("mark") = {}
    BY DEF At
  <1> QED
    BY <1>1, Disjoint

\* A worker that takes another job leaves one set and joins the other.
LEMMA Moves ==
    ASSUME TypeOK, NEW w \in Workers, NEW j \in Job, job' = [job EXCEPT ![w] = j], NEW k
    PROVE  /\ job[w].k # k /\ j.k = k =>
                /\ At(k)' = At(k) \cup {w}
                /\ Cardinality(At(k))' = Cardinality(At(k)) + 1
           /\ job[w].k = k /\ j.k # k =>
                /\ At(k)' = At(k) \ {w}
                /\ Cardinality(At(k))' = Cardinality(At(k)) - 1
           /\ job[w].k # k /\ j.k # k => At(k)' = At(k)
  <1>1. \A v \in Workers : job'[v] = IF v = w THEN j ELSE job[v]
    BY DEF TypeOK
  <1>2. CASE job[w].k # k /\ j.k = k
    <2>1. At(k)' = At(k) \cup {w} /\ w \notin At(k)
      BY <1>1, <1>2 DEF At
    <2>2. Cardinality(At(k) \cup {w}) = Cardinality(At(k)) + 1
      BY <2>1, AtFinite, FS_AddElement
    <2>3. Cardinality(At(k))' = Cardinality(At(k) \cup {w})
      BY <2>1
    <2> QED
      BY <1>2, <2>1, <2>2, <2>3
  <1>3. CASE job[w].k = k /\ j.k # k
    <2>1. At(k)' = At(k) \ {w} /\ w \in At(k)
      BY <1>1, <1>3 DEF At
    <2>2. Cardinality(At(k) \ {w}) = Cardinality(At(k)) - 1
      BY <2>1, AtFinite, FS_RemoveElement
    <2>3. Cardinality(At(k))' = Cardinality(At(k) \ {w})
      BY <2>1
    <2> QED
      BY <1>3, <2>1, <2>2, <2>3
  <1>4. ASSUME job[w].k # k, j.k # k PROVE At(k)' = At(k)
    BY <1>1, <1>4 DEF At
  <1> QED
    BY <1>2, <1>3, <1>4

LEMMA MailInit == Init => MailInv
  <1> SUFFICES ASSUME Init PROVE MailInv
    OBVIOUS
  <1>1. At("mark") = {} /\ At("send") = {}
    BY DEF Init, At, Idle
  <1> QED
    BY <1>1, FS_EmptySet, MostType DEF Init, MailInv

\* A step that neither sends nor marks nor begins to.
LEMMA MailKept ==
    ASSUME TypeOK, MailInv, UNCHANGED mailVars,
           \/ UNCHANGED job
           \/ \E w \in Workers, j \in Job : /\ job' = [job EXCEPT ![w] = j]
                                            /\ job[w].k \notin {"send", "mark"}
                                            /\ j.k \notin {"send", "mark"}
    PROVE  MailInv'
  <1>1. At("send")' = At("send") /\ At("mark")' = At("mark")
    <2>1. CASE UNCHANGED job
      BY <2>1 DEF At
    <2>2. ASSUME NEW w \in Workers, NEW j \in Job, job' = [job EXCEPT ![w] = j],
                 job[w].k \notin {"send", "mark"}, j.k \notin {"send", "mark"}
          PROVE  At("send")' = At("send") /\ At("mark")' = At("mark")
      BY <2>2, Moves
    <2> QED
      BY <2>1, <2>2
  <1>2. Cardinality(At("send"))' = Cardinality(At("send"))
        /\ Cardinality(At("mark"))' = Cardinality(At("mark"))
    BY <1>1
  <1> QED
    BY <1>2 DEF MailInv, mailVars, Most

\* The jobs other steps begin or go on with are of no such kind.
LEMMA MailOthers ==
    ASSUME TypeOK, MailInv, NEW w \in Workers,
           \/ \E right \in BOOLEAN : EnterPassword(w, right)
           \/ ReadRecord(w) \/ WriteRecord(w) \/ ClearRecord(w)
           \/ ChooseMail(w) \/ AskAgain(w) \/ CompleteLogin(w) \/ ForceSetup(w)
           \/ LoadChangePassword(w) \/ EnableTotp(w) \/ DisableTotp(w)
           \/ CommitChangePassword(w) \/ CommitEnable(w) \/ CommitDisable(w)
    PROVE  MailInv'
  <1> USE JobIn, MailKept
  <1> DEFINE Quiet(j) == /\ job' = [job EXCEPT ![w] = j]
                         /\ job[w].k \notin {"send", "mark"} /\ j.k \notin {"send", "mark"}
  <1>1. ASSUME NEW right \in BOOLEAN, EnterPassword(w, right) PROVE MailInv'
    <2>1. \E j \in Job : Quiet(j)
      BY <1>1 DEF EnterPassword, Idle
    <2> QED
      BY <1>1, <2>1 DEF EnterPassword
  <1>2. CASE ReadRecord(w)
    <2>1. (IF lock = "over" THEN 0 ELSE count) \in 0 .. MaxWrong + 1
      BY MaxWrongType DEF TypeOK
    <2>2. \E j \in Job : Quiet(j)
      <3> DEFINE j == [k |-> "write", seen |-> IF lock = "over" THEN 0 ELSE count]
      <3>1. j \in Job
        BY <2>1
      <3>2. Quiet(j)
        BY <1>2 DEF ReadRecord
      <3> QED
        BY <3>1, <3>2
    <2> QED
      BY <1>2, <2>2 DEF ReadRecord
  <1>3. CASE WriteRecord(w) \/ CompleteLogin(w)
    <2>1. Quiet(Idle)
      BY <1>3 DEF WriteRecord, CompleteLogin, Idle
    <2> QED
      BY <1>3, <2>1 DEF WriteRecord, CompleteLogin
  <1>4. CASE ClearRecord(w)
    <2>1. AfterPassword.k \notin {"send", "mark"}
      BY DEF AfterPassword, Idle
    <2>2. Quiet(AfterPassword)
      BY <1>4, <2>1 DEF ClearRecord
    <2> QED
      BY <1>4, <2>2, AfterPasswordType DEF ClearRecord
  <1>5. CASE ChooseMail(w) \/ AskAgain(w)
    <2>1. Quiet([k |-> "check"])
      BY <1>5 DEF ChooseMail, AskAgain, Idle
    <2> QED
      BY <1>5, <2>1 DEF ChooseMail, AskAgain
  <1>6. CASE ForceSetup(w) \/ CommitChangePassword(w) \/ CommitEnable(w) \/ CommitDisable(w)
    <2>1. Quiet(Idle)
      BY <1>6 DEF ForceSetup, CommitChangePassword, CommitEnable, CommitDisable, Idle
    <2> QED
      BY <1>6, <2>1 DEF ForceSetup, CommitChangePassword, CommitEnable, CommitDisable
  <1>7. CASE LoadChangePassword(w)
    <2> DEFINE j == [k |-> "change", mail |-> account.mail, mail2fa |-> account.mail2fa,
                     must |-> account.must]
    <2>1. j \in Job
      BY RowType
    <2>2. Quiet(j)
      BY <1>7 DEF LoadChangePassword, Idle
    <2> QED
      BY <1>7, <2>1, <2>2 DEF LoadChangePassword
  <1>8. CASE EnableTotp(w)
    <2>1. [k |-> "enable", totp |-> account.totp] \in Job
      BY RowType
    <2>2. Quiet([k |-> "enable", totp |-> account.totp])
      BY <1>8 DEF EnableTotp, Idle
    <2> QED
      BY <1>8, <2>1, <2>2 DEF EnableTotp
  <1>9. CASE DisableTotp(w)
    <2>1. [k |-> "disable", totp |-> account.totp, secret |-> account.secret] \in Job
      BY RowType
    <2>2. Quiet([k |-> "disable", totp |-> account.totp, secret |-> account.secret])
      BY <1>9 DEF DisableTotp, Idle
    <2> QED
      BY <1>9, <2>1, <2>2 DEF DisableTotp
  <1> QED
    BY <1>1, <1>2, <1>3, <1>4, <1>5, <1>6, <1>7, <1>8, <1>9

\* Steps that look at the interval, send, or mark.
LEMMA MailSteps ==
    ASSUME TypeOK, MailInv, NEW w \in Workers, CheckInterval(w) \/ SendCode(w) \/ MarkSent(w)
    PROVE  MailInv'
  <1> DEFINE S == Cardinality(At("send"))
             M == Cardinality(At("mark"))
  <1>1. S \in Nat /\ M \in Nat /\ S + M <= Most /\ mails \in Nat /\ Most \in Nat /\ Most' = Most
    BY AtFinite, SendersAndMarkers, MostType DEF TypeOK, Most
  <1>2. CASE CheckInterval(w)
    <2>1. CASE recent
      BY <1>2, <2>1, MailKept, JobIn DEF CheckInterval, Idle
    <2>2. CASE ~recent
      <3>0. [k |-> "send"] \in Job /\ [k |-> "send"].k = "send"
        BY JobIn
      <3>1. PICK j \in Job : job' = [job EXCEPT ![w] = j] /\ job[w].k = "check" /\ j.k = "send"
        BY <1>2, <2>2, <3>0 DEF CheckInterval
      <3>2. At("mark")' = At("mark") /\ At("send")' = At("send") \cup {w}
        BY <3>1 DEF At, TypeOK
      <3>3. S' = S + 1 /\ M' = M
        BY <3>1, <3>2, Moves
      <3>4. ~recent' /\ mails' = mails
        BY <1>2, <2>2 DEF CheckInterval, mailVars
      <3>5. mails <= M
        BY <2>2 DEF MailInv
      <3>6. S + 1 + M <= Most
        <4>1. At("send") \cup {w} \in SUBSET Workers /\ At("mark") \in SUBSET Workers
              /\ (At("send") \cup {w}) \cap At("mark") = {}
          BY <3>1 DEF At
        <4>2. Cardinality(At("send") \cup {w}) + M <= Most
          BY <4>1, Disjoint
        <4>3. Cardinality(At("send") \cup {w}) = S + 1
          BY <3>2, <3>3
        <4> QED
          BY <4>2, <4>3
      <3> QED
        BY <1>1, <3>3, <3>4, <3>5, <3>6 DEF MailInv
    <2> QED
      BY <2>1, <2>2
  <1>3. CASE SendCode(w)
    <2>1. job[w].k = "send" /\ recent' = recent
      BY <1>3 DEF SendCode
    <2>2. CASE job' = [job EXCEPT ![w] = [k |-> "mark"]]
      <3>0. [k |-> "mark"] \in Job /\ [k |-> "mark"].k = "mark"
        BY JobIn
      <3>3. PICK j \in Job : job' = [job EXCEPT ![w] = j] /\ j.k = "mark"
        BY <2>2, <3>0
      <3>1. S' = S - 1 /\ M' = M + 1
        BY <2>1, <3>3, Moves, ZenonT(60)
      <3>2. mails' \in Nat /\ mails' <= mails + 1
        BY <1>1, <1>3, MostType DEF SendCode, Most
      <3> QED
        BY <1>1, <2>1, <3>1, <3>2 DEF MailInv
    <2>3. CASE job' = [job EXCEPT ![w] = Idle] /\ mails' = mails
      <3>0. Idle \in Job /\ Idle.k = "idle"
        BY JobIn DEF Idle
      <3>2. PICK j \in Job : job' = [job EXCEPT ![w] = j] /\ j.k = "idle"
        BY <2>3, <3>0
      <3>1. S' = S - 1 /\ M' = M
        <4>1. At("mark")' = At("mark")
          BY <2>1, <3>2 DEF At, TypeOK
        <4> QED
          BY <2>1, <3>2, <4>1, Moves, ZenonT(60)
      <3> QED
        BY <1>1, <2>1, <2>3, <3>1 DEF MailInv
    <2> QED
      BY <1>3, <2>2, <2>3 DEF SendCode
  <1>4. CASE MarkSent(w)
    <2>1. job[w].k = "mark" /\ recent' /\ mails' = mails
      BY <1>4 DEF MarkSent
    <2>4. Idle \in Job /\ Idle.k = "idle"
      BY JobIn DEF Idle
    <2>5. PICK j \in Job : job' = [job EXCEPT ![w] = j] /\ j.k = "idle"
      BY <1>4, <2>4 DEF MarkSent
    <2>2. At("send")' = At("send")
      BY <2>1, <2>5 DEF At, TypeOK
    <2>3. S' = S
      BY <2>2
    <2> QED
      BY <1>1, <2>1, <2>3 DEF MailInv
  <1> QED
    BY <1>2, <1>3, <1>4

\* The mails whose marks are still to be written are the next interval's first.
LEMMA MailNextInterval == ASSUME TypeOK, MailInv, NextInterval PROVE MailInv'
  <1>1. mails' = Cardinality(At("mark")) /\ ~recent' /\ job' = job
    BY DEF NextInterval, At
  <1>2. At("send")' = At("send") /\ At("mark")' = At("mark")
    BY <1>1 DEF At
  <1>3. Cardinality(At("send"))' = Cardinality(At("send"))
        /\ Cardinality(At("mark"))' = Cardinality(At("mark"))
    BY <1>2
  <1> QED
    BY <1>1, <1>3, AtFinite, SendersAndMarkers, MostType DEF MailInv, Most

LEMMA MailStep == TypeOK /\ MailInv /\ [Next]_vars => MailInv'
  <1> SUFFICES ASSUME TypeOK, MailInv, [Next]_vars PROVE MailInv'
    OBVIOUS
  <1>1. CASE UNCHANGED vars
    BY <1>1, MailKept DEF vars, mailVars
  <1>2. CASE EnterCode \/ Logout \/ EnterPortal \/ ShowSecret \/ ShowPortalSecret \/ SetMail \/ Lapse
    BY <1>2, MailKept DEF EnterCode, Logout, EnterPortal, ShowSecret, ShowPortalSecret, SetMail, Lapse
  <1>3. CASE NextInterval
    BY <1>3, MailNextInterval
  <1>4. ASSUME NEW w \in Workers,
               \/ \E right \in BOOLEAN : EnterPassword(w, right)
               \/ ChooseMail(w) \/ AskAgain(w) \/ LoadChangePassword(w)
               \/ LoadEnable(w) \/ LoadDisable(w) \/ LoadPortalEnable(w) \/ LoadPortalDisable(w)
               \/ Handle(w)
        PROVE  MailInv'
    BY <1>4, MailOthers, MailSteps
       DEF Handle, LoadEnable, LoadDisable, LoadPortalEnable, LoadPortalDisable
  <1> QED
    BY <1>1, <1>2, <1>3, <1>4 DEF Next

\* However many logins ask for a code at once, an interval sees at most one
\* mail of every worker (_admin_2fa_email_is_rate_limited).
THEOREM MailsAreBounded == Spec => []MailsBounded
  <1>1. TypeOK /\ MailInv => MailsBounded
    <2> SUFFICES ASSUME TypeOK, MailInv PROVE mails <= Most
      BY DEF MailsBounded, Most
    <2> QED
      BY AtFinite, MostType DEF MailInv, TypeOK
  <1> QED
    BY <1>1, MailInit, MailStep, TypeInit, TypeStep, PTL DEF Spec

-----------------------------------------------------------------------------
(***************************************************************************)
(* Sessions opened with the password alone                                 *)
(***************************************************************************)
\* Codes would be mailed, but there is only the placeholder address.
Placeholder == account.mail2fa /\ ~account.mail

\* What workers may be about to do then.
Fits(j) == /\ j.k \notin {"grant", "enable", "disable"}
           /\ j.k = "force" /\ j.must => account.must
           /\ j.k = "change" => ~j.mail /\ j.mail2fa

\* As long as it is so, the administrator's session is good for nothing but the
\* forced change of the password, so nothing else has been set up.
PlaceholderInv ==
    Placeholder => /\ out \subseteq {"admin"}
                   /\ "admin" \in out => account.must
                   /\ ~account.totp /\ ~account.secret
                   /\ \A w \in Workers : Fits(job[w])

\* The workers that are about to open a session without a second factor.
Skipping == {w \in Workers : job[w].k \in {"grant", "force"}}

\* There is nothing to count while no second factor is usable; then each of
\* these workers may add one.
BareInv == /\ PlaceholderInv
           /\ ~Usable => bare = 0
           /\ bare + Cardinality(Skipping) <= Most

LEMMA BareInit == Init => BareInv
  <1> SUFFICES ASSUME Init PROVE BareInv
    OBVIOUS
  <1>1. Skipping = {} /\ \A w \in Workers : Fits(job[w])
    BY DEF Init, Skipping, Fits, Idle
  <1>2. ~account.totp /\ ~account.secret /\ out = {} /\ bare = 0
    BY DEF Init
  <1> QED
    BY <1>1, <1>2, FS_EmptySet, MostType DEF BareInv, PlaceholderInv

\* What the steps of a worker that are not its last ones put in its place.
LEMMA JobAfter ==
    ASSUME TypeOK, NEW w \in Workers, NEW j, job' = [job EXCEPT ![w] = j]
    PROVE  \A v \in Workers : job'[v] = IF v = w THEN j ELSE job[v]
  BY DEF TypeOK

\* A worker's step that begins none of these things.
Plain(w) ==
    \/ \E right \in BOOLEAN : EnterPassword(w, right)
    \/ ReadRecord(w) \/ WriteRecord(w) \/ ChooseMail(w) \/ AskAgain(w)
    \/ CheckInterval(w) \/ SendCode(w) \/ MarkSent(w)

LEMMA PlainJob ==
    ASSUME NEW w \in Workers, Plain(w)
    PROVE  \E j : /\ job' = [job EXCEPT ![w] = j]
                  /\ j.k \in {"idle", "clear", "fail", "write", "check", "send", "mark"}
  BY DEF Plain, EnterPassword, ReadRecord, WriteRecord, ChooseMail, AskAgain, CheckInterval,
         SendCode, MarkSent, Idle

LEMMA PlainUser ==
    ASSUME NEW w \in Workers, Plain(w)
    PROVE  /\ UNCHANGED <<account, bare>>
           /\ out' = out \/ account.mail
  BY DEF Plain, EnterPassword, ReadRecord, WriteRecord, ChooseMail, AskAgain, CheckInterval,
         SendCode, MarkSent, userVars

-----------------------------------------------------------------------------
\* While there is only the placeholder address, a step changes nothing of what
\* it means, or ends it.
LEMMA PlaceholderWorker ==
    ASSUME TypeOK, PlaceholderInv, Placeholder, Placeholder', NEW w \in Workers,
           \/ Plain(w) \/ ClearRecord(w) \/ CompleteLogin(w) \/ ForceSetup(w)
           \/ LoadChangePassword(w)
           \/ CommitChangePassword(w) \/ CommitEnable(w) \/ CommitDisable(w)
    PROVE  PlaceholderInv'
  <1>1. /\ out \subseteq {"admin"}
        /\ "admin" \in out => account.must
        /\ ~account.totp /\ ~account.secret
        /\ \A v \in Workers : Fits(job[v])
        /\ account.mail2fa /\ ~account.mail
    BY DEF PlaceholderInv, Placeholder
  <1>2. ASSUME NEW j, job' = [job EXCEPT ![w] = j], Fits(j), UNCHANGED <<account, out>>
        PROVE  PlaceholderInv'
    <2>1. \A v \in Workers : Fits(job[v])'
      BY <1>1, <1>2, JobAfter DEF Fits
    <2> QED
      BY <1>1, <1>2, <2>1 DEF PlaceholderInv
  <1>3. CASE Plain(w)
    <2>1. PICK j : /\ job' = [job EXCEPT ![w] = j]
                   /\ j.k \in {"idle", "clear", "fail", "write", "check", "send", "mark"}
      BY <1>3, PlainJob
    <2>2. UNCHANGED <<account, out>>
      BY <1>1, <1>3, PlainUser
    <2> QED
      BY <1>2, <2>1, <2>2 DEF Fits
  <1>4. CASE ClearRecord(w)
    <2> DEFINE j == [k |-> "force", must |-> account.must]
    <2>1. AfterPassword = j
      BY <1>1 DEF AfterPassword
    <2>2. Fits(j)
      BY DEF Fits
    <2>3. job' = [job EXCEPT ![w] = j] /\ UNCHANGED <<account, out>>
      BY <1>4, <2>1 DEF ClearRecord
    <2> HIDE DEF j
    <2> QED
      BY <1>2, <2>2, <2>3
  <1>5. CASE CompleteLogin(w)
    BY <1>1, <1>5 DEF CompleteLogin, Fits
  <1>6. CASE ForceSetup(w)
    <2>1. job[w].must \in BOOLEAN /\ (job[w].must => account.must) /\ account.must \in BOOLEAN
      BY <1>1, <1>6, JobKind, RowType DEF ForceSetup, Fits, TypeOK
    <2>2. account' = [account EXCEPT !.must = TRUE]
      <3>1. (account.must \/ ~job[w].must) = TRUE
        BY <2>1
      <3>2. account' = [account EXCEPT !.must = account.must \/ ~job[w].must]
        BY <1>6 DEF ForceSetup
      <3> QED
        BY <3>1, <3>2
    <2>3. /\ account'.must /\ account'.totp = account.totp /\ account'.secret = account.secret
      BY <2>2 DEF TypeOK, AccountRow
    <2>4. out' \subseteq {"admin"}
      BY <1>1, <1>6 DEF ForceSetup
    <2>5. \A v \in Workers : job'[v] = IF v = w THEN Idle ELSE job[v]
      BY <1>6, JobAfter DEF ForceSetup
    <2>6. \A v \in Workers : Fits(job[v])'
      BY <1>1, <2>3, <2>5 DEF Fits, Idle
    <2> QED
      BY <1>1, <2>3, <2>4, <2>6 DEF PlaceholderInv
  <1>7. CASE LoadChangePassword(w)
    <2> DEFINE j == [k |-> "change", mail |-> account.mail, mail2fa |-> account.mail2fa,
                     must |-> account.must]
    <2>1. Fits(j)
      BY <1>1 DEF Fits
    <2>2. job' = [job EXCEPT ![w] = j] /\ UNCHANGED <<account, out>>
      BY <1>7 DEF LoadChangePassword, userVars
    <2> HIDE DEF j
    <2> QED
      BY <1>2, <2>1, <2>2
  <1>9. CASE CommitChangePassword(w)
    <2>1. ~job[w].mail /\ job[w].mail2fa /\ job[w].mail2fa \in BOOLEAN
      BY <1>1, <1>9, JobKind DEF CommitChangePassword, Fits, TypeOK
    <2>2. PICK given \in BOOLEAN :
             Becomes([account EXCEPT !.must    = @ /\ ~job[w].must,
                                     !.mail    = @ \/ given,
                                     !.mail2fa = IF given = job[w].mail2fa THEN @ ELSE given])
      BY <1>9, <2>1 DEF CommitChangePassword
    <2>3. account'.mail = (account.mail \/ given)
          /\ account'.mail2fa = IF given = job[w].mail2fa THEN account.mail2fa ELSE given
      BY <2>2 DEF Becomes, TypeOK, AccountRow
    <2> QED
      BY <2>1, <2>3 DEF Placeholder
  <1>10. CASE CommitEnable(w) \/ CommitDisable(w)
    BY <1>1, <1>10 DEF CommitEnable, CommitDisable, Fits
  <1> QED
    BY <1>3, <1>4, <1>5, <1>6, <1>7, <1>9, <1>10

\* Nothing brings the placeholder address back once it is gone.
LEMMA PlaceholderEnds ==
    ASSUME TypeOK, [Next]_vars, Placeholder'
    PROVE  Placeholder
  <1>1. CASE UNCHANGED account
    BY <1>1 DEF Placeholder
  <1>2. ASSUME NEW w \in Workers, ForceSetup(w) PROVE Placeholder
    BY <1>2 DEF ForceSetup, Placeholder, TypeOK, AccountRow
  <1>3. ASSUME NEW w \in Workers, CommitChangePassword(w) PROVE Placeholder
    <2>1. job[w].mail \in BOOLEAN /\ job[w].mail2fa \in BOOLEAN
      BY <1>3, JobKind DEF CommitChangePassword, TypeOK
    <2>2. PICK given \in BOOLEAN, m \in BOOLEAN, f \in BOOLEAN :
             /\ Becomes([account EXCEPT !.must = m, !.mail = @ \/ given, !.mail2fa = f])
             /\ f => account.mail2fa \/ given
      <3>1. account.must \in BOOLEAN /\ account.mail2fa \in BOOLEAN
        BY RowType
      <3>2. job[w].must \in BOOLEAN
        BY <1>3, JobKind DEF CommitChangePassword, TypeOK
      <3>3. PICK given \in IF job[w].mail THEN {FALSE} ELSE BOOLEAN :
              LET mail2fa == IF job[w].mail THEN job[w].mail2fa ELSE given
              IN Becomes([account EXCEPT !.must    = @ /\ ~job[w].must,
                                         !.mail    = @ \/ given,
                                         !.mail2fa = IF mail2fa = job[w].mail2fa
                                                       THEN @ ELSE mail2fa])
        BY <1>3 DEF CommitChangePassword
      <3> DEFINE x == IF job[w].mail THEN job[w].mail2fa ELSE given
                 f == IF x = job[w].mail2fa THEN account.mail2fa ELSE x
                 m == account.must /\ ~job[w].must
      <3>4. Becomes([account EXCEPT !.must = m, !.mail = @ \/ given, !.mail2fa = f])
        BY <3>3
      <3>5. given \in BOOLEAN /\ f \in BOOLEAN /\ m \in BOOLEAN
            /\ (f => account.mail2fa \/ given)
        BY <2>1, <3>1, <3>2
      <3> HIDE DEF f, m
      <3> QED
        BY <3>4, <3>5
    <2>3. account'.mail = (account.mail \/ given) /\ account'.mail2fa = f
      BY <2>2 DEF Becomes, TypeOK, AccountRow
    <2> QED
      BY <2>2, <2>3 DEF Placeholder
  <1>4. ASSUME NEW w \in Workers, CommitEnable(w) \/ CommitDisable(w) PROVE Placeholder
    <2>1. account'.mail = account.mail /\ account'.mail2fa = account.mail2fa
      BY <1>4 DEF CommitEnable, CommitDisable, Becomes, TypeOK, AccountRow
    <2> QED
      BY <2>1 DEF Placeholder
  <1>5. CASE SetMail
    <2>1. account'.mail
      BY <1>5 DEF SetMail, Becomes, TypeOK, AccountRow
    <2> QED
      BY <2>1 DEF Placeholder
  <1> QED
    BY <1>1, <1>2, <1>3, <1>4, <1>5
       DEF vars, userVars, Next, Handle, EnterPassword, ReadRecord, WriteRecord, ClearRecord,
           CheckInterval, ChooseMail, AskAgain, SendCode, MarkSent, CompleteLogin,
           LoadChangePassword, LoadEnable, LoadDisable, LoadPortalEnable, LoadPortalDisable,
           EnableTotp, DisableTotp, EnterCode, Logout, EnterPortal, ShowSecret,
           ShowPortalSecret, Lapse, NextInterval

LEMMA PlaceholderStep ==
    ASSUME TypeOK, PlaceholderInv, [Next]_vars
    PROVE  PlaceholderInv'
  <1> SUFFICES ASSUME Placeholder' PROVE PlaceholderInv'
    BY DEF PlaceholderInv
  <1>1. Placeholder
    BY PlaceholderEnds
  <1>2. /\ out \subseteq {"admin"}
        /\ "admin" \in out => account.must
        /\ ~account.totp /\ ~account.mail
    BY <1>1 DEF PlaceholderInv, Placeholder
  <1>3. ASSUME UNCHANGED <<account, job>>, out' \subseteq out PROVE PlaceholderInv'
    BY <1>1, <1>3 DEF PlaceholderInv, Fits
  <1>4. CASE UNCHANGED vars
    BY <1>3, <1>4 DEF vars
  <1>5. CASE EnterCode \/ EnterPortal \/ ShowSecret \/ ShowPortalSecret
    BY <1>2, <1>5 DEF EnterCode, EnterPortal, Usable, ShowSecret, MayUsePages, ShowPortalSecret
  <1>6. CASE Logout \/ Lapse \/ NextInterval
    BY <1>3, <1>6 DEF Logout, Lapse, NextInterval, userVars
  <1>7. CASE SetMail
    <2>1. account'.mail
      BY <1>7 DEF SetMail, Becomes, TypeOK, AccountRow
    <2> QED
      BY <2>1 DEF Placeholder
  <1>8. ASSUME NEW w \in Workers,
               \/ Plain(w) \/ LoadChangePassword(w)
               \/ LoadEnable(w) \/ LoadDisable(w) \/ LoadPortalEnable(w) \/ LoadPortalDisable(w)
               \/ Handle(w)
        PROVE  PlaceholderInv'
    <2>1. CASE LoadEnable(w) \/ LoadDisable(w) \/ LoadPortalEnable(w) \/ LoadPortalDisable(w)
      BY <1>2, <2>1 DEF LoadEnable, LoadDisable, LoadPortalEnable, LoadPortalDisable, MayUsePages
    <2>2. CASE Plain(w) \/ LoadChangePassword(w) \/ Handle(w)
      BY <1>1, <2>2, PlaceholderWorker DEF Handle, Plain
    <2> QED
      BY <1>8, <2>1, <2>2
  <1> QED
    BY <1>4, <1>5, <1>6, <1>7, <1>8 DEF Next, Plain

-----------------------------------------------------------------------------
\* What every step does to bare.
BareEffect ==
    /\ ~Usable' => bare' = 0
    /\ \/ bare' = 0
       \/ bare' <= bare /\ Skipping' \subseteq Skipping
       \/ bare' <= bare + 1 /\ \E w \in Skipping : Skipping' \subseteq Skipping \ {w}

LEMMA BareKeeps ==
    ASSUME TypeOK, BareInv, TypeOK', PlaceholderInv', BareEffect
    PROVE  BareInv'
  <1> DEFINE S == Skipping
             T == Skipping'
  <1>1. S \in SUBSET Workers /\ T \in SUBSET Workers
    BY DEF Skipping
  <1>2. /\ IsFiniteSet(S) /\ Cardinality(S) \in Nat
        /\ IsFiniteSet(T) /\ Cardinality(T) \in Nat /\ Cardinality(T) <= Most
    BY <1>1, WorkersAssumption, FS_Subset, FS_CardinalityType DEF Most
  <1>3. bare \in Nat /\ bare' \in Nat /\ bare + Cardinality(S) <= Most
    BY DEF TypeOK, BareInv
  <1>4. bare' + Cardinality(T) <= Most
    <2>1. CASE bare' = 0
      BY <1>2, <2>1, MostType
    <2>2. CASE bare' <= bare /\ T \subseteq S
      <3>1. Cardinality(T) <= Cardinality(S)
        BY <1>2, <2>2, FS_Subset
      <3> QED
        BY <1>2, <1>3, <2>2, <3>1, MostType
    <2>3. CASE bare' <= bare + 1 /\ \E w \in S : T \subseteq S \ {w}
      <3>1. PICK w \in S : T \subseteq S \ {w}
        BY <2>3
      <3>2. IsFiniteSet(S \ {w}) /\ Cardinality(S \ {w}) = Cardinality(S) - 1
        BY <1>2, FS_RemoveElement
      <3>3. Cardinality(T) <= Cardinality(S \ {w})
        BY <3>1, <3>2, FS_Subset
      <3> QED
        BY <1>2, <1>3, <2>3, <3>2, <3>3, MostType
    <2> QED
      BY <2>1, <2>2, <2>3 DEF BareEffect
  <1>5. bare' + Cardinality(Skipping)' <= Most
    BY <1>4
  <1> QED
    BY <1>5 DEF BareInv, BareEffect, Most

\* A step that leaves the account and the count as they are.
LEMMA SameBare ==
    ASSUME TypeOK, BareInv, UNCHANGED <<account, bare>>, Skipping' \subseteq Skipping
    PROVE  BareEffect
  <1>1. Usable' = Usable
    BY DEF Usable
  <1>2. bare <= bare
    BY MostType DEF TypeOK, Most
  <1> QED
    BY <1>1, <1>2 DEF BareEffect, BareInv

\* A step that changes the account.
LEMMA ChangedBare ==
    ASSUME TypeOK, BareInv, NEW row, Becomes(row), Skipping' \subseteq Skipping
    PROVE  BareEffect
  <1>1. bare <= bare
    BY MostType DEF TypeOK, Most
  <1> QED
    BY <1>1 DEF BareEffect, Becomes

\* A worker that goes on to something else skips no second factor.
LEMMA SkippingAfter ==
    ASSUME TypeOK, NEW w \in Workers, NEW j, job' = [job EXCEPT ![w] = j],
           j.k \notin {"grant", "force"}
    PROVE  Skipping' \subseteq Skipping \ {w}
  <1>1. \A v \in Workers : job'[v] = IF v = w THEN j ELSE job[v]
    BY JobAfter
  <1>2. ASSUME NEW v \in Skipping' PROVE v \in Skipping \ {w}
    <2>1. v \in Workers /\ job'[v].k \in {"grant", "force"}
      BY <1>2 DEF Skipping
    <2>2. v # w
      BY <1>1, <2>1
    <2> QED
      BY <1>1, <2>1, <2>2 DEF Skipping
  <1> QED
    BY <1>2

\* A session that is opened with the password alone.
LEMMA OpenedBare ==
    ASSUME TypeOK, BareInv, NEW w \in Workers, CompleteLogin(w) \/ ForceSetup(w)
    PROVE  BareEffect
  <1>1. w \in Skipping
    BY DEF CompleteLogin, ForceSetup, Skipping
  <1>2. Skipping' \subseteq Skipping \ {w}
    <2>1. job' = [job EXCEPT ![w] = Idle] /\ Idle.k \notin {"grant", "force"}
      BY DEF CompleteLogin, ForceSetup, Idle
    <2> QED
      BY <2>1, SkippingAfter
  <1>3. Usable' = Usable
    BY DEF CompleteLogin, ForceSetup, Usable, TypeOK, AccountRow
  <1>4. CountBare
    BY DEF CompleteLogin, ForceSetup
  <1>5. bare' <= bare + 1 /\ (~Usable => bare' = 0)
    BY <1>4, MostType DEF CountBare, TypeOK, BareInv, Most
  <1> QED
    BY <1>1, <1>2, <1>3, <1>5 DEF BareEffect

\* The right password, before a second factor is asked for or not.
LEMMA ClearedBare ==
    ASSUME TypeOK, BareInv, NEW w \in Workers, ClearRecord(w)
    PROVE  BareEffect
  <1>1. UNCHANGED <<account, bare>>
    BY DEF ClearRecord
  <1>2. CASE AfterPassword.k \in {"grant", "force"}
    <2>1. ~Usable
      <3>1. \/ ~account.mail2fa /\ ~account.totp
            \/ account.mail2fa /\ ~account.mail
        BY <1>2 DEF AfterPassword, Idle
      <3>2. account.mail2fa /\ ~account.mail => ~account.totp
        BY DEF BareInv, PlaceholderInv, Placeholder
      <3> QED
        BY <3>1, <3>2 DEF Usable
    <2>2. bare' = 0
      BY <1>1, <2>1 DEF BareInv
    <2> QED
      BY <2>2 DEF BareEffect
  <1>3. CASE AfterPassword.k \notin {"grant", "force"}
    <2>1. Skipping' \subseteq Skipping \ {w}
      BY <1>3, SkippingAfter DEF ClearRecord
    <2> QED
      BY <1>1, <2>1, SameBare
  <1> QED
    BY <1>2, <1>3

LEMMA BareStep == TypeOK /\ BareInv /\ [Next]_vars => BareInv'
  <1> SUFFICES ASSUME TypeOK, BareInv, [Next]_vars PROVE BareEffect
    BY TypeStep, PlaceholderStep, BareKeeps DEF BareInv
  <1>1. ASSUME UNCHANGED job PROVE Skipping' \subseteq Skipping
    BY <1>1 DEF Skipping
  <1>2. CASE UNCHANGED vars
    BY <1>1, <1>2, SameBare DEF vars
  <1>3. CASE EnterCode \/ Logout \/ EnterPortal \/ ShowSecret \/ ShowPortalSecret
             \/ Lapse \/ NextInterval
    BY <1>1, <1>3, SameBare
       DEF EnterCode, Logout, EnterPortal, ShowSecret, ShowPortalSecret, Lapse, NextInterval,
           userVars
  <1>4. CASE SetMail
    BY <1>1, <1>4, ChangedBare DEF SetMail
  <1>5. ASSUME NEW w \in Workers, Plain(w) PROVE BareEffect
    <2>1. PICK j : /\ job' = [job EXCEPT ![w] = j]
                   /\ j.k \in {"idle", "clear", "fail", "write", "check", "send", "mark"}
      BY <1>5, PlainJob
    <2>2. Skipping' \subseteq Skipping
      BY <2>1, SkippingAfter
    <2> QED
      BY <1>5, <2>2, PlainUser, SameBare
  <1>6. ASSUME NEW w \in Workers,
               LoadChangePassword(w) \/ EnableTotp(w) \/ DisableTotp(w)
        PROVE  BareEffect
    <2>1. \E j : job' = [job EXCEPT ![w] = j] /\ j.k \in {"change", "enable", "disable"}
      <3>1. CASE LoadChangePassword(w)
        <4> DEFINE j == [k |-> "change", mail |-> account.mail, mail2fa |-> account.mail2fa,
                         must |-> account.must]
        <4>1. job' = [job EXCEPT ![w] = j] /\ j.k = "change"
          BY <3>1 DEF LoadChangePassword
        <4> HIDE DEF j
        <4> QED
          BY <4>1
      <3>2. CASE EnableTotp(w)
        <4> DEFINE j == [k |-> "enable", totp |-> account.totp]
        <4>1. job' = [job EXCEPT ![w] = j] /\ j.k = "enable"
          BY <3>2 DEF EnableTotp
        <4> QED
          BY <4>1
      <3>3. CASE DisableTotp(w)
        <4> DEFINE j == [k |-> "disable", totp |-> account.totp, secret |-> account.secret]
        <4>1. job' = [job EXCEPT ![w] = j] /\ j.k = "disable"
          BY <3>3 DEF DisableTotp
        <4> QED
          BY <4>1
      <3> QED
        BY <1>6, <3>1, <3>2, <3>3
    <2>2. Skipping' \subseteq Skipping
      BY <2>1, SkippingAfter
    <2>3. UNCHANGED <<account, bare>>
      BY <1>6 DEF LoadChangePassword, EnableTotp, DisableTotp, userVars
    <2> QED
      BY <2>2, <2>3, SameBare
  <1>7. ASSUME NEW w \in Workers,
               CommitChangePassword(w) \/ CommitEnable(w) \/ CommitDisable(w)
        PROVE  BareEffect
    <2>1. job' = [job EXCEPT ![w] = Idle] /\ Idle.k \notin {"grant", "force"}
      BY <1>7 DEF CommitChangePassword, CommitEnable, CommitDisable, Idle
    <2>2. Skipping' \subseteq Skipping
      BY <2>1, SkippingAfter
    <2>3. \E row : Becomes(row)
      BY <1>7 DEF CommitChangePassword, CommitEnable, CommitDisable
    <2> QED
      BY <2>2, <2>3, ChangedBare
  <1> QED
    BY <1>2, <1>3, <1>4, <1>5, <1>6, <1>7, OpenedBare, ClearedBare
       DEF Next, Handle, Plain, LoadEnable, LoadDisable, LoadPortalEnable, LoadPortalDisable

\* Once a second factor is usable, at most one session per worker is opened
\* with the password alone (login, require_admin, change_password).
THEOREM BareAreFew == Spec => []BareFew
  <1>1. TypeOK /\ BareInv => BareFew
    <2> SUFFICES ASSUME TypeOK, BareInv PROVE bare <= Most
      BY DEF BareFew, Most
    <2>1. Skipping \in SUBSET Workers
      BY DEF Skipping
    <2>2. Cardinality(Skipping) \in Nat
      BY <2>1, WorkersAssumption, FS_Subset, FS_CardinalityType
    <2> QED
      BY <2>2, MostType DEF BareInv, TypeOK
  <1> QED
    BY <1>1, BareInit, BareStep, TypeInit, TypeStep, PTL DEF Spec
-----------------------------------------------------------------------------
(***************************************************************************)
(* How many wrong passwords are compared                                   *)
(***************************************************************************)
\* The count that the next reader of the record starts from, whether a worker
\* is about to count a wrong password, and the count it has seen or will see.
Live == IF lock = "over" THEN 0 ELSE count
Failing(w) == job[w].k \in {"fail", "write"}
Sees(w) == IF job[w].k = "write" THEN job[w].seen ELSE Live

Levels == [w \in Workers |-> Sees(w)]
Writers == {w \in Workers : Failing(w)}

\* A record without a lock is below the threshold.
GuessInv == /\ TypeOK
            /\ lock = "none" => count < Threshold
            /\ Kept(Workers, Levels, Writers, Threshold, tries, Live)

\* What a step does to the record: nothing that matters, a wrong password, its
\* being read, its being counted, a success, and the end of a lock.
Others(w) == \A v \in Workers : v # w => job'[v] = job[v]
Same == Live' = Live /\ tries' = tries

\* What a write of s + 1 makes of the counter, in the bound it has.
Written(L, s, b) == b = s + 1 \/ (b >= L /\ s + 1 >= L)

Passes(w) == Others(w) /\ ~Failing(w) /\ ~Failing(w)' /\ Same
Guesses(w) == /\ Others(w) /\ ~Failing(w) /\ job'[w].k = "fail"
              /\ Live < Threshold /\ Live' = Live /\ tries' <= tries + 1
Reads(w) == /\ Others(w) /\ job[w].k = "fail" /\ job'[w].k = "write"
            /\ job'[w].seen = Live /\ Same
Writes(w) == /\ Others(w) /\ job[w].k = "write" /\ ~Failing(w)'
             /\ tries' = tries /\ Written(Threshold, job[w].seen, Live')
Clears(w) == Others(w) /\ ~Failing(w)' /\ Live' = 0 /\ tries' = 0
Ages == job' = job /\ (Same \/ ((\A w \in Workers : ~Failing(w)) /\ Live' = 0 /\ tries' = 0))

Affects(w) == Passes(w) \/ Guesses(w) \/ Reads(w) \/ Writes(w) \/ Clears(w)

LEMMA Takes ==
    ASSUME TypeOK, NEW w \in Workers, NEW j, job' = [job EXCEPT ![w] = j]
    PROVE  Others(w) /\ job'[w] = j
  BY DEF TypeOK, Others

LEMMA GuessFacts ==
    /\ Threshold \in Nat /\ Threshold >= 1 /\ MaxWrong \in Nat
    /\ Workers # {} => Threshold <= MaxWrong
  <1>1. Threshold \in Nat /\ Threshold >= 1 /\ MaxWrong \in Nat
    BY ThresholdAssumption, MaxWrongType
  <1>2. ASSUME Workers # {} PROVE Threshold <= MaxWrong
    <2>1. Cardinality(Workers) \in Nat \ {0}
      BY <1>2, WorkersFinite, FS_CardinalityType, FS_EmptySet
    <2>2. Threshold < Cardinality(Ladders(Threshold, Cardinality(Workers)))
      BY <1>1, <2>1, LaddersRoom
    <2> QED
      BY <1>1, <2>1, <2>2, LaddersSome DEF MaxWrong
  <1> QED
    BY <1>1, <1>2

LEMMA LiveType ==
    ASSUME TypeOK
    PROVE  /\ Live \in Nat /\ tries \in Nat
           /\ \A w \in Workers : Sees(w) \in Nat
  <1>1. Live \in Nat /\ tries \in Nat
    BY GuessFacts DEF TypeOK, Live
  <1>2. \A w \in Workers : job[w].k = "write" => job[w].seen \in Nat
    BY GuessFacts, JobKind DEF TypeOK
  <1> QED
    BY <1>1, <1>2 DEF Sees

LEMMA RecordAffects ==
    ASSUME TypeOK, lock = "none" => count < Threshold, NEW w \in Workers,
           \/ \E right \in BOOLEAN : EnterPassword(w, right)
           \/ ReadRecord(w) \/ WriteRecord(w) \/ ClearRecord(w)
    PROVE  Affects(w) /\ (lock' = "none" => count' < Threshold)
  <1>1. ASSUME NEW right \in BOOLEAN, EnterPassword(w, right)
        PROVE  Affects(w) /\ UNCHANGED <<count, lock>>
    <2>1. job[w].k = "idle" /\ lock # "on" /\ UNCHANGED <<count, lock>> /\ Live' = Live
      BY <1>1 DEF EnterPassword, Idle, Live
    <2>2. CASE right
      <3>1. PICK j : j = [k |-> "clear"]
        OBVIOUS
      <3>2. job' = [job EXCEPT ![w] = j] /\ tries' = tries
        BY <1>1, <2>2, <3>1 DEF EnterPassword
      <3>3. Others(w) /\ job'[w].k = "clear"
        <4>1. Others(w) /\ job'[w] = j
          BY <3>2, Takes
        <4>2. j.k = "clear"
          BY <3>1
        <4> QED
          BY <4>1, <4>2
      <3> QED
        BY <2>1, <3>2, <3>3 DEF Affects, Passes, Failing, Same
    <2>3. CASE ~right
      <3>1. PICK j : j = [k |-> "fail"]
        OBVIOUS
      <3>2. job' = [job EXCEPT ![w] = j] /\ tries' = UpTo(tries + 1)
        BY <1>1, <2>3, <3>1 DEF EnterPassword
      <3>3. Others(w) /\ job'[w].k = "fail"
        <4>1. Others(w) /\ job'[w] = j
          BY <3>2, Takes
        <4>2. j.k = "fail"
          BY <3>1
        <4> QED
          BY <4>1, <4>2
      <3>4. tries' <= tries + 1
        BY <3>2, GuessFacts DEF UpTo, TypeOK
      <3>5. Live < Threshold
        BY <2>1, GuessFacts DEF Live, TypeOK, Locks
      <3> QED
        BY <2>1, <3>3, <3>4, <3>5 DEF Affects, Guesses, Failing
    <2> QED
      BY <2>1, <2>2, <2>3
  <1>2. CASE ReadRecord(w)
    <2>1. PICK j : j = [k |-> "write", seen |-> Live]
      OBVIOUS
    <2>2. job' = [job EXCEPT ![w] = j] /\ job[w].k = "fail" /\ UNCHANGED <<count, lock, tries>>
      BY <1>2, <2>1 DEF ReadRecord, Live, lockVars
    <2>3. j.k = "write" /\ j.seen = Live
      BY <2>1
    <2> QED
      BY <2>2, <2>3, Takes DEF Affects, Reads, Same, Live
  <1>3. CASE WriteRecord(w)
    <2>1. /\ job[w].k = "write" /\ tries' = tries /\ count' = UpTo(job[w].seen + 1)
          /\ lock' = IF count' >= Threshold THEN "on" ELSE "none"
          /\ job' = [job EXCEPT ![w] = Idle]
      BY <1>3 DEF WriteRecord
    <2>2. PICK s : s = job[w].seen
      OBVIOUS
    <2>3. s \in 0 .. MaxWrong + 1
      BY <2>1, <2>2, JobKind DEF TypeOK
    <2>4. count' \in Nat /\ Written(Threshold, s, count')
      BY <2>1, <2>2, <2>3, GuessFacts DEF UpTo, Written
    <2>5. Live' = count' /\ (lock' = "none" => count' < Threshold)
      BY <2>1, <2>4, GuessFacts DEF Live
    <2>6. Others(w) /\ ~Failing(w)'
      <3>1. Others(w) /\ job'[w] = Idle
        BY <2>1, Takes
      <3> QED
        BY <3>1 DEF Failing, Idle
    <2> QED
      BY <2>1, <2>2, <2>4, <2>5, <2>6 DEF Affects, Writes
  <1>4. CASE ClearRecord(w)
    <2>1. count' = 0 /\ lock' = "none" /\ tries' = 0 /\ job' = [job EXCEPT ![w] = AfterPassword]
      BY <1>4 DEF ClearRecord
    <2>2. PICK j : j = AfterPassword
      OBVIOUS
    <2>3. j.k \notin {"fail", "write"}
      BY <2>2 DEF AfterPassword, Idle
    <2>4. Others(w) /\ ~Failing(w)'
      BY <2>1, <2>2, <2>3, Takes DEF Failing
    <2> QED
      BY <2>1, <2>4, GuessFacts DEF Affects, Clears, Live
  <1> QED
    BY <1>1, <1>2, <1>3, <1>4 DEF lockVars, Affects, Reads

\* Every other request has another job and leaves the record.
LEMMA OtherJobs ==
    ASSUME TypeOK, NEW w \in Workers, UNCHANGED <<count, lock, tries>>,
           job[w].k \notin {"fail", "write"},
           \E j : job' = [job EXCEPT ![w] = j] /\ j.k \notin {"fail", "write"}
    PROVE  Passes(w)
  BY Takes DEF Passes, Failing, Same, Live

LEMMA MailAffects ==
    ASSUME TypeOK, NEW w \in Workers,
           \/ ChooseMail(w) \/ AskAgain(w) \/ CheckInterval(w) \/ SendCode(w) \/ MarkSent(w)
           \/ CompleteLogin(w) \/ ForceSetup(w)
    PROVE  Passes(w) /\ UNCHANGED <<count, lock, tries>>
  <1>1. UNCHANGED <<count, lock, tries>> /\ job[w].k \notin {"fail", "write"}
    BY DEF ChooseMail, AskAgain, CheckInterval, SendCode, MarkSent, CompleteLogin, ForceSetup,
           lockVars, Idle
  <1>2. \E j \in {Idle, [k |-> "check"], [k |-> "send"], [k |-> "mark"]} : job' = [job EXCEPT ![w] = j]
    BY DEF ChooseMail, AskAgain, CheckInterval, SendCode, MarkSent, CompleteLogin, ForceSetup
  <1>3. \A j \in {Idle, [k |-> "check"], [k |-> "send"], [k |-> "mark"]} : j.k \notin {"fail", "write"}
    BY DEF Idle
  <1> QED
    BY <1>1, <1>2, <1>3, OtherJobs

LEMMA PageAffects ==
    ASSUME TypeOK, NEW w \in Workers,
           \/ LoadChangePassword(w) \/ EnableTotp(w) \/ DisableTotp(w)
           \/ CommitChangePassword(w) \/ CommitEnable(w) \/ CommitDisable(w)
    PROVE  Passes(w) /\ UNCHANGED <<count, lock, tries>>
  <1>1. UNCHANGED <<count, lock, tries>> /\ job[w].k \notin {"fail", "write"}
    <2>1. CASE LoadChangePassword(w) \/ EnableTotp(w) \/ DisableTotp(w)
      BY <2>1 DEF LoadChangePassword, EnableTotp, DisableTotp, lockVars, Idle
    <2>2. CASE CommitChangePassword(w)
      BY <2>2 DEF CommitChangePassword, lockVars
    <2>3. CASE CommitEnable(w) \/ CommitDisable(w)
      BY <2>3 DEF CommitEnable, CommitDisable, lockVars
    <2> QED
      BY <2>1, <2>2, <2>3
  <1>2. ASSUME NEW j, job' = [job EXCEPT ![w] = j], j.k \notin {"fail", "write"}
        PROVE  Passes(w)
    BY <1>1, <1>2, OtherJobs
  <1>3. CASE LoadChangePassword(w)
    <2>1. PICK j : j = [k |-> "change", mail |-> account.mail, mail2fa |-> account.mail2fa,
                        must |-> account.must]
      OBVIOUS
    <2>2. job' = [job EXCEPT ![w] = j] /\ j.k \notin {"fail", "write"}
      BY <1>3, <2>1 DEF LoadChangePassword
    <2> QED
      BY <1>1, <1>2, <2>2
  <1>4. CASE EnableTotp(w)
    <2>1. PICK j : j = [k |-> "enable", totp |-> account.totp]
      OBVIOUS
    <2>2. job' = [job EXCEPT ![w] = j] /\ j.k \notin {"fail", "write"}
      BY <1>4, <2>1 DEF EnableTotp
    <2> QED
      BY <1>1, <1>2, <2>2
  <1>5. CASE DisableTotp(w)
    <2>1. PICK j : j = [k |-> "disable", totp |-> account.totp, secret |-> account.secret]
      OBVIOUS
    <2>2. job' = [job EXCEPT ![w] = j] /\ j.k \notin {"fail", "write"}
      BY <1>5, <2>1 DEF DisableTotp
    <2> QED
      BY <1>1, <1>2, <2>2
  <1>6. CASE CommitChangePassword(w) \/ CommitEnable(w) \/ CommitDisable(w)
    <2>1. job' = [job EXCEPT ![w] = Idle] /\ Idle.k \notin {"fail", "write"}
      BY <1>6 DEF CommitChangePassword, CommitEnable, CommitDisable, Idle
    <2> QED
      BY <1>1, <1>2, <2>1
  <1> QED
    BY <1>3, <1>4, <1>5, <1>6

LEMMA RecordSteps ==
    ASSUME TypeOK, lock = "none" => count < Threshold, [Next]_vars
    PROVE  /\ (\E w \in Workers : Affects(w)) \/ Ages
           /\ lock' = "none" => count' < Threshold
  <1>1. ASSUME UNCHANGED <<job, count, lock, tries>>
        PROVE  Ages /\ (lock' = "none" => count' < Threshold)
    BY <1>1 DEF Ages, Same, Live
  <1>2. CASE Lapse
    BY <1>2 DEF Lapse, Ages, Failing, Live
  <1>3. CASE \/ EnterCode \/ Logout \/ EnterPortal \/ ShowSecret \/ ShowPortalSecret \/ SetMail
             \/ NextInterval \/ UNCHANGED vars
    <2>1. UNCHANGED <<job, count, lock, tries>>
      BY <1>3 DEF EnterCode, Logout, EnterPortal, ShowSecret, ShowPortalSecret, SetMail,
                  NextInterval, vars, lockVars
    <2> QED
      BY <1>1, <2>1
  <1>4. ASSUME NEW w \in Workers, Passes(w) /\ UNCHANGED <<count, lock, tries>>
        PROVE  Affects(w) /\ (lock' = "none" => count' < Threshold)
    BY <1>4 DEF Affects
  <1> QED
    BY <1>2, <1>3, <1>4, RecordAffects, MailAffects, PageAffects
       DEF Next, Handle, LoadEnable, LoadDisable, LoadPortalEnable, LoadPortalDisable

\* Each effect keeps the ladder, or takes it further.
LEMMA LevelsType ==
    ASSUME TypeOK
    PROVE  Levels \in [Workers -> Nat] /\ Writers \in SUBSET Workers
  BY LiveType DEF Levels, Writers

LEMMA LevelsNext ==
    ASSUME TypeOK'
    PROVE  /\ Live' \in Nat /\ tries' \in Nat
           /\ Levels' \in [Workers -> Nat] /\ Writers' \in SUBSET Workers
  <1>1. Live' \in Nat /\ tries' \in Nat
    BY GuessFacts DEF TypeOK, Live
  <1>2. \A v \in Workers : job'[v].k = "write" => job'[v].seen \in Nat
    BY GuessFacts, JobKind DEF TypeOK
  <1>3. \A v \in Workers : Sees(v)' \in Nat
    BY <1>1, <1>2 DEF Sees
  <1> QED
    BY <1>1, <1>3 DEF Levels, Writers

LEMMA GuessInit == Init => GuessInv
  <1> SUFFICES ASSUME Init PROVE GuessInv
    OBVIOUS
  <1>1. count = 0 /\ lock = "none" /\ tries = 0
    BY DEF Init
  <1>2. Kept(Workers, Levels, Writers, Threshold, 0, Live)
    BY TypeInit, LevelsType, GuessFacts, KeptReset
  <1> QED
    BY <1>1, <1>2, TypeInit, GuessFacts DEF GuessInv

LEMMA Resets ==
    ASSUME TypeOK', tries' = 0
    PROVE  Kept(Workers, Levels', Writers', Threshold, tries', Live')
  <1> QED
    BY LevelsNext, GuessFacts, KeptReset

\* Everybody stands where he stood.
LEMMA Stands ==
    ASSUME TypeOK, Same, Kept(Workers, Levels, Writers, Threshold, tries, Live),
           \A v \in Workers : (Failing(v)' <=> Failing(v)) /\ Sees(v)' = Sees(v)
    PROVE  Kept(Workers, Levels', Writers', Threshold, tries', Live')
  <1>1. Levels' = Levels /\ Writers' = Writers
    BY DEF Levels, Writers
  <1> QED
    BY <1>1 DEF Same

LEMMA GuessKept ==
    ASSUME TypeOK, TypeOK', Kept(Workers, Levels, Writers, Threshold, tries, Live),
           NEW w \in Workers, Guesses(w)
    PROVE  Kept(Workers, Levels', Writers', Threshold, tries', Live')
  <1>1. PICK L, a, n, m, f, P : /\ L = Threshold /\ a = Live /\ n = tries /\ m = tries'
                                /\ f = Levels /\ P = Writers
    OBVIOUS
  <1>2. /\ L \in Nat /\ a \in Nat /\ n \in Nat /\ m \in Nat /\ a < L /\ m <= n + 1 /\ Live' = a
        /\ f \in [Workers -> Nat] /\ P \in SUBSET Workers
    BY <1>1, GuessFacts, LiveType, LevelsType, LevelsNext DEF Guesses
  <1>3. f[w] = a /\ w \notin P
    BY <1>1 DEF Guesses, Failing, Levels, Sees, Writers
  <1>4. Levels' = f /\ Writers' = P \cup {w}
    BY <1>1 DEF Guesses, Others, Failing, Levels, Sees, Writers
  <1>5. Kept(Workers, f, P \cup {w}, L, n + 1, a)
    <2>1. w \in Workers \ P /\ f[w] < L /\ Kept(Workers, f, P, L, n, f[w])
      BY <1>1, <1>2, <1>3
    <2>2. Kept(Workers, f, P \cup {w}, L, n + 1, f[w])
      BY <1>2, <2>1, KeptTry
    <2> QED
      BY <1>3, <2>2
  <1>6. Kept(Workers, f, P \cup {w}, L, m, a)
    BY <1>2, <1>5, KeptLess
  <1> QED
    BY <1>1, <1>2, <1>4, <1>6

LEMMA WriteKept ==
    ASSUME TypeOK, TypeOK', Kept(Workers, Levels, Writers, Threshold, tries, Live),
           NEW w \in Workers, Writes(w)
    PROVE  Kept(Workers, Levels', Writers', Threshold, tries', Live')
  <1>1. PICK L, a, b, n, f, g, P, X :
           /\ L = Threshold /\ a = Live /\ b = Live' /\ n = tries
           /\ f = Levels /\ g = Levels' /\ P = Writers
           /\ X = {v \in Workers : v # w /\ job[v].k # "write"}
    OBVIOUS
  <1>2. /\ L \in Nat /\ L >= 1 /\ a \in Nat /\ b \in Nat /\ n \in Nat /\ tries' = n
        /\ f \in [Workers -> Nat] /\ g \in [Workers -> Nat] /\ P \in SUBSET Workers
        /\ X \in SUBSET (Workers \ {w})
    BY <1>1, GuessFacts, LiveType, LevelsType, LevelsNext DEF Writes
  <1>3. f[w] = job[w].seen /\ g[w] = b /\ Writers' = P \ {w}
    BY <1>1 DEF Writes, Others, Failing, Levels, Sees, Writers
  <1>4. b \in Nat \ {0} /\ (b = f[w] + 1 \/ (b >= L /\ f[w] + 1 >= L))
    BY <1>1, <1>2, <1>3 DEF Writes, Written
  <1>5. /\ \A v \in X : f[v] = a /\ g[v] = b
        /\ \A v \in Workers \ (X \cup {w}) : g[v] = f[v]
    BY <1>1 DEF Writes, Others, Levels, Sees
  <1>6. Kept(Workers, f, P, L, n, a)
    BY <1>1
  <1>7. Kept(Workers, g, P \ {w}, L, n, b)
    BY <1>2, <1>3, <1>4, <1>5, <1>6, KeptWrite
  <1> QED
    BY <1>1, <1>2, <1>3, <1>7

LEMMA GuessStep == GuessInv /\ [Next]_vars => GuessInv'
  <1> SUFFICES ASSUME GuessInv, [Next]_vars PROVE GuessInv'
    OBVIOUS
  <1>1. /\ TypeOK /\ TypeOK' /\ (lock = "none" => count < Threshold)
        /\ Kept(Workers, Levels, Writers, Threshold, tries, Live)
    BY TypeStep DEF GuessInv
  <1>2. ASSUME NEW w \in Workers, Affects(w)
        PROVE  Kept(Workers, Levels', Writers', Threshold, tries', Live')
    <2>1. CASE Passes(w) \/ Reads(w)
      <3>1. Same /\ \A v \in Workers : (Failing(v)' <=> Failing(v)) /\ Sees(v)' = Sees(v)
        BY <2>1 DEF Passes, Reads, Others, Same, Failing, Sees
      <3> QED
        BY <1>1, <3>1, Stands
    <2>2. CASE Clears(w)
      BY <1>1, <2>2, Resets DEF Clears
    <2> QED
      BY <1>1, <1>2, <2>1, <2>2, GuessKept, WriteKept DEF Affects
  <1>3. ASSUME Ages
        PROVE  Kept(Workers, Levels', Writers', Threshold, tries', Live')
    <2>1. CASE Same
      <3>1. \A v \in Workers : (Failing(v)' <=> Failing(v)) /\ Sees(v)' = Sees(v)
        BY <1>3, <2>1 DEF Ages, Same, Failing, Sees
      <3> QED
        BY <1>1, <2>1, <3>1, Stands
    <2> QED
      BY <1>1, <1>3, <2>1, Resets DEF Ages
  <1>4. /\ (\E w \in Workers : Affects(w)) \/ Ages
        /\ lock' = "none" => count' < Threshold
    BY <1>1, RecordSteps
  <1> QED
    BY <1>1, <1>2, <1>3, <1>4 DEF GuessInv

\* Failures counted at the same time are lost, and a lock may be written over,
\* but the wrong passwords between two resets of the record are fewer than the
\* ladders on which the workers can stand, however many workers there are and
\* whatever the threshold (_track_failed_login).
THEOREM GuessesAreBounded == Spec => []GuessesBounded
  <1>1. GuessInv => GuessesBounded
    <2> SUFFICES ASSUME GuessInv PROVE tries <= MaxWrong
      BY DEF GuessesBounded
    <2>1. /\ TypeOK /\ Levels \in [Workers -> Nat] /\ Writers \in SUBSET Workers
          /\ tries \in Nat /\ Threshold \in Nat
      BY LevelsType, LiveType, GuessFacts DEF GuessInv
    <2>2. Kept(Workers, Levels, Writers, Threshold, tries, Live)
      BY DEF GuessInv
    <2> QED
      BY <2>1, <2>2, KeptBound DEF MaxWrong
  <1> QED
    BY <1>1, GuessInit, GuessStep, PTL DEF Spec
=============================================================================
