------------------------ MODULE Registration_proofs ------------------------
(***************************************************************************)
(* Theorems about Registration, for any workers, browsers, addresses and   *)
(* limits: types, with the limit that the CHECK constraint sets; one       *)
(* request per address; who may submit an account; and how many wrong      *)
(* codes are compared.                                                     *)
(***************************************************************************)
EXTENDS Registration, FiniteSetTheorems, TLAPS

USE DEF Begin, Commit, Answer

-----------------------------------------------------------------------------
(***************************************************************************)
(* Ladders (LostUpdates): how far the workers can still climb, and that    *)
(* every write takes them further.                                         *)
(***************************************************************************)
LEMMA WorkersFinite == IsFiniteSet(Workers)
  BY RegistrationAssumption

\* Every nonempty set of numbers has a least one.
LEMMA LeastOf ==
    ASSUME NEW T \in SUBSET Nat, T # {}
    PROVE  \E x \in T : \A y \in T : x <= y
  <1> DEFINE R == {ss \in Nat \X Nat : ss[1] < ss[2]}
  <1>1. IsWellFoundedOn(R, Nat)
    BY NatLessThanWellFounded DEF OpToRel
  <1>2. \E x \in T : \A y \in T : <<y, x>> \notin R
    <2> HIDE DEF R
    <2> QED
      BY <1>1, WFMin
  <1>3. \A x, y \in T : <<y, x>> \notin R => x <= y
    OBVIOUS
  <1> QED
    BY <1>2, <1>3

\* There are finitely many ladders.
LEMMA LaddersFinite ==
    ASSUME NEW L \in Nat, NEW K \in Nat
    PROVE  /\ IsFiniteSet(Ladders(L, K)) /\ Cardinality(Ladders(L, K)) \in Nat
           /\ \A S \in SUBSET Ladders(L, K) :
                 /\ IsFiniteSet(S) /\ Cardinality(S) \in Nat
                 /\ Cardinality(S) <= Cardinality(Ladders(L, K))
                 /\ S # Ladders(L, K) => Cardinality(S) < Cardinality(Ladders(L, K))
  <1> DEFINE D == 0 .. L - 1
             E == 0 .. K
             g == [d \in Ladders(L, K) |-> {<<x, d[x]>> : x \in D}]
  <1>1. IsFiniteSet(D) /\ IsFiniteSet(E)
    BY FS_Interval
  <1>2. IsFiniteSet(SUBSET (D \X E))
    BY <1>1, FS_Product, FS_SUBSET
  <1>3. g \in [Ladders(L, K) -> SUBSET (D \X E)]
    BY DEF Ladders
  <1>4. ASSUME NEW d \in Ladders(L, K), NEW e \in Ladders(L, K), g[d] = g[e]
        PROVE  d = e
    <2>1. d \in [D -> E] /\ e \in [D -> E]
      BY DEF Ladders
    <2>2. ASSUME NEW x \in D PROVE d[x] = e[x]
      <3>1. <<x, d[x]>> \in g[e]
        BY <1>4
      <3>2. PICK y \in D : <<x, d[x]>> = <<y, e[y]>>
        BY <3>1
      <3> QED
        BY <3>2
    <2> QED
      BY <2>1, <2>2
  <1>5. g \in Injection(Ladders(L, K), SUBSET (D \X E))
    BY <1>3, <1>4 DEF Injection, IsInjective
  <1>6. IsFiniteSet(Ladders(L, K))
    BY <1>2, <1>5, FS_Injection
  <1>7. Cardinality(Ladders(L, K)) \in Nat
    BY <1>6, FS_CardinalityType
  <1>8. ASSUME NEW S \in SUBSET Ladders(L, K)
        PROVE  /\ IsFiniteSet(S) /\ Cardinality(S) \in Nat
               /\ Cardinality(S) <= Cardinality(Ladders(L, K))
               /\ S # Ladders(L, K) => Cardinality(S) < Cardinality(Ladders(L, K))
    <2>1. IsFiniteSet(S) /\ Cardinality(S) <= Cardinality(Ladders(L, K))
          /\ (Cardinality(S) = Cardinality(Ladders(L, K)) => S = Ladders(L, K))
      BY <1>6, FS_Subset
    <2>2. Cardinality(S) \in Nat
      BY <2>1, FS_CardinalityType
    <2> QED
      BY <1>7, <2>1, <2>2
  <1> QED
    BY <1>6, <1>7, <1>8

LEMMA LaddersSome ==
    ASSUME NEW L \in Nat, NEW K \in Nat
    PROVE  Cardinality(Ladders(L, K)) \in Nat \ {0}
  <1>1. [x \in 0 .. L - 1 |-> 0] \in Ladders(L, K)
    BY DEF Ladders
  <1>2. {} \in SUBSET Ladders(L, K) /\ {} # Ladders(L, K)
    BY <1>1
  <1>3. Cardinality({}) < Cardinality(Ladders(L, K)) /\ Cardinality(Ladders(L, K)) \in Nat
    BY <1>2, LaddersFinite
  <1>4. Cardinality({}) = 0
    BY FS_EmptySet
  <1> QED
    BY <1>3, <1>4

\* Workers on levels stand on a ladder.
LEMMA BelowFacts ==
    ASSUME NEW f \in [Workers -> Nat], NEW x
    PROVE  /\ IsFiniteSet(Below(Workers, f, x)) /\ Cardinality(Below(Workers, f, x)) \in Nat
           /\ \A S \in SUBSET Below(Workers, f, x) :
                 /\ Cardinality(S) \in Nat /\ Cardinality(S) <= Cardinality(Below(Workers, f, x))
                 /\ S # Below(Workers, f, x) => Cardinality(S) < Cardinality(Below(Workers, f, x))
  <1>1. Below(Workers, f, x) \in SUBSET Workers
    BY DEF Below
  <1>2. IsFiniteSet(Below(Workers, f, x))
    BY <1>1, WorkersFinite, FS_Subset
  <1>3. Cardinality(Below(Workers, f, x)) \in Nat
    BY <1>2, FS_CardinalityType
  <1>4. ASSUME NEW S \in SUBSET Below(Workers, f, x)
        PROVE  /\ IsFiniteSet(S) /\ Cardinality(S) <= Cardinality(Below(Workers, f, x))
               /\ Cardinality(S) = Cardinality(Below(Workers, f, x)) => S = Below(Workers, f, x)
    BY <1>2, FS_Subset
  <1>5. \A S \in SUBSET Below(Workers, f, x) : Cardinality(S) \in Nat
    BY <1>4, FS_CardinalityType
  <1> QED
    BY <1>2, <1>3, <1>4, <1>5

LEMMA NotAll ==
    ASSUME NEW f \in [Workers -> Nat], NEW x, Below(Workers, f, x) # Workers
    PROVE  Cardinality(Below(Workers, f, x)) < Cardinality(Workers)
  <1>1. Below(Workers, f, x) \in SUBSET Workers
    BY DEF Below
  <1>2. /\ Cardinality(Below(Workers, f, x)) <= Cardinality(Workers)
        /\ Cardinality(Below(Workers, f, x)) # Cardinality(Workers)
    BY <1>1, WorkersFinite, FS_Subset
  <1>3. Cardinality(Below(Workers, f, x)) \in Nat /\ Cardinality(Workers) \in Nat
    BY BelowFacts, WorkersFinite, FS_CardinalityType
  <1> QED
    BY <1>2, <1>3

LEMMA LadderType ==
    ASSUME NEW L \in Nat, NEW K \in Nat, NEW f \in [Workers -> Nat]
    PROVE  Ladder(Workers, f, L, K) \in Ladders(L, K)
  <1> DEFINE d == Ladder(Workers, f, L, K)
             n(x) == Cardinality(Below(Workers, f, x))
  <1>1. \A x \in 0 .. L - 1 : n(x) \in Nat
    BY BelowFacts
  <1>2. \A x \in 0 .. L - 1 : d[x] = IF n(x) < K THEN n(x) ELSE K
    BY DEF Ladder
  <1>3. d \in [0 .. L - 1 -> 0 .. K]
    <2> HIDE DEF n
    <2>1. \A x \in 0 .. L - 1 : d[x] \in 0 .. K
      BY <1>1, <1>2
    <2> QED
      BY <2>1 DEF Ladder
  <1>4. ASSUME NEW x \in 0 .. L - 1, NEW y \in 0 .. L - 1, x <= y
        PROVE  d[x] <= d[y]
    <2>1. Below(Workers, f, x) \in SUBSET Below(Workers, f, y)
      BY <1>4 DEF Below
    <2>2. n(x) <= n(y)
      BY <2>1, BelowFacts
    <2> HIDE DEF n, d
    <2> QED
      BY <1>1, <1>2, <2>2
  <1> QED
    BY <1>3, <1>4 DEF Ladders

\* Being further is a strict order.
LEMMA FurtherOrder ==
    ASSUME NEW L \in Nat, NEW K \in Nat, NEW d \in Ladders(L, K), NEW e \in Ladders(L, K)
    PROVE  /\ ~Further(d, d, L)
           /\ \A c \in Ladders(L, K) : Further(d, e, L) /\ Further(e, c, L) => Further(d, c, L)
  <1>1. ~Further(d, d, L)
    BY DEF Further, Ladders
  <1>2. ASSUME NEW c \in Ladders(L, K), Further(d, e, L), Further(e, c, L)
        PROVE  Further(d, c, L)
    <2>1. \A x \in 0 .. L - 1 : d[x] \in Int /\ e[x] \in Int /\ c[x] \in Int
      BY DEF Ladders
    <2>2. PICK x \in 0 .. L - 1 : e[x] < d[x] /\ \A y \in 0 .. x - 1 : e[y] = d[y]
      BY <1>2 DEF Further
    <2>3. PICK z \in 0 .. L - 1 : c[z] < e[z] /\ \A y \in 0 .. z - 1 : c[y] = e[y]
      BY <1>2 DEF Further
    <2>4. CASE x <= z
      <3>1. c[x] < d[x]
        BY <2>1, <2>2, <2>3, <2>4
      <3>2. \A y \in 0 .. x - 1 : c[y] = d[y]
        BY <2>2, <2>3, <2>4
      <3> QED
        BY <3>1, <3>2 DEF Further
    <2>5. CASE z < x
      <3>1. c[z] < d[z]
        BY <2>1, <2>2, <2>3, <2>5
      <3>2. \A y \in 0 .. z - 1 : c[y] = d[y]
        BY <2>2, <2>3, <2>5
      <3> QED
        BY <3>1, <3>2 DEF Further
    <2> QED
      BY <2>4, <2>5
  <1> QED
    BY <1>1, <1>2

\* The ladders ahead are fewer than all, and fewer after a step to one of them.
LEMMA LeftFacts ==
    ASSUME NEW L \in Nat, NEW K \in Nat, NEW f \in [Workers -> Nat]
    PROVE  /\ Left(Workers, f, L, K) \in Nat
           /\ Left(Workers, f, L, K) < Cardinality(Ladders(L, K))
  <1> DEFINE d == Ladder(Workers, f, L, K)
  <1>1. d \in Ladders(L, K)
    BY LadderType
  <1>2. d \notin Ahead(d, L, K)
    BY <1>1, FurtherOrder DEF Ahead
  <1>3. Ahead(d, L, K) \in SUBSET Ladders(L, K) /\ Ahead(d, L, K) # Ladders(L, K)
    BY <1>1, <1>2 DEF Ahead
  <1> QED
    BY <1>3, LaddersFinite DEF Left

LEMMA Fewer ==
    ASSUME NEW L \in Nat, NEW K \in Nat, NEW f \in [Workers -> Nat], NEW g \in [Workers -> Nat],
           Further(Ladder(Workers, f, L, K), Ladder(Workers, g, L, K), L)
    PROVE  Left(Workers, g, L, K) + 1 <= Left(Workers, f, L, K)
  <1> DEFINE d == Ladder(Workers, f, L, K)
             e == Ladder(Workers, g, L, K)
             S == Ahead(d, L, K)
             T == Ahead(e, L, K)
  <1>1. d \in Ladders(L, K) /\ e \in Ladders(L, K)
    BY LadderType
  <1>2. e \in S /\ e \notin T /\ T \in SUBSET S
    <2> HIDE DEF d, e
    <2>1. \A c \in Ladders(L, K) : Further(e, c, L) => Further(d, c, L)
      BY <1>1, FurtherOrder DEF d, e
    <2>2. ~Further(e, e, L)
      BY <1>1, FurtherOrder
    <2> QED
      BY <1>1, <2>1, <2>2 DEF Ahead, d, e
  <1>3. IsFiniteSet(S) /\ Cardinality(S) \in Nat
    <2>1. S \in SUBSET Ladders(L, K)
      BY DEF Ahead
    <2> QED
      BY <2>1, LaddersFinite
  <1>4. Cardinality(T) <= Cardinality(S) /\ Cardinality(T) # Cardinality(S) /\ Cardinality(T) \in Nat
    <2> HIDE DEF S, T
    <2>1. IsFiniteSet(T) /\ Cardinality(T) <= Cardinality(S) /\ (Cardinality(S) = Cardinality(T) => S = T)
      BY <1>2, <1>3, FS_Subset
    <2> QED
      BY <1>2, <2>1, FS_CardinalityType
  <1> QED
    BY <1>3, <1>4 DEF Left

\* A step leads further if on some level fewer stand at or below than before,
\* and not too many for it to count, while nothing changes below.
LEMMA Climb ==
    ASSUME NEW L \in Nat, NEW K \in Nat, NEW f \in [Workers -> Nat], NEW g \in [Workers -> Nat],
           NEW a \in 0 .. L - 1,
           \A x \in 0 .. a - 1 : Below(Workers, g, x) = Below(Workers, f, x),
           Below(Workers, g, a) \in SUBSET Below(Workers, f, a),
           Below(Workers, g, a) # Below(Workers, f, a),
           Cardinality(Below(Workers, g, a)) < K
    PROVE  Left(Workers, g, L, K) + 1 <= Left(Workers, f, L, K)
  <1> DEFINE n(x) == Cardinality(Below(Workers, f, x))
             m(x) == Cardinality(Below(Workers, g, x))
             d == Ladder(Workers, f, L, K)
             e == Ladder(Workers, g, L, K)
  <1>1. \A x \in 0 .. L - 1 : /\ d[x] = IF n(x) < K THEN n(x) ELSE K
                              /\ e[x] = IF m(x) < K THEN m(x) ELSE K
    BY DEF Ladder
  <1>2. m(a) < n(a) /\ m(a) < K /\ m(a) \in Nat /\ n(a) \in Nat
    BY BelowFacts
  <1>3. e[a] < d[a]
    <2> HIDE DEF m, n, d, e
    <2> QED
      BY <1>1, <1>2
  <1>4. \A x \in 0 .. a - 1 : e[x] = d[x]
    BY <1>1
  <1>5. Further(d, e, L)
    BY <1>3, <1>4 DEF Further
  <1> QED
    BY <1>5, Fewer

\* Nobody goes down: the step leads further or changes nothing that counts.
LEMMA Rise ==
    ASSUME NEW L \in Nat, NEW K \in Nat, NEW f \in [Workers -> Nat], NEW g \in [Workers -> Nat],
           \A x \in 0 .. L - 1 : Below(Workers, g, x) \in SUBSET Below(Workers, f, x)
    PROVE  Left(Workers, g, L, K) <= Left(Workers, f, L, K)
  <1> DEFINE n(x) == Cardinality(Below(Workers, f, x))
             m(x) == Cardinality(Below(Workers, g, x))
             d == Ladder(Workers, f, L, K)
             e == Ladder(Workers, g, L, K)
             T == {x \in 0 .. L - 1 : e[x] # d[x]}
  <1>1. \A x \in 0 .. L - 1 : /\ d[x] = IF n(x) < K THEN n(x) ELSE K
                              /\ e[x] = IF m(x) < K THEN m(x) ELSE K
    BY DEF Ladder
  <1>2. \A x \in 0 .. L - 1 : m(x) <= n(x) /\ m(x) \in Nat /\ n(x) \in Nat
    BY BelowFacts
  <1>3. \A x \in 0 .. L - 1 : e[x] <= d[x] /\ e[x] \in Nat /\ d[x] \in Nat
    <2> HIDE DEF m, n, d, e
    <2> QED
      BY <1>1, <1>2
  <1>4. Left(Workers, g, L, K) \in Nat /\ Left(Workers, f, L, K) \in Nat
    BY LeftFacts
  <1>5. CASE T = {}
    <2>1. d \in Ladders(L, K) /\ e \in Ladders(L, K)
      BY LadderType
    <2>2. e = d
      <3>1. \A x \in 0 .. L - 1 : e[x] = d[x]
        BY <1>5
      <3> HIDE DEF d, e
      <3> QED
        BY <2>1, <3>1 DEF Ladders
    <2> QED
      BY <1>4, <2>2 DEF Left
  <1>6. CASE T # {}
    <2>1. PICK x \in T : \A y \in T : x <= y
      <3>1. T \in SUBSET Nat
        OBVIOUS
      <3> HIDE DEF T
      <3> QED
        BY <1>6, <3>1, LeastOf
    <2>2. e[x] < d[x] /\ x \in 0 .. L - 1
      BY <1>3
    <2>3. \A y \in 0 .. x - 1 : e[y] = d[y]
      <3> HIDE DEF d, e
      <3> QED
        BY <2>1
    <2>4. Further(d, e, L)
      BY <2>2, <2>3 DEF Further
    <2>5. Left(Workers, g, L, K) + 1 <= Left(Workers, f, L, K)
      BY <2>4, Fewer
    <2> QED
      BY <1>4, <2>5
  <1> QED
    BY <1>5, <1>6

\* Whoever leaves the ladder at its top has it go further once more.
LEMMA Leap ==
    ASSUME NEW L \in Nat, NEW K, K = Cardinality(Workers),
           NEW f \in [Workers -> Nat], NEW g \in [Workers -> Nat], NEW A \in SUBSET Workers,
           \A w \in A : f[w] < L /\ g[w] >= L,
           \A w \in Workers \ A : g[w] = f[w] \/ (g[w] >= L /\ f[w] >= L)
    PROVE  Left(Workers, g, L, K) + Cardinality(A) <= Left(Workers, f, L, K)
  <1> DEFINE Leaps(h, B) == /\ \A w \in B : h[w] < L /\ g[w] >= L
                            /\ \A w \in Workers \ B : g[w] = h[w] \/ (g[w] >= L /\ h[w] >= L)
             Bad(n) == \E h \in [Workers -> Nat], B \in SUBSET Workers :
                          /\ Leaps(h, B) /\ Cardinality(B) = n
                          /\ ~(Left(Workers, g, L, K) + n <= Left(Workers, h, L, K))
             T == {n \in Nat : Bad(n)}
  <1>1. K \in Nat /\ \A B \in SUBSET Workers : IsFiniteSet(B) /\ Cardinality(B) \in Nat
    BY WorkersFinite, FS_Subset, FS_CardinalityType
  <1>2. \A h \in [Workers -> Nat] : Left(Workers, h, L, K) \in Nat
    BY <1>1, LeftFacts
  <1>3. T = {}
    <2> SUFFICES ASSUME T # {} PROVE FALSE
      OBVIOUS
    <2>1. PICK n \in T : \A y \in T : n <= y
      <3>1. T \in SUBSET Nat
        OBVIOUS
      <3> HIDE DEF T
      <3> QED
        BY <3>1, LeastOf
    <2>2. PICK h \in [Workers -> Nat], B \in SUBSET Workers :
             /\ Leaps(h, B) /\ Cardinality(B) = n
             /\ ~(Left(Workers, g, L, K) + n <= Left(Workers, h, L, K))
      OBVIOUS
    <2>3. B # {}
      <3> SUFFICES ASSUME B = {} PROVE FALSE
        OBVIOUS
      <3>1. n = 0
        BY <2>2, FS_EmptySet
      <3>2. \A x \in 0 .. L - 1 : Below(Workers, g, x) \in SUBSET Below(Workers, h, x)
        BY <2>2 DEF Below
      <3>3. Left(Workers, g, L, K) <= Left(Workers, h, L, K)
        BY <1>1, <3>2, Rise
      <3> QED
        BY <1>2, <2>2, <3>1, <3>3
    <2>4. PICK w \in B : TRUE
      BY <2>3
    <2> DEFINE i == [h EXCEPT ![w] = g[w]]
               C == B \ {w}
    <2>5. i \in [Workers -> Nat] /\ C \in SUBSET Workers /\ Leaps(i, C)
      BY <2>2
    <2>6. Cardinality(C) = n - 1 /\ n - 1 \in Nat
      <3>1. Cardinality(C) = n - 1
        BY <1>1, <2>2, FS_RemoveElement
      <3> QED
        BY <1>1, <2>5, <3>1
    <2>7. Left(Workers, g, L, K) + (n - 1) <= Left(Workers, i, L, K)
      <3>1. n - 1 \notin T
        BY <2>1, <2>6
      <3> HIDE DEF i, C, Leaps
      <3> QED
        BY <2>5, <2>6, <3>1
    <2>8. Left(Workers, i, L, K) + 1 <= Left(Workers, h, L, K)
      <3>1. h[w] \in 0 .. L - 1 /\ g[w] >= L /\ i[w] = g[w]
        BY <2>2
      <3>2. \A x \in 0 .. h[w] - 1 : Below(Workers, i, x) = Below(Workers, h, x)
        BY <3>1 DEF Below
      <3>3. /\ Below(Workers, i, h[w]) \in SUBSET Below(Workers, h, h[w])
            /\ w \in Below(Workers, h, h[w]) /\ w \notin Below(Workers, i, h[w])
        BY <3>1 DEF Below
      <3>4. Cardinality(Below(Workers, i, h[w])) < K
        <4>1. Cardinality(Below(Workers, i, h[w])) < Cardinality(Below(Workers, h, h[w]))
          BY <3>3, BelowFacts
        <4>2. Cardinality(Below(Workers, h, h[w])) <= K
          <5>1. Below(Workers, h, h[w]) \in SUBSET Workers
            BY DEF Below
          <5> QED
            BY <5>1, WorkersFinite, FS_Subset
        <4>3. Cardinality(Below(Workers, i, h[w])) \in Nat /\ Cardinality(Below(Workers, h, h[w])) \in Nat
          BY <2>5, BelowFacts
        <4> QED
          BY <1>1, <4>1, <4>2, <4>3
      <3> HIDE DEF i
      <3> QED
        BY <1>1, <2>5, <3>1, <3>2, <3>3, <3>4, Climb
    <2>9. /\ ~(Left(Workers, g, L, K) + n <= Left(Workers, h, L, K))
          /\ n \in Nat /\ Left(Workers, g, L, K) \in Nat
          /\ Left(Workers, h, L, K) \in Nat /\ Left(Workers, i, L, K) \in Nat
      BY <1>2, <2>2, <2>5
    <2> HIDE DEF i
    <2> QED
      BY <2>7, <2>8, <2>9
  <1>4. Leaps(f, A)
    OBVIOUS
  <1> QED
    <2>1. Cardinality(A) \notin T
      BY <1>3
    <2> HIDE DEF Leaps
    <2> QED
      BY <1>1, <1>4, <2>1

\* A ladder for each level, so there are more of them than levels.
LEMMA LaddersRoom ==
    ASSUME NEW L \in Nat, NEW K \in Nat \ {0}
    PROVE  L < Cardinality(Ladders(L, K))
  <1> DEFINE g == [i \in 0 .. L |-> [x \in 0 .. L - 1 |-> IF x < i THEN 0 ELSE K]]
  <1>1. \A i \in 0 .. L : g[i] \in Ladders(L, K)
    BY DEF Ladders
  <1>2. ASSUME NEW i \in 0 .. L, NEW j \in 0 .. L, i < j PROVE g[i] # g[j]
    <2>1. g[i][i] = K /\ g[j][i] = 0
      BY <1>2
    <2> QED
      BY <2>1
  <1>3. g \in Injection(0 .. L, Ladders(L, K))
    <2> HIDE DEF g
    <2>1. g \in [0 .. L -> Ladders(L, K)]
      BY <1>1 DEF g
    <2>2. \A i, j \in 0 .. L : g[i] = g[j] => i = j
      BY <1>2
    <2> QED
      BY <2>1, <2>2 DEF Injection, IsInjective
  <1>4. Cardinality(0 .. L) = L + 1
    BY FS_Interval
  <1>5. Cardinality(0 .. L) <= Cardinality(Ladders(L, K))
    BY <1>3, LaddersFinite, FS_Injection
  <1>6. Cardinality(Ladders(L, K)) \in Nat
    BY LaddersFinite
  <1> HIDE DEF g
  <1> QED
    BY <1>4, <1>5, <1>6

\* Those who are about to write and have not reached the top.
LEMMA DueSize ==
    ASSUME NEW L \in Nat, NEW f \in [Workers -> Nat], NEW P \in SUBSET Workers
    PROVE  /\ Due(f, P, L) \in SUBSET Workers /\ IsFiniteSet(Due(f, P, L))
           /\ Cardinality(Due(f, P, L)) \in Nat
           /\ Cardinality(Due(f, P, L)) <= Left(Workers, f, L, Cardinality(Workers))
  <1> DEFINE A == Due(f, P, L)
             g == [w \in Workers |-> IF w \in A THEN L ELSE f[w]]
  <1>1. A \in SUBSET Workers
    BY DEF Due
  <1>2. IsFiniteSet(A) /\ Cardinality(A) \in Nat /\ Cardinality(Workers) \in Nat
    BY <1>1, WorkersFinite, FS_Subset, FS_CardinalityType
  <1>3. g \in [Workers -> Nat] /\ \A w \in Workers : g[w] = IF w \in A THEN L ELSE f[w]
    OBVIOUS
  <1>4. \A w \in A : f[w] < L
    BY DEF Due
  <1>5. Left(Workers, g, L, Cardinality(Workers)) + Cardinality(A)
          <= Left(Workers, f, L, Cardinality(Workers))
    <2> HIDE DEF A, g
    <2> QED
      BY <1>1, <1>3, <1>4, Leap
  <1>6. /\ Left(Workers, g, L, Cardinality(Workers)) \in Nat
        /\ Left(Workers, f, L, Cardinality(Workers)) \in Nat
    BY <1>2, <1>3, LeftFacts
  <1> QED
    BY <1>1, <1>2, <1>5, <1>6

\* The worker v writes the level above the one it has read and takes X, the
\* workers that are not about to write, along: the ladder gets as much
\* further as there are fewer left who are due.
LEMMA WriteClimbs ==
    ASSUME NEW L \in Nat, NEW f \in [Workers -> Nat], NEW g \in [Workers -> Nat],
           NEW P \in SUBSET Workers, NEW v \in Workers, NEW X \in SUBSET (Workers \ {v}),
           NEW a \in Nat, NEW b \in Nat, b = f[v] + 1 \/ (b >= L /\ f[v] + 1 >= L),
           g[v] = b,
           \A w \in X : f[w] = a /\ g[w] = b,
           \A w \in Workers \ (X \cup {v}) : g[w] = f[w]
    PROVE  Left(Workers, g, L, Cardinality(Workers)) + Cardinality(Due(f, P, L))
             <= Left(Workers, f, L, Cardinality(Workers)) + Cardinality(Due(g, P \ {v}, L))
  <1> DEFINE K == Cardinality(Workers)
             s == f[v]
             F == Left(Workers, f, L, K)
             G == Left(Workers, g, L, K)
             D == Due(f, P, L)
             E == Due(g, P \ {v}, L)
  <1>1. K \in Nat /\ s \in Nat
    BY WorkersFinite, FS_CardinalityType
  <1>2. F \in Nat /\ G \in Nat
    BY <1>1, LeftFacts
  <1>3. IsFiniteSet(D) /\ IsFiniteSet(E) /\ Cardinality(D) \in Nat /\ Cardinality(E) \in Nat
    BY DueSize
  <1>4. ASSUME NEW A \in SUBSET Workers, D \subseteq E \cup A
        PROVE  Cardinality(D) <= Cardinality(E) + Cardinality(A) /\ Cardinality(A) \in Nat
    <2> HIDE DEF D, E
    <2>1. IsFiniteSet(A) /\ Cardinality(A) \in Nat
      BY WorkersFinite, FS_Subset, FS_CardinalityType
    <2>2. IsFiniteSet(E \cap A) /\ Cardinality(E \cap A) \in Nat
      BY <1>3, FS_Intersection, FS_CardinalityType
    <2>3. IsFiniteSet(E \cup A)
          /\ Cardinality(E \cup A) = Cardinality(E) + Cardinality(A) - Cardinality(E \cap A)
      BY <1>3, <2>1, FS_Union
    <2>4. Cardinality(D) <= Cardinality(E \cup A)
      BY <1>4, <2>3, FS_Subset
    <2> QED
      BY <1>3, <2>1, <2>2, <2>3, <2>4
  <1>5. CASE b >= L
    <2> DEFINE A == {w \in X \cup {v} : f[w] < L}
    <2>1. A \in SUBSET Workers /\ D \subseteq E \cup A
      BY DEF Due
    <2>2. \A w \in A : f[w] < L /\ g[w] >= L
      BY <1>5
    <2>3. \A w \in Workers \ A : g[w] = f[w] \/ (g[w] >= L /\ f[w] >= L)
      BY <1>5
    <2>4. G + Cardinality(A) <= F
      <3> HIDE DEF A
      <3> QED
        BY <2>1, <2>2, <2>3, Leap
    <2>5. Cardinality(D) <= Cardinality(E) + Cardinality(A) /\ Cardinality(A) \in Nat
      BY <1>4, <2>1
    <2> HIDE DEF A, D, E, F, G
    <2> QED
      BY <1>2, <1>3, <2>4, <2>5 DEF D, E, F, G
  <1>6. CASE b < L
    <2>1. b = s + 1 /\ s \in 0 .. L - 1
      BY <1>1, <1>6
    <2>2. D \subseteq E \cup {v}
      BY <1>6 DEF Due
    <2>3. Cardinality(D) <= Cardinality(E) + 1
      <3>1. Cardinality({v}) = 1 /\ {v} \in SUBSET Workers
        BY FS_Singleton
      <3> HIDE DEF D, E
      <3> QED
        BY <1>4, <2>2, <3>1
    <2>4. ASSUME NEW x \in Nat, Below(Workers, g, x) # Workers
          PROVE  Cardinality(Below(Workers, g, x)) < K
      BY <2>4, NotAll
    <2>5. G + 1 <= F
      <3>1. CASE X = {} \/ s <= a
        <4>1. \A x \in 0 .. s - 1 : Below(Workers, g, x) = Below(Workers, f, x)
          BY <1>1, <2>1, <3>1 DEF Below
        <4>2. /\ Below(Workers, g, s) \in SUBSET Below(Workers, f, s)
              /\ v \in Below(Workers, f, s) /\ v \notin Below(Workers, g, s)
          BY <1>1, <2>1, <3>1 DEF Below
        <4>3. Cardinality(Below(Workers, g, s)) < K
          BY <1>1, <2>4, <4>2
        <4> HIDE DEF s
        <4> QED
          BY <1>1, <2>1, <4>1, <4>2, <4>3, Climb
      <3>2. CASE X # {} /\ a < s
        <4>1. PICK y \in X : TRUE
          BY <3>2
        <4>2. \A x \in 0 .. a - 1 : Below(Workers, g, x) = Below(Workers, f, x)
          BY <1>1, <2>1, <3>2 DEF Below
        <4>3. /\ Below(Workers, g, a) \in SUBSET Below(Workers, f, a)
              /\ y \in Below(Workers, f, a) /\ y \notin Below(Workers, g, a)
          BY <1>1, <2>1, <3>2, <4>1 DEF Below
        <4>4. Cardinality(Below(Workers, g, a)) < K
          BY <2>4, <4>3
        <4>5. a \in 0 .. L - 1
          BY <1>1, <2>1, <3>2
        <4> QED
          BY <1>1, <4>2, <4>3, <4>4, <4>5, Climb
      <3> QED
        BY <1>1, <3>1, <3>2
    <2> HIDE DEF D, E, F, G
    <2> QED
      BY <1>2, <1>3, <2>3, <2>5 DEF D, E, F, G
  <1> QED
    BY <1>5, <1>6

\* A counter that is set back, or was never used.
LEMMA KeptReset ==
    ASSUME NEW L \in Nat, NEW f \in [Workers -> Nat], NEW P \in SUBSET Workers, NEW a
    PROVE  Kept(Workers, f, P, L, 0, a)
  <1> DEFINE K == Cardinality(Workers)
  <1>1. K \in Nat
    BY WorkersFinite, FS_CardinalityType
  <1>2. Cardinality(Due(f, P, L)) \in Nat /\ Cardinality(Due(f, P, 1)) \in Nat
    BY DueSize
  <1>3. Left(Workers, f, L, K) \in Nat /\ Left(Workers, f, L, K) < Cardinality(Ladders(L, K))
    BY <1>1, LeftFacts
  <1>4. Cardinality(Ladders(L, K)) \in Nat
    BY <1>1, LaddersFinite
  <1> QED
    BY <1>2, <1>3, <1>4 DEF Kept

LEMMA KeptLess ==
    ASSUME NEW L \in Nat, NEW f \in [Workers -> Nat], NEW P \in SUBSET Workers, NEW a,
           NEW n \in Nat, NEW m \in Nat, m <= n, Kept(Workers, f, P, L, n, a)
    PROVE  Kept(Workers, f, P, L, m, a)
  <1> DEFINE K == Cardinality(Workers)
             C == Cardinality(Ladders(L, K))
             D == Cardinality(Due(f, P, L))
             E == Cardinality(Due(f, P, 1))
             F == Left(Workers, f, L, K)
  <1>1. K \in Nat
    BY WorkersFinite, FS_CardinalityType
  <1>2. F \in Nat /\ C \in Nat /\ D \in Nat /\ E \in Nat
    BY <1>1, LeftFacts, DueSize, LaddersFinite
  <1>3. n + F < C + D /\ (a = 0 => n <= E)
    BY DEF Kept
  <1>4. m + F < C + D /\ (a = 0 => m <= E)
    <2> HIDE DEF C, D, E, F
    <2> QED
      BY <1>2, <1>3
  <1> QED
    BY <1>4 DEF Kept

\* Somebody who has found the counter below its limit is due.
LEMMA KeptTry ==
    ASSUME NEW L \in Nat, NEW f \in [Workers -> Nat], NEW P \in SUBSET Workers, NEW n \in Nat,
           NEW w \in Workers \ P, f[w] < L, Kept(Workers, f, P, L, n, f[w])
    PROVE  Kept(Workers, f, P \cup {w}, L, n + 1, f[w])
  <1> DEFINE K == Cardinality(Workers)
             D(m) == Due(f, P, m)
             E(m) == Due(f, P \cup {w}, m)
  <1>1. K \in Nat
    BY WorkersFinite, FS_CardinalityType
  <1>2. \A m \in Nat : f[w] < m => Cardinality(E(m)) = Cardinality(D(m)) + 1
    <2> SUFFICES ASSUME NEW m \in Nat, f[w] < m PROVE Cardinality(E(m)) = Cardinality(D(m)) + 1
      OBVIOUS
    <2>1. E(m) = D(m) \cup {w} /\ w \notin D(m)
      BY DEF Due
    <2>2. IsFiniteSet(D(m))
      BY DueSize
    <2> HIDE DEF D, E
    <2> QED
      BY <2>1, <2>2, FS_AddElement
  <1>3. \A m \in Nat : Cardinality(E(m)) \in Nat /\ Cardinality(D(m)) \in Nat
    BY DueSize
  <1>4. Left(Workers, f, L, K) \in Nat /\ Cardinality(Ladders(L, K)) \in Nat
    BY <1>1, LeftFacts, LaddersFinite
  <1>5. n + Left(Workers, f, L, K) < Cardinality(Ladders(L, K)) + Cardinality(D(L))
        /\ (f[w] = 0 => n <= Cardinality(D(1)))
    BY DEF Kept
  <1> HIDE DEF D, E, K
  <1>6. n + 1 + Left(Workers, f, L, K) < Cardinality(Ladders(L, K)) + Cardinality(E(L))
    BY <1>2, <1>3, <1>4, <1>5
  <1>7. f[w] = 0 => n + 1 <= Cardinality(E(1))
    BY <1>2, <1>3, <1>5
  <1> QED
    BY <1>6, <1>7 DEF Kept, E, K

\* A write.
LEMMA KeptWrite ==
    ASSUME NEW L \in Nat, NEW f \in [Workers -> Nat], NEW g \in [Workers -> Nat],
           NEW P \in SUBSET Workers, NEW v \in Workers, NEW X \in SUBSET (Workers \ {v}),
           NEW a \in Nat, NEW b \in Nat \ {0}, b = f[v] + 1 \/ (b >= L /\ f[v] + 1 >= L),
           g[v] = b,
           \A w \in X : f[w] = a /\ g[w] = b,
           \A w \in Workers \ (X \cup {v}) : g[w] = f[w],
           NEW n \in Nat, Kept(Workers, f, P, L, n, a)
    PROVE  Kept(Workers, g, P \ {v}, L, n, b)
  <1> DEFINE K == Cardinality(Workers)
             C == Cardinality(Ladders(L, K))
             F == Left(Workers, f, L, K)
             G == Left(Workers, g, L, K)
             D == Cardinality(Due(f, P, L))
             E == Cardinality(Due(g, P \ {v}, L))
  <1>1. G + D <= F + E
    BY WriteClimbs, ZenonT(60)
  <1>2. K \in Nat
    BY WorkersFinite, FS_CardinalityType
  <1>3. F \in Nat /\ G \in Nat /\ C \in Nat /\ D \in Nat /\ E \in Nat
    BY <1>2, LeftFacts, DueSize, LaddersFinite
  <1>4. n + F < C + D
    BY DEF Kept
  <1>5. n + G < C + E
    <2> HIDE DEF C, D, E, F, G
    <2> QED
      BY <1>1, <1>3, <1>4
  <1> QED
    BY <1>5 DEF Kept

\* What the invariant is for.
LEMMA KeptBound ==
    ASSUME NEW L \in Nat, NEW f \in [Workers -> Nat], NEW P \in SUBSET Workers, NEW n \in Nat, NEW a,
           Kept(Workers, f, P, L, n, a)
    PROVE  n <= Cardinality(Ladders(L, Cardinality(Workers))) - 1
  <1> DEFINE K == Cardinality(Workers)
             C == Cardinality(Ladders(L, K))
             F == Left(Workers, f, L, K)
             D == Cardinality(Due(f, P, L))
  <1>1. K \in Nat
    BY WorkersFinite, FS_CardinalityType
  <1>2. F \in Nat /\ C \in Nat /\ D \in Nat /\ D <= F
    BY <1>1, LeftFacts, DueSize, LaddersFinite
  <1>3. n + F < C + D
    BY DEF Kept
  <1> HIDE DEF C, D, F
  <1>4. n <= C - 1
    BY <1>2, <1>3
  <1> QED
    BY <1>4 DEF C

LEMMA Bounds == /\ MaxAttempts \in Nat /\ MaxAttempts > 0 /\ MaxRequest \in Nat
                /\ MaxGuesses \in Nat
  <1>1. MaxAttempts \in Nat /\ MaxAttempts > 0 /\ MaxRequest \in Nat
    BY RegistrationAssumption
  <1>2. Cardinality(Workers) \in Nat
    BY WorkersFinite, FS_CardinalityType
  <1>3. Cardinality(Ladders(MaxAttempts, Cardinality(Workers))) \in Nat \ {0}
    BY <1>1, <1>2, LaddersSome
  <1> QED
    BY <1>1, <1>3 DEF MaxGuesses

-----------------------------------------------------------------------------
(***************************************************************************)
(* Tables and jobs                                                         *)
(***************************************************************************)
LEMMA PutTable ==
    ASSUME NEW t, NEW ids, NEW rows, IsTable(t, ids, rows), NEW i \in ids, NEW r \in rows
    PROVE  /\ IsTable(Put(t, i, r), ids, rows)
           /\ Ids(Put(t, i, r)) = Ids(t) \cup {i}
           /\ \A j \in Ids(t) \cup {i} : Put(t, i, r)[j] = IF j = i THEN r ELSE t[j]
  BY DEF IsTable, Ids, Put

LEMMA DropTable ==
    ASSUME NEW t, NEW ids, NEW rows, IsTable(t, ids, rows), NEW S
    PROVE  /\ IsTable(Drop(t, S), ids, rows)
           /\ Ids(Drop(t, S)) = Ids(t) \ S
           /\ \A j \in Ids(t) \ S : Drop(t, S)[j] = t[j]
  BY DEF IsTable, Ids, Drop

\* A row that is in use, and what may become of it.
LEMMA RowType ==
    ASSUME TypeOK, NEW i \in Ids(request)
    PROVE  /\ i \in RequestIds
           /\ request[i] \in Rows
           /\ request[i].email \in Emails
           /\ request[i].attempts \in 0 .. MaxAttempts
           /\ \A a \in 0 .. MaxAttempts, x \in BOOLEAN :
                /\ [request[i] EXCEPT !.attempts = a] \in Rows
                /\ [request[i] EXCEPT !.expired = x] \in Rows
                /\ [request[i] EXCEPT !.expired = x, !.attempts = a] \in Rows
  <1>1. i \in RequestIds /\ request[i] \in Rows
    BY DEF TypeOK, IsTable, Ids
  <1> QED
    BY <1>1 DEF Rows

\* What a job of each kind carries.
LEMMA JobKind ==
    ASSUME NEW j \in Job
    PROVE  /\ j.k = "insert" => j.b \in Browsers /\ j.verified \in BOOLEAN /\ j.email \in Emails
           /\ j.k = "purge" => j.id \in RequestIds
           /\ j.k = "miss" => j.id \in RequestIds /\ j.seen \in 0 .. MaxAttempts
           /\ j.k = "resend" => j.id \in RequestIds /\ j.reset \in BOOLEAN
           /\ j.k = "pass" => j.b \in Browsers /\ j.id \in RequestIds
           /\ j.k = "submit" => j.b \in Browsers /\ j.id \in RequestIds /\ j.email \in Emails
  BY DEF Job, Idle

\* The jobs there are.
LEMMA JobIn ==
    /\ Idle \in Job
    /\ \A b \in Browsers, v \in BOOLEAN, e \in Emails :
          [k |-> "insert", b |-> b, verified |-> v, email |-> e] \in Job
    /\ \A i \in RequestIds : [k |-> "purge", id |-> i] \in Job
    /\ \A i \in RequestIds, n \in 0 .. MaxAttempts : [k |-> "miss", id |-> i, seen |-> n] \in Job
    /\ \A i \in RequestIds, x \in BOOLEAN : [k |-> "resend", id |-> i, reset |-> x] \in Job
    /\ \A b \in Browsers, i \in RequestIds : [k |-> "pass", b |-> b, id |-> i] \in Job
    /\ \A b \in Browsers, i \in RequestIds, e \in Emails :
          [k |-> "submit", b |-> b, id |-> i, email |-> e] \in Job
  BY DEF Job

LEMMA Does == ASSUME TypeOK, NEW w \in Workers, NEW j \in Job, job' = [job EXCEPT ![w] = j]
              PROVE  /\ job' \in [Workers -> Job]
                     /\ \A v \in Workers : job'[v] = IF v = w THEN j ELSE job[v]
  BY DEF TypeOK

\* A request has set a cookie of the type.
LEMMA Answers ==
    ASSUME TypeOK, NEW b, NEW jar \in Cookies, cookie' = [cookie EXCEPT ![b] = jar]
    PROVE  /\ cookie' \in [Browsers -> Cookies]
           /\ \A c \in Browsers : cookie'[c] = IF c = b THEN jar ELSE cookie[c]
  BY DEF TypeOK

LEMMA CookieType ==
    ASSUME TypeOK, NEW b \in Browsers
    PROVE  cookie[b] \in Cookies /\ cookie[b].verified \in BOOLEAN
  BY DEF TypeOK, Cookies
-----------------------------------------------------------------------------
(***************************************************************************)
(* Types                                                                   *)
(***************************************************************************)
\* A wrong code is only counted on a row that had attempts left.
MissInv == /\ TypeOK
           /\ \A w \in Workers : job[w].k = "miss" => job[w].seen < MaxAttempts

LEMMA MissInit == Init => MissInv
  <1> SUFFICES ASSUME Init PROVE MissInv
    OBVIOUS
  <1>1. IsTable(request, RequestIds, Rows)
    BY DEF Init, IsTable, Ids
  <1>2. cookie \in [Browsers -> Cookies]
    BY DEF Init, Cookies, Fresh
  <1>3. job \in [Workers -> Job] /\ \A w \in Workers : job[w].k # "miss"
    BY JobIn DEF Init, Idle
  <1>4. guesses \in [RequestIds -> 0 .. MaxGuesses + 1]
    BY Bounds DEF Init
  <1> QED
    BY <1>1, <1>2, <1>3, <1>4 DEF Init, MissInv, TypeOK

\* A worker's next job keeps the invariant, if it counts no attempt too many.
LEMMA MissJob ==
    ASSUME MissInv, NEW w \in Workers, NEW j \in Job, job' = [job EXCEPT ![w] = j],
           j.k = "miss" => j.seen < MaxAttempts
    PROVE  /\ job' \in [Workers -> Job]
           /\ \A v \in Workers : job'[v].k = "miss" => job'[v].seen < MaxAttempts
  BY Does DEF MissInv

LEMMA IdleJob == Idle \in Job /\ Idle.k = "idle"
  BY JobIn DEF Idle

\* Guesses at a row's code begin anew, or one is added.
LEMMA GuessType ==
    ASSUME TypeOK, NEW i \in RequestIds
    PROVE  /\ [guesses EXCEPT ![i] = 0] \in [RequestIds -> 0 .. MaxGuesses + 1]
           /\ [guesses EXCEPT ![i] = IF @ <= MaxGuesses THEN @ + 1 ELSE @]
                \in [RequestIds -> 0 .. MaxGuesses + 1]
           /\ [guesses EXCEPT ![i] = IF i \in Ids(request) THEN 0 ELSE @]
                \in [RequestIds -> 0 .. MaxGuesses + 1]
  <1>1. guesses[i] \in 0 .. MaxGuesses + 1 /\ 0 \in 0 .. MaxGuesses + 1
    BY Bounds DEF TypeOK
  <1>2. (IF guesses[i] <= MaxGuesses THEN guesses[i] + 1 ELSE guesses[i]) \in 0 .. MaxGuesses + 1
    BY <1>1, Bounds
  <1> QED
    BY <1>1, <1>2 DEF TypeOK

\* A row that was read before it changed is updated if it is still there.
LEMMA UpdateType ==
    ASSUME TypeOK, NEW i \in RequestIds, NEW r, Update(i, r), i \in Ids(request) => r \in Rows
    PROVE  IsTable(request', RequestIds, Rows)
  <1>1. IsTable(request, RequestIds, Rows)
    BY DEF TypeOK
  <1>2. CASE i \in Ids(request)
    BY <1>1, <1>2, PutTable DEF Update
  <1>3. CASE i \notin Ids(request)
    BY <1>1, <1>3 DEF Update
  <1> QED
    BY <1>2, <1>3

LEMMA DeleteType ==
    ASSUME TypeOK, NEW i \in RequestIds, Delete(i)
    PROVE  /\ IsTable(request', RequestIds, Rows)
           /\ guesses' \in [RequestIds -> 0 .. MaxGuesses + 1]
  BY GuessType, DropTable DEF Delete, TypeOK

LEMMA TypeLoad ==
    ASSUME MissInv, NEW w \in Workers, NEW b \in Browsers,
           \/ \E e \in Emails : LoadRegister(w, b, e)
           \/ LoadResend(w, b) \/ LoadSubmit(w, b)
    PROVE  MissInv'
  <1> USE CookieType DEF MissInv
  <1>1. ASSUME NEW e \in Emails, LoadRegister(w, b, e) PROVE MissInv'
    <2> DEFINE j == [k |-> "insert", b |-> b, verified |-> cookie[b].verified, email |-> e]
    <2>1. j \in Job /\ j.k # "miss"
      BY JobIn
    <2>2. job' = [job EXCEPT ![w] = j]
      BY <1>1 DEF LoadRegister
    <2> HIDE DEF j
    <2>3. /\ job' \in [Workers -> Job]
          /\ \A v \in Workers : job'[v].k = "miss" => job'[v].seen < MaxAttempts
      BY <2>1, <2>2, MissJob
    <2> QED
      BY <1>1, <2>3 DEF LoadRegister, TypeOK
  <1>2. CASE LoadResend(w, b)
    <2> DEFINE j == [k |-> "resend", id |-> cookie[b].id, reset |-> Row(b).attempts # 0]
    <2>1. cookie[b].id \in RequestIds
      BY <1>2, RowType DEF LoadResend, Holds
    <2>2. j \in Job /\ j.k # "miss"
      BY <2>1, JobIn
    <2>3. job' = [job EXCEPT ![w] = j]
      BY <1>2 DEF LoadResend
    <2> HIDE DEF j
    <2>4. /\ job' \in [Workers -> Job]
          /\ \A v \in Workers : job'[v].k = "miss" => job'[v].seen < MaxAttempts
      BY <2>2, <2>3, MissJob
    <2> QED
      BY <1>2, <2>4 DEF LoadResend, TypeOK
  <1>3. CASE LoadSubmit(w, b)
    <2> DEFINE j == [k |-> "submit", b |-> b, id |-> cookie[b].id, email |-> Row(b).email]
    <2>1. cookie[b].id \in RequestIds /\ Row(b).email \in Emails
      BY <1>3, RowType DEF LoadSubmit, MayRequest, Holds, Row
    <2>2. j \in Job /\ j.k # "miss"
      BY <2>1, JobIn
    <2>3. job' = [job EXCEPT ![w] = j]
      BY <1>3 DEF LoadSubmit
    <2> HIDE DEF j
    <2>4. /\ job' \in [Workers -> Job]
          /\ \A v \in Workers : job'[v].k = "miss" => job'[v].seen < MaxAttempts
      BY <2>2, <2>3, MissJob
    <2> QED
      BY <1>3, <2>4 DEF LoadSubmit, TypeOK
  <1> QED
    BY <1>1, <1>2, <1>3

LEMMA TypeVerify ==
    ASSUME MissInv, NEW w \in Workers, NEW b \in Browsers, NEW right \in BOOLEAN,
           Verify(w, b, right)
    PROVE  MissInv'
  <1> DEFINE i == cookie[b].id
             Taken == /\ job' \in [Workers -> Job]
                      /\ \A v \in Workers : job'[v].k = "miss" => job'[v].seen < MaxAttempts
  <1>1. TypeOK /\ i \in Ids(request) /\ i \in RequestIds /\ request[i].attempts \in 0 .. MaxAttempts
    BY RowType DEF MissInv, Verify, Holds
  <1>2. UNCHANGED <<request, account, cookie>>
    BY DEF Verify
  <1>3. proved' \in SUBSET Browsers
    BY DEF Verify, MissInv, TypeOK
  <1>4. guesses' \in [RequestIds -> 0 .. MaxGuesses + 1]
    BY <1>1, GuessType DEF Verify, TypeOK
  <1>5. Taken
    <2>1. \/ job' = [job EXCEPT ![w] = [k |-> "purge", id |-> i]]
          \/ job' = [job EXCEPT ![w] = [k |-> "pass", b |-> b, id |-> i]]
          \/ /\ job' = [job EXCEPT ![w] = [k |-> "miss", id |-> i, seen |-> request[i].attempts]]
             /\ ~Locked(i)
      BY DEF Verify, Row
    <2>2. CASE job' = [job EXCEPT ![w] = [k |-> "purge", id |-> i]]
      <3>1. [k |-> "purge", id |-> i] \in Job /\ [k |-> "purge", id |-> i].k = "purge"
        BY <1>1, JobIn
      <3> QED
        BY <2>2, <3>1, MissJob
    <2>3. CASE job' = [job EXCEPT ![w] = [k |-> "pass", b |-> b, id |-> i]]
      <3>1. [k |-> "pass", b |-> b, id |-> i] \in Job /\ [k |-> "pass", b |-> b, id |-> i].k = "pass"
        BY <1>1, JobIn
      <3> QED
        BY <2>3, <3>1, MissJob
    <2>4. ASSUME job' = [job EXCEPT ![w] = [k |-> "miss", id |-> i, seen |-> request[i].attempts]],
                 ~Locked(i)
          PROVE  Taken
      <3> DEFINE j == [k |-> "miss", id |-> i, seen |-> request[i].attempts]
      <3>1. j \in Job
        BY <1>1, JobIn
      <3>2. j.seen < MaxAttempts
        BY <1>1, <2>4, Bounds DEF Locked
      <3>3. job' = [job EXCEPT ![w] = j]
        BY <2>4
      <3> HIDE DEF j
      <3> QED
        BY <3>1, <3>2, <3>3, MissJob
    <2> QED
      BY <2>1, <2>2, <2>3, <2>4
  <1> QED
    BY <1>1, <1>2, <1>3, <1>4, <1>5 DEF MissInv, TypeOK

LEMMA TypeHandle == ASSUME MissInv, NEW w \in Workers, Handle(w) PROVE MissInv'
  <1> USE Bounds DEF MissInv
  <1>1. /\ job' = [job EXCEPT ![w] = Idle]
        /\ job' \in [Workers -> Job]
        /\ \A v \in Workers : job'[v].k = "miss" => job'[v].seen < MaxAttempts
    <2>1. job' = [job EXCEPT ![w] = Idle]
      BY DEF Handle, CommitRegister, CommitPurge, CommitMiss, CommitPass, CommitResend, CommitSubmit
    <2> QED
      BY <2>1, IdleJob, MissJob
  <1>2. job[w] \in Job
    BY DEF TypeOK
  <1>3. CASE CommitRegister(w)
    <2>1. job[w].b \in Browsers /\ job[w].verified \in BOOLEAN /\ job[w].email \in Emails
      BY <1>2, <1>3, JobKind DEF CommitRegister
    <2>2. CASE UNCHANGED <<request, cookie, guesses>>
      BY <1>1, <1>3, <2>2 DEF CommitRegister, TypeOK
    <2>3. ASSUME NEW i \in RequestIds, request' = Put(request, i, NewRow(job[w].email)),
                 guesses' = [guesses EXCEPT ![i] = 0],
                 Answer(job[w].b, [id |-> i, verified |-> job[w].verified])
          PROVE  MissInv'
      <3>1. NewRow(job[w].email) \in Rows
        BY <2>1 DEF NewRow, Rows
      <3>2. IsTable(request', RequestIds, Rows)
        BY <2>3, <3>1, PutTable DEF TypeOK
      <3>3. [id |-> i, verified |-> job[w].verified] \in Cookies
        BY <2>1 DEF Cookies
      <3>4. cookie' \in [Browsers -> Cookies]
        BY <2>3, <3>3 DEF TypeOK
      <3>5. guesses' \in [RequestIds -> 0 .. MaxGuesses + 1]
        BY <2>3, GuessType
      <3> QED
        BY <1>1, <1>3, <3>2, <3>4, <3>5 DEF CommitRegister, TypeOK
    <2> QED
      BY <1>3, <2>2, <2>3 DEF CommitRegister
  <1>4. CASE CommitPurge(w)
    <2>1. job[w].id \in RequestIds
      BY <1>2, <1>4, JobKind DEF CommitPurge
    <2> QED
      BY <1>1, <1>4, <2>1, DeleteType DEF CommitPurge, TypeOK
  <1>5. CASE CommitMiss(w)
    <2> DEFINE i == job[w].id
               r == [request[i] EXCEPT !.attempts = job[w].seen + 1]
    <2>1. i \in RequestIds /\ job[w].seen + 1 \in 0 .. MaxAttempts
      BY <1>2, <1>5, JobKind DEF CommitMiss
    <2>2. i \in Ids(request) => r \in Rows
      BY <2>1, RowType
    <2>3. Update(i, r)
      BY <1>5 DEF CommitMiss
    <2> HIDE DEF r
    <2>4. IsTable(request', RequestIds, Rows)
      BY <2>1, <2>2, <2>3, UpdateType
    <2> QED
      BY <1>1, <1>5, <2>4 DEF CommitMiss, TypeOK
  <1>6. CASE CommitPass(w)
    <2> DEFINE i == job[w].id
               r == [request[i] EXCEPT !.expired = FALSE]
    <2>1. i \in RequestIds /\ job[w].b \in Browsers
      BY <1>2, <1>6, JobKind DEF CommitPass
    <2>2. i \in Ids(request) => r \in Rows
      BY RowType
    <2>3. Update(i, r)
      BY <1>6 DEF CommitPass
    <2>4. IsTable(request', RequestIds, Rows)
      <3> HIDE DEF r
      <3> QED
        BY <2>1, <2>2, <2>3, UpdateType
    <2>5. [id |-> i, verified |-> TRUE] \in Cookies
      BY <2>1 DEF Cookies
    <2>6. cookie' \in [Browsers -> Cookies]
      BY <1>6, <2>5 DEF CommitPass, TypeOK
    <2> QED
      BY <1>1, <1>6, <2>4, <2>6 DEF CommitPass, TypeOK
  <1>7. CASE CommitResend(w)
    <2> DEFINE i == job[w].id
               r == [request[i] EXCEPT !.expired = FALSE,
                                       !.attempts = IF job[w].reset THEN 0 ELSE @]
    <2>1. i \in RequestIds
      BY <1>2, <1>7, JobKind DEF CommitResend
    <2>2. i \in Ids(request) => r \in Rows
      <3> SUFFICES ASSUME i \in Ids(request) PROVE r \in Rows
        OBVIOUS
      <3>3. request[i] \in Rows
        BY RowType
      <3>4. 0 \in 0 .. MaxAttempts
        BY Bounds
      <3>2. request[i].attempts \in 0 .. MaxAttempts
        BY <3>3 DEF Rows
      <3>1. (IF job[w].reset THEN 0 ELSE request[i].attempts) \in 0 .. MaxAttempts
        BY <3>2, <3>4
      <3> QED
        BY <3>1, <3>3 DEF Rows
    <2>3. Update(i, r)
      BY <1>7 DEF CommitResend
    <2>4. IsTable(request', RequestIds, Rows)
      <3> HIDE DEF r
      <3> QED
        BY <2>1, <2>2, <2>3, UpdateType
    <2>5. guesses' \in [RequestIds -> 0 .. MaxGuesses + 1]
      BY <1>7, <2>1, GuessType DEF CommitResend
    <2> QED
      BY <1>1, <1>7, <2>4, <2>5 DEF CommitResend, TypeOK
  <1>8. CASE CommitSubmit(w)
    <2>1. job[w].b \in Browsers /\ job[w].id \in RequestIds /\ job[w].email \in Emails
      BY <1>2, <1>8, JobKind DEF CommitSubmit
    <2>2. CASE UNCHANGED <<request, account, cookie, guesses>>
      BY <1>1, <1>8, <2>2 DEF CommitSubmit, TypeOK
    <2>3. CASE /\ account' = account \cup {job[w].email}
               /\ Delete(job[w].id)
               /\ Answer(job[w].b, Fresh)
      <3>1. cookie' \in [Browsers -> Cookies]
        BY <2>3 DEF TypeOK, Cookies, Fresh
      <3>2. IsTable(request', RequestIds, Rows) /\ guesses' \in [RequestIds -> 0 .. MaxGuesses + 1]
        BY <2>1, <2>3, DeleteType
      <3> QED
        BY <1>1, <1>8, <2>1, <2>3, <3>1, <3>2 DEF CommitSubmit, TypeOK
    <2> QED
      BY <1>8, <2>2, <2>3 DEF CommitSubmit
  <1> QED
    BY <1>3, <1>4, <1>5, <1>6, <1>7, <1>8 DEF Handle

LEMMA MissStep == MissInv /\ [Next]_vars => MissInv'
  <1> SUFFICES ASSUME MissInv, [Next]_vars PROVE MissInv'
    OBVIOUS
  <1> USE DEF MissInv
  <1>1. CASE UNCHANGED vars
    BY <1>1 DEF vars, TypeOK
  <1>2. ASSUME NEW b \in Browsers, Forget(b) PROVE MissInv'
    <2>1. [cookie[b] EXCEPT !.id = 0] \in Cookies /\ Fresh \in Cookies
      BY CookieType DEF Cookies, Fresh
    <2>2. cookie' \in [Browsers -> Cookies]
      BY <1>2, <2>1 DEF Forget, TypeOK
    <2> QED
      BY <1>2, <2>2 DEF Forget, TypeOK
  <1>3. ASSUME NEW i \in RequestIds, Expire(i) PROVE MissInv'
    <2>1. i \in Ids(request) /\ request' = [request EXCEPT ![i].expired = TRUE]
      BY <1>3 DEF Expire
    <2>2. [request[i] EXCEPT !.expired = TRUE] \in Rows
      BY <2>1, RowType
    <2>3. IsTable(request', RequestIds, Rows)
      BY <2>1, <2>2 DEF IsTable, Ids, TypeOK
    <2> QED
      BY <1>3, <2>3 DEF Expire, TypeOK
  <1> QED
    BY <1>1, <1>2, <1>3, TypeLoad, TypeVerify, TypeHandle DEF Next

\* Every variable keeps its type: no interleaving of wrong codes makes the
\* table refuse a count of attempts (CHECK verification_attempts).
THEOREM TypeCorrect == Spec => []TypeOK
  <1>1. MissInv => TypeOK
    BY DEF MissInv
  <1> QED
    BY <1>1, MissInit, MissStep, PTL DEF Spec

-----------------------------------------------------------------------------
(***************************************************************************)
(* One request per address                                                 *)
(***************************************************************************)
\* A step that leaves every row its address, or takes rows away.
LEMMA OneKept ==
    ASSUME OneRequestPerEmail, NEW t, Ids(t) \subseteq Ids(request),
           \A i \in Ids(t) : t[i].email = request[i].email, request' = t
    PROVE  OneRequestPerEmail'
  BY DEF OneRequestPerEmail

LEMMA OneUpdate ==
    ASSUME TypeOK, OneRequestPerEmail, NEW i, NEW r, Update(i, r),
           i \in Ids(request) => r.email = request[i].email
    PROVE  OneRequestPerEmail'
  <1>1. CASE i \in Ids(request)
    <2>1. request' = Put(request, i, r)
      BY <1>1 DEF Update
    <2>2. Ids(Put(request, i, r)) = Ids(request)
      BY <1>1 DEF Put, Ids
    <2>3. \A j \in Ids(request) : Put(request, i, r)[j].email = request[j].email
      BY <1>1 DEF Put, Ids
    <2> QED
      BY <2>1, <2>2, <2>3, OneKept
  <1>2. CASE i \notin Ids(request)
    BY <1>2 DEF Update, OneRequestPerEmail
  <1> QED
    BY <1>1, <1>2

LEMMA OneDelete == ASSUME TypeOK, OneRequestPerEmail, NEW i, Delete(i) PROVE OneRequestPerEmail'
  <1>1. request' = Drop(request, {i})
    BY DEF Delete
  <1>2. Ids(Drop(request, {i})) \subseteq Ids(request)
    BY DEF Drop, Ids
  <1>3. \A j \in Ids(Drop(request, {i})) : Drop(request, {i})[j].email = request[j].email
    BY DEF Drop, Ids
  <1> QED
    BY <1>1, <1>2, <1>3, OneKept

LEMMA OneStep == MissInv /\ OneRequestPerEmail /\ [Next]_vars => OneRequestPerEmail'
  <1> SUFFICES ASSUME MissInv, OneRequestPerEmail, [Next]_vars PROVE OneRequestPerEmail'
    OBVIOUS
  <1> USE DEF MissInv
  <1>1. ASSUME UNCHANGED request PROVE OneRequestPerEmail'
    BY <1>1 DEF OneRequestPerEmail
  <1>2. ASSUME NEW w \in Workers, CommitRegister(w) PROVE OneRequestPerEmail'
    <2>1. CASE UNCHANGED request
      BY <1>1, <2>1
    <2>2. ASSUME NEW i \in RequestIds, request' = Put(request, i, NewRow(job[w].email)),
                 NextRowId(request, i),
                 \A j \in Ids(request) : request[j].email # job[w].email
          PROVE  OneRequestPerEmail'
      <3> DEFINE t == Put(request, i, NewRow(job[w].email))
      <3>1. /\ Ids(t) = Ids(request) \cup {i}
            /\ t[i].email = job[w].email
            /\ \A j \in Ids(request) : j # i => t[j] = request[j]
        BY DEF Put, Ids, NewRow
      <3>2. request' = t
        BY <2>2
      <3> HIDE DEF t
      <3>3. \A j, k \in Ids(t) : t[j].email = t[k].email => j = k
        BY <2>2, <3>1 DEF OneRequestPerEmail
      <3> QED
        BY <3>2, <3>3 DEF OneRequestPerEmail
    <2> QED
      BY <1>2, <2>1, <2>2 DEF CommitRegister
  <1>3. ASSUME NEW w \in Workers, CommitPurge(w) PROVE OneRequestPerEmail'
    BY <1>3, OneDelete DEF CommitPurge
  <1>4. ASSUME NEW w \in Workers, CommitMiss(w) PROVE OneRequestPerEmail'
    <2> DEFINE i == job[w].id
               r == [request[i] EXCEPT !.attempts = job[w].seen + 1]
    <2>1. Update(i, r)
      BY <1>4 DEF CommitMiss
    <2>2. i \in Ids(request) => r.email = request[i].email
      BY RowType DEF Rows
    <2> HIDE DEF r
    <2> QED
      BY <2>1, <2>2, OneUpdate
  <1>5. ASSUME NEW w \in Workers, CommitPass(w) PROVE OneRequestPerEmail'
    <2> DEFINE i == job[w].id
               r == [request[i] EXCEPT !.expired = FALSE]
    <2>1. Update(i, r)
      BY <1>5 DEF CommitPass
    <2>2. i \in Ids(request) => r.email = request[i].email
      BY RowType DEF Rows
    <2> HIDE DEF r
    <2> QED
      BY <2>1, <2>2, OneUpdate
  <1>6. ASSUME NEW w \in Workers, CommitResend(w) PROVE OneRequestPerEmail'
    <2> DEFINE i == job[w].id
               r == [request[i] EXCEPT !.expired = FALSE,
                                       !.attempts = IF job[w].reset THEN 0 ELSE @]
    <2>1. Update(i, r)
      BY <1>6 DEF CommitResend
    <2>2. i \in Ids(request) => r.email = request[i].email
      BY RowType DEF Rows
    <2> HIDE DEF r
    <2> QED
      BY <2>1, <2>2, OneUpdate
  <1>7. ASSUME NEW w \in Workers, CommitSubmit(w) PROVE OneRequestPerEmail'
    BY <1>1, <1>7, OneDelete DEF CommitSubmit
  <1>8. ASSUME NEW i \in RequestIds, Expire(i) PROVE OneRequestPerEmail'
    <2> DEFINE t == [request EXCEPT ![i].expired = TRUE]
    <2>1. i \in Ids(request) /\ request' = t
      BY <1>8 DEF Expire
    <2>2. Ids(t) = Ids(request)
      BY DEF Ids
    <2>3. \A j \in Ids(t) : t[j].email = request[j].email
      BY RowType DEF Rows, Ids
    <2> QED
      BY <2>1, <2>2, <2>3, OneKept
  <1> QED
    BY <1>1, <1>2, <1>3, <1>4, <1>5, <1>6, <1>7, <1>8
       DEF Next, Handle, vars, LoadRegister, LoadResend, LoadSubmit, Verify, Forget

\* Two forms with the same address may pass the checks together, but only one
\* of them becomes a request (register_account, UNIQUE email).
THEOREM RequestsAreOne == Spec => []OneRequestPerEmail
  <1>1. Init => OneRequestPerEmail
    BY DEF Init, OneRequestPerEmail, Ids
  <1> QED
    BY <1>1, MissInit, MissStep, OneStep, PTL DEF Spec

-----------------------------------------------------------------------------
(***************************************************************************)
(* Who submits                                                             *)
(***************************************************************************)
\* Whoever has, or is about to get, a cookie that says so entered a right code.
ProofInv ==
    /\ \A b \in Browsers : cookie[b].verified => b \in proved
    /\ \A w \in Workers :
         /\ job[w].k = "insert" /\ job[w].verified => job[w].b \in proved
         /\ job[w].k \in {"pass", "submit"} => job[w].b \in proved

LEMMA ProofInit == Init => ProofInv
  BY DEF Init, ProofInv, Fresh, Idle

\* A step that begins no such job and sets no such cookie.
LEMMA ProofKept ==
    ASSUME TypeOK, ProofInv, proved \subseteq proved',
           \/ UNCHANGED job
           \/ \E w \in Workers, j \in Job :
                 /\ job' = [job EXCEPT ![w] = j]
                 /\ j.k = "insert" /\ j.verified => j.b \in proved'
                 /\ j.k \in {"pass", "submit"} => j.b \in proved',
           \/ UNCHANGED cookie
           \/ \E b \in Browsers, jar \in Cookies :
                 /\ cookie' = [cookie EXCEPT ![b] = jar]
                 /\ jar.verified => b \in proved
    PROVE  ProofInv'
  <1>1. \A b \in Browsers : cookie'[b].verified => b \in proved'
    <2>1. CASE UNCHANGED cookie
      BY <2>1 DEF ProofInv
    <2>2. ASSUME NEW b \in Browsers, NEW jar \in Cookies, cookie' = [cookie EXCEPT ![b] = jar],
                 jar.verified => b \in proved
          PROVE  \A c \in Browsers : cookie'[c].verified => c \in proved'
      BY <2>2, Answers DEF ProofInv
    <2> QED
      BY <2>1, <2>2
  <1>2. \A w \in Workers :
          /\ job'[w].k = "insert" /\ job'[w].verified => job'[w].b \in proved'
          /\ job'[w].k \in {"pass", "submit"} => job'[w].b \in proved'
    <2>1. CASE UNCHANGED job
      BY <2>1 DEF ProofInv
    <2>2. ASSUME NEW w \in Workers, NEW j \in Job, job' = [job EXCEPT ![w] = j],
                 j.k = "insert" /\ j.verified => j.b \in proved',
                 j.k \in {"pass", "submit"} => j.b \in proved'
          PROVE  \A v \in Workers :
                   /\ job'[v].k = "insert" /\ job'[v].verified => job'[v].b \in proved'
                   /\ job'[v].k \in {"pass", "submit"} => job'[v].b \in proved'
      BY <2>2, Does DEF ProofInv
    <2> QED
      BY <2>1, <2>2
  <1> QED
    BY <1>1, <1>2 DEF ProofInv

LEMMA ProofStep == MissInv /\ ProofInv /\ [Next]_vars => ProofInv'
  <1> SUFFICES ASSUME MissInv, ProofInv, [Next]_vars PROVE ProofInv'
    OBVIOUS
  <1>0. TypeOK
    BY DEF MissInv
  <1>1. CASE UNCHANGED vars
    BY <1>1 DEF vars, ProofInv
  <1>2. ASSUME NEW w \in Workers, NEW b \in Browsers, NEW e \in Emails, LoadRegister(w, b, e)
        PROVE  ProofInv'
    <2> DEFINE j == [k |-> "insert", b |-> b, verified |-> cookie[b].verified, email |-> e]
    <2>1. j \in Job
      BY <1>0, CookieType, JobIn
    <2>2. j.k = "insert" /\ (j.verified => j.b \in proved)
      BY DEF ProofInv
    <2>3. job' = [job EXCEPT ![w] = j] /\ proved' = proved /\ UNCHANGED cookie
      BY <1>2 DEF LoadRegister
    <2> HIDE DEF j
    <2> QED
      BY <1>0, <2>1, <2>2, <2>3, ProofKept
  <1>3. ASSUME NEW w \in Workers, NEW b \in Browsers, NEW right \in BOOLEAN, Verify(w, b, right)
        PROVE  ProofInv'
    <2> DEFINE i == cookie[b].id
    <2>1. i \in RequestIds /\ request[i].attempts \in 0 .. MaxAttempts
      BY <1>0, <1>3, RowType DEF Verify, Holds
    <2>2. UNCHANGED cookie /\ proved \subseteq proved'
      BY <1>3 DEF Verify
    <2>3. CASE job' = [job EXCEPT ![w] = [k |-> "purge", id |-> i]]
      <3>1. [k |-> "purge", id |-> i] \in Job /\ [k |-> "purge", id |-> i].k = "purge"
        BY <2>1, JobIn
      <3>2. PICK j \in Job : job' = [job EXCEPT ![w] = j] /\ j.k = "purge"
        BY <2>3, <3>1
      <3> QED
        BY <1>0, <2>2, <3>2, ProofKept
    <2>4. CASE job' = [job EXCEPT ![w] = [k |-> "miss", id |-> i, seen |-> request[i].attempts]]
      <3> DEFINE j == [k |-> "miss", id |-> i, seen |-> request[i].attempts]
      <3>1. j \in Job /\ j.k = "miss" /\ job' = [job EXCEPT ![w] = j]
        BY <2>1, <2>4, JobIn
      <3> HIDE DEF j
      <3> QED
        BY <1>0, <2>2, <3>1, ProofKept
    <2>5. CASE /\ job' = [job EXCEPT ![w] = [k |-> "pass", b |-> b, id |-> i]]
               /\ proved' = proved \cup {b}
      <3> DEFINE j == [k |-> "pass", b |-> b, id |-> i]
      <3>1. j \in Job /\ j.k = "pass" /\ j.b \in proved' /\ job' = [job EXCEPT ![w] = j]
        BY <2>1, <2>5, JobIn
      <3> HIDE DEF j
      <3> QED
        BY <1>0, <2>2, <3>1, ProofKept
    <2> QED
      BY <1>3, <2>3, <2>4, <2>5 DEF Verify, Row
  <1>4. ASSUME NEW w \in Workers, NEW b \in Browsers, LoadResend(w, b) PROVE ProofInv'
    <2> DEFINE j == [k |-> "resend", id |-> cookie[b].id, reset |-> Row(b).attempts # 0]
    <2>1. cookie[b].id \in RequestIds
      BY <1>0, <1>4, RowType DEF LoadResend, Holds
    <2>2. j \in Job /\ j.k = "resend"
      BY <2>1, JobIn
    <2>3. job' = [job EXCEPT ![w] = j] /\ proved' = proved /\ UNCHANGED cookie
      BY <1>4 DEF LoadResend
    <2> HIDE DEF j
    <2> QED
      BY <1>0, <2>2, <2>3, ProofKept
  <1>5. ASSUME NEW w \in Workers, NEW b \in Browsers, LoadSubmit(w, b) PROVE ProofInv'
    <2> DEFINE j == [k |-> "submit", b |-> b, id |-> cookie[b].id, email |-> Row(b).email]
    <2>1. cookie[b].id \in RequestIds /\ Row(b).email \in Emails
      BY <1>0, <1>5, RowType DEF LoadSubmit, MayRequest, Holds, Row
    <2>2. j \in Job /\ j.k = "submit" /\ j.b = b
      BY <2>1, JobIn
    <2>3. b \in proved
      BY <1>5 DEF LoadSubmit, MayRequest, ProofInv
    <2>4. job' = [job EXCEPT ![w] = j] /\ proved' = proved /\ UNCHANGED cookie
      BY <1>5 DEF LoadSubmit
    <2> HIDE DEF j
    <2> QED
      BY <1>0, <2>2, <2>3, <2>4, ProofKept
  <1>6. ASSUME NEW w \in Workers, Handle(w) PROVE ProofInv'
    <2>1. job' = [job EXCEPT ![w] = Idle] /\ proved' = proved
      BY <1>6
         DEF Handle, CommitRegister, CommitPurge, CommitMiss, CommitPass, CommitResend, CommitSubmit
    <2>2. \E j \in Job : /\ job' = [job EXCEPT ![w] = j]
                         /\ j.k = "insert" /\ j.verified => j.b \in proved'
                         /\ j.k \in {"pass", "submit"} => j.b \in proved'
      BY <2>1, IdleJob
    <2>3. job[w] \in Job
      BY <1>0 DEF TypeOK
    <2>4. \/ UNCHANGED cookie
          \/ \E b \in Browsers, jar \in Cookies :
                /\ cookie' = [cookie EXCEPT ![b] = jar]
                /\ jar.verified => b \in proved
      <3>1. CASE CommitRegister(w)
        <4>1. job[w].b \in Browsers /\ job[w].verified \in BOOLEAN
          BY <2>3, <3>1, JobKind DEF CommitRegister
        <4>2. \A i \in RequestIds : [id |-> i, verified |-> job[w].verified] \in Cookies
          BY <4>1 DEF Cookies
        <4>3. job[w].verified => job[w].b \in proved
          BY <3>1 DEF CommitRegister, ProofInv
        <4> QED
          BY <3>1, <4>1, <4>2, <4>3 DEF CommitRegister
      <3>2. CASE CommitPass(w)
        <4>1. job[w].b \in Browsers /\ job[w].id \in RequestIds
          BY <2>3, <3>2, JobKind DEF CommitPass
        <4>2. [id |-> job[w].id, verified |-> TRUE] \in Cookies
          BY <4>1 DEF Cookies
        <4>3. job[w].b \in proved
          BY <3>2 DEF CommitPass, ProofInv
        <4> QED
          BY <3>2, <4>1, <4>2, <4>3 DEF CommitPass
      <3>3. CASE CommitSubmit(w)
        <4>1. job[w].b \in Browsers
          BY <2>3, <3>3, JobKind DEF CommitSubmit
        <4>2. Fresh \in Cookies /\ ~Fresh.verified
          BY DEF Cookies, Fresh
        <4> QED
          BY <3>3, <4>1, <4>2 DEF CommitSubmit
      <3>4. CASE CommitPurge(w) \/ CommitMiss(w) \/ CommitResend(w)
        BY <3>4 DEF CommitPurge, CommitMiss, CommitResend
      <3> QED
        BY <1>6, <3>1, <3>2, <3>3, <3>4 DEF Handle
    <2> QED
      BY <1>0, <2>1, <2>2, <2>4, ProofKept
  <1>7. ASSUME NEW b \in Browsers, Forget(b) PROVE ProofInv'
    <2> DEFINE jar == [cookie[b] EXCEPT !.id = 0]
    <2>1. /\ jar \in Cookies /\ (jar.verified => b \in proved)
          /\ Fresh \in Cookies /\ ~Fresh.verified
      BY <1>0, CookieType DEF Cookies, Fresh, ProofInv
    <2>2. UNCHANGED job /\ proved' = proved
      BY <1>7 DEF Forget
    <2>3. cookie' = [cookie EXCEPT ![b] = jar] \/ cookie' = [cookie EXCEPT ![b] = Fresh]
      BY <1>7 DEF Forget
    <2> HIDE DEF jar
    <2> QED
      BY <1>0, <2>1, <2>2, <2>3, ProofKept
  <1>8. ASSUME NEW i \in RequestIds, Expire(i) PROVE ProofInv'
    BY <1>8 DEF Expire, ProofInv
  <1> QED
    BY <1>1, <1>2, <1>3, <1>4, <1>5, <1>6, <1>7, <1>8 DEF Next

\* Whoever submits an account has entered some right code, whichever requests
\* and cookies of the browser overtook each other (register_realms).
THEOREM SubmittersProved == Spec => SubmitterProved
  <1>1. ProofInv /\ [Next]_vars =>
          [\A w \in Workers :
              CommitSubmit(w) /\ account' # account => job[w].b \in proved]_vars
    BY DEF ProofInv, CommitSubmit
  <1> QED
    BY <1>1, MissInit, MissStep, ProofInit, ProofStep, PTL DEF Spec, SubmitterProved

-----------------------------------------------------------------------------
(***************************************************************************)
(* How many wrong codes are compared                                       *)
(***************************************************************************)
\* Whether a worker is about to count a wrong code on the row with the id i,
\* where the workers stand then, and what the wrong codes amount to.
Guessing(w, i) == job[w].k = "miss" /\ job[w].id = i
Value(i) == IF i \in Ids(request) THEN request[i].attempts ELSE 0
Levels(i) == [w \in Workers |-> IF Guessing(w, i) THEN job[w].seen ELSE Value(i)]
Missing(i) == {w \in Workers : Guessing(w, i)}

Judged(i) ==
    IF i \in Ids(request)
      THEN Kept(Workers, Levels(i), Missing(i), MaxAttempts, guesses[i], Value(i))
      ELSE guesses[i] = 0

GuessInv == MissInv /\ \A i \in RequestIds : Judged(i)

LEMMA GuessInit == Init => GuessInv
  <1>1. Init => \A i \in RequestIds : i \notin Ids(request) /\ guesses[i] = 0
    BY DEF Init, Ids
  <1> QED
    BY <1>1, MissInit DEF GuessInv, Judged

\* What a step does to the row with the id i: nothing that matters, a code that
\* is new, or a row that is gone; a worker guesses, or counts its guess.
Others(w) == \A v \in Workers : v # w => job'[v] = job[v]
Same(i) == /\ i \in Ids(request') <=> i \in Ids(request)
           /\ i \in Ids(request) => request'[i].attempts = request[i].attempts

Passes(w, i) == Others(w) /\ ~Guessing(w, i) /\ ~Guessing(w, i)' /\ Same(i) /\ guesses'[i] = guesses[i]
Renews(w, i) == Others(w) /\ ~Guessing(w, i)' /\ guesses'[i] = 0
Guesses(w, i) == /\ Others(w) /\ ~Guessing(w, i) /\ Guessing(w, i)' /\ Same(i)
                 /\ i \in Ids(request) /\ request[i].attempts < MaxAttempts
                 /\ job'[w].seen = request[i].attempts
                 /\ guesses'[i] <= guesses[i] + 1
Writes(w, i) == /\ Others(w) /\ Guessing(w, i) /\ ~Guessing(w, i)' /\ guesses'[i] = guesses[i]
                /\ i \in Ids(request') <=> i \in Ids(request)
                /\ i \in Ids(request) => request'[i].attempts = job[w].seen + 1
Ages(i) == job' = job /\ Same(i) /\ guesses'[i] = guesses[i]

Affects(w, i) == Passes(w, i) \/ Renews(w, i) \/ Guesses(w, i) \/ Writes(w, i)

LEMMA Takes ==
    ASSUME TypeOK, NEW w \in Workers, NEW j, job' = [job EXCEPT ![w] = j]
    PROVE  Others(w) /\ job'[w] = j
  BY DEF TypeOK, Others

LEMMA LoadAffects ==
    ASSUME TypeOK, NEW i \in RequestIds, NEW w \in Workers, NEW b \in Browsers,
           \/ \E e \in Emails : LoadRegister(w, b, e)
           \/ LoadResend(w, b) \/ LoadSubmit(w, b)
           \/ \E right \in BOOLEAN : Verify(w, b, right)
    PROVE  Affects(w, i)
  <1>1. /\ job[w] = Idle /\ ~Guessing(w, i) /\ request' = request
        /\ \E j : job' = [job EXCEPT ![w] = j]
    BY DEF LoadRegister, LoadResend, LoadSubmit, Verify, Guessing, Idle
  <1>2. Same(i)
    BY <1>1 DEF Same
  <1>3. ASSUME UNCHANGED guesses, \E j : job' = [job EXCEPT ![w] = j] /\ j.k # "miss"
        PROVE  Passes(w, i)
    BY <1>1, <1>2, <1>3, Takes DEF Passes, Guessing
  <1>4. ASSUME NEW right \in BOOLEAN, Verify(w, b, right), ~UNCHANGED guesses \/ job'[w].k = "miss"
        PROVE  Affects(w, i)
    <2>1. PICK id : id = cookie[b].id
      OBVIOUS
    <2>2. id \in Ids(request)
      BY <1>4, <2>1 DEF Verify, Holds
    <2>3. /\ ~Locked(id) /\ job' = [job EXCEPT ![w] = [k |-> "miss", id |-> id, seen |-> request[id].attempts]]
          /\ guesses' = [guesses EXCEPT ![id] = IF guesses[id] <= MaxGuesses THEN guesses[id] + 1 ELSE guesses[id]]
      <3>1. [k |-> "purge", id |-> id].k # "miss" /\ [k |-> "pass", b |-> b, id |-> id].k # "miss"
        OBVIOUS
      <3>2. \A j : job' = [job EXCEPT ![w] = j] => job'[w] = j
        BY Takes
      <3> QED
        BY <1>4, <2>1, <3>1, <3>2 DEF Verify, Row
    <2>4. id \in RequestIds /\ request[id].attempts < MaxAttempts
      <3>1. id \in RequestIds /\ request[id].attempts \in 0 .. MaxAttempts
        BY <2>2, RowType
      <3> QED
        BY <2>3, <3>1, Bounds DEF Locked
    <2>5. Others(w) /\ job'[w].k = "miss" /\ job'[w].id = id /\ job'[w].seen = request[id].attempts
      <3>1. PICK j : j = [k |-> "miss", id |-> id, seen |-> request[id].attempts]
        OBVIOUS
      <3>2. Others(w) /\ job'[w] = j
        BY <2>3, <3>1, Takes
      <3> QED
        BY <3>1, <3>2
    <2>6. CASE i = id
      <3>1. guesses'[i] <= guesses[i] + 1
        BY <2>3, <2>6, Bounds DEF TypeOK
      <3> QED
        BY <1>1, <1>2, <2>2, <2>4, <2>5, <2>6, <3>1 DEF Affects, Guesses, Guessing
    <2>7. CASE i # id
      <3>1. guesses'[i] = guesses[i]
        BY <2>3, <2>7 DEF TypeOK
      <3> QED
        BY <1>1, <1>2, <2>5, <2>7, <3>1 DEF Affects, Passes, Guessing
    <2> QED
      BY <2>6, <2>7
  <1>5. CASE (\E e \in Emails : LoadRegister(w, b, e)) \/ LoadResend(w, b) \/ LoadSubmit(w, b)
    <2>1. ASSUME NEW e, LoadRegister(w, b, e)
          PROVE  \E j : job' = [job EXCEPT ![w] = j] /\ j.k # "miss"
      <3>1. PICK j : j = [k |-> "insert", b |-> b, verified |-> cookie[b].verified, email |-> e]
        OBVIOUS
      <3>2. job' = [job EXCEPT ![w] = j] /\ j.k # "miss"
        BY <2>1, <3>1 DEF LoadRegister
      <3> QED
        BY <3>2
    <2>2. ASSUME LoadResend(w, b)
          PROVE  \E j : job' = [job EXCEPT ![w] = j] /\ j.k # "miss"
      <3>1. PICK j : j = [k |-> "resend", id |-> cookie[b].id, reset |-> Row(b).attempts # 0]
        OBVIOUS
      <3>2. job' = [job EXCEPT ![w] = j] /\ j.k # "miss"
        BY <2>2, <3>1 DEF LoadResend
      <3> QED
        BY <3>2
    <2>3. ASSUME LoadSubmit(w, b)
          PROVE  \E j : job' = [job EXCEPT ![w] = j] /\ j.k # "miss"
      <3>1. PICK j : j = [k |-> "submit", b |-> b, id |-> cookie[b].id, email |-> Row(b).email]
        OBVIOUS
      <3>2. job' = [job EXCEPT ![w] = j] /\ j.k # "miss"
        BY <2>3, <3>1 DEF LoadSubmit
      <3> QED
        BY <3>2
    <2>4. UNCHANGED guesses
      BY <1>5 DEF LoadRegister, LoadResend, LoadSubmit
    <2> QED
      BY <1>3, <1>5, <2>1, <2>2, <2>3, <2>4 DEF Affects
  <1>6. CASE \E right \in BOOLEAN : Verify(w, b, right)
    <2>1. CASE UNCHANGED guesses /\ job'[w].k # "miss"
      BY <1>1, <1>3, <2>1, Takes DEF Affects
    <2> QED
      BY <1>4, <1>6, <2>1
  <1> QED
    BY <1>5, <1>6

\* A row that was read before it changed is updated if it is still there.
LEMMA UpdateRow ==
    ASSUME NEW id, NEW r, Update(id, r)
    PROVE  /\ Ids(request') = Ids(request)
           /\ id \in Ids(request) => request'[id] = r
           /\ \A i \in Ids(request) : i # id => request'[i] = request[i]
  <1>1. CASE id \in Ids(request)
    <2>1. request' = Put(request, id, r)
      BY <1>1 DEF Update
    <2> QED
      BY <1>1, <2>1 DEF Put, Ids
  <1>2. CASE id \notin Ids(request)
    BY <1>2 DEF Update
  <1> QED
    BY <1>1, <1>2

LEMMA DeleteRow ==
    ASSUME TypeOK, NEW id \in RequestIds, Delete(id), NEW i \in RequestIds
    PROVE  IF i = id THEN guesses'[i] = 0 ELSE Same(i) /\ guesses'[i] = guesses[i]
  BY DEF Delete, Drop, Ids, Same, TypeOK

LEMMA HandleAffects ==
    ASSUME TypeOK, NEW i \in RequestIds, NEW w \in Workers, Handle(w)
    PROVE  Affects(w, i)
  <1>1. Others(w) /\ ~Guessing(w, i)'
    <2>1. job' = [job EXCEPT ![w] = Idle]
      BY DEF Handle, CommitRegister, CommitPurge, CommitMiss, CommitPass, CommitResend, CommitSubmit
    <2> QED
      BY <2>1, IdleJob, Takes DEF Guessing
  <1>2. job[w] \in Job
    BY DEF TypeOK
  <1>3. CASE CommitRegister(w)
    <2>1. ~Guessing(w, i)
      BY <1>3 DEF CommitRegister, Guessing
    <2>2. CASE UNCHANGED <<request, guesses>>
      BY <1>1, <2>1, <2>2 DEF Affects, Passes, Same
    <2>3. ASSUME NEW id \in RequestIds, NEW r, request' = Put(request, id, r),
                 guesses' = [guesses EXCEPT ![id] = 0]
          PROVE  Affects(w, i)
      <3>1. IF i = id THEN guesses'[i] = 0 ELSE Same(i) /\ guesses'[i] = guesses[i]
        BY <2>3 DEF Put, Ids, Same, TypeOK
      <3> QED
        BY <1>1, <2>1, <3>1 DEF Affects, Passes, Renews
    <2> QED
      BY <1>3, <2>2, <2>3 DEF CommitRegister
  <1>4. CASE CommitPurge(w)
    <2>1. job[w].id \in RequestIds /\ Delete(job[w].id) /\ ~Guessing(w, i)
      BY <1>2, <1>4, JobKind DEF CommitPurge, Guessing
    <2> QED
      BY <1>1, <2>1, DeleteRow DEF Affects, Passes, Renews
  <1>5. CASE CommitMiss(w)
    <2>1. PICK id, r : id = job[w].id /\ r = [request[id] EXCEPT !.attempts = job[w].seen + 1]
      OBVIOUS
    <2>2. Update(id, r) /\ guesses' = guesses /\ job[w].k = "miss"
      BY <1>5, <2>1 DEF CommitMiss
    <2>3. id \in Ids(request) => r.attempts = job[w].seen + 1
      BY <2>1, RowType DEF Rows
    <2>4. CASE i = id
      BY <1>1, <2>1, <2>2, <2>3, <2>4, UpdateRow DEF Affects, Writes, Guessing
    <2>5. CASE i # id
      BY <1>1, <2>1, <2>2, <2>5, UpdateRow DEF Affects, Passes, Same, Guessing
    <2> QED
      BY <2>4, <2>5
  <1>6. CASE CommitPass(w)
    <2>1. PICK id, r : id = job[w].id /\ r = [request[id] EXCEPT !.expired = FALSE]
      OBVIOUS
    <2>2. Update(id, r) /\ guesses' = guesses /\ ~Guessing(w, i)
      BY <1>6, <2>1 DEF CommitPass, Guessing
    <2>3. id \in Ids(request) => r.attempts = request[id].attempts
      BY <2>1, RowType DEF Rows
    <2> QED
      BY <1>1, <2>2, <2>3, UpdateRow DEF Affects, Passes, Same
  <1>7. CASE CommitResend(w)
    <2>1. PICK id, r : /\ id = job[w].id
                       /\ r = [request[id] EXCEPT !.expired = FALSE,
                                                  !.attempts = IF job[w].reset THEN 0 ELSE @]
      OBVIOUS
    <2>2. /\ Update(id, r) /\ ~Guessing(w, i) /\ id \in RequestIds
          /\ guesses' = [guesses EXCEPT ![id] = IF id \in Ids(request) THEN 0 ELSE guesses[id]]
      BY <1>2, <1>7, <2>1, JobKind DEF CommitResend, Guessing
    <2>3. CASE i = id /\ id \in Ids(request)
      BY <1>1, <2>2, <2>3 DEF Affects, Renews, TypeOK
    <2>4. CASE ~(i = id /\ id \in Ids(request))
      <3>1. guesses'[i] = guesses[i] /\ Same(i)
        BY <2>2, <2>4, UpdateRow DEF Same, TypeOK
      <3> QED
        BY <1>1, <2>2, <3>1 DEF Affects, Passes
    <2> QED
      BY <2>3, <2>4
  <1>8. CASE CommitSubmit(w)
    <2>1. job[w].id \in RequestIds /\ ~Guessing(w, i)
      BY <1>2, <1>8, JobKind DEF CommitSubmit, Guessing
    <2>2. CASE UNCHANGED <<request, guesses>>
      BY <1>1, <2>1, <2>2 DEF Affects, Passes, Same
    <2>3. CASE Delete(job[w].id)
      BY <1>1, <2>1, <2>3, DeleteRow DEF Affects, Passes, Renews
    <2> QED
      BY <1>8, <2>2, <2>3 DEF CommitSubmit
  <1> QED
    BY <1>3, <1>4, <1>5, <1>6, <1>7, <1>8 DEF Handle

LEMMA RowSteps ==
    ASSUME TypeOK, [Next]_vars, NEW i \in RequestIds
    PROVE  (\E w \in Workers : Affects(w, i)) \/ Ages(i)
  <1>1. ASSUME NEW id \in RequestIds, Expire(id)
        PROVE  Ages(i)
    <2>1. request' = [request EXCEPT ![id].expired = TRUE] /\ id \in Ids(request)
      BY <1>1 DEF Expire
    <2>2. Same(i)
      BY <2>1, RowType DEF Same, Ids, Rows
    <2> QED
      BY <1>1, <2>2 DEF Expire, Ages
  <1>2. ASSUME UNCHANGED <<job, request, guesses>>
        PROVE  Ages(i)
    BY <1>2 DEF Ages, Same
  <1> QED
    BY <1>1, <1>2, LoadAffects, HandleAffects DEF Next, Forget, vars

LEMMA LevelsType ==
    ASSUME MissInv, NEW i \in RequestIds
    PROVE  /\ guesses[i] \in Nat /\ Value(i) \in Nat
           /\ Levels(i) \in [Workers -> Nat] /\ Missing(i) \in SUBSET Workers
           /\ \A w \in Workers : Guessing(w, i) => job[w].seen < MaxAttempts
  <1>1. guesses[i] \in Nat
    BY Bounds DEF MissInv, TypeOK
  <1>2. Value(i) \in Nat
    <2>1. i \in Ids(request) => request[i].attempts \in 0 .. MaxAttempts
      BY RowType DEF MissInv
    <2> QED
      BY <2>1, Bounds DEF Value
  <1>3. \A w \in Workers : Guessing(w, i) => job[w].seen \in Nat /\ job[w].seen < MaxAttempts
    BY Bounds, JobKind DEF MissInv, Guessing, TypeOK
  <1> QED
    BY <1>1, <1>2, <1>3 DEF Levels, Missing

LEMMA LevelsNext ==
    ASSUME MissInv', NEW i \in RequestIds
    PROVE  /\ guesses'[i] \in Nat /\ Value(i)' \in Nat
           /\ Levels(i)' \in [Workers -> Nat] /\ Missing(i)' \in SUBSET Workers
  <1>1. guesses'[i] \in Nat
    BY Bounds DEF MissInv, TypeOK
  <1>2. Value(i)' \in Nat
    BY Bounds DEF MissInv, TypeOK, IsTable, Ids, Rows, Value
  <1>3. \A w \in Workers : Guessing(w, i)' => job'[w].seen \in Nat
    BY Bounds, JobKind DEF MissInv, TypeOK, Guessing
  <1> QED
    BY <1>1, <1>2, <1>3 DEF Levels, Missing

\* Each effect keeps the ladder of the row, or takes it further.
LEMMA PassesKept ==
    ASSUME NEW i \in RequestIds, Judged(i), Ages(i) \/ \E w \in Workers : Passes(w, i)
    PROVE  Judged(i)'
  <1>1. \A v \in Workers : /\ Guessing(v, i)' <=> Guessing(v, i)
                           /\ Guessing(v, i) => job'[v] = job[v]
    BY DEF Passes, Ages, Others, Guessing
  <1>2. Same(i) /\ guesses'[i] = guesses[i]
    BY DEF Passes, Ages
  <1>3. Value(i)' = Value(i)
    BY <1>2 DEF Same, Value
  <1>4. Levels(i)' = Levels(i) /\ Missing(i)' = Missing(i)
    BY <1>1, <1>3 DEF Levels, Missing
  <1> QED
    BY <1>2, <1>3, <1>4 DEF Judged, Same

LEMMA RenewsKept ==
    ASSUME MissInv', NEW i \in RequestIds, NEW w \in Workers, Renews(w, i)
    PROVE  Judged(i)'
  <1>1. guesses'[i] = 0
    BY DEF Renews
  <1>2. Kept(Workers, Levels(i)', Missing(i)', MaxAttempts, guesses'[i], Value(i)')
    BY <1>1, LevelsNext, Bounds, KeptReset
  <1> QED
    BY <1>1, <1>2 DEF Judged

LEMMA GuessKept ==
    ASSUME MissInv, MissInv', NEW i \in RequestIds, Judged(i), NEW w \in Workers, Guesses(w, i)
    PROVE  Judged(i)'
  <1>1. PICK L, a, n, m, f, P : /\ L = MaxAttempts /\ a = Value(i) /\ n = guesses[i] /\ m = guesses'[i]
                                /\ f = Levels(i) /\ P = Missing(i)
    OBVIOUS
  <1>2. i \in Ids(request) /\ i \in Ids(request') /\ Value(i)' = a /\ request[i].attempts = a
    BY <1>1 DEF Guesses, Same, Value
  <1>3. /\ L \in Nat /\ a \in Nat /\ n \in Nat /\ m \in Nat /\ a < L /\ m <= n + 1
        /\ f \in [Workers -> Nat] /\ P \in SUBSET Workers
    BY <1>1, <1>2, Bounds, LevelsType, LevelsNext DEF Guesses
  <1>4. f[w] = a /\ w \notin P
    BY <1>1 DEF Guesses, Levels, Missing
  <1>5. Levels(i)' = f /\ Missing(i)' = P \cup {w}
    <2>1. /\ Guessing(w, i)' /\ job'[w].seen = a /\ ~Guessing(w, i)
          /\ \A v \in Workers : v # w => (Guessing(v, i)' <=> Guessing(v, i)) /\ job'[v] = job[v]
      BY <1>2 DEF Guesses, Others, Guessing
    <2> QED
      BY <1>1, <1>2, <2>1 DEF Levels, Missing
  <1>6. Kept(Workers, f, P \cup {w}, L, m, a)
    <2>1. w \in Workers \ P /\ f[w] < L /\ Kept(Workers, f, P, L, n, f[w])
      BY <1>1, <1>2, <1>3, <1>4 DEF Judged
    <2>2. Kept(Workers, f, P \cup {w}, L, n + 1, a)
      BY <1>3, <1>4, <2>1, KeptTry
    <2> QED
      BY <1>3, <2>2, KeptLess
  <1> QED
    BY <1>1, <1>2, <1>5, <1>6 DEF Judged

LEMMA WriteKept ==
    ASSUME MissInv, MissInv', NEW i \in RequestIds, Judged(i), NEW w \in Workers, Writes(w, i)
    PROVE  Judged(i)'
  <1>1. CASE i \notin Ids(request)
    BY <1>1 DEF Writes, Judged
  <1>2. CASE i \in Ids(request)
    <2>1. PICK L, a, b, n, f, g, P, X :
             /\ L = MaxAttempts /\ a = Value(i) /\ b = Value(i)' /\ n = guesses[i]
             /\ f = Levels(i) /\ g = Levels(i)' /\ P = Missing(i)
             /\ X = {v \in Workers : v # w /\ ~Guessing(v, i)}
      OBVIOUS
    <2>2. /\ L \in Nat /\ a \in Nat /\ b \in Nat /\ n \in Nat
          /\ f \in [Workers -> Nat] /\ g \in [Workers -> Nat] /\ P \in SUBSET Workers
          /\ X \in SUBSET (Workers \ {w})
      BY <2>1, Bounds, LevelsType, LevelsNext
    <2>3. /\ i \in Ids(request') /\ guesses'[i] = n /\ b = job[w].seen + 1
          /\ Guessing(w, i) /\ ~Guessing(w, i)'
          /\ \A v \in Workers : v # w => (Guessing(v, i)' <=> Guessing(v, i)) /\ job'[v] = job[v]
      BY <1>2, <2>1 DEF Writes, Others, Guessing, Value
    <2>4. f[w] = job[w].seen /\ g[w] = b /\ Missing(i)' = P \ {w}
      BY <2>1, <2>3 DEF Levels, Missing
    <2>5. /\ \A v \in X : f[v] = a /\ g[v] = b
          /\ \A v \in Workers \ (X \cup {w}) : g[v] = f[v]
      BY <2>1, <2>3 DEF Levels
    <2>6. b = f[w] + 1 /\ b \in Nat \ {0}
      BY <2>2, <2>3, <2>4
    <2>7. Kept(Workers, f, P, L, n, a)
      BY <1>2, <2>1 DEF Judged
    <2>8. Kept(Workers, g, P \ {w}, L, n, b)
      BY <2>2, <2>4, <2>5, <2>6, <2>7, KeptWrite
    <2> QED
      BY <2>1, <2>3, <2>4, <2>8 DEF Judged
  <1> QED
    BY <1>1, <1>2

LEMMA GuessStep == GuessInv /\ [Next]_vars => GuessInv'
  <1> SUFFICES ASSUME GuessInv, [Next]_vars PROVE GuessInv'
    OBVIOUS
  <1>1. MissInv /\ MissInv' /\ TypeOK
    BY MissStep DEF GuessInv, MissInv
  <1>2. ASSUME NEW i \in RequestIds PROVE Judged(i)'
    <2>1. Judged(i)
      BY DEF GuessInv
    <2>2. ASSUME NEW w \in Workers, Affects(w, i)
          PROVE  Judged(i)'
      BY <1>1, <2>1, <2>2, PassesKept, RenewsKept, GuessKept, WriteKept DEF Affects
    <2> QED
      BY <1>1, <2>1, <2>2, PassesKept, RowSteps
  <1> QED
    BY <1>1, <1>2 DEF GuessInv

\* Concurrent wrong codes lose increments, and a write that was held up may
\* even unlock a row, but the wrong guesses at one code are fewer than the
\* ladders on which the workers can stand, however many workers there are and
\* whatever the limit: every write is above the value it read
\* (verify_registration).
THEOREM GuessesAreBounded == Spec => []GuessesBounded
  <1>1. GuessInv => GuessesBounded
    <2> SUFFICES ASSUME GuessInv, NEW i \in RequestIds PROVE guesses[i] <= MaxGuesses
      BY DEF GuessesBounded
    <2>1. MissInv /\ Judged(i)
      BY DEF GuessInv
    <2>2. /\ MaxAttempts \in Nat /\ MaxGuesses \in Nat /\ guesses[i] \in Nat
          /\ Levels(i) \in [Workers -> Nat] /\ Missing(i) \in SUBSET Workers
      BY <2>1, LevelsType, Bounds
    <2>3. CASE i \in Ids(request)
      <3>1. Kept(Workers, Levels(i), Missing(i), MaxAttempts, guesses[i], Value(i))
        BY <2>1, <2>3 DEF Judged
      <3> QED
        BY <2>2, <3>1, KeptBound DEF MaxGuesses
    <2> QED
      BY <2>1, <2>2, <2>3 DEF Judged
  <1> QED
    BY <1>1, GuessInit, GuessStep, PTL DEF Spec
=============================================================================
