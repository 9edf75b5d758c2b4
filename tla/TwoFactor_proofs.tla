-------------------------- MODULE TwoFactor_proofs --------------------------
(***************************************************************************)
(* Theorems about TwoFactor, for any workers, codes and limits: types, how *)
(* often a recovery code is accepted, and how many wrong codes are let     *)
(* pass.  Then the theorems about TelegramLink, the chat to which codes    *)
(* are sent.                                                               *)
(***************************************************************************)
EXTENDS TwoFactor, FiniteSetTheorems, TLAPS

(***************************************************************************)
(* Ladders (LostUpdates): how far the workers can still climb, and that    *)
(* every write takes them further.                                         *)
(***************************************************************************)
LEMMA WorkersFinite == IsFiniteSet(Workers)
  BY LimitsAssumption

\* Every nonempty set of numbers has a least one.
LEMMA LeastOf ==
    ASSUME NEW T \in SUBSET Nat, T # {}
    PROVE  \E x \in T : \A y \in T : x <= y
  <1> DEFINE R == {ss \in Nat \X Nat : ss[1] < ss[2]}
  <1>1. IsWellFoundedOn(R, Nat)
    BY NatLessThanWellFounded DEF OpToRel
  <1>2. \E x \in T : \A y \in T : <<y, x>> \notin R
    <2> HIDE DEF R
    <2> QED
      BY <1>1, WFMin
  <1>3. \A x, y \in T : <<y, x>> \notin R => x <= y
    OBVIOUS
  <1> QED
    BY <1>2, <1>3

\* There are finitely many ladders.
LEMMA LaddersFinite ==
    ASSUME NEW L \in Nat, NEW K \in Nat
    PROVE  /\ IsFiniteSet(Ladders(L, K)) /\ Cardinality(Ladders(L, K)) \in Nat
           /\ \A S \in SUBSET Ladders(L, K) :
                 /\ IsFiniteSet(S) /\ Cardinality(S) \in Nat
                 /\ Cardinality(S) <= Cardinality(Ladders(L, K))
                 /\ S # Ladders(L, K) => Cardinality(S) < Cardinality(Ladders(L, K))
  <1> DEFINE D == 0 .. L - 1
             E == 0 .. K
             g == [d \in Ladders(L, K) |-> {<<x, d[x]>> : x \in D}]
  <1>1. IsFiniteSet(D) /\ IsFiniteSet(E)
    BY FS_Interval
  <1>2. IsFiniteSet(SUBSET (D \X E))
    BY <1>1, FS_Product, FS_SUBSET
  <1>3. g \in [Ladders(L, K) -> SUBSET (D \X E)]
    BY DEF Ladders
  <1>4. ASSUME NEW d \in Ladders(L, K), NEW e \in Ladders(L, K), g[d] = g[e]
        PROVE  d = e
    <2>1. d \in [D -> E] /\ e \in [D -> E]
      BY DEF Ladders
    <2>2. ASSUME NEW x \in D PROVE d[x] = e[x]
      <3>1. <<x, d[x]>> \in g[e]
        BY <1>4
      <3>2. PICK y \in D : <<x, d[x]>> = <<y, e[y]>>
        BY <3>1
      <3> QED
        BY <3>2
    <2> QED
      BY <2>1, <2>2
  <1>5. g \in Injection(Ladders(L, K), SUBSET (D \X E))
    BY <1>3, <1>4 DEF Injection, IsInjective
  <1>6. IsFiniteSet(Ladders(L, K))
    BY <1>2, <1>5, FS_Injection
  <1>7. Cardinality(Ladders(L, K)) \in Nat
    BY <1>6, FS_CardinalityType
  <1>8. ASSUME NEW S \in SUBSET Ladders(L, K)
        PROVE  /\ IsFiniteSet(S) /\ Cardinality(S) \in Nat
               /\ Cardinality(S) <= Cardinality(Ladders(L, K))
               /\ S # Ladders(L, K) => Cardinality(S) < Cardinality(Ladders(L, K))
    <2>1. IsFiniteSet(S) /\ Cardinality(S) <= Cardinality(Ladders(L, K))
          /\ (Cardinality(S) = Cardinality(Ladders(L, K)) => S = Ladders(L, K))
      BY <1>6, FS_Subset
    <2>2. Cardinality(S) \in Nat
      BY <2>1, FS_CardinalityType
    <2> QED
      BY <1>7, <2>1, <2>2
  <1> QED
    BY <1>6, <1>7, <1>8

LEMMA LaddersSome ==
    ASSUME NEW L \in Nat, NEW K \in Nat
    PROVE  Cardinality(Ladders(L, K)) \in Nat \ {0}
  <1>1. [x \in 0 .. L - 1 |-> 0] \in Ladders(L, K)
    BY DEF Ladders
  <1>2. {} \in SUBSET Ladders(L, K) /\ {} # Ladders(L, K)
    BY <1>1
  <1>3. Cardinality({}) < Cardinality(Ladders(L, K)) /\ Cardinality(Ladders(L, K)) \in Nat
    BY <1>2, LaddersFinite
  <1>4. Cardinality({}) = 0
    BY FS_EmptySet
  <1> QED
    BY <1>3, <1>4

\* Workers on levels stand on a ladder.
LEMMA BelowFacts ==
    ASSUME NEW W, IsFiniteSet(W), NEW f \in [W -> Nat], NEW x
    PROVE  /\ IsFiniteSet(Below(W, f, x)) /\ Cardinality(Below(W, f, x)) \in Nat
           /\ \A S \in SUBSET Below(W, f, x) :
                 /\ Cardinality(S) \in Nat /\ Cardinality(S) <= Cardinality(Below(W, f, x))
                 /\ S # Below(W, f, x) => Cardinality(S) < Cardinality(Below(W, f, x))
  <1>1. Below(W, f, x) \in SUBSET W
    BY DEF Below
  <1>2. IsFiniteSet(Below(W, f, x))
    BY <1>1, FS_Subset
  <1>3. Cardinality(Below(W, f, x)) \in Nat
    BY <1>2, FS_CardinalityType
  <1>4. ASSUME NEW S \in SUBSET Below(W, f, x)
        PROVE  /\ IsFiniteSet(S) /\ Cardinality(S) <= Cardinality(Below(W, f, x))
               /\ Cardinality(S) = Cardinality(Below(W, f, x)) => S = Below(W, f, x)
    BY <1>2, FS_Subset
  <1>5. \A S \in SUBSET Below(W, f, x) : Cardinality(S) \in Nat
    BY <1>4, FS_CardinalityType
  <1> QED
    BY <1>2, <1>3, <1>4, <1>5

LEMMA NotAll ==
    ASSUME NEW W, IsFiniteSet(W), NEW f \in [W -> Nat], NEW x, Below(W, f, x) # W
    PROVE  Cardinality(Below(W, f, x)) < Cardinality(W)
  <1>1. Below(W, f, x) \in SUBSET W
    BY DEF Below
  <1>2. /\ Cardinality(Below(W, f, x)) <= Cardinality(W)
        /\ Cardinality(Below(W, f, x)) # Cardinality(W)
    BY <1>1, FS_Subset
  <1>3. Cardinality(Below(W, f, x)) \in Nat /\ Cardinality(W) \in Nat
    BY BelowFacts, FS_CardinalityType
  <1> QED
    BY <1>2, <1>3

LEMMA LadderType ==
    ASSUME NEW L \in Nat, NEW K \in Nat, NEW W, IsFiniteSet(W), NEW f \in [W -> Nat]
    PROVE  Ladder(W, f, L, K) \in Ladders(L, K)
  <1> DEFINE d == Ladder(W, f, L, K)
             n(x) == Cardinality(Below(W, f, x))
  <1>1. \A x \in 0 .. L - 1 : n(x) \in Nat
    BY BelowFacts
  <1>2. \A x \in 0 .. L - 1 : d[x] = IF n(x) < K THEN n(x) ELSE K
    BY DEF Ladder
  <1>3. d \in [0 .. L - 1 -> 0 .. K]
    <2> HIDE DEF n
    <2>1. \A x \in 0 .. L - 1 : d[x] \in 0 .. K
      BY <1>1, <1>2
    <2> QED
      BY <2>1 DEF Ladder
  <1>4. ASSUME NEW x \in 0 .. L - 1, NEW y \in 0 .. L - 1, x <= y
        PROVE  d[x] <= d[y]
    <2>1. Below(W, f, x) \in SUBSET Below(W, f, y)
      BY <1>4 DEF Below
    <2>2. n(x) <= n(y)
      BY <2>1, BelowFacts
    <2> HIDE DEF n, d
    <2> QED
      BY <1>1, <1>2, <2>2
  <1> QED
    BY <1>3, <1>4 DEF Ladders

\* Being further is a strict order.
LEMMA FurtherOrder ==
    ASSUME NEW L \in Nat, NEW K \in Nat, NEW d \in Ladders(L, K), NEW e \in Ladders(L, K)
    PROVE  /\ ~Further(d, d, L)
           /\ \A c \in Ladders(L, K) : Further(d, e, L) /\ Further(e, c, L) => Further(d, c, L)
  <1>1. ~Further(d, d, L)
    BY DEF Further, Ladders
  <1>2. ASSUME NEW c \in Ladders(L, K), Further(d, e, L), Further(e, c, L)
        PROVE  Further(d, c, L)
    <2>1. \A x \in 0 .. L - 1 : d[x] \in Int /\ e[x] \in Int /\ c[x] \in Int
      BY DEF Ladders
    <2>2. PICK x \in 0 .. L - 1 : e[x] < d[x] /\ \A y \in 0 .. x - 1 : e[y] = d[y]
      BY <1>2 DEF Further
    <2>3. PICK z \in 0 .. L - 1 : c[z] < e[z] /\ \A y \in 0 .. z - 1 : c[y] = e[y]
      BY <1>2 DEF Further
    <2>4. CASE x <= z
      <3>1. c[x] < d[x]
        BY <2>1, <2>2, <2>3, <2>4
      <3>2. \A y \in 0 .. x - 1 : c[y] = d[y]
        BY <2>2, <2>3, <2>4
      <3> QED
        BY <3>1, <3>2 DEF Further
    <2>5. CASE z < x
      <3>1. c[z] < d[z]
        BY <2>1, <2>2, <2>3, <2>5
      <3>2. \A y \in 0 .. z - 1 : c[y] = d[y]
        BY <2>2, <2>3, <2>5
      <3> QED
        BY <3>1, <3>2 DEF Further
    <2> QED
      BY <2>4, <2>5
  <1> QED
    BY <1>1, <1>2

\* The ladders ahead are fewer than all, and fewer after a step to one of them.
LEMMA LeftFacts ==
    ASSUME NEW L \in Nat, NEW K \in Nat, NEW W, IsFiniteSet(W), NEW f \in [W -> Nat]
    PROVE  /\ Left(W, f, L, K) \in Nat
           /\ Left(W, f, L, K) < Cardinality(Ladders(L, K))
  <1> DEFINE d == Ladder(W, f, L, K)
  <1>1. d \in Ladders(L, K)
    BY LadderType
  <1>2. d \notin Ahead(d, L, K)
    BY <1>1, FurtherOrder DEF Ahead
  <1>3. Ahead(d, L, K) \in SUBSET Ladders(L, K) /\ Ahead(d, L, K) # Ladders(L, K)
    BY <1>1, <1>2 DEF Ahead
  <1> QED
    BY <1>3, LaddersFinite DEF Left

LEMMA Fewer ==
    ASSUME NEW L \in Nat, NEW K \in Nat, NEW W, IsFiniteSet(W), NEW f \in [W -> Nat], NEW g \in [W -> Nat],
           Further(Ladder(W, f, L, K), Ladder(W, g, L, K), L)
    PROVE  Left(W, g, L, K) + 1 <= Left(W, f, L, K)
  <1> DEFINE d == Ladder(W, f, L, K)
             e == Ladder(W, g, L, K)
             S == Ahead(d, L, K)
             T == Ahead(e, L, K)
  <1>1. d \in Ladders(L, K) /\ e \in Ladders(L, K)
    BY LadderType
  <1>2. e \in S /\ e \notin T /\ T \in SUBSET S
    <2> HIDE DEF d, e
    <2>1. \A c \in Ladders(L, K) : Further(e, c, L) => Further(d, c, L)
      BY <1>1, FurtherOrder DEF d, e
    <2>2. ~Further(e, e, L)
      BY <1>1, FurtherOrder
    <2> QED
      BY <1>1, <2>1, <2>2 DEF Ahead, d, e
  <1>3. IsFiniteSet(S) /\ Cardinality(S) \in Nat
    <2>1. S \in SUBSET Ladders(L, K)
      BY DEF Ahead
    <2> QED
      BY <2>1, LaddersFinite
  <1>4. Cardinality(T) <= Cardinality(S) /\ Cardinality(T) # Cardinality(S) /\ Cardinality(T) \in Nat
    <2> HIDE DEF S, T
    <2>1. IsFiniteSet(T) /\ Cardinality(T) <= Cardinality(S) /\ (Cardinality(S) = Cardinality(T) => S = T)
      BY <1>2, <1>3, FS_Subset
    <2> QED
      BY <1>2, <2>1, FS_CardinalityType
  <1> QED
    BY <1>3, <1>4 DEF Left

\* A step leads further if on some level fewer stand at or below than before,
\* and not too many for it to count, while nothing changes below.
LEMMA Climb ==
    ASSUME NEW L \in Nat, NEW K \in Nat, NEW W, IsFiniteSet(W), NEW f \in [W -> Nat], NEW g \in [W -> Nat],
           NEW a \in 0 .. L - 1,
           \A x \in 0 .. a - 1 : Below(W, g, x) = Below(W, f, x),
           Below(W, g, a) \in SUBSET Below(W, f, a),
           Below(W, g, a) # Below(W, f, a),
           Cardinality(Below(W, g, a)) < K
    PROVE  Left(W, g, L, K) + 1 <= Left(W, f, L, K)
  <1> DEFINE n(x) == Cardinality(Below(W, f, x))
             m(x) == Cardinality(Below(W, g, x))
             d == Ladder(W, f, L, K)
             e == Ladder(W, g, L, K)
  <1>1. \A x \in 0 .. L - 1 : /\ d[x] = IF n(x) < K THEN n(x) ELSE K
                              /\ e[x] = IF m(x) < K THEN m(x) ELSE K
    BY DEF Ladder
  <1>2. m(a) < n(a) /\ m(a) < K /\ m(a) \in Nat /\ n(a) \in Nat
    BY BelowFacts
  <1>3. e[a] < d[a]
    <2> HIDE DEF m, n, d, e
    <2> QED
      BY <1>1, <1>2
  <1>4. \A x \in 0 .. a - 1 : e[x] = d[x]
    BY <1>1
  <1>5. Further(d, e, L)
    BY <1>3, <1>4 DEF Further
  <1> QED
    BY <1>5, Fewer

\* Nobody goes down: the step leads further or changes nothing that counts.
LEMMA Rise ==
    ASSUME NEW L \in Nat, NEW K \in Nat, NEW W, IsFiniteSet(W), NEW f \in [W -> Nat], NEW g \in [W -> Nat],
           \A x \in 0 .. L - 1 : Below(W, g, x) \in SUBSET Below(W, f, x)
    PROVE  Left(W, g, L, K) <= Left(W, f, L, K)
  <1> DEFINE n(x) == Cardinality(Below(W, f, x))
             m(x) == Cardinality(Below(W, g, x))
             d == Ladder(W, f, L, K)
             e == Ladder(W, g, L, K)
             T == {x \in 0 .. L - 1 : e[x] # d[x]}
  <1>1. \A x \in 0 .. L - 1 : /\ d[x] = IF n(x) < K THEN n(x) ELSE K
                              /\ e[x] = IF m(x) < K THEN m(x) ELSE K
    BY DEF Ladder
  <1>2. \A x \in 0 .. L - 1 : m(x) <= n(x) /\ m(x) \in Nat /\ n(x) \in Nat
    BY BelowFacts
  <1>3. \A x \in 0 .. L - 1 : e[x] <= d[x] /\ e[x] \in Nat /\ d[x] \in Nat
    <2> HIDE DEF m, n, d, e
    <2> QED
      BY <1>1, <1>2
  <1>4. Left(W, g, L, K) \in Nat /\ Left(W, f, L, K) \in Nat
    BY LeftFacts
  <1>5. CASE T = {}
    <2>1. d \in Ladders(L, K) /\ e \in Ladders(L, K)
      BY LadderType
    <2>2. e = d
      <3>1. \A x \in 0 .. L - 1 : e[x] = d[x]
        BY <1>5
      <3> HIDE DEF d, e
      <3> QED
        BY <2>1, <3>1 DEF Ladders
    <2> QED
      BY <1>4, <2>2 DEF Left
  <1>6. CASE T # {}
    <2>1. PICK x \in T : \A y \in T : x <= y
      <3>1. T \in SUBSET Nat
        OBVIOUS
      <3> HIDE DEF T
      <3> QED
        BY <1>6, <3>1, LeastOf
    <2>2. e[x] < d[x] /\ x \in 0 .. L - 1
      BY <1>3
    <2>3. \A y \in 0 .. x - 1 : e[y] = d[y]
      <3> HIDE DEF d, e
      <3> QED
        BY <2>1
    <2>4. Further(d, e, L)
      BY <2>2, <2>3 DEF Further
    <2>5. Left(W, g, L, K) + 1 <= Left(W, f, L, K)
      BY <2>4, Fewer
    <2> QED
      BY <1>4, <2>5
  <1> QED
    BY <1>5, <1>6

\* Whoever leaves the ladder at its top has it go further once more.
LEMMA Leap ==
    ASSUME NEW L \in Nat, NEW W, IsFiniteSet(W), NEW K, K = Cardinality(W), NEW f \in [W -> Nat], NEW g \in [W -> Nat], NEW A \in SUBSET W,
           \A w \in A : f[w] < L /\ g[w] >= L,
           \A w \in W \ A : g[w] = f[w] \/ (g[w] >= L /\ f[w] >= L)
    PROVE  Left(W, g, L, K) + Cardinality(A) <= Left(W, f, L, K)
  <1> DEFINE Leaps(h, B) == /\ \A w \in B : h[w] < L /\ g[w] >= L
                            /\ \A w \in W \ B : g[w] = h[w] \/ (g[w] >= L /\ h[w] >= L)
             Bad(n) == \E h \in [W -> Nat], B \in SUBSET W :
                          /\ Leaps(h, B) /\ Cardinality(B) = n
                          /\ ~(Left(W, g, L, K) + n <= Left(W, h, L, K))
             T == {n \in Nat : Bad(n)}
  <1>1. K \in Nat /\ \A B \in SUBSET W : IsFiniteSet(B) /\ Cardinality(B) \in Nat
    BY FS_Subset, FS_CardinalityType
  <1>2. \A h \in [W -> Nat] : Left(W, h, L, K) \in Nat
    BY <1>1, LeftFacts
  <1>3. T = {}
    <2> SUFFICES ASSUME T # {} PROVE FALSE
      OBVIOUS
    <2>1. PICK n \in T : \A y \in T : n <= y
      <3>1. T \in SUBSET Nat
        OBVIOUS
      <3> HIDE DEF T
      <3> QED
        BY <3>1, LeastOf
    <2>2. PICK h \in [W -> Nat], B \in SUBSET W :
             /\ Leaps(h, B) /\ Cardinality(B) = n
             /\ ~(Left(W, g, L, K) + n <= Left(W, h, L, K))
      OBVIOUS
    <2>3. B # {}
      <3> SUFFICES ASSUME B = {} PROVE FALSE
        OBVIOUS
      <3>1. n = 0
        BY <2>2, FS_EmptySet
      <3>2. \A x \in 0 .. L - 1 : Below(W, g, x) \in SUBSET Below(W, h, x)
        BY <2>2 DEF Below
      <3>3. Left(W, g, L, K) <= Left(W, h, L, K)
        BY <1>1, <3>2, Rise
      <3> QED
        BY <1>2, <2>2, <3>1, <3>3
    <2>4. PICK w \in B : TRUE
      BY <2>3
    <2> DEFINE i == [h EXCEPT ![w] = g[w]]
               C == B \ {w}
    <2>5. i \in [W -> Nat] /\ C \in SUBSET W /\ Leaps(i, C)
      BY <2>2
    <2>6. Cardinality(C) = n - 1 /\ n - 1 \in Nat
      <3>1. Cardinality(C) = n - 1
        BY <1>1, <2>2, FS_RemoveElement
      <3> QED
        BY <1>1, <2>5, <3>1
    <2>7. Left(W, g, L, K) + (n - 1) <= Left(W, i, L, K)
      <3>1. n - 1 \notin T
        BY <2>1, <2>6
      <3> HIDE DEF i, C, Leaps
      <3> QED
        BY <2>5, <2>6, <3>1
    <2>8. Left(W, i, L, K) + 1 <= Left(W, h, L, K)
      <3>1. h[w] \in 0 .. L - 1 /\ g[w] >= L /\ i[w] = g[w]
        BY <2>2
      <3>2. \A x \in 0 .. h[w] - 1 : Below(W, i, x) = Below(W, h, x)
        BY <3>1 DEF Below
      <3>3. /\ Below(W, i, h[w]) \in SUBSET Below(W, h, h[w])
            /\ w \in Below(W, h, h[w]) /\ w \notin Below(W, i, h[w])
        BY <3>1 DEF Below
      <3>4. Cardinality(Below(W, i, h[w])) < K
        <4>1. Cardinality(Below(W, i, h[w])) < Cardinality(Below(W, h, h[w]))
          BY <3>3, BelowFacts
        <4>2. Cardinality(Below(W, h, h[w])) <= K
          <5>1. Below(W, h, h[w]) \in SUBSET W
            BY DEF Below
          <5> QED
            BY <5>1, FS_Subset
        <4>3. Cardinality(Below(W, i, h[w])) \in Nat /\ Cardinality(Below(W, h, h[w])) \in Nat
          BY <2>5, BelowFacts
        <4> QED
          BY <1>1, <4>1, <4>2, <4>3
      <3> HIDE DEF i
      <3> QED
        BY <1>1, <2>5, <3>1, <3>2, <3>3, <3>4, Climb
    <2>9. /\ ~(Left(W, g, L, K) + n <= Left(W, h, L, K))
          /\ n \in Nat /\ Left(W, g, L, K) \in Nat
          /\ Left(W, h, L, K) \in Nat /\ Left(W, i, L, K) \in Nat
      BY <1>2, <2>2, <2>5
    <2> HIDE DEF i
    <2> QED
      BY <2>7, <2>8, <2>9
  <1>4. Leaps(f, A)
    OBVIOUS
  <1> QED
    <2>1. Cardinality(A) \notin T
      BY <1>3
    <2> HIDE DEF Leaps
    <2> QED
      BY <1>1, <1>4, <2>1

\* A ladder for each level, so there are more of them than levels.
LEMMA LaddersRoom ==
    ASSUME NEW L \in Nat, NEW K \in Nat \ {0}
    PROVE  L < Cardinality(Ladders(L, K))
  <1> DEFINE g == [i \in 0 .. L |-> [x \in 0 .. L - 1 |-> IF x < i THEN 0 ELSE K]]
  <1>1. \A i \in 0 .. L : g[i] \in Ladders(L, K)
    BY DEF Ladders
  <1>2. ASSUME NEW i \in 0 .. L, NEW j \in 0 .. L, i < j PROVE g[i] # g[j]
    <2>1. g[i][i] = K /\ g[j][i] = 0
      BY <1>2
    <2> QED
      BY <2>1
  <1>3. g \in Injection(0 .. L, Ladders(L, K))
    <2> HIDE DEF g
    <2>1. g \in [0 .. L -> Ladders(L, K)]
      BY <1>1 DEF g
    <2>2. \A i, j \in 0 .. L : g[i] = g[j] => i = j
      BY <1>2
    <2> QED
      BY <2>1, <2>2 DEF Injection, IsInjective
  <1>4. Cardinality(0 .. L) = L + 1
    BY FS_Interval
  <1>5. Cardinality(0 .. L) <= Cardinality(Ladders(L, K))
    BY <1>3, LaddersFinite, FS_Injection
  <1>6. Cardinality(Ladders(L, K)) \in Nat
    BY LaddersFinite
  <1> HIDE DEF g
  <1> QED
    BY <1>4, <1>5, <1>6

\* Those who are about to write and have not reached the top.
LEMMA DueSize ==
    ASSUME NEW L \in Nat, NEW W, IsFiniteSet(W), NEW f \in [W -> Nat], NEW P \in SUBSET W
    PROVE  /\ Due(f, P, L) \in SUBSET W /\ IsFiniteSet(Due(f, P, L))
           /\ Cardinality(Due(f, P, L)) \in Nat
           /\ Cardinality(Due(f, P, L)) <= Left(W, f, L, Cardinality(W))
  <1> DEFINE A == Due(f, P, L)
             g == [w \in W |-> IF w \in A THEN L ELSE f[w]]
  <1>1. A \in SUBSET W
    BY DEF Due
  <1>2. IsFiniteSet(A) /\ Cardinality(A) \in Nat /\ Cardinality(W) \in Nat
    BY <1>1, FS_Subset, FS_CardinalityType
  <1>3. g \in [W -> Nat] /\ \A w \in W : g[w] = IF w \in A THEN L ELSE f[w]
    OBVIOUS
  <1>4. \A w \in A : f[w] < L
    BY DEF Due
  <1>5. Left(W, g, L, Cardinality(W)) + Cardinality(A)
          <= Left(W, f, L, Cardinality(W))
    <2> HIDE DEF A, g
    <2> QED
      BY <1>1, <1>3, <1>4, Leap
  <1>6. /\ Left(W, g, L, Cardinality(W)) \in Nat
        /\ Left(W, f, L, Cardinality(W)) \in Nat
    BY <1>2, <1>3, LeftFacts
  <1> QED
    BY <1>1, <1>2, <1>5, <1>6

\* The worker v, which has read f[v], writes b, and takes X along, which would
\* have read a.
Moves(W, f, g, v, X, a, b, L) ==
    /\ b = f[v] + 1 \/ (b >= L /\ f[v] + 1 >= L)
    /\ g[v] = b
    /\ \A w \in X : f[w] = a /\ g[w] = b
    /\ \A w \in W \ (X \cup {v}) : g[w] = f[w]

\* The worker v writes the level above the one it has read and takes X, the
\* workers that are not about to write, along: the ladder gets as much
\* further as there are fewer left who are due.
LEMMA WriteClimbs ==
    ASSUME NEW L \in Nat, NEW W, IsFiniteSet(W), NEW f \in [W -> Nat], NEW g \in [W -> Nat],
           NEW P \in SUBSET W, NEW v \in W, NEW X \in SUBSET (W \ {v}),
           NEW a \in Nat, NEW b \in Nat, Moves(W, f, g, v, X, a, b, L)
    PROVE  Left(W, g, L, Cardinality(W)) + Cardinality(Due(f, P, L))
             <= Left(W, f, L, Cardinality(W)) + Cardinality(Due(g, P \ {v}, L))
  <1> DEFINE K == Cardinality(W)
             s == f[v]
             F == Left(W, f, L, K)
             G == Left(W, g, L, K)
             D == Due(f, P, L)
             E == Due(g, P \ {v}, L)
  <1>0. /\ b = f[v] + 1 \/ (b >= L /\ f[v] + 1 >= L)
        /\ g[v] = b
        /\ \A w \in X : f[w] = a /\ g[w] = b
        /\ \A w \in W \ (X \cup {v}) : g[w] = f[w]
    BY DEF Moves
  <1> USE <1>0
  <1>1. K \in Nat /\ s \in Nat
    BY FS_CardinalityType
  <1>2. F \in Nat /\ G \in Nat
    BY <1>1, LeftFacts
  <1>3. IsFiniteSet(D) /\ IsFiniteSet(E) /\ Cardinality(D) \in Nat /\ Cardinality(E) \in Nat
    BY DueSize
  <1>4. ASSUME NEW A \in SUBSET W, D \subseteq E \cup A
        PROVE  Cardinality(D) <= Cardinality(E) + Cardinality(A) /\ Cardinality(A) \in Nat
    <2> HIDE DEF D, E
    <2>1. IsFiniteSet(A) /\ Cardinality(A) \in Nat
      BY FS_Subset, FS_CardinalityType
    <2>2. IsFiniteSet(E \cap A) /\ Cardinality(E \cap A) \in Nat
      BY <1>3, FS_Intersection, FS_CardinalityType
    <2>3. IsFiniteSet(E \cup A)
          /\ Cardinality(E \cup A) = Cardinality(E) + Cardinality(A) - Cardinality(E \cap A)
      BY <1>3, <2>1, FS_Union
    <2>4. Cardinality(D) <= Cardinality(E \cup A)
      BY <1>4, <2>3, FS_Subset
    <2> QED
      BY <1>3, <2>1, <2>2, <2>3, <2>4
  <1>5. CASE b >= L
    <2> DEFINE A == {w \in X \cup {v} : f[w] < L}
    <2>1. A \in SUBSET W /\ D \subseteq E \cup A
      BY DEF Due
    <2>2. \A w \in A : f[w] < L /\ g[w] >= L
      BY <1>5
    <2>3. \A w \in W \ A : g[w] = f[w] \/ (g[w] >= L /\ f[w] >= L)
      BY <1>5
    <2>4. G + Cardinality(A) <= F
      <3> HIDE DEF A
      <3> QED
        BY <2>1, <2>2, <2>3, Leap
    <2>5. Cardinality(D) <= Cardinality(E) + Cardinality(A) /\ Cardinality(A) \in Nat
      BY <1>4, <2>1
    <2> HIDE DEF A, D, E, F, G
    <2> QED
      BY <1>2, <1>3, <2>4, <2>5 DEF D, E, F, G
  <1>6. CASE b < L
    <2>1. b = s + 1 /\ s \in 0 .. L - 1
      BY <1>1, <1>6
    <2>2. D \subseteq E \cup {v}
      BY <1>6 DEF Due
    <2>3. Cardinality(D) <= Cardinality(E) + 1
      <3>1. Cardinality({v}) = 1 /\ {v} \in SUBSET W
        BY FS_Singleton
      <3> HIDE DEF D, E
      <3> QED
        BY <1>4, <2>2, <3>1
    <2>4. ASSUME NEW x \in Nat, Below(W, g, x) # W
          PROVE  Cardinality(Below(W, g, x)) < K
      BY <2>4, NotAll
    <2>5. G + 1 <= F
      <3>1. CASE X = {} \/ s <= a
        <4>1. \A x \in 0 .. s - 1 : Below(W, g, x) = Below(W, f, x)
          BY <1>1, <2>1, <3>1 DEF Below
        <4>2. /\ Below(W, g, s) \in SUBSET Below(W, f, s)
              /\ v \in Below(W, f, s) /\ v \notin Below(W, g, s)
          BY <1>1, <2>1, <3>1 DEF Below
        <4>3. Cardinality(Below(W, g, s)) < K
          BY <1>1, <2>4, <4>2
        <4> HIDE DEF s
        <4> QED
          BY <1>1, <2>1, <4>1, <4>2, <4>3, Climb
      <3>2. CASE X # {} /\ a < s
        <4>1. PICK y \in X : TRUE
          BY <3>2
        <4>2. \A x \in 0 .. a - 1 : Below(W, g, x) = Below(W, f, x)
          BY <1>1, <2>1, <3>2 DEF Below
        <4>3. /\ Below(W, g, a) \in SUBSET Below(W, f, a)
              /\ y \in Below(W, f, a) /\ y \notin Below(W, g, a)
          BY <1>1, <2>1, <3>2, <4>1 DEF Below
        <4>4. Cardinality(Below(W, g, a)) < K
          BY <2>4, <4>3
        <4>5. a \in 0 .. L - 1
          BY <1>1, <2>1, <3>2
        <4> QED
          BY <1>1, <4>2, <4>3, <4>4, <4>5, Climb
      <3> QED
        BY <1>1, <3>1, <3>2
    <2> HIDE DEF D, E, F, G
    <2> QED
      BY <1>2, <1>3, <2>3, <2>5 DEF D, E, F, G
  <1> QED
    BY <1>5, <1>6

\* A counter that is set back, or was never used.
LEMMA KeptReset ==
    ASSUME NEW L \in Nat, NEW W, IsFiniteSet(W), NEW f \in [W -> Nat], NEW P \in SUBSET W, NEW a
    PROVE  Kept(W, f, P, L, 0, a)
  <1> DEFINE K == Cardinality(W)
  <1>1. K \in Nat
    BY FS_CardinalityType
  <1>2. Cardinality(Due(f, P, L)) \in Nat /\ Cardinality(Due(f, P, 1)) \in Nat
    BY DueSize
  <1>3. Left(W, f, L, K) \in Nat /\ Left(W, f, L, K) < Cardinality(Ladders(L, K))
    BY <1>1, LeftFacts
  <1>4. Cardinality(Ladders(L, K)) \in Nat
    BY <1>1, LaddersFinite
  <1> QED
    BY <1>2, <1>3, <1>4 DEF Kept

LEMMA KeptLess ==
    ASSUME NEW L \in Nat, NEW W, IsFiniteSet(W), NEW f \in [W -> Nat], NEW P \in SUBSET W, NEW a,
           NEW n \in Nat, NEW m \in Nat, m <= n, Kept(W, f, P, L, n, a)
    PROVE  Kept(W, f, P, L, m, a)
  <1> DEFINE K == Cardinality(W)
             C == Cardinality(Ladders(L, K))
             D == Cardinality(Due(f, P, L))
             E == Cardinality(Due(f, P, 1))
             F == Left(W, f, L, K)
  <1>1. K \in Nat
    BY FS_CardinalityType
  <1>2. F \in Nat /\ C \in Nat /\ D \in Nat /\ E \in Nat
    BY <1>1, LeftFacts, DueSize, LaddersFinite
  <1>3. n + F < C + D /\ (a = 0 => n <= E)
    BY DEF Kept
  <1>4. m + F < C + D /\ (a = 0 => m <= E)
    <2> HIDE DEF C, D, E, F
    <2> QED
      BY <1>2, <1>3
  <1> QED
    BY <1>4 DEF Kept

\* Somebody who has found the counter below its limit is due.
LEMMA KeptTry ==
    ASSUME NEW L \in Nat, NEW W, IsFiniteSet(W), NEW f \in [W -> Nat], NEW P \in SUBSET W, NEW n \in Nat,
           NEW w \in W \ P, f[w] < L, Kept(W, f, P, L, n, f[w])
    PROVE  Kept(W, f, P \cup {w}, L, n + 1, f[w])
  <1> DEFINE K == Cardinality(W)
             D(m) == Due(f, P, m)
             E(m) == Due(f, P \cup {w}, m)
  <1>1. K \in Nat
    BY FS_CardinalityType
  <1>2. \A m \in Nat : f[w] < m => Cardinality(E(m)) = Cardinality(D(m)) + 1
    <2> SUFFICES ASSUME NEW m \in Nat, f[w] < m PROVE Cardinality(E(m)) = Cardinality(D(m)) + 1
      OBVIOUS
    <2>1. E(m) = D(m) \cup {w} /\ w \notin D(m)
      BY DEF Due
    <2>2. IsFiniteSet(D(m))
      BY DueSize
    <2> HIDE DEF D, E
    <2> QED
      BY <2>1, <2>2, FS_AddElement
  <1>3. \A m \in Nat : Cardinality(E(m)) \in Nat /\ Cardinality(D(m)) \in Nat
    BY DueSize
  <1>4. Left(W, f, L, K) \in Nat /\ Cardinality(Ladders(L, K)) \in Nat
    BY <1>1, LeftFacts, LaddersFinite
  <1>5. n + Left(W, f, L, K) < Cardinality(Ladders(L, K)) + Cardinality(D(L))
        /\ (f[w] = 0 => n <= Cardinality(D(1)))
    BY DEF Kept
  <1> HIDE DEF D, E, K
  <1>6. n + 1 + Left(W, f, L, K) < Cardinality(Ladders(L, K)) + Cardinality(E(L))
    BY <1>2, <1>3, <1>4, <1>5
  <1>7. f[w] = 0 => n + 1 <= Cardinality(E(1))
    BY <1>2, <1>3, <1>5
  <1> QED
    BY <1>6, <1>7 DEF Kept, E, K

\* A write.
LEMMA KeptWrite ==
    ASSUME NEW L \in Nat, NEW W, IsFiniteSet(W), NEW f \in [W -> Nat], NEW g \in [W -> Nat],
           NEW P \in SUBSET W, NEW v \in W, NEW X \in SUBSET (W \ {v}),
           NEW a \in Nat, NEW b \in Nat \ {0}, Moves(W, f, g, v, X, a, b, L),
           NEW n \in Nat, Kept(W, f, P, L, n, a)
    PROVE  Kept(W, g, P \ {v}, L, n, b)
  <1> DEFINE K == Cardinality(W)
             C == Cardinality(Ladders(L, K))
             F == Left(W, f, L, K)
             G == Left(W, g, L, K)
             D == Cardinality(Due(f, P, L))
             E == Cardinality(Due(g, P \ {v}, L))
  <1>1. G + D <= F + E
    BY WriteClimbs
  <1>2. K \in Nat
    BY FS_CardinalityType
  <1>3. F \in Nat /\ G \in Nat /\ C \in Nat /\ D \in Nat /\ E \in Nat
    <2>1. F \in Nat /\ G \in Nat /\ C \in Nat
      BY <1>2, LeftFacts, LaddersFinite
    <2>2. D \in Nat /\ E \in Nat
      BY DueSize
    <2> QED
      BY <2>1, <2>2
  <1>4. n + F < C + D
    BY DEF Kept
  <1>5. n + G < C + E
    <2> HIDE DEF C, D, E, F, G
    <2> QED
      BY <1>1, <1>3, <1>4
  <1> QED
    BY <1>5 DEF Kept

\* A write that fails, as the row was inserted or deleted since it was read.
LEMMA KeptFailed ==
    ASSUME NEW L \in Nat \ {0}, NEW W, IsFiniteSet(W), NEW f \in [W -> Nat], NEW g \in [W -> Nat],
           NEW P \in SUBSET W, NEW v \in P, NEW a \in Nat,
           (f[v] = 0) # (a = 0),
           g[v] = a, \A w \in W \ {v} : g[w] = f[w],
           NEW n \in Nat, Kept(W, f, P, L, n, a)
    PROVE  Kept(W, g, P \ {v}, L, n, a)
  <1> DEFINE K == Cardinality(W)
             C == Cardinality(Ladders(L, K))
             F == Left(W, f, L, K)
             G == Left(W, g, L, K)
             D == Cardinality(Due(f, P, L))
             E == Cardinality(Due(g, P \ {v}, L))
  <1>1. K \in Nat
    BY FS_CardinalityType
  <1>2. F \in Nat /\ G \in Nat /\ C \in Nat /\ D \in Nat /\ E \in Nat /\ G < C
    <2>1. F \in Nat /\ G \in Nat /\ C \in Nat /\ G < C
      BY <1>1, LeftFacts, LaddersFinite
    <2>2. D \in Nat /\ E \in Nat
      BY DueSize
    <2> QED
      BY <2>1, <2>2
  <1>3. n + F < C + D
    BY DEF Kept
  <1>4. CASE a # 0
    <2>1. f[v] = 0
      BY <1>4
    <2>2. /\ Below(W, g, 0) \in SUBSET Below(W, f, 0)
          /\ v \in Below(W, f, 0) /\ v \notin Below(W, g, 0)
      BY <1>4, <2>1 DEF Below
    <2>3. Cardinality(Below(W, g, 0)) < K
      <3>1. Below(W, g, 0) # W
        BY <2>2
      <3> QED
        BY <3>1, NotAll
    <2>4. G + 1 <= F
      <3>1. 0 \in 0 .. L - 1
        OBVIOUS
      <3>2. \A x \in 0 .. 0 - 1 : Below(W, g, x) = Below(W, f, x)
        OBVIOUS
      <3> QED
        BY <1>1, <2>2, <2>3, <3>1, <3>2, Climb
    <2>5. D <= E + 1
      <3>1. IsFiniteSet(Due(g, P \ {v}, L) \cup {v})
            /\ Cardinality(Due(g, P \ {v}, L) \cup {v}) = E + 1
        <4>1. IsFiniteSet(Due(g, P \ {v}, L)) /\ v \notin Due(g, P \ {v}, L)
          BY DueSize DEF Due
        <4> QED
          BY <4>1, FS_AddElement
      <3>2. Due(f, P, L) \in SUBSET (Due(g, P \ {v}, L) \cup {v})
        BY DEF Due
      <3>3. D <= Cardinality(Due(g, P \ {v}, L) \cup {v})
        BY <3>1, <3>2, FS_Subset
      <3> QED
        BY <3>1, <3>3
    <2>6. n + G < C + E
      <3> HIDE DEF C, D, E, F, G
      <3> QED
        BY <1>2, <1>3, <2>4, <2>5
    <2> QED
      BY <1>4, <2>6 DEF Kept
  <1>5. CASE a = 0
    <2>1. Due(f, P, 1) = Due(g, P \ {v}, 1)
      BY <1>5 DEF Due
    <2>2. n <= Cardinality(Due(g, P \ {v}, 1))
      BY <1>5, <2>1 DEF Kept
    <2>3. Due(g, P \ {v}, 1) \in SUBSET Due(g, P \ {v}, L)
      BY DEF Due
    <2>4. IsFiniteSet(Due(g, P \ {v}, L)) /\ Cardinality(Due(g, P \ {v}, 1)) \in Nat
      BY DueSize
    <2>5. Cardinality(Due(g, P \ {v}, 1)) <= E
      BY <2>3, <2>4, FS_Subset
    <2>6. n + G < C + E
      <3> HIDE DEF C, D, E, F, G
      <3> QED
        BY <1>2, <2>2, <2>4, <2>5
    <2> QED
      BY <2>2, <2>6 DEF Kept
  <1> QED
    BY <1>4, <1>5

\* What the invariant is for.
LEMMA KeptBound ==
    ASSUME NEW L \in Nat, NEW W, IsFiniteSet(W), NEW f \in [W -> Nat], NEW P \in SUBSET W, NEW n \in Nat, NEW a,
           Kept(W, f, P, L, n, a)
    PROVE  n <= Cardinality(Ladders(L, Cardinality(W))) - 1
  <1> DEFINE K == Cardinality(W)
             C == Cardinality(Ladders(L, K))
             F == Left(W, f, L, K)
             D == Cardinality(Due(f, P, L))
  <1>1. K \in Nat
    BY FS_CardinalityType
  <1>2. F \in Nat /\ C \in Nat /\ D \in Nat /\ D <= F
    BY <1>1, LeftFacts, DueSize, LaddersFinite
  <1>3. n + F < C + D
    BY DEF Kept
  <1> HIDE DEF C, D, F
  <1>4. n <= C - 1
    BY <1>2, <1>3
  <1> QED
    BY <1>4 DEF C

\* The steps of all stages, of which each adds those of one more worker.
LEMMA StagesFinite ==
    ASSUME NEW L \in Nat, NEW K \in Nat
    PROVE  IsFiniteSet(Stages(L, K)) /\ Changes(L, K) \in Nat
  <1>1. ASSUME NEW j \in 1 .. K PROVE Ladders(L, j) \subseteq Ladders(L, K)
    <2> SUFFICES ASSUME NEW d \in Ladders(L, j) PROVE d \in Ladders(L, K)
      OBVIOUS
    <2>1. d \in [0 .. L - 1 -> 0 .. j] /\ 0 .. j \subseteq 0 .. K
      BY DEF Ladders
    <2>2. d \in [0 .. L - 1 -> 0 .. K]
      BY <2>1
    <2> QED
      BY <2>2 DEF Ladders
  <1>2. Stages(L, K) \in SUBSET ((1 .. K) \X Ladders(L, K))
    BY <1>1 DEF Stages
  <1>3. IsFiniteSet((1 .. K) \X Ladders(L, K))
    <2>1. IsFiniteSet(Ladders(L, K)) /\ IsFiniteSet(1 .. K)
      BY LaddersFinite, FS_Interval
    <2> QED
      BY <2>1, FS_Product
  <1>4. IsFiniteSet(Stages(L, K))
    BY <1>2, <1>3, FS_Subset
  <1> QED
    BY <1>4, FS_CardinalityType DEF Changes

LEMMA StagesNext ==
    ASSUME NEW L \in Nat, NEW K \in Nat
    PROVE  /\ Changes(L, 0) = 0
           /\ Changes(L, K + 1) = Changes(L, K) + Cardinality(Ladders(L, K + 1)) - 1
  <1> DEFINE T == Ladders(L, K + 1) \ {Start(L, K + 1)}
             N == {K + 1} \X T
  <1>1. Changes(L, 0) = 0
    <2>1. Stages(L, 0) = {}
      BY DEF Stages
    <2> QED
      BY <2>1, FS_EmptySet DEF Changes
  <1>2. Stages(L, K + 1) = Stages(L, K) \cup N /\ Stages(L, K) \cap N = {}
    <2>1. 1 .. K + 1 = (1 .. K) \cup {K + 1}
      OBVIOUS
    <2> QED
      BY <2>1 DEF Stages
  <1>3. /\ IsFiniteSet(T) /\ Cardinality(T) = Cardinality(Ladders(L, K + 1)) - 1
        /\ Cardinality(T) \in Nat
    <2>1. Start(L, K + 1) \in Ladders(L, K + 1)
      BY DEF Start, Ladders
    <2>2. IsFiniteSet(Ladders(L, K + 1)) /\ K + 1 \in Nat
      BY LaddersFinite, K + 1 \in Nat
    <2>3. IsFiniteSet(T) /\ Cardinality(T) = Cardinality(Ladders(L, K + 1)) - 1
      BY <2>1, <2>2, FS_RemoveElement
    <2> QED
      BY <2>3, FS_CardinalityType
  <1>4. IsFiniteSet(N) /\ Cardinality(N) = Cardinality(T)
    <2> HIDE DEF T
    <2>1. IsFiniteSet({K + 1}) /\ Cardinality({K + 1}) = 1
      BY FS_Singleton
    <2>2. IsFiniteSet(N) /\ Cardinality(N) = 1 * Cardinality(T)
      BY <1>3, <2>1, FS_Product
    <2> QED
      BY <1>3, <2>2
  <1>5. Cardinality(Stages(L, K) \cup N) = Cardinality(Stages(L, K)) + Cardinality(N)
    <2> HIDE DEF N
    <2>1. /\ IsFiniteSet(Stages(L, K)) /\ Cardinality(Stages(L, K)) \in Nat
          /\ Cardinality(N) \in Nat
      BY <1>4, StagesFinite, FS_CardinalityType DEF Changes
    <2>2. Cardinality(Stages(L, K) \cap N) = 0
      BY <1>2, FS_EmptySet
    <2>3. Cardinality(Stages(L, K) \cup N)
            = Cardinality(Stages(L, K)) + Cardinality(N) - Cardinality(Stages(L, K) \cap N)
      BY <1>4, <2>1, FS_Union
    <2> QED
      BY <2>1, <2>2, <2>3
  <1>6. Changes(L, K + 1) = Changes(L, K) + Cardinality(T)
    BY <1>2, <1>4, <1>5 DEF Changes
  <1> HIDE DEF T
  <1>7. Cardinality(Ladders(L, K + 1)) \in Nat /\ Changes(L, K) \in Nat
    <2>1. K + 1 \in Nat
      OBVIOUS
    <2> QED
      BY <2>1, LaddersFinite, StagesFinite
  <1> QED
    BY <1>1, <1>3, <1>6, <1>7

LEMMA StagesMore ==
    ASSUME NEW L \in Nat, NEW K \in Nat, NEW j \in Nat, j <= K
    PROVE  /\ Changes(L, j) <= Changes(L, K)
           /\ Cardinality(Ladders(L, j)) - 1 <= Changes(L, j)
  <1>1. Stages(L, j) \in SUBSET Stages(L, K)
    <2>1. 1 .. j \subseteq 1 .. K
      OBVIOUS
    <2> QED
      BY <2>1 DEF Stages
  <1>2. Changes(L, j) <= Changes(L, K)
    BY <1>1, StagesFinite, FS_Subset DEF Changes
  <1>3. CASE j = 0
    <2>1. Ladders(L, 0) \in SUBSET {Start(L, 0)}
      BY DEF Ladders, Start
    <2>2. IsFiniteSet({Start(L, 0)}) /\ Cardinality({Start(L, 0)}) = 1
      BY FS_Singleton
    <2>3. Cardinality(Ladders(L, 0)) <= 1 /\ Cardinality(Ladders(L, 0)) \in Nat
      BY <2>1, <2>2, LaddersFinite, FS_Subset
    <2> QED
      BY <1>2, <1>3, <2>3, StagesNext
  <1>4. CASE j # 0
    <2>1. PICK i \in Nat : j = i + 1
      <3>1. j - 1 \in Nat /\ j = (j - 1) + 1
        BY <1>4
      <3> QED
        BY <3>1
    <2>2. Changes(L, i) \in Nat /\ Cardinality(Ladders(L, j)) \in Nat
      BY StagesFinite, LaddersFinite
    <2>3. Changes(L, j) = Changes(L, i) + Cardinality(Ladders(L, j)) - 1
      BY <2>1, StagesNext
    <2> QED
      BY <1>2, <2>2, <2>3
  <1> QED
    BY <1>3, <1>4

\* The worker v goes to the level b, from below the top to the top if m = 1
\* and else one level up if it can, and takes X along, which is on the level a.
Carries(f, g, v, X, a, b, m, L) ==
    /\ \/ f[v] < L /\ m = 1 /\ b >= L
       \/ f[v] < L /\ m = 0 /\ b < L /\ b = f[v] + 1
       \/ f[v] >= L /\ m = 0 /\ b >= L
    /\ g[v] = b
    /\ \A w \in X : f[w] = a /\ g[w] = b
    /\ \A w \in Workers \ (X \cup {v}) : g[w] = f[w]

\* A ladder of all workers but one.  Whoever goes from below the top to the
\* top, and takes X along, uses up a ladder, or the one time that is spare;
\* and no ladder is won back by a step to the next level.
LEMMA SpendClimbs ==
    ASSUME NEW L \in Nat, NEW K, K = Cardinality(Workers) - 1,
           NEW f \in [Workers -> Nat], NEW g \in [Workers -> Nat],
           NEW v \in Workers, NEW X \in SUBSET (Workers \ {v}),
           NEW a \in Nat, NEW b \in Nat, NEW m \in {0, 1}, Carries(f, g, v, X, a, b, m, L)
    PROVE  Left(Workers, g, L, K) + Spare(Workers, g, L) + m
             <= Left(Workers, f, L, K) + Spare(Workers, f, L)
  <1> DEFINE s == f[v]
             F == Left(Workers, f, L, K)
             G == Left(Workers, g, L, K)
             sf == Spare(Workers, f, L)
             sg == Spare(Workers, g, L)
  <1> SUFFICES G + sg + m <= F + sf
    OBVIOUS
  <1>0. /\ \/ s < L /\ m = 1 /\ b >= L
           \/ s < L /\ m = 0 /\ b < L /\ b = s + 1
           \/ s >= L /\ m = 0 /\ b >= L
        /\ g[v] = b
        /\ \A w \in X : f[w] = a /\ g[w] = b
        /\ \A w \in Workers \ (X \cup {v}) : g[w] = f[w]
    BY DEF Carries
  <1> USE <1>0
  <1>1. K \in Nat /\ s \in Nat
    <2>1. Cardinality(Workers) \in Nat /\ Cardinality(Workers) # 0
      BY WorkersFinite, FS_CardinalityType, FS_EmptySet
    <2> QED
      BY <2>1
  <1>2. F \in Nat /\ G \in Nat
    BY WorkersFinite, <1>1, LeftFacts
  <1>3. /\ sf \in {0, 1} /\ sg \in {0, 1}
        /\ sf = 1 <=> \A w \in Workers : f[w] < L
        /\ sg = 1 <=> \A w \in Workers : g[w] < L
    BY DEF Spare
  <1>4. ASSUME NEW x \in Nat, NEW y \in Workers, NEW z \in Workers, y # z, g[y] > x, g[z] > x
        PROVE  Cardinality(Below(Workers, g, x)) < K
    <2>1. Below(Workers, g, x) \in SUBSET (Workers \ {y})
      BY <1>4 DEF Below
    <2>2. z \in Workers \ {y} /\ z \notin Below(Workers, g, x)
      BY <1>4 DEF Below
    <2>3. IsFiniteSet(Workers \ {y}) /\ Cardinality(Workers \ {y}) = K
      BY WorkersFinite, FS_RemoveElement
    <2>4. /\ Cardinality(Below(Workers, g, x)) <= K
          /\ Cardinality(Below(Workers, g, x)) # K
      BY <2>1, <2>2, <2>3, FS_Subset
    <2> QED
      BY WorkersFinite, <1>1, <2>4, BelowFacts
  <1>5. CASE b >= L
    <2>1. G <= F
      <3>1. \A x \in 0 .. L - 1 : Below(Workers, g, x) \in SUBSET Below(Workers, f, x)
        BY <1>5 DEF Below
      <3> QED
        BY WorkersFinite, <1>1, <3>1, Rise
    <2>2. sg = 0
      BY <1>3, <1>5
    <2>3. CASE m = 0
      <3> HIDE DEF F, G, sf, sg
      <3> QED
        BY <1>2, <1>3, <2>1, <2>2, <2>3
    <2>4. CASE m = 1 /\ sf = 1
      <3> HIDE DEF F, G, sf, sg
      <3> QED
        BY <1>2, <1>3, <2>1, <2>2, <2>4
    <2>5. CASE m = 1 /\ sf = 0
      <3>1. s \in 0 .. L - 1
        BY <1>1, <2>5
      <3>2. PICK y \in Workers : f[y] >= L
        BY <1>3, <2>5
      <3>3. y # v /\ g[y] >= L
        BY <1>5, <3>1, <3>2
      <3>4. G + 1 <= F
        <4>1. CASE X = {} \/ s <= a
          <5>1. \A x \in 0 .. s - 1 : Below(Workers, g, x) = Below(Workers, f, x)
            BY <1>1, <1>5, <3>1, <4>1 DEF Below
          <5>2. /\ Below(Workers, g, s) \in SUBSET Below(Workers, f, s)
                /\ v \in Below(Workers, f, s) /\ v \notin Below(Workers, g, s)
            BY <1>1, <1>5, <3>1, <4>1 DEF Below
          <5>3. Cardinality(Below(Workers, g, s)) < K
            <6>1. g[v] > s /\ g[y] > s
              BY <1>5, <3>1, <3>3
            <6> HIDE DEF s
            <6> QED
              BY <1>1, <1>4, <3>3, <6>1
          <5> HIDE DEF s
          <5> QED
            BY WorkersFinite, <1>1, <3>1, <5>1, <5>2, <5>3, Climb
        <4>2. CASE X # {} /\ a < s
          <5>1. PICK z \in X : TRUE
            BY <4>2
          <5>2. \A x \in 0 .. a - 1 : Below(Workers, g, x) = Below(Workers, f, x)
            BY <1>1, <1>5, <3>1, <4>2 DEF Below
          <5>3. /\ Below(Workers, g, a) \in SUBSET Below(Workers, f, a)
                /\ z \in Below(Workers, f, a) /\ z \notin Below(Workers, g, a)
            BY <1>1, <1>5, <3>1, <4>2, <5>1 DEF Below
          <5>4. Cardinality(Below(Workers, g, a)) < K
            <6>1. g[v] > a /\ g[y] > a
              BY <1>1, <1>5, <3>1, <3>3, <4>2
            <6> QED
              BY <1>4, <3>3, <6>1
          <5>5. a \in 0 .. L - 1
            BY <1>1, <3>1, <4>2
          <5> QED
            BY WorkersFinite, <1>1, <5>2, <5>3, <5>4, <5>5, Climb
        <4> QED
          BY <1>1, <4>1, <4>2
      <3> HIDE DEF F, G, sf, sg
      <3> QED
        BY <1>2, <1>3, <2>2, <2>5, <3>4
    <2> QED
      BY <1>3, <2>3, <2>4, <2>5
  <1>6. CASE b < L
    <2>1. b = s + 1 /\ s \in 0 .. L - 1 /\ m = 0
      BY <1>1, <1>6
    <2>2. CASE X = {} \/ a <= s
      <3>1. G <= F
        <4>1. \A x \in 0 .. L - 1 : Below(Workers, g, x) \in SUBSET Below(Workers, f, x)
          BY <1>1, <2>1, <2>2 DEF Below
        <4> QED
          BY WorkersFinite, <1>1, <4>1, Rise
      <3>2. sg = 1 => sf = 1
        BY <1>3, <2>1, <2>2
      <3> HIDE DEF F, G, sf, sg
      <3> QED
        BY <1>2, <1>3, <2>1, <3>1, <3>2
    <2>3. CASE X # {} /\ s < a
      <3>1. PICK y \in X : TRUE
        BY <2>3
      <3>2. \A x \in 0 .. s - 1 : Below(Workers, g, x) = Below(Workers, f, x)
        BY <1>1, <2>1, <2>3 DEF Below
      <3>3. /\ Below(Workers, g, s) \in SUBSET Below(Workers, f, s)
            /\ v \in Below(Workers, f, s) /\ v \notin Below(Workers, g, s)
        BY <1>1, <2>1, <2>3 DEF Below
      <3>4. Cardinality(Below(Workers, g, s)) < K
        <4>1. g[v] > s /\ g[y] > s /\ y # v
          BY <1>1, <2>1, <3>1
        <4> HIDE DEF s
        <4> QED
          BY <1>1, <1>4, <3>1, <4>1
      <3>5. G + 1 <= F
        <4> HIDE DEF s
        <4> QED
          BY WorkersFinite, <1>1, <2>1, <3>2, <3>3, <3>4, Climb
      <3> HIDE DEF F, G, sf, sg
      <3> QED
        BY <1>2, <1>3, <2>1, <3>5
    <2> QED
      BY <1>1, <2>2, <2>3
  <1> QED
    BY <1>5, <1>6

\* What a write of s + 1 makes of the counter, in the bound it has.
Written(L, s, b) == b = s + 1 \/ (b >= L /\ s + 1 >= L)

LEMMA Limits ==
    ASSUME NEW c \in Counters
    PROVE  /\ Limit(c) \in Nat /\ Limit(c) >= 1
           /\ MaxWrong[c] = Changes(Limit(c), Cardinality(Workers)) /\ MaxWrong[c] \in Nat
           /\ Workers # {} => Limit(c) <= MaxWrong[c]
           /\ Cap(c) \in Nat /\ Cap(c) = MaxWrong[c] + 1
  <1>1. Limit(c) \in Nat /\ Limit(c) >= 1 /\ Cardinality(Workers) \in Nat
    BY LimitsAssumption, WorkersFinite, FS_CardinalityType DEF Limit
  <1>2. MaxWrong[c] = Changes(Limit(c), Cardinality(Workers)) /\ MaxWrong[c] \in Nat
    BY <1>1, StagesFinite DEF MaxWrong
  <1>3. ASSUME Workers # {} PROVE Limit(c) <= MaxWrong[c]
    <2>1. Cardinality(Workers) \in Nat \ {0}
      BY <1>1, <1>3, WorkersFinite, FS_EmptySet
    <2>2. Limit(c) < Cardinality(Ladders(Limit(c), Cardinality(Workers)))
      BY <1>1, <2>1, LaddersRoom
    <2>3. Cardinality(Ladders(Limit(c), Cardinality(Workers))) - 1 <= MaxWrong[c]
      BY <1>1, <1>2, StagesMore
    <2>4. Cardinality(Ladders(Limit(c), Cardinality(Workers))) \in Nat
      BY <1>1, LaddersFinite
    <2> QED
      BY <1>1, <1>2, <2>2, <2>3, <2>4
  <1> QED
    BY <1>1, <1>2, <1>3 DEF Cap

-----------------------------------------------------------------------------
(***************************************************************************)
(* Types                                                                   *)
(***************************************************************************)
\* What a job of each kind carries, and what makes one.
LEMMA JobKind ==
    ASSUME NEW j \in Job
    PROVE  /\ j.k \in {"idle", "login", "recover", "refused", "purge", "fail", "write", "spend"}
           /\ j.k = "purge" => j.c \in Counters /\ (j.m # "recovery" => j.c = "tfa")
           /\ j.k = "fail" => j.c \in Counters
           /\ j.k = "write" => j.c \in Counters /\ j.seen \in 0 .. Cap(j.c)
           /\ j.k = "spend" => j.code \in Codes /\ j.rest \in SUBSET Codes
  <1>1. ASSUME NEW c \in Counters, j \in [k : {"write"}, c : {c}, seen : 0 .. Cap(c)]
        PROVE  j.k = "write" /\ j.c = c /\ j.seen \in 0 .. Cap(c)
    BY <1>1
  <1>2. \/ j = [k |-> "idle"] \/ j = [k |-> "login"] \/ j = [k |-> "recover"]
        \/ j \in [k : {"refused"}, c : Counters, recovery : BOOLEAN]
        \/ j \in [k : {"purge"}, c : {"tfa"}, m : {"code", "totp", "recovery"}]
        \/ j \in [k : {"purge"}, c : {"recovery"}, m : {"recovery"}]
        \/ j \in [k : {"fail"}, c : Counters]
        \/ \E c \in Counters : j \in [k : {"write"}, c : {c}, seen : 0 .. Cap(c)]
        \/ j \in [k : {"spend"}, code : Codes, rest : SUBSET Codes]
    BY DEF Job, Idle
  <1>3. "tfa" \in Counters /\ "recovery" \in Counters
    BY DEF Counters
  <1> QED
    BY <1>1, <1>2, <1>3

LEMMA JobIn ==
    /\ Idle \in Job /\ Idle.k = "idle"
    /\ [k |-> "login"] \in Job /\ [k |-> "recover"] \in Job
    /\ \A c \in Counters, r \in BOOLEAN : [k |-> "refused", c |-> c, recovery |-> r] \in Job
    /\ \A m \in {"code", "totp", "recovery"} : [k |-> "purge", c |-> "tfa", m |-> m] \in Job
    /\ [k |-> "purge", c |-> "recovery", m |-> "recovery"] \in Job
    /\ \A c \in Counters : [k |-> "fail", c |-> c] \in Job
    /\ \A c \in Counters, n \in Nat : n <= Cap(c) => [k |-> "write", c |-> c, seen |-> n] \in Job
    /\ \A code \in Codes, R \in SUBSET Codes : [k |-> "spend", code |-> code, rest |-> R] \in Job
  <1>1. ASSUME NEW c \in Counters, NEW n \in Nat, n <= Cap(c)
        PROVE  [k |-> "write", c |-> c, seen |-> n] \in Job
    <2>1. [k |-> "write", c |-> c, seen |-> n] \in [k : {"write"}, c : {c}, seen : 0 .. Cap(c)]
      BY <1>1, Limits
    <2> QED
      BY <2>1 DEF Job
  <1>2. /\ Idle \in Job /\ Idle.k = "idle" /\ [k |-> "login"] \in Job /\ [k |-> "recover"] \in Job
        /\ \A c \in Counters : [k |-> "fail", c |-> c] \in Job
    BY DEF Job, Idle
  <1>3. \A c \in Counters, r \in BOOLEAN : [k |-> "refused", c |-> c, recovery |-> r] \in Job
    BY DEF Job
  <1>4. \A code \in Codes, R \in SUBSET Codes : [k |-> "spend", code |-> code, rest |-> R] \in Job
    BY DEF Job
  <1>5. \A m \in {"code", "totp", "recovery"} : [k |-> "purge", c |-> "tfa", m |-> m] \in Job
    BY DEF Job
  <1>6. [k |-> "purge", c |-> "recovery", m |-> "recovery"] \in Job
    BY DEF Job
  <1> QED
    BY <1>1, <1>2, <1>3, <1>4, <1>5, <1>6

LEMMA MostNat == Cardinality(Codes) \in Nat /\ Most \in Nat
  <1>1. Cardinality(Codes) \in Nat /\ Cardinality(Workers) \in Nat
    BY LimitsAssumption, FS_CardinalityType
  <1>2. CASE Workers # {}
    <2>1. Cardinality(Workers) - 1 \in Nat
      BY <1>1, <1>2, WorkersFinite, FS_EmptySet
    <2> QED
      BY <1>1, <2>1, LaddersFinite DEF Most
  <1>3. CASE Workers = {}
    <2> DEFINE L == Cardinality(Codes)
    <2>1. Cardinality(Workers) - 1 = -1
      BY <1>3, FS_EmptySet
    <2>2. Ladders(L, -1) \in SUBSET {[x \in 0 .. L - 1 |-> 0]}
      BY <1>1 DEF Ladders
    <2>3. IsFiniteSet(Ladders(L, -1))
      <3> DEFINE S == {[x \in 0 .. L - 1 |-> 0]}
      <3>1. IsFiniteSet(S)
        BY FS_Singleton
      <3> HIDE DEF S, L
      <3> QED
        BY <2>2, <3>1, FS_Subset DEF S
    <2>4. Cardinality(Ladders(L, -1)) \in Nat
      BY <2>3, FS_CardinalityType
    <2> QED
      BY <1>1, <2>1, <2>4 DEF Most
  <1> QED
    BY <1>2, <1>3

\* Counters that are deleted and counted up stay in their bounds.
Drops(c) == /\ count' = [count EXCEPT ![c] = 0]
            /\ old' = [old EXCEPT ![c] = FALSE]

LEMMA CountersType ==
    ASSUME TypeOK, NEW d \in Counters
    PROVE  /\ Drops(d) => /\ count' \in [Counters -> Nat] /\ old' \in [Counters -> BOOLEAN]
                          /\ \A c \in Counters : count'[c] <= Cap(c)
           /\ Tried(d) => /\ tries' \in [Counters -> Nat]
                          /\ \A c \in Counters : tries'[c] <= Cap(c)
           /\ \A n \in Nat : UpTo(n, d) \in Nat /\ UpTo(n, d) <= Cap(d)
  <1>1. \A n \in Nat : UpTo(n, d) \in Nat /\ UpTo(n, d) <= Cap(d)
    BY Limits DEF UpTo
  <1>2. ASSUME Drops(d)
        PROVE  /\ count' \in [Counters -> Nat] /\ old' \in [Counters -> BOOLEAN]
               /\ \A c \in Counters : count'[c] <= Cap(c)
    BY <1>2, Limits DEF Drops, TypeOK
  <1>3. ASSUME Tried(d)
        PROVE  /\ tries' \in [Counters -> Nat]
               /\ \A c \in Counters : tries'[c] <= Cap(c)
    <2>1. tries[d] + 1 \in Nat
      BY DEF TypeOK
    <2>2. UpTo(tries[d] + 1, d) \in Nat /\ UpTo(tries[d] + 1, d) <= Cap(d)
      BY <1>1, <2>1
    <2>3. tries' = [tries EXCEPT ![d] = UpTo(tries[d] + 1, d)]
      BY <1>3 DEF Tried
    <2> QED
      BY <2>2, <2>3 DEF TypeOK
  <1> QED
    BY <1>1, <1>2, <1>3

LEMMA JobsType ==
    ASSUME TypeOK, NEW w \in Workers, NEW j \in Job, Do(w, j)
    PROVE  job' \in [Workers -> Job]
  BY DEF TypeOK, Do

\* The lists that are about to be written back hold codes that were issued,
\* and not the code that is spent; a code not issued was not accepted.
Spends(w) == job[w].k = "spend"
Loaded == /\ \A w \in Workers : Spends(w) => /\ job[w].code \in issued \ job[w].rest
                                           /\ job[w].rest \subseteq issued
          /\ \A c \in Codes : c \notin issued => accepted[c] = 0

TypeInv == TypeOK /\ Loaded

LEMMA TypeInit == Init => TypeInv
  <1> SUFFICES ASSUME Init PROVE TypeInv
    OBVIOUS
  <1>1. count \in [Counters -> Nat] /\ tries \in [Counters -> Nat] /\ old \in [Counters -> BOOLEAN]
    BY DEF Init
  <1>2. \A c \in Counters : count[c] <= Cap(c) /\ tries[c] <= Cap(c)
    BY Limits DEF Init
  <1>3. job \in [Workers -> Job] /\ accepted \in [Codes -> 0 .. Most + 1]
    BY JobIn, MostNat DEF Init
  <1>4. \A w \in Workers : ~Spends(w)
    BY JobIn DEF Init, Spends
  <1> QED
    BY <1>1, <1>2, <1>3, <1>4 DEF Init, TypeOK, Loaded, TypeInv

\* A worker that has a code to compare takes up the job j, and its code counts
\* for c if it is a wrong one.
Turn(w, c, j) ==
    /\ Do(w, j)
    /\ IF j.k = "fail" THEN j.c = c /\ Tried(c)
                       ELSE UNCHANGED tries /\ j.k \notin {"write", "purge"}
    /\ j.k = "spend" => j.code \in stored /\ j.rest = stored \ {j.code}

\* It finds that c has lapsed, answers, or deletes c and answers.
Lapsed(w, c, j) ==
    /\ job[w].k # "purge" /\ old[c] /\ j.k = "purge" /\ j.c = c /\ Do(w, j)
    /\ UNCHANGED <<count, old, tries>>
Answered(w, c, j) ==
    /\ job[w].k # "purge" /\ (j.k = "fail" => Open(c)) /\ Turn(w, c, j)
    /\ UNCHANGED <<count, old>>
Purged(w, c, j) ==
    /\ job[w].k = "purge" /\ job[w].c = c /\ Drops(c) /\ Turn(w, c, j)

Answers(w) ==
    \/ \E right \in BOOLEAN : EnterCode(w, right) \/ EnterTotp(w, right)
    \/ EnterRecovery(w)
    \/ \E code \in Codes : Recover(w, code)
    \/ \E right \in BOOLEAN, code \in Codes : Purge(w, right, code)

LEMMA Compares ==
    ASSUME TypeOK, NEW w \in Workers
    PROVE  /\ \A right \in BOOLEAN :
                CompareCode(w, right) \/ CompareTotp(w, right) => \E j \in Job : Turn(w, "tfa", j)
           /\ Do(w, [k |-> "recover"]) /\ UNCHANGED tries => \E j \in Job : Turn(w, "tfa", j) /\ j.k # "fail"
           /\ \A code \in Codes : CompareRecovery(w, code) => \E j \in Job : Turn(w, "recovery", j)
           /\ \A c \in Counters, r \in BOOLEAN :
                Refuse(w, c, r) => \E j \in Job : Turn(w, c, j) /\ j.k # "fail"
  <1>1. "tfa" \in Counters /\ "recovery" \in Counters
    BY DEF Counters
  <1>2. ASSUME NEW j \in Job, Do(w, j), UNCHANGED tries,
               j.k \in {"idle", "login", "recover", "refused"}, NEW c
        PROVE  Turn(w, c, j) /\ j.k # "fail"
    BY <1>2 DEF Turn
  <1>3. ASSUME NEW c \in Counters, Do(w, [k |-> "fail", c |-> c]), Tried(c)
        PROVE  \E j \in Job : Turn(w, c, j)
    <2>1. PICK j : j = [k |-> "fail", c |-> c]
      OBVIOUS
    <2>2. j \in Job /\ j.k = "fail" /\ j.c = c
      BY <2>1, JobIn
    <2>3. Turn(w, c, j)
      BY <1>3, <2>1, <2>2 DEF Turn
    <2> QED
      BY <2>2, <2>3
  <1>4. \A j \in {Idle, [k |-> "login"], [k |-> "recover"]} :
           j \in Job /\ j.k \in {"idle", "login", "recover", "refused"}
    BY JobIn
  <1>5. ASSUME NEW right \in BOOLEAN, CompareCode(w, right)
        PROVE  \E j \in Job : Turn(w, "tfa", j)
    <2>1. CASE right
      <3>1. Do(w, [k |-> "login"]) /\ UNCHANGED tries
        BY <1>5, <2>1 DEF CompareCode
      <3> QED
        BY <1>2, <1>4, <3>1
    <2>2. CASE ~right
      <3>1. Do(w, [k |-> "fail", c |-> "tfa"]) /\ Tried("tfa")
        BY <1>5, <2>2 DEF CompareCode
      <3> QED
        BY <1>1, <1>3, <3>1
    <2> QED
      BY <2>1, <2>2
  <1>6. ASSUME NEW right \in BOOLEAN, CompareTotp(w, right)
        PROVE  \E j \in Job : Turn(w, "tfa", j)
    <2>1. UNCHANGED tries /\ (Do(w, Idle) \/ Do(w, [k |-> "login"]))
      BY <1>6 DEF CompareTotp
    <2> QED
      BY <1>2, <1>4, <2>1
  <1>7. ASSUME Do(w, [k |-> "recover"]), UNCHANGED tries
        PROVE  \E j \in Job : Turn(w, "tfa", j) /\ j.k # "fail"
    BY <1>2, <1>4, <1>7
  <1>8. ASSUME NEW code \in Codes, CompareRecovery(w, code)
        PROVE  \E j \in Job : Turn(w, "recovery", j)
    <2>1. CASE code \in stored
      <3>1. PICK j : j = [k |-> "spend", code |-> code, rest |-> stored \ {code}]
        OBVIOUS
      <3>2. stored \ {code} \in SUBSET Codes
        BY DEF TypeOK
      <3>3. j \in Job /\ j.k = "spend" /\ j.code = code /\ j.rest = stored \ {code}
        BY <3>1, <3>2, JobIn
      <3>4. Do(w, j) /\ UNCHANGED tries
        BY <1>8, <2>1, <3>1 DEF CompareRecovery
      <3>5. Turn(w, "recovery", j)
        BY <2>1, <3>3, <3>4 DEF Turn
      <3> QED
        BY <3>3, <3>5
    <2>2. CASE code \notin stored
      <3>1. Do(w, [k |-> "fail", c |-> "recovery"]) /\ Tried("recovery")
        BY <1>8, <2>2 DEF CompareRecovery
      <3> QED
        BY <1>1, <1>3, <3>1
    <2> QED
      BY <2>1, <2>2
  <1>9. ASSUME NEW c \in Counters, NEW r \in BOOLEAN, Refuse(w, c, r)
        PROVE  \E j \in Job : Turn(w, c, j) /\ j.k # "fail"
    <2>1. PICK j : j = [k |-> "refused", c |-> c, recovery |-> r]
      OBVIOUS
    <2>2. j \in Job /\ j.k = "refused"
      BY <2>1, JobIn
    <2>3. Do(w, j) /\ UNCHANGED tries
      BY <1>9, <2>1 DEF Refuse
    <2> QED
      BY <1>2, <2>2, <2>3
  <1> QED
    BY <1>5, <1>6, <1>7, <1>8, <1>9

LEMMA AnswerSteps ==
    ASSUME TypeOK, NEW w \in Workers, Answers(w)
    PROVE  /\ UNCHANGED <<stored, issued, accepted>>
           /\ job[w].k \in {"idle", "recover", "purge"}
           /\ \E c \in Counters, j \in Job : Lapsed(w, c, j) \/ Answered(w, c, j) \/ Purged(w, c, j)
  <1> DEFINE Goal == \E c \in Counters, j \in Job : Lapsed(w, c, j) \/ Answered(w, c, j) \/ Purged(w, c, j)
  <1>1. "tfa" \in Counters /\ "recovery" \in Counters
    BY DEF Counters
  <1>2. UNCHANGED <<stored, issued, accepted>> /\ job[w].k \in {"idle", "recover", "purge"}
    BY JobIn DEF Answers, EnterCode, EnterTotp, EnterRecovery, Recover, Purge
  <1>3. ASSUME NEW c \in Counters, NEW m, [k |-> "purge", c |-> c, m |-> m] \in Job,
               FindLapsed(w, c, m), job[w].k # "purge", UNCHANGED <<count, old>>
        PROVE  Goal
    <2>1. PICK j : j = [k |-> "purge", c |-> c, m |-> m]
      OBVIOUS
    <2>2. j \in Job /\ j.k = "purge" /\ j.c = c
      BY <1>3, <2>1
    <2>3. old[c] /\ Do(w, j) /\ UNCHANGED tries
      BY <1>3, <2>1 DEF FindLapsed
    <2>4. Lapsed(w, c, j)
      BY <1>3, <2>2, <2>3 DEF Lapsed
    <2> QED
      BY <2>2, <2>4
  <1>4. ASSUME NEW c \in Counters, job[w].k # "purge", UNCHANGED <<count, old>>,
               NEW j \in Job, Turn(w, c, j), Open(c) \/ j.k # "fail"
        PROVE  Goal
    BY <1>4 DEF Answered
  <1>5. ASSUME NEW c \in Counters, job[w].k = "purge", job[w].c = c, Drops(c),
               NEW j \in Job, Turn(w, c, j)
        PROVE  Goal
    BY <1>5 DEF Purged
  <1>6. ASSUME NEW right \in BOOLEAN, EnterCode(w, right) \/ EnterTotp(w, right)
        PROVE  Goal
    <2>1. job[w].k # "purge" /\ UNCHANGED <<count, old>>
      BY <1>6, JobIn DEF EnterCode, EnterTotp
    <2>2. CASE Refuse(w, "tfa", FALSE)
      BY <1>1, <1>4, <2>1, <2>2, Compares
    <2>3. CASE FindLapsed(w, "tfa", "code") \/ FindLapsed(w, "tfa", "totp")
      BY <1>1, <1>3, <2>1, <2>3, JobIn
    <2>4. CASE Open("tfa") /\ (CompareCode(w, right) \/ CompareTotp(w, right))
      BY <1>1, <1>4, <2>1, <2>4, Compares
    <2> QED
      BY <1>6, <2>2, <2>3, <2>4 DEF EnterCode, EnterTotp
  <1>7. ASSUME EnterRecovery(w)
        PROVE  Goal
    <2>1. job[w].k # "purge" /\ UNCHANGED <<count, old>>
      BY <1>7, JobIn DEF EnterRecovery
    <2>2. CASE Refuse(w, "tfa", TRUE)
      BY <1>1, <1>4, <2>1, <2>2, Compares
    <2>3. CASE FindLapsed(w, "tfa", "recovery")
      BY <1>1, <1>3, <2>1, <2>3, JobIn
    <2>4. CASE Do(w, [k |-> "recover"]) /\ UNCHANGED tries
      BY <1>1, <1>4, <2>1, <2>4, Compares
    <2> QED
      BY <1>7, <2>2, <2>3, <2>4 DEF EnterRecovery
  <1>8. ASSUME NEW code \in Codes, Recover(w, code)
        PROVE  Goal
    <2>1. job[w].k # "purge" /\ UNCHANGED <<count, old>>
      BY <1>8 DEF Recover
    <2>2. CASE Refuse(w, "recovery", TRUE)
      BY <1>1, <1>4, <2>1, <2>2, Compares
    <2>3. CASE FindLapsed(w, "recovery", "recovery")
      BY <1>1, <1>3, <2>1, <2>3, JobIn
    <2>4. CASE Open("recovery") /\ CompareRecovery(w, code)
      BY <1>1, <1>4, <2>1, <2>4, Compares
    <2> QED
      BY <1>8, <2>2, <2>3, <2>4 DEF Recover
  <1>9. ASSUME NEW right \in BOOLEAN, NEW code \in Codes, Purge(w, right, code)
        PROVE  Goal
    <2>1. PICK c, m : c = job[w].c /\ m = job[w].m
      OBVIOUS
    <2>2. /\ job[w].k = "purge" /\ job[w].c = c /\ c \in Counters
          /\ m # "recovery" => c = "tfa"
      BY <1>9, <2>1, JobKind DEF Purge, TypeOK
    <2>3. Drops(c)
      BY <1>9, <2>1 DEF Purge, Drops
    <2>4. CASE m # "recovery" /\ (CompareCode(w, right) \/ CompareTotp(w, right))
      BY <1>5, <2>2, <2>3, <2>4, Compares
    <2>5. CASE c = "tfa" /\ Do(w, [k |-> "recover"]) /\ UNCHANGED tries
      BY <1>5, <2>2, <2>3, <2>5, Compares
    <2>6. CASE c = "recovery" /\ CompareRecovery(w, code)
      BY <1>5, <2>2, <2>3, <2>6, Compares
    <2> QED
      BY <1>9, <2>1, <2>4, <2>5, <2>6 DEF Purge
  <1> HIDE DEF Goal
  <1>10. Goal
    BY <1>6, <1>7, <1>8, <1>9 DEF Answers
  <1> QED
    BY <1>2, <1>10 DEF Goal

LEMMA TypeAnswers ==
    ASSUME TypeOK, NEW w \in Workers, Answers(w)
    PROVE  TypeOK'
  <1>1. PICK c \in Counters, j \in Job : Lapsed(w, c, j) \/ Answered(w, c, j) \/ Purged(w, c, j)
    BY AnswerSteps
  <1>2. UNCHANGED <<stored, issued, accepted>>
    BY AnswerSteps
  <1>3. job' \in [Workers -> Job]
    BY <1>1, JobsType DEF Lapsed, Answered, Purged, Turn
  <1>4. Drops(c) \/ UNCHANGED <<count, old>>
    BY <1>1 DEF Lapsed, Answered, Purged
  <1>5. Tried(c) \/ UNCHANGED tries
    BY <1>1 DEF Lapsed, Answered, Purged, Turn
  <1>6. /\ count' \in [Counters -> Nat] /\ old' \in [Counters -> BOOLEAN]
        /\ \A d \in Counters : count'[d] <= Cap(d)
    BY <1>4, CountersType DEF TypeOK
  <1>7. /\ tries' \in [Counters -> Nat]
        /\ \A d \in Counters : tries'[d] <= Cap(d)
    BY <1>5, CountersType DEF TypeOK
  <1> QED
    BY <1>2, <1>3, <1>6, <1>7 DEF TypeOK

\* The rest of a request, after its code was compared.
Ends(w) == Refused(w) \/ ReadCount(w) \/ WriteCount(w) \/ SpendCode(w) \/ Login(w)

LEMMA Steps ==
    Next => \/ \E w \in Workers : Answers(w) \/ Ends(w)
            \/ \E w \in Workers, S \in SUBSET Codes : RegenerateCodes(w, S)
            \/ \E c \in Counters : Lapse(c)
  BY DEF Next, Handle, Answers, Ends

LEMMA TypeEnds ==
    ASSUME TypeOK, Loaded, NEW w \in Workers, Ends(w)
    PROVE  TypeOK'
  <1>1. CASE Refused(w)
    BY <1>1, JobIn, JobsType DEF Refused, TypeOK
  <1>2. CASE ReadCount(w)
    <2>1. job[w].c \in Counters /\ count[job[w].c] \in Nat /\ count[job[w].c] <= Cap(job[w].c)
      BY <1>2, JobKind DEF ReadCount, TypeOK
    <2>2. job' \in [Workers -> Job]
      BY <1>2, <2>1, JobIn, JobsType DEF ReadCount
    <2> QED
      BY <1>2, <2>2 DEF ReadCount, TypeOK
  <1>3. CASE WriteCount(w)
    <2>1. PICK c, s : c = job[w].c /\ s = job[w].seen
      OBVIOUS
    <2>2. c \in Counters /\ s \in Nat
      BY <1>3, <2>1, JobKind, Limits DEF WriteCount, TypeOK
    <2>3. UpTo(s + 1, c) \in Nat /\ UpTo(s + 1, c) <= Cap(c)
      BY <2>2, CountersType
    <2>4. \/ count' = [count EXCEPT ![c] = UpTo(s + 1, c)] /\ old' = [old EXCEPT ![c] = FALSE]
          \/ UNCHANGED <<count, old>>
      BY <1>3, <2>1 DEF WriteCount
    <2>5. /\ count' \in [Counters -> Nat] /\ old' \in [Counters -> BOOLEAN]
          /\ \A d \in Counters : count'[d] <= Cap(d)
      BY <2>2, <2>3, <2>4 DEF TypeOK
    <2>6. job' \in [Workers -> Job]
      BY <1>3, JobIn, JobsType DEF WriteCount
    <2> QED
      BY <1>3, <2>5, <2>6 DEF WriteCount, TypeOK
  <1>4. CASE SpendCode(w)
    <2>1. PICK c, R : c = job[w].code /\ R = job[w].rest
      OBVIOUS
    <2>2. c \in issued /\ R \subseteq issued /\ c \in Codes
      BY <1>4, <2>1 DEF SpendCode, Spends, Loaded, TypeOK
    <2>3. accepted' = [accepted EXCEPT ![c] = IF accepted[c] <= Most THEN accepted[c] + 1 ELSE accepted[c]]
      BY <1>4, <2>1 DEF SpendCode, Accept
    <2>4. accepted' \in [Codes -> 0 .. Most + 1]
      BY <2>2, <2>3, MostNat DEF TypeOK
    <2>5. job' \in [Workers -> Job] /\ stored' = R /\ UNCHANGED <<count, old, issued, tries>>
      BY <1>4, <2>1, JobIn, JobsType DEF SpendCode
    <2> QED
      BY <2>2, <2>4, <2>5 DEF TypeOK
  <1>5. CASE Login(w)
    <2>1. count' \in [Counters -> Nat] /\ old' \in [Counters -> BOOLEAN] /\ tries' \in [Counters -> Nat]
      BY <1>5 DEF Login, TypeOK
    <2>2. \A c \in Counters : count'[c] <= Cap(c) /\ tries'[c] <= Cap(c)
      BY <1>5, Limits DEF Login, TypeOK
    <2> QED
      BY <1>5, <2>1, <2>2, JobIn, JobsType DEF Login, TypeOK
  <1> QED
    BY <1>1, <1>2, <1>3, <1>4, <1>5 DEF Ends

LEMMA TypeRegenerate ==
    ASSUME TypeOK, NEW w \in Workers, NEW S \in SUBSET Codes, RegenerateCodes(w, S)
    PROVE  TypeOK'
  BY DEF RegenerateCodes, TypeOK

LEMMA TypeLapse ==
    ASSUME TypeOK, NEW d \in Counters, Lapse(d)
    PROVE  TypeOK'
  <1>1. /\ old' = [old EXCEPT ![d] = TRUE] /\ tries' = [tries EXCEPT ![d] = 0]
        /\ UNCHANGED <<count, stored, issued, job, accepted>>
    BY DEF Lapse
  <1>2. tries' \in [Counters -> Nat] /\ \A c \in Counters : tries'[c] <= Cap(c)
    BY <1>1, Limits DEF TypeOK
  <1> QED
    BY <1>1, <1>2 DEF TypeOK

\* What a step does to the work that is under way: a worker takes up the job
\* j, and only these take up a code or add to its logins.
Takes(w, j) ==
    /\ job' = [job EXCEPT ![w] = j]
    /\ IF job[w].k = "spend"
         THEN /\ j.k = "login" /\ stored' = job[w].rest /\ issued' = issued
              /\ accepted' = [accepted EXCEPT ![job[w].code] =
                                IF @ <= Most THEN @ + 1 ELSE @]
         ELSE /\ UNCHANGED <<issued, stored, accepted>>
              /\ j.k = "spend" => j.code \in stored /\ j.rest = stored \ {j.code}

Renews(S) == /\ S \in SUBSET Codes /\ S \cap issued = {}
             /\ stored' = S /\ issued' = issued \cup S
             /\ UNCHANGED <<job, accepted>>

LEMMA CodeSteps ==
    ASSUME TypeOK, [Next]_vars
    PROVE  \/ \E w \in Workers, j \in Job : Takes(w, j)
           \/ \E S \in SUBSET Codes : Renews(S)
           \/ UNCHANGED <<job, issued, stored, accepted>>
  <1> DEFINE Goal == \/ \E w \in Workers, j \in Job : Takes(w, j)
                     \/ \E S \in SUBSET Codes : Renews(S)
                     \/ UNCHANGED <<job, issued, stored, accepted>>
  <1> SUFFICES Goal
    OBVIOUS
  <1>1. ASSUME NEW w \in Workers, Answers(w)
        PROVE  Goal
    <2>1. PICK c \in Counters, j \in Job : Lapsed(w, c, j) \/ Answered(w, c, j) \/ Purged(w, c, j)
      BY <1>1, AnswerSteps
    <2>2. UNCHANGED <<stored, issued, accepted>> /\ job[w].k # "spend"
      BY <1>1, AnswerSteps
    <2>3. job' = [job EXCEPT ![w] = j] /\ (j.k = "spend" => j.code \in stored /\ j.rest = stored \ {j.code})
      BY <2>1 DEF Lapsed, Answered, Purged, Turn, Do
    <2> QED
      BY <2>2, <2>3 DEF Takes
  <1>2. ASSUME NEW w \in Workers, Ends(w)
        PROVE  Goal
    <2>1. CASE SpendCode(w)
      <3> DEFINE j == [k |-> "login"]
      <3>1. j \in Job /\ job[w].k = "spend"
        BY <2>1, JobIn DEF SpendCode
      <3>2. Takes(w, j)
        BY <2>1, <3>1 DEF SpendCode, Accept, Do, Takes
      <3> QED
        BY <3>1, <3>2
    <2>2. CASE Refused(w) \/ WriteCount(w) \/ Login(w)
      <3>1. job[w].k # "spend" /\ job' = [job EXCEPT ![w] = Idle] /\ UNCHANGED <<stored, issued, accepted>>
        BY <2>2 DEF Refused, WriteCount, Login, Do
      <3>2. Takes(w, Idle)
        BY <3>1, JobIn DEF Takes
      <3> QED
        BY <3>2, JobIn
    <2>3. CASE ReadCount(w)
      <3> DEFINE j == [k |-> "write", c |-> job[w].c, seen |-> count[job[w].c]]
      <3>1. job[w].k = "fail" /\ job' = [job EXCEPT ![w] = j] /\ UNCHANGED <<stored, issued, accepted>>
        BY <2>3 DEF ReadCount, Do
      <3>2. job[w].c \in Counters /\ count[job[w].c] \in Nat /\ count[job[w].c] <= Cap(job[w].c)
        BY <3>1, JobKind DEF TypeOK
      <3>3. j \in Job /\ j.k # "spend"
        BY <3>2, JobIn
      <3> HIDE DEF j
      <3>4. Takes(w, j)
        BY <3>1, <3>3 DEF Takes
      <3> QED
        BY <3>3, <3>4
    <2> QED
      BY <1>2, <2>1, <2>2, <2>3 DEF Ends
  <1>3. ASSUME NEW w \in Workers, NEW S \in SUBSET Codes, RegenerateCodes(w, S)
        PROVE  Goal
    BY <1>3 DEF RegenerateCodes, Renews
  <1>4. ASSUME NEW c \in Counters, Lapse(c)
        PROVE  Goal
    BY <1>4 DEF Lapse
  <1>5. CASE UNCHANGED vars
    BY <1>5 DEF vars
  <1> HIDE DEF Goal
  <1> QED
    BY <1>1, <1>2, <1>3, <1>4, <1>5, Steps

LEMMA LoadedStep ==
    ASSUME TypeOK, Loaded, [Next]_vars
    PROVE  Loaded'
  <1>1. ASSUME NEW w \in Workers, NEW j \in Job, Takes(w, j)
        PROVE  Loaded'
    <2>1. issued' = issued /\ \A v \in Workers : job'[v] = IF v = w THEN j ELSE job[v]
      BY <1>1 DEF Takes, TypeOK
    <2>2. j.k = "spend" => j.code \in issued \ j.rest /\ j.rest \subseteq issued
      BY <1>1 DEF Takes, TypeOK
    <2>3. \A c \in Codes : c \notin issued => accepted'[c] = accepted[c]
      BY <1>1 DEF Takes, Loaded, Spends, TypeOK
    <2> QED
      BY <2>1, <2>2, <2>3 DEF Loaded, Spends
  <1>2. ASSUME NEW S \in SUBSET Codes, Renews(S)
        PROVE  Loaded'
    BY <1>2 DEF Renews, Loaded, Spends
  <1>3. CASE UNCHANGED <<job, issued, stored, accepted>>
    BY <1>3 DEF Loaded, Spends
  <1> QED
    BY <1>1, <1>2, <1>3, CodeSteps

LEMMA TypeStep == TypeInv /\ [Next]_vars => TypeInv'
  <1> SUFFICES ASSUME TypeOK, Loaded, [Next]_vars PROVE TypeOK' /\ Loaded'
    BY DEF TypeInv
  <1>1. CASE UNCHANGED vars
    BY <1>1, LoadedStep DEF vars, TypeOK
  <1>2. CASE Next
    BY <1>2, TypeAnswers, TypeEnds, TypeRegenerate, TypeLapse, LoadedStep, Steps
  <1> QED
    BY <1>1, <1>2

\* Every variable keeps its type, for any workers, codes and limits.
THEOREM TypeCorrect == Spec => []TypeOK
  <1>1. TypeInv => TypeOK
    BY DEF TypeInv
  <1> QED
    BY <1>1, TypeInit, TypeStep, PTL DEF Spec

-----------------------------------------------------------------------------
(***************************************************************************)
(* Recovery codes                                                          *)
(***************************************************************************)
\* The level of a list: how many codes it has lost, or the top if c is lost.
\* A worker stands on the list it is about to write, as it was read, or on the
\* one that is stored.
Level(R, c) == IF c \in R THEN Cardinality(Codes) - Cardinality(R) ELSE Cardinality(Codes)
Lists(c) == [w \in Workers |-> Level(IF Spends(w) THEN job[w].rest \cup {job[w].code}
                                                  ELSE stored, c)]

\* Every login with c so far is a ladder gone, or the one that is spare.
Few(c) == accepted[c] + Left(Workers, Lists(c), Cardinality(Codes), Cardinality(Workers) - 1)
            + Spare(Workers, Lists(c), Cardinality(Codes)) <= Most
FewInv == /\ TypeInv
          /\ \A c \in Codes : /\ Workers # {} => Few(c)
                              /\ Workers = {} => accepted[c] = 0

LEMMA ListSize ==
    ASSUME NEW S \in SUBSET Codes
    PROVE  /\ Cardinality(S) \in Nat /\ Cardinality(S) <= Cardinality(Codes)
           /\ \A e \in S : Cardinality(S) >= 1 /\ Cardinality(S \ {e}) = Cardinality(S) - 1
  <1>1. IsFiniteSet(S) /\ Cardinality(S) \in Nat /\ Cardinality(S) <= Cardinality(Codes)
    BY LimitsAssumption, FS_Subset, FS_CardinalityType
  <1>2. ASSUME NEW e \in S
        PROVE  Cardinality(S) >= 1 /\ Cardinality(S \ {e}) = Cardinality(S) - 1
    <2>1. IsFiniteSet(S \ {e}) /\ Cardinality(S \ {e}) = Cardinality(S) - 1
      BY <1>1, FS_RemoveElement
    <2>2. Cardinality(S \ {e}) \in Nat
      BY <2>1, FS_CardinalityType
    <2> QED
      BY <1>1, <2>1, <2>2
  <1> QED
    BY <1>1, <1>2

LEMMA LevelType ==
    ASSUME NEW R \in SUBSET Codes, NEW c
    PROVE  /\ Level(R, c) \in Nat
           /\ Level(R, c) < Cardinality(Codes) <=> c \in R
           /\ c \notin R => Level(R, c) = Cardinality(Codes)
           /\ c \in R => Level(R, c) = Cardinality(Codes) - Cardinality(R)
           /\ Level(R, c) <= Cardinality(Codes)
  <1>1. Cardinality(Codes) \in Nat /\ Cardinality(R) \in Nat /\ Cardinality(R) <= Cardinality(Codes)
    BY ListSize, MostNat
  <1>2. c \in R => Cardinality(R) >= 1
    BY ListSize
  <1> QED
    BY <1>1, <1>2 DEF Level

LEMMA ListsType ==
    ASSUME TypeInv, NEW c
    PROVE  Lists(c) \in [Workers -> Nat]
  <1>1. \A w \in Workers : Spends(w) => job[w].rest \cup {job[w].code} \in SUBSET Codes
    BY DEF TypeInv, TypeOK, Loaded
  <1>2. stored \in SUBSET Codes
    BY DEF TypeInv, TypeOK
  <1>3. \A w \in Workers : Level(IF Spends(w) THEN job[w].rest \cup {job[w].code}
                                              ELSE stored, c) \in Nat
    BY <1>1, <1>2, LevelType
  <1> QED
    BY <1>3 DEF Lists

LEMMA ListsNext ==
    ASSUME TypeInv', NEW c
    PROVE  Lists(c)' \in [Workers -> Nat]
  <1>1. \A w \in Workers : Spends(w)' => job'[w].rest \cup {job'[w].code} \in SUBSET Codes
    BY DEF TypeInv, TypeOK, Loaded
  <1>2. stored' \in SUBSET Codes
    BY DEF TypeInv, TypeOK
  <1>3. \A w \in Workers : Level(IF Spends(w)' THEN job'[w].rest \cup {job'[w].code}
                                               ELSE stored', c) \in Nat
    BY <1>1, <1>2, LevelType
  <1> QED
    BY <1>3 DEF Lists, Level

LEMMA AllButOne ==
    ASSUME Workers # {}
    PROVE  Cardinality(Workers) - 1 \in Nat
  <1>1. Cardinality(Workers) \in Nat /\ Cardinality(Workers) # 0
    BY WorkersFinite, FS_CardinalityType, FS_EmptySet
  <1> QED
    BY <1>1

\* A code that nobody has used.
LEMMA FewUnused ==
    ASSUME Workers # {}, NEW f \in [Workers -> Nat]
    PROVE  Left(Workers, f, Cardinality(Codes), Cardinality(Workers) - 1)
             + Spare(Workers, f, Cardinality(Codes)) <= Most
  <1> DEFINE F == Left(Workers, f, Cardinality(Codes), Cardinality(Workers) - 1)
  <1>1. F \in Nat /\ F < Most /\ Most \in Nat
    BY WorkersFinite, AllButOne, MostNat, LeftFacts DEF Most
  <1>2. Spare(Workers, f, Cardinality(Codes)) \in {0, 1}
    BY DEF Spare
  <1> HIDE DEF F
  <1>3. F + Spare(Workers, f, Cardinality(Codes)) <= Most
    BY <1>1, <1>2
  <1> QED
    BY <1>3 DEF F

LEMMA FewInit == Init => FewInv
  <1> SUFFICES ASSUME Init PROVE FewInv
    OBVIOUS
  <1>1. TypeInv
    BY TypeInit
  <1>2. ASSUME NEW c \in Codes
        PROVE  accepted[c] = 0 /\ (Workers # {} => Few(c))
    <2>1. accepted[c] = 0 /\ Lists(c) \in [Workers -> Nat]
      BY <1>1, ListsType DEF Init
    <2>2. ASSUME Workers # {} PROVE Few(c)
      <3> DEFINE F == Left(Workers, Lists(c), Cardinality(Codes), Cardinality(Workers) - 1)
      <3>1. F + Spare(Workers, Lists(c), Cardinality(Codes)) <= Most
        BY <2>1, <2>2, FewUnused
      <3>2. F \in Nat
        BY WorkersFinite, <2>1, <2>2, AllButOne, MostNat, LeftFacts
      <3> HIDE DEF F
      <3>3. 0 + F + Spare(Workers, Lists(c), Cardinality(Codes)) <= Most
        BY <3>1, <3>2
      <3> QED
        BY <2>1, <3>3 DEF Few, F
    <2> QED
      BY <2>1, <2>2
  <1> QED
    BY <1>1, <1>2 DEF FewInv

\* A worker takes up a code, or another job, and stays on its list.
LEMMA FewTakes ==
    ASSUME TypeInv, NEW w \in Workers, NEW j \in Job, Takes(w, j), job[w].k # "spend",
           NEW c \in Codes
    PROVE  accepted'[c] = accepted[c] /\ Lists(c)' = Lists(c)
  <1>1. /\ \A v \in Workers : job'[v] = IF v = w THEN j ELSE job[v]
        /\ UNCHANGED <<stored, accepted>>
        /\ j.k = "spend" => j.code \in stored /\ j.rest = stored \ {j.code}
    BY DEF Takes, TypeInv, TypeOK
  <1>2. j.k = "spend" => j.rest \cup {j.code} = stored
    BY <1>1
  <1>3. /\ ~Spends(w)
        /\ \A v \in Workers : Spends(v)' <=> IF v = w THEN j.k = "spend" ELSE Spends(v)
    BY <1>1 DEF Spends
  <1>4. \A v \in Workers : (IF Spends(v)' THEN job'[v].rest \cup {job'[v].code} ELSE stored')
                           = (IF Spends(v) THEN job[v].rest \cup {job[v].code} ELSE stored)
    BY <1>1, <1>2, <1>3
  <1> QED
    BY <1>1, <1>4 DEF Lists, Level

\* A worker writes its list back, without the code.
LEMMA FewWrites ==
    ASSUME TypeInv, TypeInv', NEW w \in Workers, NEW j \in Job, Takes(w, j), job[w].k = "spend",
           NEW c \in Codes, Few(c)
    PROVE  Few(c)'
  <1>1. TypeOK /\ Loaded /\ TypeOK'
    BY DEF TypeInv
  <1>2. PICK e, R, S : e = job[w].code /\ R = job[w].rest /\ S = R \cup {e}
    OBVIOUS
  <1>3. /\ \A v \in Workers : job'[v] = IF v = w THEN j ELSE job[v]
        /\ j.k = "login" /\ stored' = R
        /\ accepted' = [accepted EXCEPT ![e] = IF accepted[e] <= Most THEN accepted[e] + 1
                                                                      ELSE accepted[e]]
    BY <1>1, <1>2 DEF Takes, TypeOK
  <1>4. e \in Codes \ R /\ R \in SUBSET Codes /\ S \in SUBSET Codes /\ stored \in SUBSET Codes
    BY <1>1, <1>2 DEF Loaded, Spends, TypeOK
  <1>5. PICK L, K, a, b, m, n, o, f, g, X :
           /\ L = Cardinality(Codes) /\ K = Cardinality(Workers) - 1
           /\ a = Level(stored, c) /\ b = Level(R, c) /\ m = (IF e = c THEN 1 ELSE 0)
           /\ n = accepted[c] /\ o = accepted'[c]
           /\ f = Lists(c) /\ g = Lists(c)'
           /\ X = {v \in Workers : v # w /\ ~Spends(v)}
    OBVIOUS
  <1>6. /\ L \in Nat /\ K \in Nat /\ a \in Nat /\ b \in Nat /\ m \in {0, 1}
        /\ f \in [Workers -> Nat] /\ g \in [Workers -> Nat] /\ X \in SUBSET (Workers \ {w})
    BY <1>4, <1>5, AllButOne, MostNat, LevelType, ListsType, ListsNext
  <1>7. \A v \in Workers : Spends(v)' <=> v # w /\ Spends(v)
    BY <1>3 DEF Spends
  <1>8. f[w] = Level(S, c)
    BY <1>2, <1>5 DEF Lists, Spends
  <1>9. \A v \in X : f[v] = a
    BY <1>5 DEF Lists
  <1>10. /\ g[w] = b
         /\ \A v \in X : g[v] = b
    BY <1>3, <1>5, <1>7 DEF Lists, Level
  <1>11. \A v \in Workers \ (X \cup {w}) : g[v] = f[v]
    BY <1>3, <1>5, <1>7 DEF Lists, Level
  <1>12. \/ f[w] < L /\ m = 1 /\ b >= L
         \/ f[w] < L /\ m = 0 /\ b < L /\ b = f[w] + 1
         \/ f[w] >= L /\ m = 0 /\ b >= L
    <2>1. Cardinality(R) = Cardinality(S) - 1 /\ Cardinality(S) \in Nat /\ Cardinality(R) \in Nat
      <3>1. R = S \ {e} /\ e \in S
        BY <1>2, <1>4
      <3> QED
        BY <1>4, <3>1, ListSize
    <2>2. (f[w] < L <=> c \in S) /\ (c \in S => f[w] = L - Cardinality(S)) /\ f[w] <= L
      BY <1>4, <1>5, <1>8, LevelType
    <2>3. (b < L <=> c \in R) /\ (c \notin R => b = L) /\ (c \in R => b = L - Cardinality(R))
      BY <1>4, <1>5, LevelType
    <2>4. c \in S <=> c \in R \/ c = e
      BY <1>2
    <2> QED
      BY <1>4, <1>5, <1>6, <2>1, <2>2, <2>3, <2>4
  <1>13. Left(Workers, g, L, K) + Spare(Workers, g, L) + m
           <= Left(Workers, f, L, K) + Spare(Workers, f, L)
    <2>1. K = Cardinality(Workers) - 1
      BY <1>5
    <2>2. Carries(f, g, w, X, a, b, m, L)
      BY <1>9, <1>10, <1>11, <1>12 DEF Carries
    <2> QED
      BY <1>6, <2>1, <2>2, SpendClimbs
  <1>14. n \in Nat /\ o \in Nat /\ o <= n + m
    BY <1>1, <1>3, <1>4, <1>5, MostNat DEF TypeOK
  <1>15. n + Left(Workers, f, L, K) + Spare(Workers, f, L) <= Most
    BY <1>5 DEF Few
  <1>16. o + Left(Workers, g, L, K) + Spare(Workers, g, L) <= Most
    <2>1. Left(Workers, g, L, K) \in Nat /\ Left(Workers, f, L, K) \in Nat
      BY WorkersFinite, <1>6, LeftFacts
    <2>2. Spare(Workers, g, L) \in Nat /\ Spare(Workers, f, L) \in Nat
      BY DEF Spare
    <2> QED
      BY <1>6, <1>13, <1>14, <1>15, <2>1, <2>2, MostNat
  <1>17. Few(c)' = (o + Left(Workers, g, L, K) + Spare(Workers, g, L) <= Most)
    BY <1>5 DEF Few, Most
  <1> QED
    BY <1>16, <1>17

\* A fresh set replaces the stored list: its codes were not used before, and
\* for every other code nobody goes down.
LEMMA FewRenews ==
    ASSUME TypeInv, TypeInv', NEW S \in SUBSET Codes, Renews(S),
           Workers # {}, NEW c \in Codes, Few(c)
    PROVE  Few(c)'
  <1>1. stored' = S /\ UNCHANGED <<job, accepted>> /\ S \cap issued = {}
    BY DEF Renews
  <1>2. PICK L, K, n, f, g : /\ L = Cardinality(Codes) /\ K = Cardinality(Workers) - 1
                             /\ n = accepted[c] /\ f = Lists(c) /\ g = Lists(c)'
    OBVIOUS
  <1>3. /\ L \in Nat /\ K \in Nat /\ n \in Nat /\ (c \in S => n = 0)
        /\ f \in [Workers -> Nat] /\ g \in [Workers -> Nat]
    BY <1>1, <1>2, AllButOne, MostNat, ListsType, ListsNext DEF TypeInv, TypeOK, Loaded
  <1>4. n + Left(Workers, g, L, K) + Spare(Workers, g, L) <= Most
    <2>1. Left(Workers, g, L, K) \in Nat /\ Left(Workers, f, L, K) \in Nat
      BY WorkersFinite, <1>3, LeftFacts
    <2>2. Spare(Workers, g, L) \in {0, 1} /\ Spare(Workers, f, L) \in {0, 1}
      BY DEF Spare
    <2>3. CASE c \in S
      BY <1>2, <1>3, <2>1, <2>2, <2>3, FewUnused, MostNat
    <2>4. CASE c \notin S
      <3>1. \A w \in Workers : g[w] = f[w] \/ g[w] = L
        BY <1>1, <1>2, <2>4 DEF Lists, Level, Spends
      <3>2. \A x \in 0 .. L - 1 : Below(Workers, g, x) \in SUBSET Below(Workers, f, x)
        BY <1>3, <3>1 DEF Below
      <3>3. Left(Workers, g, L, K) <= Left(Workers, f, L, K)
        BY WorkersFinite, <1>3, <3>2, Rise
      <3>4. Spare(Workers, g, L) <= Spare(Workers, f, L)
        BY <1>3, <3>1 DEF Spare
      <3>5. n + Left(Workers, f, L, K) + Spare(Workers, f, L) <= Most
        BY <1>2 DEF Few
      <3> QED
        BY <1>3, <2>1, <2>2, <3>3, <3>4, <3>5, MostNat
    <2> QED
      BY <2>3, <2>4
  <1>5. Few(c)' = (n + Left(Workers, g, L, K) + Spare(Workers, g, L) <= Most)
    BY <1>1, <1>2 DEF Few, Most
  <1> QED
    BY <1>4, <1>5

LEMMA FewStep == FewInv /\ [Next]_vars => FewInv'
  <1> SUFFICES ASSUME FewInv, [Next]_vars PROVE FewInv'
    OBVIOUS
  <1>1. TypeInv /\ TypeInv' /\ TypeOK
    BY TypeStep DEF FewInv, TypeInv
  <1>2. SUFFICES ASSUME NEW c \in Codes
                 PROVE  /\ Workers # {} => Few(c)'
                        /\ Workers = {} => accepted'[c] = 0
    BY <1>1 DEF FewInv
  <1>3. /\ Workers # {} => Few(c)
        /\ Workers = {} => accepted[c] = 0
    BY DEF FewInv
  <1>4. ASSUME accepted'[c] = accepted[c], Lists(c)' = Lists(c), Workers # {}
        PROVE  Few(c)'
    BY <1>3, <1>4 DEF Few, Most
  <1>5. ASSUME NEW w \in Workers, NEW j \in Job, Takes(w, j)
        PROVE  Few(c)'
    BY <1>1, <1>3, <1>4, <1>5, FewTakes, FewWrites
  <1>6. ASSUME NEW S \in SUBSET Codes, Renews(S)
        PROVE  (Workers # {} => Few(c)') /\ (Workers = {} => accepted'[c] = 0)
    <2>1. accepted'[c] = accepted[c]
      BY <1>6 DEF Renews
    <2> QED
      BY <1>1, <1>3, <1>6, <2>1, FewRenews
  <1>7. ASSUME UNCHANGED <<job, issued, stored, accepted>>
        PROVE  (Workers # {} => Few(c)') /\ (Workers = {} => accepted'[c] = 0)
    <2>1. accepted'[c] = accepted[c] /\ Lists(c)' = Lists(c)
      BY <1>7 DEF Lists, Level, Spends
    <2> QED
      BY <1>3, <1>4, <2>1
  <1> QED
    BY <1>1, <1>5, <1>6, <1>7, CodeSteps

\* Workers may accept a code more than once, because one of them writes back a
\* list in which it is still there, but each time at the price of another
\* code: it logs in at most once for each of the ladders on which all workers
\* but one can stand, with a level for each code (verify_recovery_code).  This
\* is for any number of workers.
THEOREM CodesAreAcceptedByFew == Spec => []CodeAcceptedFew
  <1>1. FewInv => CodeAcceptedFew
    <2> SUFFICES ASSUME FewInv, NEW c \in Codes PROVE accepted[c] <= Most
      BY DEF CodeAcceptedFew
    <2>1. TypeInv /\ Most \in Nat /\ accepted[c] \in Nat
      BY MostNat DEF FewInv, TypeInv, TypeOK
    <2>2. CASE Workers # {}
      <3> DEFINE F == Left(Workers, Lists(c), Cardinality(Codes), Cardinality(Workers) - 1)
      <3>1. F \in Nat
        BY WorkersFinite, <2>1, <2>2, AllButOne, MostNat, ListsType, LeftFacts
      <3>2. Spare(Workers, Lists(c), Cardinality(Codes)) \in Nat
        BY DEF Spare
      <3>3. accepted[c] + F + Spare(Workers, Lists(c), Cardinality(Codes)) <= Most
        BY <2>2 DEF FewInv, Few
      <3> HIDE DEF F
      <3> QED
        BY <2>1, <3>1, <3>2, <3>3
    <2>3. CASE Workers = {}
      BY <2>1, <2>3 DEF FewInv
    <2> QED
      BY <2>2, <2>3
  <1> QED
    BY <1>1, FewInit, FewStep, PTL DEF Spec

-----------------------------------------------------------------------------
(***************************************************************************)
(* Wrong codes                                                             *)
(***************************************************************************)
\* Whether a worker is about to add a failure to the counter c or to delete
\* it, who is not, and the level each of these stands on: the value it has
\* read, or would read now.
Counts(w, c) == job[w].k \in {"fail", "write"} /\ job[w].c = c
Purges(w, c) == job[w].k = "purge" /\ job[w].c = c
Sees(w, c) == IF job[w].k = "write" /\ job[w].c = c THEN job[w].seen ELSE count[c]

Active(c) == {w \in Workers : ~Purges(w, c)}
Counting(c) == {w \in Workers : Counts(w, c)}
Levels(c) == [w \in Active(c) |-> Sees(w, c)]

\* The failures since the row of c was last deleted are n, counted by the
\* ladders of the active workers that are gone; those before it are no more
\* than the steps of the earlier stages, which had fewer active workers.
Room(L, K) == Cardinality(Ladders(L, K)) - 1
Budget(L, K, t, n) == t + Room(L, K) <= n + Changes(L, K)
Staged(c) ==
    \E n \in Nat : /\ Kept(Active(c), Levels(c), Counting(c), Limit(c), n, count[c])
                   /\ Budget(Limit(c), Cardinality(Active(c)), tries[c], n)

Accounted(c) == IF old[c] THEN tries[c] = 0 /\ \A w \in Workers : ~Counts(w, c)
                          ELSE Staged(c)

WrongInv == TypeInv /\ \A c \in Counters : Accounted(c)

LEMMA CounterType ==
    ASSUME TypeOK, NEW c \in Counters
    PROVE  /\ count[c] \in Nat /\ tries[c] \in Nat /\ old[c] \in BOOLEAN
           /\ Active(c) \in SUBSET Workers /\ IsFiniteSet(Active(c))
           /\ Cardinality(Active(c)) \in Nat
           /\ Levels(c) \in [Active(c) -> Nat] /\ Counting(c) \in SUBSET Active(c)
  <1>1. count[c] \in Nat /\ tries[c] \in Nat /\ old[c] \in BOOLEAN
    BY DEF TypeOK
  <1>2. \A w \in Workers : job[w].k = "write" => job[w].seen \in Nat
    BY JobKind, Limits DEF TypeOK
  <1>3. \A w \in Workers : Sees(w, c) \in Nat
    BY <1>1, <1>2 DEF Sees
  <1>4. Active(c) \in SUBSET Workers /\ Counting(c) \in SUBSET Active(c)
    BY DEF Active, Counting, Counts, Purges
  <1>5. IsFiniteSet(Active(c)) /\ Cardinality(Active(c)) \in Nat
    BY <1>4, WorkersFinite, FS_Subset, FS_CardinalityType
  <1> QED
    BY <1>1, <1>3, <1>4, <1>5 DEF Levels

LEMMA CounterNext ==
    ASSUME TypeOK', NEW c \in Counters
    PROVE  /\ count'[c] \in Nat /\ tries'[c] \in Nat /\ old'[c] \in BOOLEAN
           /\ Active(c)' \in SUBSET Workers /\ IsFiniteSet(Active(c)')
           /\ Cardinality(Active(c)') \in Nat
           /\ Levels(c)' \in [Active(c)' -> Nat] /\ Counting(c)' \in SUBSET (Active(c)')
  <1>1. count'[c] \in Nat /\ tries'[c] \in Nat /\ old'[c] \in BOOLEAN
    BY DEF TypeOK
  <1>2. \A w \in Workers : job'[w].k = "write" => job'[w].seen \in Nat
    BY JobKind, Limits DEF TypeOK
  <1>3. \A w \in Workers : Sees(w, c)' \in Nat
    BY <1>1, <1>2 DEF Sees
  <1>4. Active(c)' \in SUBSET Workers /\ Counting(c)' \in SUBSET (Active(c)')
    BY DEF Active, Counting, Counts, Purges
  <1>5. IsFiniteSet(Active(c)') /\ Cardinality(Active(c)') \in Nat
    BY <1>4, WorkersFinite, FS_Subset, FS_CardinalityType
  <1> QED
    BY <1>1, <1>3, <1>4, <1>5 DEF Levels

\* What a stage begins with: no failure, or one whose worker is due.
LEMMA BudgetStart ==
    ASSUME NEW L \in Nat, NEW K \in Nat, NEW n \in Nat
    PROVE  Budget(L, K, n, n) /\ Room(L, K) \in Nat /\ Changes(L, K) \in Nat
  <1>1. Room(L, K) <= Changes(L, K)
    BY StagesMore DEF Room
  <1>2. Room(L, K) \in Nat /\ Changes(L, K) \in Nat
    <2>1. Cardinality(Ladders(L, K)) \in Nat \ {0} /\ Changes(L, K) \in Nat
      BY LaddersSome, StagesFinite
    <2> QED
      BY <2>1 DEF Room
  <1> QED
    BY <1>1, <1>2 DEF Budget

\* One more worker is active, and the stage before cost no more than its steps.
LEMMA BudgetNext ==
    ASSUME NEW L \in Nat, NEW K \in Nat, NEW t \in Nat, NEW n \in Nat, NEW m \in Nat,
           n <= Room(L, K), Budget(L, K, t, n)
    PROVE  Budget(L, K + 1, t + m, m)
  <1>1. Changes(L, K + 1) = Changes(L, K) + Room(L, K + 1)
    <2>1. Changes(L, K + 1) = Changes(L, K) + Cardinality(Ladders(L, K + 1)) - 1
      BY StagesNext
    <2>2. Changes(L, K) \in Nat /\ Cardinality(Ladders(L, K + 1)) \in Nat
      BY StagesFinite, LaddersFinite, K + 1 \in Nat
    <2> QED
      BY <2>1, <2>2 DEF Room
  <1>2. Room(L, K) \in Nat /\ Room(L, K + 1) \in Nat /\ Changes(L, K) \in Nat
    BY BudgetStart, K + 1 \in Nat
  <1> QED
    BY <1>1, <1>2 DEF Budget

LEMMA WrongInit == Init => WrongInv
  <1> SUFFICES ASSUME Init PROVE WrongInv
    OBVIOUS
  <1>1. TypeInv /\ TypeOK
    BY TypeInit DEF TypeInv
  <1>2. ASSUME NEW c \in Counters PROVE Accounted(c)
    <2>1. tries[c] = 0 /\ ~old[c]
      BY DEF Init
    <2>2. Kept(Active(c), Levels(c), Counting(c), Limit(c), 0, count[c])
      BY <1>1, CounterType, Limits, KeptReset
    <2>3. Budget(Limit(c), Cardinality(Active(c)), 0, 0)
      BY <1>1, CounterType, Limits, BudgetStart
    <2> QED
      BY <2>1, <2>2, <2>3 DEF Accounted, Staged
  <1> QED
    BY <1>1, <1>2 DEF WrongInv

\* What a step does to the counter c: it leaves it alone, finds it lapsed,
\* clears it at a login, or a worker fails, deletes it, reads, writes or cannot
\* write, or it lapses.
Others(w) == \A v \in Workers : v # w => job'[v] = job[v]
Same(c) == count'[c] = count[c] /\ old'[c] = old[c] /\ tries'[c] = tries[c]

Passes(w, c) == /\ Others(w) /\ ~Counts(w, c) /\ ~Counts(w, c)'
                /\ (Purges(w, c)' <=> Purges(w, c))
                /\ Same(c)
Finds(w, c) == Others(w) /\ old[c] /\ ~Counts(w, c)' /\ Same(c)
Clears(w, c) == ~old'[c] /\ tries'[c] = 0
Fails(w, c) == /\ Others(w) /\ ~Counts(w, c) /\ ~Purges(w, c)
               /\ Counts(w, c)' /\ job'[w].k = "fail"
               /\ ~old[c] /\ ~old'[c] /\ count'[c] = count[c] /\ count[c] < Limit(c)
               /\ tries'[c] <= tries[c] + 1
Deletes(w, c) == /\ Others(w) /\ Purges(w, c) /\ ~Purges(w, c)'
                 /\ ~old'[c] /\ count'[c] = 0
                 /\ \/ ~Counts(w, c)' /\ tries'[c] = tries[c]
                    \/ Counts(w, c)' /\ job'[w].k = "fail" /\ tries'[c] <= tries[c] + 1
Reads(w, c) == /\ Others(w) /\ Counts(w, c) /\ job[w].k = "fail"
               /\ Counts(w, c)' /\ job'[w].k = "write" /\ job'[w].seen = count[c]
               /\ Same(c)
Writes(w, c) == /\ Others(w) /\ Counts(w, c) /\ job[w].k = "write"
                /\ ~Counts(w, c)' /\ ~Purges(w, c)'
                /\ ~old'[c] /\ count'[c] >= 1 /\ tries'[c] = tries[c]
                /\ Written(Limit(c), job[w].seen, count'[c])
Misses(w, c) == /\ Others(w) /\ Counts(w, c) /\ job[w].k = "write"
                /\ ~Counts(w, c)' /\ ~Purges(w, c)'
                /\ (job[w].seen = 0) # (count[c] = 0)
                /\ Same(c)
Ages(c) == /\ job' = job
           /\ \/ Same(c)
              \/ (\A w \in Workers : ~Counts(w, c)) /\ old'[c] /\ tries'[c] = 0

Affects(w, c) == \/ Passes(w, c) \/ Finds(w, c) \/ Clears(w, c) \/ Fails(w, c) \/ Deletes(w, c)
                 \/ Reads(w, c) \/ Writes(w, c) \/ Misses(w, c)

LEMMA TriedSteps ==
    ASSUME TypeOK, NEW c \in Counters, NEW d \in Counters, Tried(d)
    PROVE  /\ tries'[c] <= tries[c] + 1
           /\ c # d => tries'[c] = tries[c]
  <1>1. tries' = [tries EXCEPT ![d] = UpTo(tries[d] + 1, d)] /\ tries[c] \in Nat /\ tries[d] \in Nat
    BY DEF Tried, TypeOK
  <1>2. UpTo(tries[d] + 1, d) <= tries[d] + 1
    BY <1>1, Limits DEF UpTo
  <1> QED
    BY <1>1, <1>2 DEF TypeOK

\* What a worker that compares its code does to the counter c.
LEMMA TurnSteps ==
    ASSUME TypeOK, NEW w \in Workers, NEW c \in Counters, NEW d \in Counters, NEW j \in Job,
           Turn(w, d, j)
    PROVE  /\ Others(w) /\ ~Purges(w, c)' /\ tries'[c] <= tries[c] + 1
           /\ \/ Counts(w, c)' /\ job'[w].k = "fail" /\ c = d /\ j.k = "fail"
              \/ ~Counts(w, c)' /\ tries'[c] = tries[c]
  <1>1. Others(w) /\ job'[w] = j
    BY DEF Turn, Do, Others, TypeOK
  <1>2. tries[c] \in Nat
    BY DEF TypeOK
  <1>3. CASE j.k = "fail"
    <2>1. j.c = d /\ Tried(d)
      BY <1>3 DEF Turn
    <2>2. tries'[c] <= tries[c] + 1 /\ (c # d => tries'[c] = tries[c])
      BY <2>1, TriedSteps
    <2> QED
      BY <1>1, <1>3, <2>1, <2>2 DEF Counts, Purges
  <1>4. CASE j.k # "fail"
    <2>1. UNCHANGED tries /\ j.k \notin {"write", "purge"}
      BY <1>4 DEF Turn
    <2> QED
      BY <1>1, <1>2, <1>4, <2>1 DEF Counts, Purges
  <1> QED
    BY <1>3, <1>4

LEMMA AnswersAffect ==
    ASSUME TypeOK, NEW c \in Counters, NEW w \in Workers, Answers(w)
    PROVE  Affects(w, c)
  <1>1. job[w].k \in {"idle", "recover", "purge"} /\ ~Counts(w, c)
    BY AnswerSteps DEF Counts
  <1>2. PICK d \in Counters, j \in Job : Lapsed(w, d, j) \/ Answered(w, d, j) \/ Purged(w, d, j)
    BY AnswerSteps
  <1>3. CASE Lapsed(w, d, j)
    <2>1. /\ job[w].k # "purge" /\ old[d] /\ j.k = "purge" /\ j.c = d
          /\ UNCHANGED <<count, old, tries>>
      BY <1>3 DEF Lapsed
    <2>2. Others(w) /\ job'[w] = j
      BY <1>3 DEF Lapsed, Do, Others, TypeOK
    <2>3. Same(c) /\ ~Counts(w, c)' /\ (Purges(w, c)' <=> c = d) /\ ~Purges(w, c)
      BY <2>1, <2>2 DEF Same, Counts, Purges
    <2> QED
      BY <1>1, <2>1, <2>2, <2>3 DEF Affects, Finds, Passes
  <1>4. CASE Answered(w, d, j)
    <2>1. /\ job[w].k # "purge" /\ Turn(w, d, j) /\ (j.k = "fail" => Open(d))
          /\ count' = count /\ old' = old
      BY <1>4 DEF Answered
    <2>2. /\ Others(w) /\ ~Purges(w, c)' /\ tries'[c] <= tries[c] + 1
          /\ \/ Counts(w, c)' /\ job'[w].k = "fail" /\ c = d /\ j.k = "fail"
             \/ ~Counts(w, c)' /\ tries'[c] = tries[c]
      BY <2>1, TurnSteps
    <2>3. ~Purges(w, c)
      BY <2>1 DEF Purges
    <2>4. CASE ~Counts(w, c)' /\ tries'[c] = tries[c]
      BY <1>1, <2>1, <2>2, <2>3, <2>4 DEF Affects, Passes, Same
    <2>5. CASE Counts(w, c)' /\ job'[w].k = "fail" /\ c = d /\ j.k = "fail"
      <3>1. ~old[c] /\ count[c] < Limit(c)
        BY <2>1, <2>5, Limits DEF Open, Locked, TypeOK
      <3> QED
        BY <1>1, <2>1, <2>2, <2>3, <2>5, <3>1 DEF Affects, Fails
    <2> QED
      BY <2>2, <2>4, <2>5
  <1>5. CASE Purged(w, d, j)
    <2>1. job[w].k = "purge" /\ job[w].c = d /\ Drops(d) /\ Turn(w, d, j)
      BY <1>5 DEF Purged
    <2>2. /\ Others(w) /\ ~Purges(w, c)' /\ tries'[c] <= tries[c] + 1
          /\ \/ Counts(w, c)' /\ job'[w].k = "fail" /\ c = d /\ j.k = "fail"
             \/ ~Counts(w, c)' /\ tries'[c] = tries[c]
      BY <2>1, TurnSteps
    <2>3. CASE c = d
      <3>1. count'[c] = 0 /\ ~old'[c] /\ Purges(w, c)
        BY <2>1, <2>3 DEF Drops, Purges, TypeOK
      <3> QED
        BY <2>2, <3>1 DEF Affects, Deletes
    <2>4. CASE c # d
      <3>1. count'[c] = count[c] /\ old'[c] = old[c] /\ ~Purges(w, c)
        BY <2>1, <2>4 DEF Drops, Purges, TypeOK
      <3> QED
        BY <1>1, <2>2, <2>4, <3>1 DEF Affects, Passes, Same
    <2> QED
      BY <2>3, <2>4
  <1> QED
    BY <1>2, <1>3, <1>4, <1>5

LEMMA EndsAffect ==
    ASSUME TypeOK, NEW c \in Counters, NEW w \in Workers, Ends(w)
    PROVE  Affects(w, c)
  <1>1. CASE Refused(w) \/ SpendCode(w)
    <2>1. job[w].k \in {"refused", "spend"} /\ UNCHANGED <<count, old, tries>>
      BY <1>1 DEF Refused, SpendCode
    <2>2. Others(w) /\ job'[w].k \in {"idle", "login"}
      BY <1>1, JobIn DEF Refused, SpendCode, Others, Do, TypeOK
    <2> QED
      BY <2>1, <2>2 DEF Affects, Passes, Same, Counts, Purges
  <1>2. CASE ReadCount(w)
    <2>1. PICK d : d = job[w].c
      OBVIOUS
    <2>2. d \in Counters /\ job[w].k = "fail" /\ UNCHANGED <<count, old, tries>>
      BY <1>2, <2>1, JobKind DEF ReadCount, TypeOK
    <2>3. Do(w, [k |-> "write", c |-> d, seen |-> count[d]])
      BY <1>2, <2>1 DEF ReadCount
    <2>4. Others(w) /\ job'[w].k = "write" /\ job'[w].c = d /\ job'[w].seen = count[d]
      BY <2>3 DEF Others, Do, TypeOK
    <2>5. (Counts(w, c) <=> c = d) /\ (Counts(w, c)' <=> c = d) /\ ~Purges(w, c) /\ ~Purges(w, c)'
      BY <2>1, <2>2, <2>4 DEF Counts, Purges
    <2>6. Same(c)
      BY <2>2 DEF Same
    <2> QED
      BY <2>2, <2>4, <2>5, <2>6 DEF Affects, Passes, Reads
  <1>3. CASE WriteCount(w)
    <2>1. PICK d, s : d = job[w].c /\ s = job[w].seen
      OBVIOUS
    <2>2. d \in Counters /\ s \in Nat /\ job[w].k = "write" /\ UNCHANGED tries
      BY <1>3, <2>1, JobKind, Limits DEF WriteCount, TypeOK
    <2>3. Do(w, Idle)
      BY <1>3 DEF WriteCount
    <2>4. Others(w) /\ ~Counts(w, c)' /\ ~Purges(w, c)' /\ ~Purges(w, c)
      BY <2>2, <2>3, JobIn DEF Others, Counts, Purges, Do, TypeOK
    <2>5. Counts(w, c) <=> c = d
      BY <2>1, <2>2 DEF Counts
    <2>6. \/ count' = [count EXCEPT ![d] = UpTo(s + 1, d)] /\ old' = [old EXCEPT ![d] = FALSE]
          \/ (s = 0) # (count[d] = 0) /\ UNCHANGED <<count, old>>
      BY <1>3, <2>1 DEF WriteCount
    <2>7. CASE c # d
      <3>1. count'[c] = count[c] /\ old'[c] = old[c]
        BY <2>6, <2>7 DEF TypeOK
      <3> QED
        BY <2>2, <2>4, <2>5, <2>7, <3>1 DEF Affects, Passes, Same
    <2>8. CASE c = d /\ UNCHANGED <<count, old>> /\ (s = 0) # (count[d] = 0)
      BY <2>1, <2>2, <2>4, <2>5, <2>8 DEF Affects, Misses, Same
    <2>9. CASE c = d /\ count' = [count EXCEPT ![d] = UpTo(s + 1, d)] /\ old' = [old EXCEPT ![d] = FALSE]
      <3>1. count'[c] = UpTo(s + 1, c) /\ ~old'[c]
        BY <2>9 DEF TypeOK
      <3>2. UpTo(s + 1, c) >= 1 /\ Written(Limit(c), s, UpTo(s + 1, c))
        <4>1. Limit(c) \in Nat /\ Cap(c) \in Nat /\ Cap(c) >= Limit(c) + 1
          BY Limits, w \in Workers
        <4> QED
          BY <2>2, <4>1 DEF UpTo, Written
      <3>3. count'[c] >= 1 /\ Written(Limit(c), job[w].seen, count'[c])
        BY <2>1, <3>1, <3>2
      <3> QED
        BY <2>2, <2>4, <2>5, <2>9, <3>1, <3>3 DEF Affects, Writes
    <2> QED
      BY <2>6, <2>7, <2>8, <2>9
  <1>4. CASE Login(w)
    BY <1>4 DEF Login, TypeOK, Affects, Clears
  <1> QED
    BY <1>1, <1>2, <1>3, <1>4 DEF Ends

LEMMA CounterSteps ==
    ASSUME TypeOK, [Next]_vars, NEW c \in Counters
    PROVE  (\E w \in Workers : Affects(w, c)) \/ Ages(c)
  <1>1. ASSUME NEW d \in Counters, Lapse(d)
        PROVE  Ages(c)
    <2>1. CASE c = d
      <3>1. \A w \in Workers : ~Counts(w, c)
        BY <1>1, <2>1 DEF Lapse, Counts
      <3>2. job' = job /\ old'[c] /\ tries'[c] = 0
        BY <1>1, <2>1 DEF Lapse, TypeOK
      <3> QED
        BY <3>1, <3>2 DEF Ages
    <2>2. CASE c # d
      BY <1>1, <2>2 DEF Lapse, TypeOK, Ages, Same
    <2> QED
      BY <2>1, <2>2
  <1>2. ASSUME NEW w \in Workers, NEW S \in SUBSET Codes, RegenerateCodes(w, S)
        PROVE  Ages(c)
    BY <1>2 DEF RegenerateCodes, Ages, Same
  <1>3. CASE UNCHANGED vars
    BY <1>3 DEF vars, Ages, Same
  <1> QED
    BY <1>1, <1>2, <1>3, AnswersAffect, EndsAffect, Steps

\* Each effect keeps the ladder, or takes it further.  A counter that is set
\* back starts again.
LEMMA Resets ==
    ASSUME TypeOK', NEW c \in Counters, tries'[c] = 0
    PROVE  Staged(c)'
  <1>1. Kept(Active(c)', Levels(c)', Counting(c)', Limit(c), 0, count'[c])
    BY CounterNext, Limits, KeptReset
  <1>2. Budget(Limit(c), Cardinality(Active(c)'), tries'[c], 0)
    BY CounterNext, Limits, BudgetStart
  <1> QED
    BY <1>1, <1>2 DEF Staged

\* Everybody stands where he stood.
LEMMA Stands ==
    ASSUME NEW c \in Counters, Staged(c), Same(c),
           \A v \in Workers : /\ (Counts(v, c)' <=> Counts(v, c)) /\ Sees(v, c)' = Sees(v, c)
                              /\ (Purges(v, c)' <=> Purges(v, c))
    PROVE  Staged(c)'
  <1>1. Active(c)' = Active(c) /\ Levels(c)' = Levels(c) /\ Counting(c)' = Counting(c)
    BY DEF Active, Levels, Counting
  <1> QED
    BY <1>1 DEF Same, Staged

LEMMA PassesKept ==
    ASSUME NEW c \in Counters, Accounted(c), NEW w \in Workers, Passes(w, c)
    PROVE  Accounted(c)'
  <1>1. \A v \in Workers : Counts(v, c)' <=> Counts(v, c)
    BY DEF Passes, Others, Counts
  <1>2. \A v \in Workers : Purges(v, c)' <=> Purges(v, c)
    BY DEF Passes, Others, Purges
  <1>3. \A v \in Workers : Sees(v, c)' = Sees(v, c)
    BY DEF Sees, Passes, Same, Others, Counts
  <1>4. Same(c)
    BY DEF Passes
  <1>5. CASE old[c]
    BY <1>1, <1>4, <1>5 DEF Accounted, Same
  <1>6. CASE ~old[c]
    <2>1. Staged(c)'
      BY <1>1, <1>2, <1>3, <1>4, <1>6, Stands DEF Accounted
    <2> QED
      BY <1>4, <1>6, <2>1 DEF Accounted, Same
  <1> QED
    BY <1>5, <1>6

LEMMA FindsKept ==
    ASSUME NEW c \in Counters, Accounted(c), NEW w \in Workers, Finds(w, c)
    PROVE  Accounted(c)'
  <1>1. old'[c] /\ tries'[c] = 0
    BY DEF Accounted, Finds, Same
  <1>2. \A v \in Workers : ~Counts(v, c)'
    BY DEF Accounted, Finds, Others, Counts
  <1> QED
    BY <1>1, <1>2 DEF Accounted

LEMMA ClearsKept ==
    ASSUME TypeOK', NEW c \in Counters, NEW w \in Workers, Clears(w, c)
    PROVE  Accounted(c)'
  BY Resets DEF Clears, Accounted

LEMMA FailsKept ==
    ASSUME TypeOK, TypeOK', NEW c \in Counters, Accounted(c), NEW w \in Workers, Fails(w, c)
    PROVE  Accounted(c)'
  <1>1. PICK L, a, t, u, A, f, P : /\ L = Limit(c) /\ a = count[c] /\ t = tries[c] /\ u = tries'[c]
                                   /\ A = Active(c) /\ f = Levels(c) /\ P = Counting(c)
    OBVIOUS
  <1>2. /\ L \in Nat /\ a \in Nat /\ t \in Nat /\ u \in Nat /\ a < L /\ u <= t + 1
        /\ count'[c] = a /\ ~old'[c]
        /\ IsFiniteSet(A) /\ f \in [A -> Nat] /\ P \in SUBSET A
    BY <1>1, Limits, CounterType, CounterNext DEF Fails
  <1>3. w \in A /\ f[w] = a /\ w \notin P
    BY <1>1 DEF Fails, Counts, Levels, Sees, Counting, Active
  <1>4. Active(c)' = A
    BY <1>1 DEF Fails, Others, Purges, Counts, Active
  <1>5. Levels(c)' = f /\ Counting(c)' = P \cup {w}
    <2>1. \A v \in Workers : Sees(v, c)' = Sees(v, c)
      BY DEF Fails, Others, Counts, Sees
    <2>2. \A v \in Workers : Counts(v, c)' <=> (Counts(v, c) \/ v = w)
      BY DEF Fails, Others, Counts
    <2>3. Levels(c)' = f
      BY <1>1, <1>4, <2>1 DEF Levels, Active
    <2> QED
      BY <1>1, <2>2, <2>3 DEF Counting
  <1>6. Staged(c)
    BY DEF Accounted, Fails
  <1>7. PICK n \in Nat : Kept(A, f, P, L, n, a) /\ Budget(L, Cardinality(A), t, n)
    BY <1>1, <1>6 DEF Staged
  <1>8. Kept(A, f, P \cup {w}, L, n + 1, a)
    <2>1. w \in A \ P /\ f[w] < L /\ Kept(A, f, P, L, n, f[w])
      BY <1>2, <1>3, <1>7
    <2>2. Kept(A, f, P \cup {w}, L, n + 1, f[w])
      BY <1>2, <2>1, KeptTry
    <2> QED
      BY <1>3, <2>2
  <1>9. Budget(L, Cardinality(A), u, n + 1)
    <2>1. Cardinality(A) \in Nat
      BY <1>2, FS_CardinalityType
    <2>2. Room(L, Cardinality(A)) \in Nat /\ Changes(L, Cardinality(A)) \in Nat
      BY <1>2, <2>1, BudgetStart
    <2> QED
      BY <1>2, <1>7, <2>2 DEF Budget
  <1>10. Staged(c)'
    BY <1>1, <1>2, <1>4, <1>5, <1>8, <1>9 DEF Staged
  <1> QED
    BY <1>2, <1>10 DEF Accounted

\* The worker that deletes the row is active from then on.
LEMMA DeletesKept ==
    ASSUME TypeOK, TypeOK', NEW c \in Counters, Accounted(c), NEW w \in Workers, Deletes(w, c)
    PROVE  Accounted(c)'
  <1>1. PICK L, K, t, u, A, B, g, Q :
           /\ L = Limit(c) /\ t = tries[c] /\ u = tries'[c] /\ K = Cardinality(A)
           /\ A = Active(c) /\ B = Active(c)' /\ g = Levels(c)' /\ Q = Counting(c)'
    OBVIOUS
  <1>2. /\ L \in Nat /\ L >= 1 /\ t \in Nat /\ u \in Nat /\ K \in Nat /\ ~old'[c] /\ count'[c] = 0
        /\ IsFiniteSet(A) /\ IsFiniteSet(B) /\ g \in [B -> Nat] /\ Q \in SUBSET B
    BY <1>1, Limits, CounterType, CounterNext DEF Deletes
  <1>3. B = A \cup {w} /\ w \notin A
    BY <1>1 DEF Deletes, Others, Purges, Active
  <1>4. Cardinality(B) = K + 1
    BY <1>1, <1>2, <1>3, FS_AddElement
  <1>5. PICK m \in {0, 1} : u <= t + m /\ Kept(B, g, Q, L, m, 0)
    <2>1. CASE ~Counts(w, c)' /\ u = t
      BY <1>2, <2>1, KeptReset
    <2>2. CASE Counts(w, c)' /\ job'[w].k = "fail" /\ u <= t + 1
      <3>1. w \in B /\ w \in Q /\ g[w] = 0
        BY <1>1, <1>2, <1>3, <2>2 DEF Counting, Levels, Sees
      <3>2. Kept(B, g, Q \ {w}, L, 0, 0)
        BY <1>2, KeptReset
      <3>3. Kept(B, g, (Q \ {w}) \cup {w}, L, 0 + 1, g[w])
        <4>1. Q \ {w} \in SUBSET B /\ w \in B \ (Q \ {w}) /\ g[w] < L /\ Kept(B, g, Q \ {w}, L, 0, g[w])
          BY <1>2, <3>1, <3>2
        <4> QED
          BY <1>2, <4>1, KeptTry
      <3>4. (Q \ {w}) \cup {w} = Q /\ 0 + 1 = 1
        BY <3>1
      <3> QED
        BY <2>2, <3>1, <3>3, <3>4
    <2> QED
      BY <1>1, <2>1, <2>2 DEF Deletes
  <1>6. ASSUME NEW n \in Nat, n <= Room(L, K), Budget(L, K, t, n)
        PROVE  Budget(L, K + 1, u, m)
    <2>1. Budget(L, K + 1, t + m, m)
      <3>1. /\ L \in Nat /\ K \in Nat /\ t \in Nat /\ m \in Nat
            /\ n \in Nat /\ n <= Room(L, K) /\ Budget(L, K, t, n)
        BY <1>2, <1>6
      <3> QED
        BY ONLY <3>1, BudgetNext
    <2>2. Room(L, K + 1) \in Nat /\ Changes(L, K + 1) \in Nat
      BY <1>2, BudgetStart
    <2> QED
      BY <1>2, <1>5, <2>1, <2>2 DEF Budget
  <1>7. Budget(L, K + 1, u, m)
    <2>1. CASE old[c]
      <3>1. t = 0
        BY <1>1, <2>1 DEF Accounted
      <3>2. Budget(L, K, t, 0) /\ Room(L, K) \in Nat
        BY <1>2, <3>1, BudgetStart
      <3> QED
        BY <1>6, <3>2
    <2>2. CASE ~old[c]
      <3>1. Staged(c)
        BY <2>2 DEF Accounted
      <3>2. PICK n \in Nat : Kept(A, Levels(c), Counting(c), L, n, count[c]) /\ Budget(L, K, t, n)
        BY <1>1, <3>1 DEF Staged
      <3>3. Levels(c) \in [A -> Nat] /\ Counting(c) \in SUBSET A
        BY <1>1, CounterType
      <3>4. n <= Room(L, K)
        BY <1>1, <1>2, <3>2, <3>3, KeptBound DEF Room
      <3> QED
        BY <1>6, <3>2, <3>4
    <2> QED
      BY <2>1, <2>2
  <1>8. Staged(c)'
    BY <1>1, <1>2, <1>4, <1>5, <1>7 DEF Staged
  <1> QED
    BY <1>2, <1>8 DEF Accounted

LEMMA ReadsKept ==
    ASSUME NEW c \in Counters, Accounted(c), NEW w \in Workers, Reads(w, c)
    PROVE  Accounted(c)'
  <1>1. ~old[c] /\ ~old'[c] /\ Staged(c)
    BY DEF Accounted, Reads, Same
  <1>2. \A v \in Workers : Counts(v, c)' <=> Counts(v, c)
    BY DEF Reads, Others, Counts
  <1>3. \A v \in Workers : Purges(v, c)' <=> Purges(v, c)
    BY DEF Reads, Others, Purges
  <1>4. \A v \in Workers : Sees(v, c)' = Sees(v, c)
    BY DEF Reads, Same, Others, Sees, Counts
  <1>5. Staged(c)'
    BY <1>1, <1>2, <1>3, <1>4, Stands DEF Reads
  <1> QED
    BY <1>1, <1>5 DEF Accounted

\* Somebody who is about to write, and what becomes of the others.
LEMMA WritesKept ==
    ASSUME TypeOK, TypeOK', NEW c \in Counters, Accounted(c), NEW w \in Workers, Writes(w, c)
    PROVE  Accounted(c)'
  <1>1. PICK L, a, b, t, A, f, g, P, X :
           /\ L = Limit(c) /\ a = count[c] /\ b = count'[c] /\ t = tries[c]
           /\ A = Active(c) /\ f = Levels(c) /\ g = Levels(c)' /\ P = Counting(c)
           /\ X = {v \in A : v # w /\ ~(job[v].k = "write" /\ job[v].c = c)}
    OBVIOUS
  <1>2. Active(c)' = A
    BY <1>1 DEF Writes, Others, Purges, Counts, Active
  <1>3. /\ L \in Nat /\ L >= 1 /\ a \in Nat /\ b \in Nat /\ t \in Nat /\ tries'[c] = t
        /\ A \in SUBSET Workers /\ IsFiniteSet(A)
        /\ f \in [A -> Nat] /\ g \in [A -> Nat] /\ P \in SUBSET A
        /\ X \in SUBSET (A \ {w}) /\ ~old'[c]
    BY <1>1, <1>2, Limits, CounterType, CounterNext DEF Writes
  <1>4. w \in A /\ f[w] = job[w].seen /\ g[w] = b
    BY <1>1, <1>2 DEF Writes, Counts, Purges, Active, Levels, Sees
  <1>5. Counting(c)' = P \ {w}
    BY <1>1 DEF Writes, Others, Counts, Counting
  <1>6. b \in Nat \ {0} /\ (b = f[w] + 1 \/ (b >= L /\ f[w] + 1 >= L))
    BY <1>1, <1>3, <1>4 DEF Writes, Written
  <1>7. /\ \A v \in X : f[v] = a /\ g[v] = b
        /\ \A v \in A \ (X \cup {w}) : g[v] = f[v]
    BY <1>1, <1>2, <1>3 DEF Writes, Others, Levels, Sees
  <1>8. Moves(A, f, g, w, X, a, b, L)
    BY <1>4, <1>6, <1>7 DEF Moves
  <1>9. Staged(c)
    BY DEF Accounted, Writes
  <1>10. PICK n \in Nat : Kept(A, f, P, L, n, a) /\ Budget(L, Cardinality(A), t, n)
    BY <1>1, <1>9 DEF Staged
  <1>11. Kept(A, g, P \ {w}, L, n, b)
    BY <1>3, <1>4, <1>6, <1>8, <1>10, KeptWrite
  <1>12. Staged(c)'
    BY <1>1, <1>2, <1>3, <1>5, <1>10, <1>11 DEF Staged
  <1> QED
    BY <1>3, <1>12 DEF Accounted

LEMMA MissesKept ==
    ASSUME TypeOK, TypeOK', NEW c \in Counters, Accounted(c), NEW w \in Workers, Misses(w, c)
    PROVE  Accounted(c)'
  <1>1. PICK L, a, t, A, f, g, P : /\ L = Limit(c) /\ a = count[c] /\ t = tries[c]
                                   /\ A = Active(c) /\ f = Levels(c) /\ g = Levels(c)' /\ P = Counting(c)
    OBVIOUS
  <1>2. Active(c)' = A
    BY <1>1 DEF Misses, Others, Purges, Counts, Active
  <1>3. /\ L \in Nat \ {0} /\ a \in Nat /\ t \in Nat /\ tries'[c] = t /\ count'[c] = a
        /\ A \in SUBSET Workers /\ IsFiniteSet(A)
        /\ f \in [A -> Nat] /\ g \in [A -> Nat] /\ P \in SUBSET A
    BY <1>1, <1>2, Limits, CounterType, CounterNext DEF Misses, Same
  <1>4. ~old[c] /\ ~old'[c] /\ Staged(c)
    BY DEF Misses, Accounted, Same
  <1>5. w \in A /\ (f[w] = 0) # (a = 0)
    BY <1>1 DEF Misses, Counts, Purges, Active, Levels, Sees
  <1>6. w \in P /\ g[w] = a /\ Counting(c)' = P \ {w}
    <2>1. w \in P /\ Counting(c)' = P \ {w}
      BY <1>1 DEF Misses, Others, Counts, Counting
    <2>2. g[w] = a
      BY <1>1, <1>2, <1>5 DEF Misses, Same, Counts, Levels, Sees
    <2> QED
      BY <2>1, <2>2
  <1>7. \A v \in A \ {w} : g[v] = f[v]
    BY <1>1, <1>2, <1>3 DEF Misses, Same, Others, Levels, Sees
  <1>8. PICK n \in Nat : Kept(A, f, P, L, n, a) /\ Budget(L, Cardinality(A), t, n)
    BY <1>1, <1>4 DEF Staged
  <1>9. Kept(A, g, P \ {w}, L, n, a)
    BY <1>3, <1>5, <1>6, <1>7, <1>8, KeptFailed
  <1>10. Staged(c)'
    BY <1>1, <1>2, <1>3, <1>6, <1>8, <1>9 DEF Staged
  <1> QED
    BY <1>4, <1>10 DEF Accounted

LEMMA AgesKept ==
    ASSUME NEW c \in Counters, Accounted(c), Ages(c)
    PROVE  Accounted(c)'
  <1>1. \A v \in Workers : (Counts(v, c)' <=> Counts(v, c)) /\ (Purges(v, c)' <=> Purges(v, c))
    BY DEF Ages, Counts, Purges
  <1>2. CASE Same(c)
    <2>1. \A v \in Workers : Sees(v, c)' = Sees(v, c)
      BY <1>2 DEF Ages, Same, Sees
    <2>2. Staged(c) => Staged(c)'
      BY <1>1, <1>2, <2>1, Stands
    <2> QED
      BY <1>1, <1>2, <2>2 DEF Accounted, Same
  <1>3. CASE (\A w \in Workers : ~Counts(w, c)) /\ old'[c] /\ tries'[c] = 0
    BY <1>1, <1>3 DEF Accounted
  <1> QED
    BY <1>2, <1>3 DEF Ages

LEMMA WrongStep == WrongInv /\ [Next]_vars => WrongInv'
  <1> SUFFICES ASSUME WrongInv, [Next]_vars PROVE WrongInv'
    OBVIOUS
  <1>1. TypeInv /\ TypeInv' /\ TypeOK /\ TypeOK'
    BY TypeStep DEF WrongInv, TypeInv
  <1>2. ASSUME NEW c \in Counters PROVE Accounted(c)'
    <2>1. Accounted(c)
      BY DEF WrongInv
    <2>2. ASSUME NEW w \in Workers, Affects(w, c)
          PROVE  Accounted(c)'
      BY <1>1, <2>1, <2>2, PassesKept, FindsKept, ClearsKept, FailsKept, DeletesKept, ReadsKept,
         WritesKept, MissesKept DEF Affects
    <2> QED
      BY <1>1, <2>1, <2>2, AgesKept, CounterSteps
  <1> QED
    BY <1>1, <1>2 DEF WrongInv

\* Concurrent requests cost the counter some failures, but not all of them:
\* however many workers there are, the wrong codes that count between two
\* logins or lapses are no more than the steps from ladder to ladder of one
\* active worker, of two and so on, because every write is above the value it
\* read, and each worker that found the lapse deletes the row only once
\* (increment_2fa_failures, get_2fa_failure_count).
THEOREM WrongCodesAreBounded == Spec => []WrongCodesBounded
  <1>1. WrongInv => WrongCodesBounded
    <2> SUFFICES ASSUME WrongInv, NEW c \in Counters PROVE tries[c] <= MaxWrong[c]
      BY DEF WrongCodesBounded
    <2>1. TypeOK /\ Accounted(c)
      BY DEF WrongInv, TypeInv
    <2>2. PICK L, K, A : L = Limit(c) /\ A = Active(c) /\ K = Cardinality(A)
      OBVIOUS
    <2>3. /\ L \in Nat /\ K \in Nat /\ tries[c] \in Nat /\ IsFiniteSet(A) /\ A \in SUBSET Workers
          /\ Levels(c) \in [A -> Nat] /\ Counting(c) \in SUBSET A
      BY <2>1, <2>2, Limits, CounterType
    <2>4. CASE old[c]
      BY <2>1, <2>4, Limits DEF Accounted
    <2>5. CASE ~old[c]
      <3>1. PICK n \in Nat : Kept(A, Levels(c), Counting(c), L, n, count[c]) /\ Budget(L, K, tries[c], n)
        BY <2>1, <2>2, <2>5 DEF Accounted, Staged
      <3>2. n <= Room(L, K)
        BY <2>2, <2>3, <3>1, KeptBound DEF Room
      <3>3. Room(L, K) \in Nat /\ Changes(L, K) \in Nat
        BY <2>3, BudgetStart
      <3>4. tries[c] <= Changes(L, K)
        BY <2>3, <3>1, <3>2, <3>3 DEF Budget
      <3>5. Cardinality(Workers) \in Nat /\ K <= Cardinality(Workers)
        BY <2>2, <2>3, WorkersFinite, FS_Subset, FS_CardinalityType
      <3>6. Changes(L, K) <= MaxWrong[c] /\ MaxWrong[c] \in Nat
        BY <2>2, <2>3, <3>5, StagesMore, Limits
      <3> QED
        BY <2>3, <3>3, <3>4, <3>6
    <2> QED
      BY <2>4, <2>5
  <1> QED
    BY <1>1, WrongInit, WrongStep, PTL DEF Spec

-----------------------------------------------------------------------------
(***************************************************************************)
(* The linked chat (TelegramLink), to which codes of the second login step *)
(* are sent, for any workers, accounts, chats and tokens: types, and how   *)
(* many accounts a chat and uses a token can get.                          *)
(***************************************************************************)
CONSTANTS Accounts, Chats, NoChat, MaxToken
VARIABLES chat, enabled, token, fresh, cached, links, calls, task, uses
TL == INSTANCE TelegramLink WITH issued <- links, job <- task

LEMMA TelegramFacts ==
    ASSUME TL!TelegramAssumption
    PROVE  /\ NoChat \notin Chats
           /\ MaxToken \in Nat \ {0}
           /\ IsFiniteSet(Workers)
  BY DEF TL!TelegramAssumption, TL!IsFiniteSet, IsFiniteSet

LEMMA SameSize == \A T : TL!Cardinality(T) = Cardinality(T)
  BY DEF TL!IsFiniteSet, IsFiniteSet, TL!Cardinality, Cardinality

LEMMA TelegramMostType ==
    ASSUME TL!TelegramAssumption
    PROVE  TL!Most \in Nat /\ TL!Most = Cardinality(Workers)
  BY TelegramFacts, SameSize, FS_CardinalityType DEF TL!Most

\* What a job of each kind carries.
LEMMA TelegramJobKind ==
    ASSUME TL!TelegramAssumption, NEW j \in TL!Job
    PROVE  /\ j.k = "issue" => j.a \in Accounts
           /\ j.k = "bind" => /\ j.a \in Accounts /\ j.t \in TL!Tokens /\ j.c \in Chats
                              /\ j.chat \in Chats \cup {NoChat} /\ j.enabled \in BOOLEAN
           /\ j.k = "unlink" => /\ j.a \in Accounts
                                /\ j.enabled \in BOOLEAN /\ j.pending \in BOOLEAN
  BY DEF TL!Job, TL!Idle

\* Beginning a job and committing one change the job of one worker.
LEMMA BeginJob ==
    ASSUME TL!TelegramAssumption, task \in [Workers -> TL!Job], NEW w \in Workers, NEW j \in TL!Job, TL!Begin(w, j)
    PROVE  /\ task' \in [Workers -> TL!Job] /\ task[w] = TL!Idle
           /\ \A v \in Workers : task'[v] = IF v = w THEN j ELSE task[v]
  BY DEF TL!Begin

LEMMA CommitJob ==
    ASSUME TL!TelegramAssumption, task \in [Workers -> TL!Job], NEW w \in Workers, NEW k, TL!Commit(w, k)
    PROVE  /\ task' \in [Workers -> TL!Job] /\ task[w].k = k /\ task[w] \in TL!Job
           /\ \A v \in Workers : task'[v] = IF v = w THEN TL!Idle ELSE task[v]
  BY DEF TL!Commit, TL!Job

-----------------------------------------------------------------------------
(***************************************************************************)
(* Types                                                                   *)
(***************************************************************************)
LEMMA TelegramTypeInit ==
    ASSUME TL!TelegramAssumption
    PROVE  TL!Init => TL!TypeOK
  BY TelegramFacts, TelegramMostType DEF TL!Init, TL!TypeOK, TL!Job, TL!Idle

LEMMA TelegramTypeStep ==
    ASSUME TL!TelegramAssumption
    PROVE  TL!TypeOK /\ [TL!Next]_TL!vars => TL!TypeOK'
  <1> SUFFICES ASSUME TL!TypeOK, [TL!Next]_TL!vars PROVE TL!TypeOK'
    OBVIOUS
  <1> USE TelegramFacts, TelegramMostType
  <1>1. ASSUME NEW w \in Workers, NEW a \in Accounts, TL!LoadPage(w, a) PROVE TL!TypeOK'
    <2>1. [k |-> "issue", a |-> a] \in TL!Job
      BY DEF TL!Job
    <2> QED
      BY <1>1, <2>1, BeginJob DEF TL!LoadPage, TL!TypeOK
  <1>2. ASSUME NEW w \in Workers, NEW a \in Accounts, TL!LoadUnlink(w, a) PROVE TL!TypeOK'
    <2>1. [k |-> "unlink", a |-> a, enabled |-> enabled[a], pending |-> token[a] # 0] \in TL!Job
      BY DEF TL!Job, TL!TypeOK
    <2> QED
      BY <1>2, <2>1, BeginJob DEF TL!LoadUnlink, TL!TypeOK
  <1>3. ASSUME NEW w \in Workers, NEW call \in calls, TL!LoadCallback(w, call) PROVE TL!TypeOK'
    <2>1. PICK a \in Accounts :
            TL!Begin(w, [k |-> "bind", a |-> a, t |-> call.t, c |-> call.c,
                      chat |-> chat[a], enabled |-> enabled[a]])
      BY <1>3 DEF TL!LoadCallback
    <2>2. [k |-> "bind", a |-> a, t |-> call.t, c |-> call.c,
           chat |-> chat[a], enabled |-> enabled[a]] \in TL!Job
      BY DEF TL!Job, TL!TypeOK
    <2>3. task' \in [Workers -> TL!Job]
      BY <2>1, <2>2, BeginJob DEF TL!TypeOK
    <2> QED
      BY <1>3, <2>3 DEF TL!LoadCallback, TL!TypeOK
  <1>4. ASSUME NEW w \in Workers, TL!CommitPage(w) PROVE TL!TypeOK'
    <2>1. task' \in [Workers -> TL!Job] /\ task[w].a \in Accounts
      BY <1>4, CommitJob, TelegramJobKind DEF TL!CommitPage, TL!TypeOK
    <2> QED
      BY <1>4, <2>1 DEF TL!CommitPage, TL!TypeOK
  <1>5. ASSUME NEW w \in Workers, TL!CommitBind(w) PROVE TL!TypeOK'
    <2>1. /\ task' \in [Workers -> TL!Job]
          /\ task[w].a \in Accounts /\ task[w].t \in TL!Tokens /\ task[w].c \in Chats
          /\ task[w].enabled \in BOOLEAN
      BY <1>5, CommitJob, TelegramJobKind DEF TL!CommitBind, TL!TypeOK
    <2>2. chat' \in [Accounts -> Chats \cup {NoChat}] /\ enabled' \in [Accounts -> BOOLEAN]
      BY <1>5, <2>1 DEF TL!CommitBind, TL!Bind, TL!TypeOK
    <2>3. uses' \in [TL!Tokens -> 0 .. TL!Most + 1]
      BY <1>5, <2>1 DEF TL!CommitBind, TL!Bind, TL!TypeOK
    <2>4. /\ token' \in [Accounts -> 0 .. links] /\ fresh' \in [Accounts -> BOOLEAN]
          /\ \A a \in Accounts : fresh'[a] => token'[a] # 0
      BY <1>5, <2>1 DEF TL!CommitBind, TL!TypeOK
    <2> QED
      BY <1>5, <2>1, <2>2, <2>3, <2>4 DEF TL!CommitBind, TL!TypeOK
  <1>6. ASSUME NEW w \in Workers, TL!CommitUnlink(w) PROVE TL!TypeOK'
    <2>1. /\ task' \in [Workers -> TL!Job] /\ task[w].a \in Accounts
          /\ task[w].enabled \in BOOLEAN /\ task[w].pending \in BOOLEAN
      BY <1>6, CommitJob, TelegramJobKind DEF TL!CommitUnlink, TL!TypeOK
    <2>2. /\ chat' \in [Accounts -> Chats \cup {NoChat}] /\ enabled' \in [Accounts -> BOOLEAN]
          /\ cached' \in [Accounts -> 0 .. links]
      BY <1>6, <2>1 DEF TL!CommitUnlink, TL!TypeOK
    <2>3. token' \in [Accounts -> 0 .. links] /\ fresh' \in [Accounts -> BOOLEAN]
      BY <1>6, <2>1 DEF TL!CommitUnlink, TL!TypeOK
    <2>4. \A a \in Accounts : fresh'[a] => token'[a] # 0
      BY <1>6, <2>1 DEF TL!CommitUnlink, TL!TypeOK
    <2> QED
      BY <1>6, <2>1, <2>2, <2>3, <2>4 DEF TL!CommitUnlink, TL!TypeOK
  <1>7. ASSUME NEW a \in Accounts, TL!Expire(a) PROVE TL!TypeOK'
    BY <1>7 DEF TL!Expire, TL!TypeOK
  <1>8. ASSUME NEW a \in Accounts, NEW c \in Chats, TL!OpenLink(a, c) PROVE TL!TypeOK'
    BY <1>8 DEF TL!OpenLink, TL!TypeOK, TL!Tokens
  <1>9. CASE UNCHANGED TL!vars
    BY <1>9 DEF TL!vars, TL!TypeOK
  <1> QED
    BY <1>1, <1>2, <1>3, <1>4, <1>5, <1>6, <1>7, <1>8, <1>9 DEF TL!Next

\* Every variable keeps its type; a token that can be used was issued.
THEOREM TelegramTypeCorrect ==
    ASSUME TL!TelegramAssumption
    PROVE  TL!Spec => []TL!TypeOK
  BY TelegramTypeInit, TelegramTypeStep, PTL DEF TL!Spec

-----------------------------------------------------------------------------
(***************************************************************************)
(* How often a token is used                                               *)
(***************************************************************************)
\* The workers that are about to bind with a token.
Using(t) == {w \in Workers : task[w].k = "bind" /\ task[w].t = t}

\* A token belongs to one account.  As long as an account has it, it was not
\* used; after that, only those who have looked it up can use it.
UseInv == /\ TL!TypeOK
          /\ \A a, b \in Accounts : token[a] # 0 /\ token[a] = token[b] => a = b
          /\ \A w \in Workers : task[w].k = "bind" =>
                /\ task[w].t <= links
                /\ \A b \in Accounts : token[b] = task[w].t => b = task[w].a
          /\ \A a \in Accounts : token[a] # 0 => uses[token[a]] = 0
          /\ \A t \in TL!Tokens : t > links => uses[t] = 0
          /\ \A t \in TL!Tokens : uses[t] + Cardinality(Using(t)) <= TL!Most

LEMMA UsingSize == ASSUME TL!TelegramAssumption, NEW t
                   PROVE  /\ IsFiniteSet(Using(t)) /\ Cardinality(Using(t)) \in 0 .. TL!Most
                          /\ IsFiniteSet(Using(t)') /\ Cardinality(Using(t)') \in 0 .. TL!Most
  <1>1. Using(t) \in SUBSET Workers /\ Using(t)' \in SUBSET Workers
    BY DEF Using
  <1> QED
    BY <1>1, TelegramFacts, FS_Subset, FS_CardinalityType, TelegramMostType

LEMMA UseInit ==
    ASSUME TL!TelegramAssumption
    PROVE  TL!Init => UseInv
  <1> SUFFICES ASSUME TL!Init PROVE UseInv
    OBVIOUS
  <1>1. \A t \in TL!Tokens : Using(t) = {}
    BY DEF Using, TL!Init, TL!Idle
  <1>2. \A t \in TL!Tokens : uses[t] + Cardinality(Using(t)) <= TL!Most
    BY <1>1, FS_EmptySet, TelegramMostType DEF TL!Init
  <1> QED
    BY <1>2, TelegramTypeInit DEF TL!Init, UseInv, TL!Idle

\* A step that begins or ends other jobs than bindings, and issues no token.
LEMMA UseKept ==
    ASSUME TL!TelegramAssumption, UseInv, TL!TypeOK', links' = links, uses' = uses,
           \A a \in Accounts : token'[a] \in {0, token[a]},
           \A w \in Workers : task'[w].k = "bind" => task'[w] = task[w]
    PROVE  UseInv'
  <1>1. ASSUME NEW t \in TL!Tokens PROVE uses'[t] + Cardinality(Using(t)') <= TL!Most
    <2>1. Using(t)' \in SUBSET Using(t)
      BY DEF Using
    <2>2. Cardinality(Using(t)') <= Cardinality(Using(t))
      BY <2>1, UsingSize, FS_Subset
    <2> QED
      BY <2>2, UsingSize, TelegramMostType DEF UseInv, TL!TypeOK
  <1>2. \A w \in Workers : task'[w].k = "bind" =>
           /\ task'[w].t <= links'
           /\ \A b \in Accounts : token'[b] = task'[w].t => b = task'[w].a
    <2>1. ASSUME NEW w \in Workers, task'[w].k = "bind" PROVE task'[w] = task[w] /\ task[w].t # 0
      BY <2>1, TelegramJobKind DEF UseInv, TL!TypeOK, TL!Tokens
    <2> QED
      BY <2>1 DEF UseInv
  <1>3. \A a, b \in Accounts : token'[a] # 0 /\ token'[a] = token'[b] => a = b
    BY DEF UseInv
  <1>4. \A a \in Accounts : token'[a] # 0 => uses'[token'[a]] = 0
    BY DEF UseInv
  <1> QED
    BY <1>1, <1>2, <1>3, <1>4 DEF UseInv

LEMMA UseStep ==
    ASSUME TL!TelegramAssumption
    PROVE  UseInv /\ [TL!Next]_TL!vars => UseInv'
  <1> SUFFICES ASSUME UseInv, [TL!Next]_TL!vars PROVE UseInv'
    OBVIOUS
  <1> TL!TypeOK /\ TL!TypeOK'
    BY TelegramTypeStep DEF UseInv
  <1> USE TelegramMostType
  <1>1. ASSUME NEW w \in Workers, NEW a \in Accounts, TL!LoadPage(w, a) \/ TL!LoadUnlink(w, a)
        PROVE  UseInv'
    <2>1. \A v \in Workers : task'[v].k = "bind" => task'[v] = task[v]
      BY <1>1 DEF TL!LoadPage, TL!LoadUnlink, TL!Begin, TL!TypeOK
    <2> QED
      BY <1>1, <2>1, UseKept DEF TL!LoadPage, TL!LoadUnlink
  <1>2. ASSUME NEW w \in Workers, TL!CommitPage(w) PROVE UseInv'
    <2>1. /\ task[w].a \in Accounts /\ links + 1 \in TL!Tokens
          /\ \A v \in Workers : task'[v] = IF v = w THEN TL!Idle ELSE task[v]
      BY <1>2, CommitJob, TelegramJobKind DEF TL!CommitPage, TL!TypeOK, TL!Tokens
    <2>2. links' = links + 1 /\ uses' = uses /\ token' = [token EXCEPT ![task[w].a] = links + 1]
      BY <1>2 DEF TL!CommitPage
    <2>3. ASSUME NEW t \in TL!Tokens PROVE uses'[t] + Cardinality(Using(t)') <= TL!Most
      <3>1. Using(t)' \in SUBSET Using(t)
        BY <2>1 DEF Using, TL!Idle
      <3>2. Cardinality(Using(t)') <= Cardinality(Using(t))
        BY <3>1, UsingSize, FS_Subset
      <3> QED
        BY <2>2, <3>2, UsingSize DEF UseInv, TL!TypeOK
    <2>4. \A v \in Workers : task'[v].k = "bind" =>
             /\ task'[v].t <= links'
             /\ \A b \in Accounts : token'[b] = task'[v].t => b = task'[v].a
      <3>1. \A v \in Workers : task'[v].k = "bind" => task'[v] = task[v] /\ task[v].t <= links
                                                  /\ task[v].t \in Int
        BY <2>1, TelegramJobKind DEF TL!Idle, UseInv, TL!TypeOK, TL!Tokens
      <3> QED
        BY <2>1, <2>2, <3>1 DEF UseInv, TL!TypeOK
    <2>5. \A x, b \in Accounts : token'[x] # 0 /\ token'[x] = token'[b] => x = b
      BY <2>1, <2>2 DEF UseInv, TL!TypeOK
    <2>6. \A x \in Accounts : token'[x] # 0 => uses'[token'[x]] = 0
      BY <2>1, <2>2 DEF UseInv, TL!TypeOK
    <2>7. \A t \in TL!Tokens : t > links' => uses'[t] = 0
      BY <2>2 DEF UseInv, TL!TypeOK, TL!Tokens
    <2> QED
      BY <2>3, <2>4, <2>5, <2>6, <2>7 DEF UseInv
  <1>3. ASSUME NEW w \in Workers, NEW call \in calls, TL!LoadCallback(w, call) PROVE UseInv'
    <2>1. PICK a \in Accounts :
            /\ token[a] = call.t /\ fresh[a]
            /\ TL!Begin(w, [k |-> "bind", a |-> a, t |-> call.t, c |-> call.c,
                         chat |-> chat[a], enabled |-> enabled[a]])
      BY <1>3 DEF TL!LoadCallback
    <2> DEFINE j == [k |-> "bind", a |-> a, t |-> call.t, c |-> call.c,
                     chat |-> chat[a], enabled |-> enabled[a]]
    <2>2. \A v \in Workers : task'[v] = IF v = w THEN j ELSE task[v]
      BY <2>1 DEF TL!Begin, TL!TypeOK
    <2>3. /\ links' = links /\ uses' = uses /\ token' = token
          /\ call.t \in TL!Tokens /\ call.t # 0 /\ uses[call.t] = 0 /\ call.t <= links
      BY <1>3, <2>1 DEF TL!LoadCallback, TL!TypeOK, UseInv, TL!Tokens
    <2>4. ASSUME NEW t \in TL!Tokens PROVE uses'[t] + Cardinality(Using(t)') <= TL!Most
      <3>1. CASE t = call.t
        BY <2>3, <3>1, UsingSize DEF TL!TypeOK
      <3>2. CASE t # call.t
        <4>1. Using(t)' \in SUBSET Using(t)
          BY <2>2, <3>2 DEF Using
        <4>2. Cardinality(Using(t)') <= Cardinality(Using(t))
          BY <4>1, UsingSize, FS_Subset
        <4> QED
          BY <2>3, <4>2, UsingSize DEF UseInv, TL!TypeOK
      <3> QED
        BY <3>1, <3>2
    <2>5. \A v \in Workers : task'[v].k = "bind" =>
             /\ task'[v].t <= links'
             /\ \A b \in Accounts : token'[b] = task'[v].t => b = task'[v].a
      BY <2>1, <2>2, <2>3 DEF UseInv
    <2> QED
      BY <2>3, <2>4, <2>5 DEF UseInv
  <1>4. ASSUME NEW w \in Workers, TL!CommitBind(w) PROVE UseInv'
    <2> DEFINE u == task[w].t
    <2>1. /\ task[w].k = "bind" /\ task[w].a \in Accounts /\ u \in TL!Tokens /\ u <= links
          /\ \A v \in Workers : task'[v] = IF v = w THEN TL!Idle ELSE task[v]
      BY <1>4, CommitJob, TelegramJobKind DEF TL!CommitBind, TL!TypeOK, UseInv
    <2>2. /\ links' = links /\ token' = [token EXCEPT ![task[w].a] = 0]
          /\ \A t \in TL!Tokens : uses'[t] = IF t = u /\ uses[t] <= TL!Most THEN uses[t] + 1 ELSE uses[t]
      BY <1>4, <2>1 DEF TL!CommitBind, TL!Bind, TL!TypeOK
    <2>3. ASSUME NEW t \in TL!Tokens PROVE uses'[t] + Cardinality(Using(t)') <= TL!Most
      <3>1. Using(t)' = IF t = u THEN Using(t) \ {w} ELSE Using(t)
        BY <2>1 DEF Using, TL!Idle
      <3>2. t = u => w \in Using(t)
        BY <2>1 DEF Using
      <3>3. t = u => Cardinality(Using(t)') = Cardinality(Using(t)) - 1
        BY <3>1, <3>2, UsingSize, FS_RemoveElement
      <3>4. uses[t] \in Nat /\ uses[t] + Cardinality(Using(t)) <= TL!Most
        BY DEF UseInv, TL!TypeOK
      <3> QED
        BY <2>2, <3>1, <3>3, <3>4, UsingSize
    <2>4. \A x \in Accounts : token'[x] # 0 => token'[x] = token[x] /\ token[x] # u
      BY <2>1, <2>2 DEF UseInv, TL!TypeOK
    <2>5. \A x \in Accounts : token'[x] # 0 => uses'[token'[x]] = 0
      <3>1. \A x \in Accounts : token[x] # 0 => token[x] \in TL!Tokens /\ uses[token[x]] = 0
        <4>1. ASSUME NEW x \in Accounts, token[x] # 0 PROVE token[x] \in TL!Tokens
          <5>1. token[x] \in 0 .. links /\ links \in 0 .. MaxToken
            BY DEF TL!TypeOK
          <5> QED
            BY <4>1, <5>1, TelegramFacts DEF TL!Tokens
        <4> QED
          BY <4>1 DEF UseInv
      <3> QED
        BY <2>2, <2>4, <3>1
    <2>6. \A v \in Workers : task'[v].k = "bind" =>
             /\ task'[v].t <= links'
             /\ \A b \in Accounts : token'[b] = task'[v].t => b = task'[v].a
      <3>1. ASSUME NEW v \in Workers, task'[v].k = "bind"
            PROVE  task'[v] = task[v] /\ task[v].t \in TL!Tokens
        BY <2>1, <3>1, TelegramJobKind DEF TL!Idle, TL!TypeOK
      <3> QED
        BY <2>2, <2>4, <3>1 DEF UseInv, TL!Tokens
    <2>7. \A t \in TL!Tokens : t > links' => uses'[t] = 0
      BY <2>1, <2>2 DEF UseInv, TL!Tokens, TL!TypeOK
    <2> QED
      BY <2>3, <2>4, <2>5, <2>6, <2>7 DEF UseInv
  <1>5. ASSUME NEW w \in Workers, TL!CommitUnlink(w) PROVE UseInv'
    <2>1. /\ task[w].a \in Accounts
          /\ \A v \in Workers : task'[v].k = "bind" => task'[v] = task[v]
      BY <1>5, CommitJob, TelegramJobKind DEF TL!CommitUnlink, TL!TypeOK, TL!Idle
    <2> QED
      BY <1>5, <2>1, UseKept DEF TL!CommitUnlink, TL!TypeOK
  <1>6. ASSUME (\E a \in Accounts : TL!Expire(a) \/ \E c \in Chats : TL!OpenLink(a, c)) \/ UNCHANGED TL!vars
        PROVE  UseInv'
    BY <1>6, UseKept DEF TL!Expire, TL!OpenLink, TL!vars
  <1> QED
    BY <1>1, <1>2, <1>3, <1>4, <1>5, <1>6 DEF TL!Next

\* However often the bot repeats its calls, a token is accepted by no more
\* callbacks than there are workers (telegram_link_callback).
THEOREM TokensAreUsedByFew ==
    ASSUME TL!TelegramAssumption
    PROVE  TL!Spec => []TL!UsedByFew
  <1>1. UseInv => TL!UsedByFew
    BY UsingSize, TelegramMostType DEF UseInv, TL!UsedByFew, TL!TypeOK
  <1> QED
    BY <1>1, UseInit, UseStep, PTL DEF TL!Spec

-----------------------------------------------------------------------------
(***************************************************************************)
(* How many accounts share a chat                                          *)
(***************************************************************************)
\* The workers that are about to link a chat, and the accounts that have it or
\* are about to.
Linking(c) == {w \in Workers : task[w].k = "bind" /\ task[w].c = c}
Sharing(c) == {a \in Accounts : chat[a] = c} \cup {task[w].a : w \in Linking(c)}

ShareInv == /\ TL!TypeOK
            /\ \A c \in Chats : IsFiniteSet(Sharing(c)) /\ Cardinality(Sharing(c)) <= TL!Most

LEMMA ShareInit ==
    ASSUME TL!TelegramAssumption
    PROVE  TL!Init => ShareInv
  <1> SUFFICES ASSUME TL!Init PROVE ShareInv
    OBVIOUS
  <1>1. \A c \in Chats : Sharing(c) = {}
    BY TelegramFacts DEF Sharing, Linking, TL!Init, TL!Idle
  <1> QED
    BY <1>1, TelegramTypeInit, FS_EmptySet, TelegramMostType DEF ShareInv

\* A step after which no account is about to have a chat that was not before.
LEMMA ShareKept ==
    ASSUME TL!TelegramAssumption, ShareInv, TL!TypeOK', \A c \in Chats : Sharing(c)' \in SUBSET Sharing(c)
    PROVE  ShareInv'
  <1>1. ASSUME NEW c \in Chats
        PROVE  IsFiniteSet(Sharing(c)') /\ Cardinality(Sharing(c)') <= TL!Most
    <2>1. /\ IsFiniteSet(Sharing(c)') /\ Cardinality(Sharing(c)') <= Cardinality(Sharing(c))
          /\ Cardinality(Sharing(c)') \in Nat /\ Cardinality(Sharing(c)) \in Nat
      BY FS_Subset, FS_CardinalityType DEF ShareInv
    <2> QED
      BY <2>1, TelegramMostType DEF ShareInv
  <1> QED
    BY <1>1 DEF ShareInv

\* The accounts of a set of workers' jobs are no more than the workers.
LEMMA FewAccounts ==
    ASSUME TL!TelegramAssumption, NEW W \in SUBSET Workers, NEW f
    PROVE  LET A == {f[w].a : w \in W} IN IsFiniteSet(A) /\ Cardinality(A) <= TL!Most
  <1> DEFINE A == {f[w].a : w \in W}
  <1>1. IsFiniteSet(W) /\ Cardinality(W) <= TL!Most /\ Cardinality(W) \in Nat
    BY TelegramFacts, FS_Subset, FS_CardinalityType, TelegramMostType
  <1>2. [w \in W |-> f[w].a] \in Surjection(W, A)
    BY DEF Surjection
  <1>3. IsFiniteSet(A) /\ Cardinality(A) <= Cardinality(W)
    BY <1>1, <1>2, FS_Surjection
  <1>4. Cardinality(A) \in Nat
    BY <1>3, FS_CardinalityType
  <1> QED
    BY <1>1, <1>3, <1>4, TelegramMostType

LEMMA ShareStep ==
    ASSUME TL!TelegramAssumption
    PROVE  ShareInv /\ [TL!Next]_TL!vars => ShareInv'
  <1> SUFFICES ASSUME ShareInv, [TL!Next]_TL!vars PROVE ShareInv'
    OBVIOUS
  <1> TL!TypeOK /\ TL!TypeOK'
    BY TelegramTypeStep DEF ShareInv
  <1>1. ASSUME NEW w \in Workers, NEW a \in Accounts, TL!LoadPage(w, a) \/ TL!LoadUnlink(w, a)
        PROVE  ShareInv'
    <2>1. \A v \in Workers : task'[v].k = "bind" => task'[v] = task[v]
      BY <1>1 DEF TL!LoadPage, TL!LoadUnlink, TL!Begin, TL!TypeOK
    <2>2. chat' = chat
      BY <1>1 DEF TL!LoadPage, TL!LoadUnlink
    <2> QED
      BY <2>1, <2>2, ShareKept DEF Sharing, Linking
  <1>2. ASSUME NEW w \in Workers, TL!CommitPage(w) PROVE ShareInv'
    <2>1. \A v \in Workers : task'[v].k = "bind" => task'[v] = task[v]
      BY <1>2, CommitJob DEF TL!CommitPage, TL!TypeOK, TL!Idle
    <2>2. chat' = chat
      BY <1>2 DEF TL!CommitPage
    <2> QED
      BY <2>1, <2>2, ShareKept DEF Sharing, Linking
  <1>3. ASSUME NEW w \in Workers, NEW call \in calls, TL!LoadCallback(w, call) PROVE ShareInv'
    <2>1. PICK a \in Accounts :
            /\ TL!Free(a, call.c)
            /\ TL!Begin(w, [k |-> "bind", a |-> a, t |-> call.t, c |-> call.c,
                         chat |-> chat[a], enabled |-> enabled[a]])
      BY <1>3 DEF TL!LoadCallback
    <2>2. \A v \in Workers : task'[v] = IF v = w
               THEN [k |-> "bind", a |-> a, t |-> call.t, c |-> call.c,
                     chat |-> chat[a], enabled |-> enabled[a]]
               ELSE task[v]
      BY <2>1 DEF TL!Begin, TL!TypeOK
    <2>3. chat' = chat
      BY <1>3 DEF TL!LoadCallback
    <2>4. ASSUME NEW c \in Chats
          PROVE  IsFiniteSet(Sharing(c)') /\ Cardinality(Sharing(c)') <= TL!Most
      <3>1. CASE c = call.c
        <4>1. w \in Linking(c)' /\ task'[w].a = a
          BY <2>2, <3>1 DEF Linking
        <4>2. {b \in Accounts : chat'[b] = c} \subseteq {a}
          BY <2>1, <2>3, <3>1 DEF TL!Free
        <4>3. Sharing(c)' = {task'[v].a : v \in Linking(c)'}
          BY <4>1, <4>2 DEF Sharing
        <4>4. Linking(c)' \in SUBSET Workers
          BY DEF Linking
        <4> QED
          BY <4>3, <4>4, FewAccounts
      <3>2. CASE c # call.c
        <4>1. Sharing(c)' = Sharing(c)
          <5>1. Linking(c)' = {v \in Workers : v # w /\ task[v].k = "bind" /\ task[v].c = c}
            BY <2>2, <3>2 DEF Linking
          <5>2. task[w].k # "bind"
            BY <2>1 DEF TL!Begin, TL!Idle
          <5>3. Linking(c)' = Linking(c) /\ w \notin Linking(c)
            BY <5>1, <5>2 DEF Linking
          <5>4. \A v \in Linking(c) : task'[v].a = task[v].a
            BY <2>2, <5>3 DEF Linking
          <5> QED
            BY <2>3, <5>3, <5>4 DEF Sharing
        <4> QED
          BY <4>1 DEF ShareInv
      <3> QED
        BY <3>1, <3>2
    <2> QED
      BY <2>4 DEF ShareInv
  <1>4. ASSUME NEW w \in Workers, TL!CommitBind(w) PROVE ShareInv'
    <2>1. /\ task[w].k = "bind" /\ task[w].a \in Accounts /\ task[w].c \in Chats
          /\ \A v \in Workers : task'[v] = IF v = w THEN TL!Idle ELSE task[v]
      BY <1>4, CommitJob, TelegramJobKind DEF TL!CommitBind, TL!TypeOK
    <2>2. \A a \in Accounts : chat'[a] \in {chat[a], IF a = task[w].a THEN task[w].c ELSE chat[a]}
      BY <1>4, <2>1 DEF TL!CommitBind, TL!Bind, TL!TypeOK
    <2>3. ASSUME NEW c \in Chats PROVE Sharing(c)' \in SUBSET Sharing(c)
      <3>1. Linking(c)' \subseteq Linking(c) \ {w}
        BY <2>1 DEF Linking, TL!Idle
      <3>2. \A v \in Linking(c)' : v \in Linking(c) /\ task'[v].a = task[v].a
        BY <2>1, <3>1 DEF Linking
      <3>3. ASSUME NEW a \in Accounts, chat'[a] = c, chat[a] # c PROVE a = task[w].a /\ w \in Linking(c)
        BY <2>1, <2>2, <3>3 DEF Linking
      <3> QED
        BY <3>2, <3>3 DEF Sharing
    <2> QED
      BY <2>3, ShareKept
  <1>5. ASSUME NEW w \in Workers, TL!CommitUnlink(w) PROVE ShareInv'
    <2>1. /\ task[w].a \in Accounts
          /\ \A v \in Workers : task'[v].k = "bind" => task'[v] = task[v]
      BY <1>5, CommitJob, TelegramJobKind DEF TL!CommitUnlink, TL!TypeOK, TL!Idle
    <2>2. \A a \in Accounts : chat'[a] \in {chat[a], NoChat}
      BY <1>5, <2>1 DEF TL!CommitUnlink, TL!TypeOK
    <2> QED
      BY <2>1, <2>2, ShareKept, TelegramFacts DEF Sharing, Linking
  <1>6. ASSUME (\E a \in Accounts : TL!Expire(a) \/ \E c \in Chats : TL!OpenLink(a, c)) \/ UNCHANGED TL!vars
        PROVE  ShareInv'
    <2>1. task' = task /\ chat' = chat
      BY <1>6 DEF TL!Expire, TL!OpenLink, TL!vars
    <2> QED
      BY <2>1, ShareKept DEF Sharing, Linking
  <1> QED
    BY <1>1, <1>2, <1>3, <1>4, <1>5, <1>6 DEF TL!Next

\* Callbacks that overtake each other may link one chat to several accounts,
\* but never to more than there are workers, however long this goes on
\* (telegram_link_callback).
THEOREM ChatsAreSharedByFew ==
    ASSUME TL!TelegramAssumption
    PROVE  TL!Spec => []TL!SharedByFew
  <1>1. ShareInv => TL!SharedByFew
    <2> SUFFICES ASSUME ShareInv, NEW c \in Chats
                 PROVE  Cardinality({a \in Accounts : chat[a] = c}) <= TL!Most
      BY SameSize DEF TL!SharedByFew
    <2>1. {a \in Accounts : chat[a] = c} \in SUBSET Sharing(c)
      BY DEF Sharing
    <2> DEFINE A == {a \in Accounts : chat[a] = c}
    <2>2. /\ Cardinality(A) <= Cardinality(Sharing(c))
          /\ Cardinality(A) \in Nat /\ Cardinality(Sharing(c)) \in Nat
      BY <2>1, FS_Subset, FS_CardinalityType DEF ShareInv
    <2> QED
      BY <2>2, TelegramMostType DEF ShareInv
  <1> QED
    BY <1>1, ShareInit, ShareStep, PTL DEF TL!Spec

=============================================================================
