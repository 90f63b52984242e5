----------------------- MODULE FunctionPipelineProofs -----------------------
(* Theorems about FunctionPipeline: for every request, record and option.    *)
EXTENDS FunctionPipeline, FiniteSetTheorems, SequenceTheorems, WellFoundedInduction, TLAPS
-----------------------------------------------------------------------------
(* Numbers, induction and recursion.  The library's theorems of induction    *)
(* take an operator; these take a set, and a function for the recursion.     *)

Less == {p \in Nat \X Nat : p[1] < p[2]}

LEMMA LeastNumber ==
  ASSUME NEW S \in SUBSET Nat, S # {}
  PROVE  \E x \in S : \A y \in S : x <= y
<1>1. Less = OpToRel(<, Nat)
  BY DEF Less, OpToRel
<1>2. IsWellFoundedOn(Less, Nat)
  BY <1>1, NatLessThanWellFounded
<1>3. PICK x \in S : \A y \in S : ~(<<y, x>> \in Less)
  BY <1>2, WFMin
<1>4. \A y \in S : x <= y
  <2> TAKE y \in S
  <2>1. ~(y < x)
    BY <1>3 DEF Less
  <2>2. QED
    BY <2>1
<1>5. QED
  BY <1>4

LEMMA MinOf ==
  ASSUME NEW S \in SUBSET Nat, S # {}
  PROVE  Min(S) \in S /\ \A y \in S : Min(S) <= y
BY LeastNumber DEF Min

LEMMA MaxOf ==
  ASSUME NEW S \in SUBSET Nat, S # {}, NEW n \in Nat, \A y \in S : y <= n
  PROVE  Max(S) \in S /\ \A y \in S : y <= Max(S)
<1> DEFINE B == {b \in Nat : \A y \in S : y <= b}
<1>1. PICK b \in B : \A c \in B : b <= c
  <2>1. n \in B
    OBVIOUS
  <2>2. QED
    BY <2>1, LeastNumber
<1>2. b \in S
  <2>1. SUFFICES ASSUME b \notin S PROVE FALSE
    OBVIOUS
  <2>2. PICK y \in S : TRUE
    OBVIOUS
  <2>3. \A z \in S : z <= b - 1
    BY <2>1
  <2>4. b - 1 \in B
    BY <2>2, <2>3
  <2>5. QED
    BY <1>1, <2>4
<1>3. QED
  BY <1>2 DEF Max

LEMMA Induction ==
  ASSUME NEW T, 0 \in T, \A n \in Nat : n \in T => n + 1 \in T
  PROVE  \A n \in Nat : n \in T
<1> DEFINE S == {n \in Nat : n \notin T}
<1>1. SUFFICES ASSUME S # {} PROVE FALSE
  OBVIOUS
<1>2. PICK m \in S : \A y \in S : m <= y
  BY <1>1, LeastNumber
<1>3. m \in Nat /\ m # 0
  OBVIOUS
<1>4. m - 1 \in Nat /\ m - 1 \notin S
  BY <1>2, <1>3
<1>5. (m - 1) + 1 \in T
  BY <1>4
<1>6. (m - 1) + 1 = m
  BY <1>3
<1>7. QED
  BY <1>5, <1>6

\* A function that starts with base and goes on by the n-th function of step.
Follows(h, S, base, step) ==
  h \in [Nat -> S] /\ h[0] = base /\ \A n \in Nat : h[n + 1] = step[n + 1][h[n]]

LEMMA Recursion ==
  ASSUME NEW S, NEW base \in S, NEW step \in [Nat -> [S -> S]]
  PROVE  \E h : Follows(h, S, base, step)
<1> DEFINE Begun(n) == {h \in [0 .. n -> S] : /\ h[0] = base
                                              /\ \A k \in 0 .. n : k # n => h[k + 1] = step[k + 1][h[k]]}
           T == {n \in Nat : Begun(n) # {}}
<1>1. 0 \in T
  <2>1. [k \in 0 .. 0 |-> base] \in Begun(0)
    OBVIOUS
  <2>2. QED
    BY <2>1
<1>2. ASSUME NEW n \in Nat, n \in T PROVE n + 1 \in T
  <2>1. PICK h \in Begun(n) : TRUE
    BY <1>2
  <2> DEFINE g == [k \in 0 .. n + 1 |-> IF k <= n THEN h[k] ELSE step[n + 1][h[n]]]
  <2>2. h[n] \in S /\ step[n + 1] \in [S -> S]
    BY <2>1
  <2>3. g \in [0 .. n + 1 -> S]
    <3>1. \A k \in 0 .. n + 1 : k <= n => k \in 0 .. n
      OBVIOUS
    <3>2. QED
      BY <2>1, <2>2, <3>1
  <2>4. g[0] = base
    BY <2>1
  <2>5. ASSUME NEW k \in 0 .. n + 1, k # n + 1 PROVE g[k + 1] = step[k + 1][g[k]]
    <3>1. k \in 0 .. n /\ g[k] = h[k]
      BY <2>5
    <3>2. CASE k = n
      BY <3>1, <3>2
    <3>3. CASE k # n
      BY <2>1, <3>1, <3>3
    <3>4. QED
      BY <3>2, <3>3
  <2>6. g \in Begun(n + 1)
    BY <2>3, <2>4, <2>5
  <2> HIDE DEF Begun, g
  <2>7. QED
    BY <2>6
<1>3. \A n \in Nat : n \in T
  <2> HIDE DEF T
  <2>1. QED
    BY <1>1, <1>2, Induction
<1>4. ASSUME NEW n \in Nat, NEW m \in Nat, n <= m, NEW g \in Begun(n), NEW h \in Begun(m)
      PROVE  \A k \in 0 .. n : g[k] = h[k]
  <2> DEFINE A == {k \in Nat : k <= n => g[k] = h[k]}
  <2>1. 0 \in A
    OBVIOUS
  <2>2. ASSUME NEW k \in Nat, k \in A PROVE k + 1 \in A
    <3>1. SUFFICES ASSUME k + 1 <= n PROVE g[k + 1] = h[k + 1]
      OBVIOUS
    <3>2. k \in 0 .. n /\ k # n /\ k \in 0 .. m /\ k # m
      BY <1>4, <3>1
    <3>3. g[k] = h[k]
      BY <2>2, <3>2
    <3>4. QED
      BY <3>2, <3>3
  <2>3. \A k \in Nat : k \in A
    <3> HIDE DEF A
    <3>1. QED
      BY <2>1, <2>2, Induction
  <2>4. QED
    BY <2>3
<1> DEFINE of(n) == CHOOSE h \in Begun(n) : TRUE
           limit == [n \in Nat |-> of(n)[n]]
<1>5. \A n \in Nat : of(n) \in Begun(n)
  BY <1>3
<1> HIDE DEF of
<1>6. limit \in [Nat -> S]
  <2>1. \A n \in Nat : of(n)[n] \in S
    BY <1>5
  <2>2. QED
    BY <2>1
<1>7. limit[0] = base
  BY <1>5
<1>8. ASSUME NEW n \in Nat PROVE limit[n + 1] = step[n + 1][limit[n]]
  <2>1. of(n + 1) \in Begun(n + 1) /\ of(n) \in Begun(n)
    BY <1>5
  <2>2. of(n)[n] = of(n + 1)[n]
    <3> HIDE DEF Begun
    <3>1. \A k \in 0 .. n : of(n)[k] = of(n + 1)[k]
      BY <1>4, <2>1
    <3>2. QED
      BY <3>1
  <2>3. of(n + 1)[n + 1] = step[n + 1][of(n + 1)[n]]
    BY <2>1
  <2>4. QED
    BY <2>2, <2>3
<1>9. Follows(limit, S, base, step)
  BY <1>6, <1>7, <1>8 DEF Follows
<1>10. QED
  BY <1>9

-----------------------------------------------------------------------------
(* What is reached: the least set that holds the start and is closed.        *)

LEMMA ReachedIs ==
  ASSUME NEW N, IsFiniteSet(N), NEW edges \in [N -> SUBSET N], NEW from \in SUBSET N
  PROVE  /\ from \subseteq Reached(edges, from) /\ Reached(edges, from) \subseteq N
         /\ \A x \in Reached(edges, from) : edges[x] \subseteq Reached(edges, from)
         /\ \A T : from \subseteq T /\ (\A x \in T \cap N : edges[x] \subseteq T)
                     => Reached(edges, from) \subseteq T
<1> DEFINE more(before) == before \union UNION {edges[x] : x \in before}
           Eq(g) == g = [n \in Nat |-> IF n = 0 THEN from ELSE more(g[n - 1])]
           step == CHOOSE g : Eq(g)
           c == Cardinality(N)
<1>1. \A before \in SUBSET N : more(before) \in SUBSET N /\ before \subseteq more(before)
  OBVIOUS
<1>2. \E g : Eq(g)
  <2> DEFINE go == [n \in Nat |-> [before \in SUBSET N |-> more(before)]]
  <2>1. go \in [Nat -> [SUBSET N -> SUBSET N]]
    BY <1>1
  <2>2. PICK g : Follows(g, SUBSET N, from, go)
    BY <2>1, Recursion
  <2>3. ASSUME NEW n \in Nat PROVE g[n] = IF n = 0 THEN from ELSE more(g[n - 1])
    <3>1. CASE n = 0
      BY <2>2, <3>1 DEF Follows
    <3>2. CASE n # 0
      <4>1. n - 1 \in Nat /\ (n - 1) + 1 = n
        BY <3>2
      <4>2. g[(n - 1) + 1] = go[(n - 1) + 1][g[n - 1]] /\ g[n - 1] \in SUBSET N
        BY <2>2, <4>1 DEF Follows
      <4>3. g[n] = more(g[n - 1])
        BY <4>1, <4>2
      <4>4. QED
        BY <3>2, <4>3
    <3>3. QED
      BY <3>1, <3>2
  <2>4. Eq(g)
    BY <2>2, <2>3 DEF Follows
  <2>5. QED
    BY <2>4
<1>3. Eq(step)
  BY <1>2
<1>4. Reached(edges, from) = step[c]
  BY DEF Reached
<1> HIDE DEF step
<1>5. step[0] = from /\ \A n \in Nat : step[n + 1] = more(step[n])
  <2>1. step[0] = from
    BY <1>3
  <2>2. ASSUME NEW n \in Nat PROVE step[n + 1] = more(step[n])
    <3>1. n + 1 \in Nat /\ n + 1 # 0 /\ (n + 1) - 1 = n
      OBVIOUS
    <3>2. step[n + 1] = more(step[(n + 1) - 1])
      BY <1>3, <3>1
    <3>3. QED
      BY <3>1, <3>2
  <2>3. QED
    BY <2>1, <2>2
<1> HIDE DEF more, Eq
<1>6. \A n \in Nat : step[n] \in SUBSET N
  <2> DEFINE T == {n \in Nat : step[n] \in SUBSET N}
  <2>1. 0 \in T
    BY <1>5
  <2>2. \A n \in Nat : n \in T => n + 1 \in T
    BY <1>1, <1>5
  <2>3. \A n \in Nat : n \in T
    <3> HIDE DEF T
    <3>1. QED
      BY <2>1, <2>2, Induction
  <2>4. QED
    BY <2>3
<1>7. \A n \in Nat : step[n] \subseteq step[n + 1]
  BY <1>1, <1>5, <1>6
<1>8. c \in Nat
  BY FS_CardinalityType
<1>9. ASSUME NEW k \in Nat, step[k + 1] = step[k] PROVE \A n \in Nat : n >= k => step[n] = step[k]
  <2> DEFINE T == {n \in Nat : n >= k => step[n] = step[k]}
  <2>1. 0 \in T
    OBVIOUS
  <2>2. ASSUME NEW n \in Nat, n \in T PROVE n + 1 \in T
    <3>1. SUFFICES ASSUME n + 1 >= k PROVE step[n + 1] = step[k]
      OBVIOUS
    <3>2. CASE n + 1 = k
      BY <3>2
    <3>3. CASE n + 1 # k
      <4>1. n >= k
        BY <3>1, <3>3
      <4>2. step[n] = step[k]
        BY <2>2, <4>1
      <4>3. QED
        BY <1>5, <1>9, <4>2
    <3>4. QED
      BY <3>2, <3>3
  <2>3. \A n \in Nat : n \in T
    <3> HIDE DEF T
    <3>1. QED
      BY <2>1, <2>2, Induction
  <2>4. QED
    BY <2>3
<1>10. \E k \in 0 .. c : step[k + 1] = step[k]
  <2>1. SUFFICES ASSUME \A k \in 0 .. c : step[k + 1] # step[k] PROVE FALSE
    OBVIOUS
  <2> DEFINE T == {n \in Nat : n <= c => Cardinality(step[n]) >= n + 1}
  <2>2. ASSUME NEW n \in Nat PROVE IsFiniteSet(step[n]) /\ Cardinality(step[n]) \in Nat /\ Cardinality(step[n]) <= c
    BY <1>6, FS_Subset, FS_CardinalityType
  <2>3. 0 \in T
    <3>1. step[1] # step[0]
      <4>1. step[0 + 1] # step[0]
        BY <1>8, <2>1
      <4>2. QED
        BY <4>1
    <3>2. step[0] # {}
      <4>1. SUFFICES ASSUME step[0] = {} PROVE FALSE
        OBVIOUS
      <4>2. step[0 + 1] = more(step[0])
        BY <1>5
      <4>3. step[0 + 1] = {}
        BY <4>1, <4>2 DEF more
      <4>4. QED
        BY <3>1, <4>1, <4>3
    <3>3. Cardinality(step[0]) # 0
      BY <2>2, <3>2, FS_EmptySet
    <3>4. Cardinality(step[0]) >= 1
      BY <2>2, <3>3
    <3>5. QED
      BY <3>4
  <2>4. ASSUME NEW n \in Nat, n \in T PROVE n + 1 \in T
    <3>1. SUFFICES ASSUME n + 1 <= c PROVE Cardinality(step[n + 1]) >= n + 2
      OBVIOUS
    <3>2. n \in 0 .. c /\ Cardinality(step[n]) >= n + 1
      BY <1>8, <2>4, <3>1
    <3>3. step[n] \subseteq step[n + 1] /\ step[n + 1] # step[n]
      BY <1>7, <2>1, <3>2
    <3>4. Cardinality(step[n]) < Cardinality(step[n + 1])
      <4>1. IsFiniteSet(step[n + 1]) /\ Cardinality(step[n + 1]) \in Nat /\ Cardinality(step[n]) \in Nat
        BY <2>2
      <4>2. Cardinality(step[n]) <= Cardinality(step[n + 1])
            /\ (Cardinality(step[n]) = Cardinality(step[n + 1]) => step[n] = step[n + 1])
        BY <3>3, <4>1, FS_Subset
      <4>3. QED
        BY <3>3, <4>1, <4>2
    <3>5. QED
      BY <2>2, <3>2, <3>4
  <2>5. \A n \in Nat : n \in T
    <3> HIDE DEF T
    <3>1. QED
      BY <2>3, <2>4, Induction
  <2>6. Cardinality(step[c]) >= c + 1
    BY <1>8, <2>5
  <2>7. QED
    BY <1>8, <2>2, <2>6
<1>11. more(step[c]) = step[c]
  <2>1. PICK k \in 0 .. c : step[k + 1] = step[k]
    BY <1>10
  <2>2. step[c] = step[k] /\ step[c + 1] = step[k]
    BY <1>8, <1>9, <2>1
  <2>3. QED
    BY <1>5, <1>8, <2>2
<1>12. from \subseteq step[c]
  <2> DEFINE T == {n \in Nat : from \subseteq step[n]}
  <2>1. 0 \in T /\ \A n \in Nat : n \in T => n + 1 \in T
    BY <1>5, <1>7
  <2>2. \A n \in Nat : n \in T
    <3> HIDE DEF T
    <3>1. QED
      BY <2>1, Induction
  <2>3. QED
    BY <1>8, <2>2
<1>13. ASSUME NEW T, from \subseteq T, \A x \in T \cap N : edges[x] \subseteq T
       PROVE  step[c] \subseteq T
  <2> DEFINE A == {n \in Nat : step[n] \subseteq T}
  <2>1. 0 \in A
    BY <1>5, <1>13
  <2>2. ASSUME NEW n \in Nat, n \in A PROVE n + 1 \in A
    <3>1. more(step[n]) \subseteq T
      BY <1>6, <1>13, <2>2 DEF more
    <3>2. QED
      BY <1>5, <3>1
  <2>3. \A n \in Nat : n \in A
    <3> HIDE DEF A
    <3>1. QED
      BY <2>1, <2>2, Induction
  <2>4. QED
    BY <1>8, <2>3
<1>14. \A x \in step[c] : edges[x] \subseteq step[c]
  BY <1>11 DEF more
<1>15. QED
  BY <1>4, <1>6, <1>8, <1>12, <1>13, <1>14

-----------------------------------------------------------------------------
(* A finite set of numbers, numbered from below.                             *)

LEMMA PlaceIs ==
  ASSUME NEW S \in SUBSET Nat, IsFiniteSet(S), NEW x \in S
  PROVE  /\ Place(S, x) \in 0 .. Cardinality(S) - 1
         /\ \A y \in S : x < y => Place(S, x) < Place(S, y)
<1> DEFINE Under(z) == {y \in S : y < z}
<1>1. \A z : IsFiniteSet(Under(z)) /\ Cardinality(Under(z)) \in Nat /\ Cardinality(Under(z)) <= Cardinality(S)
  <2> TAKE z
  <2>1. Under(z) \in SUBSET S
    OBVIOUS
  <2>2. QED
    BY <2>1, FS_Subset, FS_CardinalityType
<1>2. Cardinality(S) \in Nat
  BY FS_CardinalityType
<1>3. Cardinality(Under(x)) # Cardinality(S)
  <2>1. Under(x) \in SUBSET S /\ x \notin Under(x)
    OBVIOUS
  <2>2. QED
    BY <1>2, <2>1, FS_Subset
<1>4. ASSUME NEW y \in S, x < y PROVE Cardinality(Under(x)) < Cardinality(Under(y))
  <2>1. Under(x) \subseteq Under(y) /\ x \in Under(y) /\ x \notin Under(x)
    <3>1. x \in Int /\ y \in Int /\ S \subseteq Int
      OBVIOUS
    <3>2. \A z \in S : z < x => z < y
      BY <1>4, <3>1
    <3>3. ~(x < x)
      BY <3>1
    <3>4. QED
      BY <1>4, <3>2, <3>3
  <2> HIDE DEF Under
  <2>2. Cardinality(Under(x)) <= Cardinality(Under(y)) /\ Cardinality(Under(x)) # Cardinality(Under(y))
    BY <1>1, <2>1, FS_Subset
  <2>3. QED
    BY <1>1, <2>2
<1>5. QED
  BY <1>1, <1>2, <1>3, <1>4 DEF Place

LEMMA NthIs ==
  ASSUME NEW S \in SUBSET Nat, IsFiniteSet(S)
  PROVE  /\ Cardinality(S) \in Nat
         /\ \A k \in 0 .. Cardinality(S) - 1 : Nth(S, k) \in S /\ Place(S, Nth(S, k)) = k
         /\ \A x \in S : Place(S, x) \in 0 .. Cardinality(S) - 1 /\ Nth(S, Place(S, x)) = x
         /\ \A j, k \in 0 .. Cardinality(S) - 1 : j < k <=> Nth(S, j) < Nth(S, k)
<1> DEFINE n == Cardinality(S)
           T == {k \in Nat : k < n => \E x \in S : Place(S, x) = k}
<1>1. n \in Nat
  BY FS_CardinalityType
<1>2. 0 \in T
  <2>1. SUFFICES ASSUME 0 < n PROVE \E x \in S : Place(S, x) = 0
    OBVIOUS
  <2>2. S # {}
    BY <2>1, FS_EmptySet
  <2>3. PICK x \in S : \A y \in S : x <= y
    BY <2>2, LeastNumber
  <2>4. {y \in S : y < x} = {}
    <3>1. \A y \in S : ~(y < x)
      BY <2>3
    <3>2. QED
      BY <3>1
  <2>5. Place(S, x) = 0
    BY <2>4, FS_EmptySet DEF Place
  <2>6. QED
    BY <2>5
<1>3. ASSUME NEW k \in Nat, k \in T PROVE k + 1 \in T
  <2>1. SUFFICES ASSUME k + 1 < n PROVE \E x \in S : Place(S, x) = k + 1
    OBVIOUS
  <2>2. PICK x \in S : Place(S, x) = k
    BY <1>1, <1>3, <2>1
  <2> DEFINE U == {y \in S : y < x}
             V == {y \in S : x < y}
  <2>3. U \in SUBSET S /\ IsFiniteSet(U) /\ Cardinality(U) = k
    BY <2>2, FS_Subset DEF Place
  <2>4. IsFiniteSet(U \union {x}) /\ Cardinality(U \union {x}) = k + 1
    <3>1. ~(x < x)
      OBVIOUS
    <3>2. x \notin U
      BY <3>1
    <3> HIDE DEF U
    <3>3. QED
      BY <2>3, <3>2, FS_AddElement
  <2>5. V # {}
    <3>1. SUFFICES ASSUME V = {} PROVE FALSE
      OBVIOUS
    <3>2. S \subseteq U \union {x}
      <4>1. \A y \in S : y < x \/ y = x \/ x < y
        OBVIOUS
      <4>2. QED
        BY <3>1, <4>1
    <3>3. n <= k + 1
      <4> DEFINE W == U \union {x}
      <4>1. IsFiniteSet(W) /\ Cardinality(W) = k + 1 /\ S \in SUBSET W
        BY <2>4, <3>2
      <4> HIDE DEF W
      <4>2. Cardinality(S) <= Cardinality(W)
        BY <4>1, FS_Subset
      <4>3. QED
        BY <4>1, <4>2
    <3>4. n \in Nat /\ k \in Nat
      BY <1>1
    <3> HIDE DEF n
    <3>5. QED
      BY <2>1, <3>3, <3>4
  <2>6. PICK z \in V : \A y \in V : z <= y
    BY <2>5, LeastNumber
  <2>7. {y \in S : y < z} = U \union {x}
    <3>1. \A y \in S : y \in Int /\ (y < z => ~(x < y))
      BY <2>6
    <3>2. \A y \in S : ~(x < y) => y < x \/ y = x
      OBVIOUS
    <3>3. z \in Nat /\ x < z
      OBVIOUS
    <3>4. \A y \in S : y < x => y < z
      BY <3>3
    <3>5. QED
      BY <3>1, <3>2, <3>3, <3>4
  <2>8. Place(S, z) = k + 1
    BY <2>4, <2>7 DEF Place
  <2>9. QED
    BY <2>8
<1>4. \A k \in Nat : k \in T
  <2> HIDE DEF T
  <2>1. QED
    BY <1>2, <1>3, Induction
<1>5. ASSUME NEW k \in 0 .. n - 1 PROVE Nth(S, k) \in S /\ Place(S, Nth(S, k)) = k
  <2>1. k \in Nat /\ k < n
    BY <1>1
  <2>2. \E x \in S : Place(S, x) = k
    BY <1>4, <2>1
  <2>3. QED
    BY <2>2 DEF Nth
<1>6. \A x, y \in S : Place(S, x) = Place(S, y) => x = y
  <2> TAKE x, y \in S
  <2> HAVE Place(S, x) = Place(S, y)
  <2>1. x \in Nat /\ y \in Nat /\ Place(S, x) \in Int /\ Place(S, y) \in Int
    BY <1>1, PlaceIs
  <2>2. ~(x < y) /\ ~(y < x)
    BY <2>1, PlaceIs
  <2>3. QED
    BY <2>1, <2>2
<1>7. ASSUME NEW x \in S PROVE Place(S, x) \in 0 .. n - 1 /\ Nth(S, Place(S, x)) = x
  <2>1. Place(S, x) \in 0 .. n - 1
    BY PlaceIs
  <2>2. QED
    BY <1>5, <1>6, <2>1
<1>8. ASSUME NEW j \in 0 .. n - 1, NEW k \in 0 .. n - 1 PROVE j < k <=> Nth(S, j) < Nth(S, k)
  <2>1. /\ Nth(S, j) \in S /\ Place(S, Nth(S, j)) = j
        /\ Nth(S, k) \in S /\ Place(S, Nth(S, k)) = k
    BY <1>5
  <2>2. Nth(S, j) \in Nat /\ Nth(S, k) \in Nat /\ j \in Int /\ k \in Int
    <3>1. Nth(S, j) \in S /\ Nth(S, k) \in S
      BY <2>1
    <3>2. Nth(S, j) \in Nat /\ Nth(S, k) \in Nat
      BY <3>1
    <3>3. j \in Int /\ k \in Int
      BY <1>1
    <3>4. QED
      BY <3>2, <3>3
  <2>3. Nth(S, j) < Nth(S, k) => j < k
    BY <2>1, PlaceIs
  <2>4. Nth(S, k) < Nth(S, j) => k < j
    BY <2>1, PlaceIs
  <2>5. QED
    BY <2>1, <2>2, <2>3, <2>4
<1>9. QED
  BY <1>1, <1>5, <1>7, <1>8

-----------------------------------------------------------------------------
(* Leaders and blocks.                                                       *)

\* The addresses of a record, and what an instruction is.
LEMMA CodeIs ==
  ASSUME NEW code, CodeOK(code)
  PROVE  \E lo \in Nat \ {0}, hi \in Nat :
           /\ lo <= hi /\ DOMAIN code = lo .. hi /\ Min(DOMAIN code) = lo /\ Max(DOMAIN code) = hi
           /\ IsFiniteSet(DOMAIN code)
           /\ \A a \in DOMAIN code : code[a].op \in Kinds /\ code[a].to \in Nat
<1>1. PICK lo, hi \in DOMAIN code : lo \in Nat \ {0} /\ DOMAIN code = lo .. hi
  BY DEF CodeOK
<1>2. hi \in Nat /\ lo <= hi
  BY <1>1
<1>3. lo .. hi \in SUBSET Nat /\ lo \in lo .. hi /\ hi \in lo .. hi /\ \A y \in lo .. hi : lo <= y /\ y <= hi
  BY <1>1, <1>2
<1>4. Min(lo .. hi) = lo
  <2>1. Min(lo .. hi) \in lo .. hi /\ Min(lo .. hi) <= lo
    BY <1>3, MinOf
  <2>2. QED
    BY <1>1, <2>1
<1>5. Max(lo .. hi) = hi
  <2>1. Max(lo .. hi) \in lo .. hi /\ hi <= Max(lo .. hi)
    BY <1>2, <1>3, MaxOf
  <2>2. QED
    BY <1>2, <2>1
<1>6. IsFiniteSet(lo .. hi)
  BY <1>1, <1>2, FS_Interval
<1>7. \A a \in DOMAIN code : code[a].op \in Kinds /\ code[a].to \in Nat
  BY DEF CodeOK, Instruction
<1>8. QED
  BY <1>1, <1>2, <1>4, <1>5, <1>6, <1>7

\* Each block is where it is said to be: it begins at a leader, has no other, and ends
\* before the next block or with the record.
BlocksAre(code, blocks) ==
  LET leaders == Leaders(code) IN
  /\ DOMAIN blocks = 0 .. Cardinality(leaders) - 1 /\ Cardinality(leaders) \in Nat
  /\ 0 \in DOMAIN blocks /\ blocks[0].start = Min(DOMAIN code)
  /\ \A k \in DOMAIN blocks :
       /\ blocks[k].start \in leaders /\ blocks[k].last \in DOMAIN code
       /\ blocks[k].start \in Nat /\ blocks[k].last \in Nat /\ blocks[k].start <= blocks[k].last
       /\ Addresses(blocks[k]) \cap leaders = {blocks[k].start}
       /\ blocks[k].last + 1 \in DOMAIN code => blocks[k].last + 1 \in leaders
  /\ \A l \in leaders : \E k \in DOMAIN blocks : blocks[k].start = l
  /\ \A j, k \in DOMAIN blocks : j < k => blocks[j].last < blocks[k].start
  /\ \A k \in DOMAIN blocks : k + 1 \in DOMAIN blocks => blocks[k + 1].start = blocks[k].last + 1
  /\ \A k \in DOMAIN blocks : blocks[k].last + 1 \in DOMAIN code => k + 1 \in DOMAIN blocks
  /\ \A a \in DOMAIN code : \E k \in DOMAIN blocks : a \in Addresses(blocks[k])

LEMMA BlocksOf ==
  ASSUME NEW code, CodeOK(code)
  PROVE  BlocksAre(code, Blocks(code))
<1> DEFINE L == Leaders(code)
           D == DOMAIN code
           n == Cardinality(L)
           B == Blocks(code)
           In(from) == {a \in D : a >= from /\ \A l \in L : l <= from \/ l > a}
<1>1. PICK lo \in Nat \ {0}, hi \in Nat : /\ lo <= hi /\ D = lo .. hi /\ Min(D) = lo
                                          /\ IsFiniteSet(D)
  BY CodeIs
<1>2. L \subseteq D /\ lo \in L
  BY <1>1 DEF Leaders
<1>3. L \in SUBSET Nat /\ IsFiniteSet(L)
  BY <1>1, <1>2, FS_Subset
<1>4. /\ n \in Nat
      /\ \A k \in 0 .. n - 1 : Nth(L, k) \in L /\ Place(L, Nth(L, k)) = k
      /\ \A x \in L : Place(L, x) \in 0 .. n - 1 /\ Nth(L, Place(L, x)) = x
      /\ \A j, k \in 0 .. n - 1 : j < k <=> Nth(L, j) < Nth(L, k)
  BY <1>3, NthIs
<1>5. /\ DOMAIN B = 0 .. n - 1
      /\ \A k \in DOMAIN B : B[k].start = Nth(L, k) /\ B[k].last = Max(In(Nth(L, k)))
  BY DEF Blocks
<1> HIDE DEF L, B, n, D
<1>6. ASSUME NEW l \in L PROVE Max(In(l)) \in In(l) /\ \A y \in In(l) : y <= Max(In(l))
  <2>1. In(l) \in SUBSET Nat
    BY <1>1
  <2>2. l \in In(l)
    BY <1>2, <1>3
  <2>3. \A y \in In(l) : y <= hi
    BY <1>1
  <2> HIDE DEF In
  <2>4. QED
    BY <2>1, <2>2, <2>3, MaxOf
<1>7. ASSUME NEW k \in DOMAIN B
      PROVE  /\ B[k].start \in L /\ B[k].last \in D /\ B[k].start \in Nat /\ B[k].last \in Nat
             /\ B[k].start <= B[k].last
             /\ \A l \in L : l <= B[k].start \/ l > B[k].last
             /\ \A a \in D : a >= B[k].start /\ (\A l \in L : l <= B[k].start \/ l > a) => a <= B[k].last
  <2> HIDE DEF In
  <2>1. B[k].start \in L /\ B[k].last = Max(In(B[k].start))
    BY <1>4, <1>5
  <2>2. B[k].last \in In(B[k].start) /\ \A y \in In(B[k].start) : y <= B[k].last
    BY <1>6, <2>1
  <2>3. /\ B[k].last \in D /\ B[k].last >= B[k].start
        /\ \A l \in L : l <= B[k].start \/ l > B[k].last
    BY <2>2 DEF In
  <2>4. ASSUME NEW a \in D, a >= B[k].start, \A l \in L : l <= B[k].start \/ l > a
        PROVE  a <= B[k].last
    <3>1. a \in In(B[k].start)
      BY <2>4 DEF In
    <3>2. QED
      BY <2>2, <3>1
  <2>5. B[k].start \in Nat /\ B[k].last \in Nat
    <3>1. D \subseteq Nat
      BY <1>1
    <3>2. QED
      BY <1>3, <2>1, <2>3, <3>1
  <2>6. B[k].start <= B[k].last
    BY <2>3, <2>5
  <2>7. QED
    BY <2>1, <2>3, <2>4, <2>5, <2>6
<1>8. ASSUME NEW k \in DOMAIN B PROVE Addresses(B[k]) \cap L = {B[k].start}
  <2>1. \A l \in L : l \in Addresses(B[k]) => l = B[k].start
    BY <1>3, <1>7 DEF Addresses
  <2>2. B[k].start \in Addresses(B[k]) /\ B[k].start \in L
    BY <1>7 DEF Addresses
  <2>3. QED
    BY <2>1, <2>2
<1>9. ASSUME NEW k \in DOMAIN B, B[k].last + 1 \in D PROVE B[k].last + 1 \in L
  <2>1. SUFFICES ASSUME B[k].last + 1 \notin L PROVE FALSE
    OBVIOUS
  <2>2. \A l \in L : l <= B[k].start \/ l > B[k].last + 1
    BY <1>3, <1>7, <2>1
  <2>3. B[k].last + 1 <= B[k].last
    BY <1>7, <1>9, <2>2
  <2>4. QED
    BY <1>7, <2>3
<1>10. ASSUME NEW l \in L PROVE Place(L, l) \in DOMAIN B /\ B[Place(L, l)].start = l
  BY <1>4, <1>5
<1>11. ASSUME NEW j \in DOMAIN B, NEW k \in DOMAIN B, j < k PROVE B[j].last < B[k].start
  <2>1. B[j].start < B[k].start
    <3>1. j \in 0 .. n - 1 /\ k \in 0 .. n - 1 /\ B[j].start = Nth(L, j) /\ B[k].start = Nth(L, k)
      BY <1>5
    <3>2. Nth(L, j) < Nth(L, k)
      BY <1>4, <1>11, <3>1
    <3>3. QED
      BY <3>1, <3>2
  <2>2. B[k].start <= B[j].start \/ B[k].start > B[j].last
    BY <1>7
  <2>3. QED
    BY <1>7, <2>1, <2>2
<1>12. ASSUME NEW k \in DOMAIN B, k + 1 \in DOMAIN B PROVE B[k + 1].start = B[k].last + 1
  <2>1. k \in Int /\ k < k + 1
    BY <1>4, <1>5
  <2>2. B[k].last < B[k + 1].start
    BY <1>11, <1>12, <2>1
  <2>3. B[k].last + 1 \in D
    <3>1. B[k + 1].start \in D /\ B[k].last \in D
      BY <1>2, <1>7, <1>12
    <3>2. QED
      BY <1>1, <1>7, <2>2, <3>1
  <2>4. PICK i \in DOMAIN B : B[i].start = B[k].last + 1
    BY <1>9, <1>10, <2>3
  <2>5. ~(i < k + 1)
    <3>1. SUFFICES ASSUME i < k + 1 PROVE FALSE
      OBVIOUS
    <3>2. i = k \/ i < k
      BY <1>4, <1>5, <3>1
    <3>3. B[i].start <= B[k].last
      <4>1. CASE i = k
        BY <1>7, <4>1
      <4>2. CASE i < k
        BY <1>7, <1>11, <4>2
      <4>3. QED
        BY <3>2, <4>1, <4>2
    <3>4. QED
      BY <1>7, <2>4, <3>3
  <2>6. ~(k + 1 < i)
    <3>1. SUFFICES ASSUME k + 1 < i PROVE FALSE
      OBVIOUS
    <3>2. B[k + 1].last < B[i].start
      BY <1>11, <1>12, <3>1
    <3>3. QED
      BY <1>7, <1>12, <2>2, <2>4, <3>2
  <2>7. i = k + 1
    BY <1>4, <1>5, <2>1, <2>5, <2>6
  <2>8. QED
    BY <2>4, <2>7
<1>13. ASSUME NEW k \in DOMAIN B, B[k].last + 1 \in D PROVE k + 1 \in DOMAIN B
  <2>1. PICK i \in DOMAIN B : B[i].start = B[k].last + 1
    BY <1>9, <1>10, <1>13
  <2>2. ~(i <= k)
    <3>1. SUFFICES ASSUME i <= k PROVE FALSE
      OBVIOUS
    <3>2. CASE i = k
      BY <1>7, <2>1, <3>2
    <3>3. CASE i < k
      BY <1>7, <1>11, <2>1, <3>3
    <3>4. QED
      BY <1>4, <1>5, <3>1, <3>2, <3>3
  <2>3. QED
    BY <1>4, <1>5, <2>2
<1>14. ASSUME NEW a \in D PROVE \E k \in DOMAIN B : a \in Addresses(B[k])
  <2> DEFINE U == {l \in L : l <= a}
  <2>1. U \in SUBSET Nat /\ U # {} /\ \A l \in U : l <= a
    <3>1. lo <= a
      BY <1>1
    <3>2. lo \in U
      BY <1>2, <3>1
    <3>3. QED
      BY <1>3, <3>2
  <2>2. a \in Nat
    BY <1>1
  <2>3. Max(U) \in U /\ \A l \in U : l <= Max(U)
    <3> HIDE DEF U
    <3>1. QED
      BY <2>1, <2>2, MaxOf
  <2>4. PICK k \in DOMAIN B : B[k].start = Max(U)
    BY <1>10, <2>3
  <2>5. \A l \in L : l <= B[k].start \/ l > a
    BY <1>3, <2>2, <2>3, <2>4
  <2>6. a <= B[k].last
    BY <1>7, <2>3, <2>4, <2>5
  <2>7. a \in Addresses(B[k])
    BY <1>7, <2>2, <2>3, <2>4, <2>6 DEF Addresses
  <2>8. QED
    BY <2>7
<1>15. 0 \in DOMAIN B /\ B[0].start = lo
  <2>1. PICK k \in DOMAIN B : B[k].start = lo
    BY <1>2, <1>10
  <2>2. 0 \in DOMAIN B
    BY <1>4, <1>5, <2>1
  <2>3. ~(0 < k)
    <3>1. SUFFICES ASSUME 0 < k PROVE FALSE
      OBVIOUS
    <3>2. B[0].last < lo
      BY <1>11, <2>1, <2>2, <3>1
    <3>3. lo <= B[0].last
      BY <1>1, <1>7, <2>2
    <3>4. QED
      BY <1>1, <1>7, <2>2, <3>2, <3>3
  <2>4. k = 0
    BY <1>4, <1>5, <2>3
  <2>5. QED
    BY <2>1, <2>2, <2>4
<1>16. \A l \in L : \E k \in DOMAIN B : B[k].start = l
  BY <1>10
<1>17. QED
  BY <1>1, <1>4, <1>5, <1>7, <1>8, <1>9, <1>11, <1>12, <1>13, <1>14, <1>15, <1>16 DEF BlocksAre, L, B, n, D

\* Where control goes from a block is where it goes from its last instruction; inside
\* a block it goes on.
LEMMA SuccessorsOf ==
  ASSUME NEW code, CodeOK(code), NEW B, BlocksAre(code, B), NEW k \in DOMAIN B
  PROVE  /\ Successors(code, B, k) \subseteq DOMAIN B
         /\ {B[j].start : j \in Successors(code, B, k)} = Flow(code, B[k].last)
         /\ \A a \in Addresses(B[k]) \ {B[k].last} : Flow(code, a) = {a + 1}
<1> DEFINE last == B[k].last
           i    == code[last]
           next == {k + 1} \cap DOMAIN B
<1>1. PICK lo \in Nat \ {0}, hi \in Nat :
        /\ lo <= hi /\ DOMAIN code = lo .. hi
        /\ \A a \in DOMAIN code : code[a].op \in Kinds /\ code[a].to \in Nat
  BY CodeIs
<1>2. last \in DOMAIN code /\ last \in Nat
  BY DEF BlocksAre
<1>3. i.op \in Kinds
  BY <1>1, <1>2
<1>4. {B[j].start : j \in next} = {last + 1} \cap DOMAIN code
  <2>1. CASE last + 1 \in DOMAIN code
    <3>1. k + 1 \in DOMAIN B /\ B[k + 1].start = last + 1
      BY <2>1 DEF BlocksAre
    <3>2. QED
      BY <2>1, <3>1
  <2>2. CASE last + 1 \notin DOMAIN code
    <3>1. k + 1 \notin DOMAIN B
      <4>1. SUFFICES ASSUME k + 1 \in DOMAIN B PROVE FALSE
        OBVIOUS
      <4>2. B[k + 1].start = last + 1 /\ B[k + 1].start \in Leaders(code)
        BY <4>1 DEF BlocksAre
      <4>3. QED
        BY <2>2, <4>2 DEF Leaders
    <3>2. QED
      BY <2>2, <3>1
  <2>3. QED
    BY <2>1, <2>2
<1>5. ASSUME i.op \in Aimed
      PROVE  {B[j].start : j \in StartingAt(B, i.to)} = {i.to} \cap DOMAIN code
  <2>1. CASE i.to \in DOMAIN code
    <3>1. i.to \in Leaders(code)
      BY <1>2, <1>5, <2>1 DEF Leaders
    <3>2. PICK j \in DOMAIN B : B[j].start = i.to
      BY <3>1 DEF BlocksAre
    <3>3. QED
      BY <2>1, <3>2 DEF StartingAt
  <2>2. CASE i.to \notin DOMAIN code
    <3>1. \A j \in DOMAIN B : B[j].start \in DOMAIN code
      BY DEF BlocksAre, Leaders
    <3>2. QED
      BY <2>2, <3>1 DEF StartingAt
  <2>3. QED
    BY <2>1, <2>2
<1>6. /\ Successors(code, B, k) \subseteq DOMAIN B
      /\ {B[j].start : j \in Successors(code, B, k)} = Flow(code, last)
  <2>1. StartingAt(B, i.to) \subseteq DOMAIN B /\ next \subseteq DOMAIN B
    BY DEF StartingAt
  <2>2. CASE i.op = "branch"
    <3>1. Successors(code, B, k) = StartingAt(B, i.to) \union next
      BY <2>2 DEF Successors
    <3>2. Flow(code, last) = ({i.to} \cap DOMAIN code) \union ({last + 1} \cap DOMAIN code)
      BY <2>2 DEF Flow, Aimed
    <3>3. i.op \in Aimed
      BY <2>2 DEF Aimed
    <3> HIDE DEF next, last, i
    <3>4. {B[j].start : j \in StartingAt(B, i.to) \union next}
            = {B[j].start : j \in StartingAt(B, i.to)} \union {B[j].start : j \in next}
      OBVIOUS
    <3>5. QED
      BY <1>4, <1>5, <2>1, <3>1, <3>2, <3>3, <3>4
  <2>3. CASE i.op = "jump"
    <3>1. Successors(code, B, k) = StartingAt(B, i.to)
      BY <2>3 DEF Successors
    <3>2. Flow(code, last) = {i.to} \cap DOMAIN code
      BY <2>3 DEF Flow, Aimed
    <3>3. i.op \in Aimed
      BY <2>3 DEF Aimed
    <3> HIDE DEF next, last, i
    <3>4. QED
      BY <1>5, <2>1, <3>1, <3>2, <3>3
  <2>4. CASE i.op = "return"
    <3>1. Successors(code, B, k) = {} /\ Flow(code, last) = {}
      BY <2>4 DEF Successors, Flow, Aimed
    <3>2. QED
      BY <3>1
  <2>5. CASE i.op \notin Ends
    <3>1. i.op # "branch" /\ i.op # "jump" /\ i.op # "return"
      BY <2>5 DEF Ends
    <3>2. Successors(code, B, k) = next
      BY <3>1 DEF Successors
    <3>3. Flow(code, last) = {last + 1} \cap DOMAIN code
      BY <3>1 DEF Flow, Aimed
    <3> HIDE DEF next, last, i
    <3>4. QED
      BY <1>4, <2>1, <3>2, <3>3
  <2>6. QED
    BY <2>2, <2>3, <2>4, <2>5 DEF Ends
<1>7. ASSUME NEW a \in Addresses(B[k]) \ {last} PROVE Flow(code, a) = {a + 1}
  <2>1. /\ B[k].start \in Nat /\ B[k].start <= last /\ B[k].start \in DOMAIN code
        /\ Addresses(B[k]) \cap Leaders(code) = {B[k].start}
    BY DEF BlocksAre, Leaders
  <2>2. a \in Nat /\ B[k].start <= a /\ a < last
    BY <1>2, <2>1 DEF Addresses
  <2>3. a \in DOMAIN code /\ a + 1 \in DOMAIN code /\ a + 1 \in Addresses(B[k]) /\ a + 1 # B[k].start
    BY <1>1, <1>2, <2>1, <2>2 DEF Addresses
  <2>4. a + 1 \notin Leaders(code)
    BY <2>1, <2>3
  <2>5. code[a].op \notin Ends
    <3>1. SUFFICES ASSUME code[a].op \in Ends PROVE a + 1 \in Leaders(code)
      BY <2>4
    <3>2. QED
      BY <2>3, <3>1 DEF Leaders
  <2>6. QED
    BY <2>3, <2>5 DEF Flow, Aimed, Ends
<1>8. QED
  BY <1>6, <1>7

\* The instructions of some blocks.
Covered(B, S) == UNION {Addresses(B[k]) : k \in S}

\* The edges e between blocks are among the steps F between instructions, and F goes on
\* inside a block.
Tiles(D, F, K, e, B) ==
  \A k \in K :
    /\ B[k].start \in Nat /\ B[k].last \in Nat /\ B[k].start <= B[k].last
    /\ Addresses(B[k]) \subseteq D
    /\ \A a \in Addresses(B[k]) \ {B[k].last} : a + 1 \in F[a]
    /\ \A j \in e[k] : \E a \in Addresses(B[k]) : B[j].start \in F[a]

\* From the blocks of S there is no other step.
NoOther(S, F, e, B) ==
  \A k \in S : \A a \in Addresses(B[k]) : \A b \in F[a] :
    (a # B[k].last /\ b = a + 1) \/ \E j \in e[k] : b = B[j].start

\* Said of blocks or of single instructions, the same is reached.
LEMMA BlockReach ==
  ASSUME NEW D, IsFiniteSet(D), NEW F \in [D -> SUBSET D],
         NEW K, IsFiniteSet(K), NEW e \in [K -> SUBSET K], NEW B, NEW k0 \in K,
         Tiles(D, F, K, e, B)
  PROVE  /\ Covered(B, Reached(e, {k0})) \subseteq Reached(F, {B[k0].start})
         /\ NoOther(Reached(e, {k0}), F, e, B)
            => \A p \in Addresses(B[k0]) : Reached(F, {p}) \subseteq Covered(B, Reached(e, {k0}))
<1> USE DEF Tiles
<1> DEFINE R == Reached(F, {B[k0].start})
           S == Reached(e, {k0})
<1>1. B[k0].start \in D /\ \A k \in K : B[k].start \in Addresses(B[k])
  BY DEF Addresses
<1>2. /\ B[k0].start \in R /\ R \subseteq D
      /\ \A a \in R : F[a] \subseteq R
  <2>1. {B[k0].start} \in SUBSET D
    BY <1>1
  <2>2. /\ {B[k0].start} \subseteq R /\ R \subseteq D
        /\ \A a \in R : F[a] \subseteq R
    BY <2>1, ReachedIs
  <2>3. QED
    BY <2>2
<1>3. /\ k0 \in S /\ S \subseteq K /\ \A k \in S : e[k] \subseteq S
      /\ \A T : k0 \in T /\ (\A k \in T \cap K : e[k] \subseteq T) => S \subseteq T
  <2>1. {k0} \in SUBSET K
    OBVIOUS
  <2>2. /\ {k0} \subseteq S /\ S \subseteq K /\ \A k \in S : e[k] \subseteq S
        /\ \A T : {k0} \subseteq T /\ (\A k \in T \cap K : e[k] \subseteq T) => S \subseteq T
    BY <2>1, ReachedIs
  <2>3. QED
    BY <2>2
<1> HIDE DEF R, S
<1>4. ASSUME NEW k \in K, B[k].start \in R PROVE Addresses(B[k]) \subseteq R
  <2> DEFINE T == {n \in Nat : B[k].start + n <= B[k].last => B[k].start + n \in R}
  <2>1. 0 \in T
    BY <1>4
  <2>2. ASSUME NEW n \in Nat, n \in T PROVE n + 1 \in T
    <3>1. SUFFICES ASSUME B[k].start + n + 1 <= B[k].last PROVE B[k].start + n + 1 \in R
      OBVIOUS
    <3>2. B[k].start + n \in R
      BY <2>2, <3>1
    <3>3. B[k].start + n \in Addresses(B[k]) \ {B[k].last}
      BY <3>1 DEF Addresses
    <3>4. B[k].start + n + 1 \in F[B[k].start + n]
      BY <3>3
    <3>5. QED
      BY <1>2, <3>2, <3>4
  <2>3. \A n \in Nat : n \in T
    <3> HIDE DEF T
    <3>1. QED
      BY <2>1, <2>2, Induction
  <2>4. ASSUME NEW a \in Addresses(B[k]) PROVE a \in R
    <3>1. a - B[k].start \in Nat /\ B[k].start + (a - B[k].start) = a /\ a <= B[k].last
      BY DEF Addresses
    <3>2. QED
      BY <2>3, <3>1
  <2>5. QED
    BY <2>4
<1>5. \A k \in S : Addresses(B[k]) \subseteq R
  <2>0. \A k \in K : \A i \in e[k] : \E a \in Addresses(B[k]) : B[i].start \in F[a]
    OBVIOUS
  <2> DEFINE T == {k \in K : Addresses(B[k]) \subseteq R}
  <2>1. k0 \in T
    BY <1>2, <1>4
  <2>2. ASSUME NEW k \in T, NEW j \in e[k] PROVE j \in T
    <3>1. k \in K /\ j \in K
      OBVIOUS
    <3>2. \A i \in e[k] : \E a \in Addresses(B[k]) : B[i].start \in F[a]
      BY <2>0, <3>1
    <3>3. PICK a \in Addresses(B[k]) : B[j].start \in F[a]
      BY <3>2
    <3>4. B[j].start \in R
      BY <1>2, <3>3
    <3>5. QED
      BY <1>4, <3>1, <3>4
  <2>3. S \subseteq T
    BY <1>3, <2>1, <2>2
  <2>4. QED
    BY <2>3
<1>6. ASSUME NoOther(S, F, e, B), NEW p \in Addresses(B[k0])
      PROVE  Reached(F, {p}) \subseteq Covered(B, S)
  <2> DEFINE T == UNION {Addresses(B[k]) : k \in S}
  <2>1. {p} \in SUBSET D /\ {p} \subseteq T
    BY <1>3
  <2>2. ASSUME NEW a \in T, NEW b \in F[a] PROVE b \in T
    <3>1. PICK k \in S : a \in Addresses(B[k])
      OBVIOUS
    <3>2. k \in K
      BY <1>3
    <3>3. CASE a # B[k].last /\ b = a + 1
      <4>1. b \in Addresses(B[k])
        BY <3>1, <3>2, <3>3 DEF Addresses
      <4>2. QED
        BY <4>1
    <3>4. CASE \E j \in e[k] : b = B[j].start
      <4>1. PICK j \in e[k] : b = B[j].start
        BY <3>4
      <4>2. j \in S
        BY <1>3, <4>1
      <4>3. b \in Addresses(B[j])
        BY <1>1, <1>3, <4>1, <4>2
      <4>4. QED
        BY <4>2, <4>3
    <3>5. QED
      BY <1>6, <3>1, <3>3, <3>4 DEF NoOther
  <2>3. \A a \in T \cap D : F[a] \subseteq T
    BY <2>2
  <2> HIDE DEF T
  <2>4. Reached(F, {p}) \subseteq T
    BY <2>1, <2>3, ReachedIs
  <2>5. QED
    BY <2>4 DEF T, Covered
<1>7. Covered(B, S) \subseteq R
  BY <1>5 DEF Covered
<1>8. QED
  BY <1>6, <1>7 DEF R, S

-----------------------------------------------------------------------------
(* What runs to what, and what the guards strand.                            *)

LEMMA RunsToIs ==
  ASSUME NEW code, IsFiniteSet(DOMAIN code), NEW p \in DOMAIN code
  PROVE  /\ p \in RunsTo(code, p) /\ RunsTo(code, p) \subseteq DOMAIN code
         /\ \A a \in RunsTo(code, p) : Flow(code, a) \subseteq RunsTo(code, p)
         /\ \A T : p \in T /\ (\A a \in T \cap DOMAIN code : Flow(code, a) \subseteq T)
                     => RunsTo(code, p) \subseteq T
<1> DEFINE D == DOMAIN code
           F == [b \in D |-> Flow(code, b)]
           R == Reached(F, {p})
<1>1. F \in [D -> SUBSET D] /\ {p} \in SUBSET D
  BY DEF Flow
<1> HIDE DEF F
<1>2. /\ {p} \subseteq R /\ R \subseteq D
      /\ \A a \in R : F[a] \subseteq R
      /\ \A T : {p} \subseteq T /\ (\A a \in T \cap D : F[a] \subseteq T) => R \subseteq T
  BY <1>1, ReachedIs
<1>3. RunsTo(code, p) = R
  BY DEF RunsTo, F
<1>4. \A a \in D : F[a] = Flow(code, a)
  BY DEF F
<1> HIDE DEF R
<1>5. /\ \A a \in R : Flow(code, a) \subseteq R
      /\ \A T : p \in T /\ (\A a \in T \cap D : Flow(code, a) \subseteq T) => R \subseteq T
  <2>1. \A a \in R : Flow(code, a) \subseteq R
    BY <1>2, <1>4
  <2>2. ASSUME NEW T, p \in T, \A a \in T \cap D : Flow(code, a) \subseteq T PROVE R \subseteq T
    <3>1. {p} \subseteq T /\ \A a \in T \cap D : F[a] \subseteq T
      BY <1>4, <2>2
    <3>2. QED
      BY <1>2, <3>1
  <2>3. QED
    BY <2>1, <2>2
<1>6. QED
  BY <1>2, <1>3, <1>5

LEMMA RunsToGuardedIs ==
  ASSUME NEW code, IsFiniteSet(DOMAIN code), NEW p \in DOMAIN code
  PROVE  /\ p \in RunsToGuarded(code, p) /\ RunsToGuarded(code, p) \subseteq DOMAIN code
         /\ \A a \in RunsToGuarded(code, p) : GuardedFlow(code, a) \subseteq RunsToGuarded(code, p)
         /\ \A T : p \in T /\ (\A a \in T \cap DOMAIN code : GuardedFlow(code, a) \subseteq T)
                     => RunsToGuarded(code, p) \subseteq T
<1> DEFINE D == DOMAIN code
           F == [b \in D |-> GuardedFlow(code, b)]
           R == Reached(F, {p})
<1>1. F \in [D -> SUBSET D] /\ {p} \in SUBSET D
  BY DEF Flow, GuardedFlow
<1> HIDE DEF F
<1>2. /\ {p} \subseteq R /\ R \subseteq D
      /\ \A a \in R : F[a] \subseteq R
      /\ \A T : {p} \subseteq T /\ (\A a \in T \cap D : F[a] \subseteq T) => R \subseteq T
  BY <1>1, ReachedIs
<1>3. RunsToGuarded(code, p) = R
  BY DEF RunsToGuarded, F
<1>4. \A a \in D : F[a] = GuardedFlow(code, a)
  BY DEF F
<1> HIDE DEF R
<1>5. /\ \A a \in R : GuardedFlow(code, a) \subseteq R
      /\ \A T : p \in T /\ (\A a \in T \cap D : GuardedFlow(code, a) \subseteq T) => R \subseteq T
  <2>1. \A a \in R : GuardedFlow(code, a) \subseteq R
    BY <1>2, <1>4
  <2>2. ASSUME NEW T, p \in T, \A a \in T \cap D : GuardedFlow(code, a) \subseteq T PROVE R \subseteq T
    <3>1. {p} \subseteq T /\ \A a \in T \cap D : F[a] \subseteq T
      BY <1>4, <2>2
    <3>2. QED
      BY <1>2, <3>1
  <2>3. QED
    BY <2>1, <2>2
<1>6. QED
  BY <1>2, <1>3, <1>5

\* Where they lie as laid out, stranded is nothing but slow paths, and only a slow path
\* leads on in one.
LEMMA StrandedIs ==
  ASSUME NEW code, CodeOK(code), OwnSlowPaths(code)
  PROVE  /\ Min(DOMAIN code) \notin Stranded(code) /\ Stranded(code) \subseteq DOMAIN code
         /\ \A b \in Stranded(code) : code[b].op \in {"plain", "jump"}
         /\ \A b \in Stranded(code) : code[b].op = "jump" =>
              \E g \in DOMAIN code : code[g].op = "check" /\ code[b].to = g + 1
         /\ \A a \in DOMAIN code : \A b \in Flow(code, a) : b \in Stranded(code) => a \in Stranded(code)
<1> DEFINE D == DOMAIN code
           e == Min(D)
           R == RunsTo(code, e)
           G == RunsToGuarded(code, e)
           Slow == {b \in D : \E g \in R, last \in D :
                      code[g].op = "check" /\ SlowPath(code, g, last) /\ b \in code[g].to .. last}
<1>1. PICK lo \in Nat \ {0}, hi \in Nat :
        /\ lo <= hi /\ D = lo .. hi /\ e = lo /\ Max(D) = hi /\ IsFiniteSet(D)
        /\ \A a \in D : code[a].op \in Kinds /\ code[a].to \in Nat
  BY CodeIs
<1>2. e \in D
  BY <1>1
<1>3. /\ e \in R /\ R \subseteq D
      /\ \A a \in R : Flow(code, a) \subseteq R
      /\ \A T : e \in T /\ (\A a \in T \cap D : Flow(code, a) \subseteq T) => R \subseteq T
  BY <1>1, <1>2, RunsToIs
<1>4. /\ e \in G /\ G \subseteq D
      /\ \A a \in G : GuardedFlow(code, a) \subseteq G
      /\ \A T : e \in T /\ (\A a \in T \cap D : GuardedFlow(code, a) \subseteq T) => G \subseteq T
  BY <1>1, <1>2, RunsToGuardedIs
<1>5. Stranded(code) = G \ R
  BY DEF Stranded
<1> HIDE DEF R, G, e
<1>6. ASSUME NEW g \in D, NEW last \in D, SlowPath(code, g, last)
      PROVE  /\ code[g].to \in D /\ g + 1 < code[g].to /\ code[g].to <= last
             /\ g + 1 \in D /\ code[g].to - 1 \in D
             /\ code[code[g].to - 1].op \in {"jump", "return"}
             /\ \A b \in code[g].to .. last : b \in D /\ (b # last => code[b].op = "plain")
             /\ \/ code[last].op = "jump" /\ code[last].to = g + 1
                \/ last = hi /\ code[last].op = "plain"
  BY <1>1, <1>6 DEF SlowPath
<1>7. ASSUME NEW g \in R, NEW last \in D, code[g].op = "check", SlowPath(code, g, last)
      PROVE  code[g].to .. last \subseteq G
  <2>1. g \in D /\ g \in G
    <3>1. R \subseteq G
      <4>1. \A a \in G \cap D : Flow(code, a) \subseteq G
        BY <1>4 DEF GuardedFlow
      <4>2. QED
        BY <1>3, <1>4, <4>1
    <3>2. QED
      BY <1>3, <3>1
  <2>2. code[g].to \in G
    <3>1. code[g].to \in GuardedFlow(code, g)
      BY <1>6, <1>7, <2>1 DEF GuardedFlow
    <3>2. QED
      BY <1>4, <2>1, <3>1
  <2> DEFINE T == {n \in Nat : code[g].to + n <= last => code[g].to + n \in G}
  <2>3. code[g].to \in Nat /\ last \in Nat
    BY <1>1, <2>1
  <2>4. 0 \in T
    BY <2>2, <2>3
  <2>5. ASSUME NEW n \in Nat, n \in T PROVE n + 1 \in T
    <3>1. SUFFICES ASSUME code[g].to + n + 1 <= last PROVE code[g].to + n + 1 \in G
      BY <2>3
    <3> DEFINE b == code[g].to + n
    <3>2. b \in G /\ b \in Nat /\ b + 1 <= last
      BY <2>3, <2>5, <3>1
    <3>3. b \in code[g].to .. last /\ b # last /\ b + 1 \in code[g].to .. last
      BY <2>3, <3>2
    <3>4. code[b].op = "plain" /\ b + 1 \in D
      BY <1>6, <1>7, <2>1, <3>3
    <3>5. b + 1 \in GuardedFlow(code, b)
      BY <3>4 DEF GuardedFlow, Flow
    <3>6. b + 1 \in G
      BY <1>4, <3>2, <3>5
    <3>7. QED
      BY <3>6
  <2>6. \A n \in Nat : n \in T
    <3> HIDE DEF T
    <3>1. QED
      BY <2>4, <2>5, Induction
  <2>7. ASSUME NEW b \in code[g].to .. last PROVE b \in G
    <3>1. b - code[g].to \in Nat /\ code[g].to + (b - code[g].to) = b /\ b <= last
      BY <2>3
    <3>2. QED
      BY <2>6, <3>1
  <2>8. QED
    BY <2>7
<1>8. G \subseteq R \union Slow
  <2>1. ASSUME NEW a \in R PROVE GuardedFlow(code, a) \subseteq R \union Slow
    <3>1. CASE code[a].op = "check"
      <4> SUFFICES ASSUME code[a].to \in D PROVE GuardedFlow(code, a) \subseteq R \union Slow
        BY <1>3 DEF GuardedFlow
      <4>1. PICK last \in D : SlowPath(code, a, last)
        BY <1>3, <3>1 DEF OwnSlowPaths
      <4>2. code[a].to \in code[a].to .. last /\ code[a].to \in D
        BY <1>1, <1>3, <1>6, <4>1
      <4>3. code[a].to \in Slow
        BY <3>1, <4>1, <4>2
      <4>4. QED
        BY <1>3, <4>3 DEF GuardedFlow
    <3>2. CASE code[a].op # "check"
      BY <1>3, <3>2 DEF GuardedFlow
    <3>3. QED
      BY <3>1, <3>2
  <2>2. ASSUME NEW a \in Slow PROVE GuardedFlow(code, a) \subseteq R \union Slow
    <3>1. PICK g \in R, last \in D :
            code[g].op = "check" /\ SlowPath(code, g, last) /\ a \in code[g].to .. last
      OBVIOUS
    <3>2. g \in D
      BY <1>3
    <3>3. /\ \A b \in code[g].to .. last : b \in D /\ (b # last => code[b].op = "plain")
          /\ \/ code[last].op = "jump" /\ code[last].to = g + 1
             \/ last = hi /\ code[last].op = "plain"
          /\ g + 1 \in D
      BY <1>6, <3>1, <3>2
    <3>4. CASE a = last
      <4>1. GuardedFlow(code, a) \subseteq {g + 1}
        <5>1. hi + 1 \notin D
          BY <1>1
        <5>2. QED
          BY <3>3, <3>4, <5>1 DEF GuardedFlow, Flow, Aimed
      <4>2. g + 1 \in Flow(code, g)
        BY <3>1, <3>3 DEF Flow
      <4>3. QED
        BY <1>3, <4>1, <4>2
    <3>5. CASE a # last
      <4>1. code[a].op = "plain"
        BY <3>1, <3>3, <3>5
      <4>2. GuardedFlow(code, a) \subseteq {a + 1}
        BY <4>1 DEF GuardedFlow, Flow, Aimed
      <4>3. a + 1 \in code[g].to .. last
        BY <1>1, <3>1, <3>2, <3>5
      <4>4. a + 1 \in Slow
        BY <3>1, <3>3, <4>3
      <4>5. QED
        BY <4>2, <4>4
    <3>6. QED
      BY <3>4, <3>5
  <2>3. \A a \in (R \union Slow) \cap D : GuardedFlow(code, a) \subseteq R \union Slow
    BY <2>1, <2>2
  <2> HIDE DEF Slow
  <2>4. QED
    BY <1>3, <1>4, <2>3
<1>9. ASSUME NEW b \in Stranded(code)
      PROVE  /\ code[b].op \in {"plain", "jump"}
             /\ code[b].op = "jump" => \E g \in D : code[g].op = "check" /\ code[b].to = g + 1
  <2>1. b \in Slow
    BY <1>5, <1>8
  <2>2. PICK g \in R, last \in D :
          code[g].op = "check" /\ SlowPath(code, g, last) /\ b \in code[g].to .. last
    BY <2>1
  <2>3. QED
    BY <1>3, <1>6, <2>2
<1>10. ASSUME NEW a \in D, NEW b \in Flow(code, a), b \in Stranded(code) PROVE a \in Stranded(code)
  <2>1. b \in Slow /\ b \notin R
    BY <1>5, <1>8, <1>10
  <2>2. PICK g \in R, last \in D :
          code[g].op = "check" /\ SlowPath(code, g, last) /\ b \in code[g].to .. last
    BY <2>1
  <2>3. g \in D
    BY <1>3
  <2>4. ~(code[a].op \in Aimed /\ b = code[a].to)
    <3>1. SUFFICES ASSUME code[a].op \in Aimed, b = code[a].to PROVE FALSE
      OBVIOUS
    <3>2. a # g
      BY <2>2, <3>1 DEF Aimed
    <3>3. code[a].to \notin code[g].to .. last
      BY <2>2, <3>1, <3>2 DEF SlowPath
    <3>4. QED
      BY <2>2, <3>1, <3>3
  <2>5. b = a + 1 /\ code[a].op \notin {"jump", "return"}
    BY <2>4 DEF Flow
  <2>6. a \in code[g].to .. last
    <3>1. a \in Nat /\ code[g].to \in Nat /\ last \in Nat /\ a + 1 \in code[g].to .. last
      BY <1>1, <2>2, <2>3, <2>5
    <3>2. a + 1 # code[g].to
      <4>1. SUFFICES ASSUME a + 1 = code[g].to PROVE FALSE
        OBVIOUS
      <4>2. a = code[g].to - 1
        BY <3>1, <4>1
      <4>3. QED
        BY <1>6, <2>2, <2>3, <2>5, <4>2
    <3>3. QED
      BY <3>1, <3>2
  <2>7. a \in G
    BY <1>7, <2>2, <2>6
  <2>8. a \notin R
    BY <1>3, <2>1
  <2>9. QED
    BY <1>5, <2>7, <2>8
<1>11. QED
  BY <1>3, <1>4, <1>5, <1>9, <1>10 DEF e

-----------------------------------------------------------------------------
(* The graph of a record is its code.                                        *)

\* No way out of a block is lost where slow paths are their guards' own, and none out
\* of a block that runs wherever they are.
GraphIs(code, graph) ==
  /\ \E n \in Nat \ {0} : DOMAIN graph = 0 .. n - 1 /\ Cardinality(DOMAIN graph) = n
  /\ IsFiniteSet(DOMAIN graph) /\ 0 \in DOMAIN graph /\ graph[0].start = Min(DOMAIN code)
  /\ \A k \in DOMAIN graph :
       /\ graph[k].start \in Nat /\ graph[k].last \in Nat /\ graph[k].start <= graph[k].last
       /\ Addresses(graph[k]) \subseteq DOMAIN code
       /\ graph[k].succs \subseteq DOMAIN graph
       /\ {graph[j].start : j \in graph[k].succs} \subseteq Flow(code, graph[k].last)
       /\ OwnSlowPaths(code) \/ graph[k].last \in RunsTo(code, Min(DOMAIN code)) =>
            Flow(code, graph[k].last) = {graph[j].start : j \in graph[k].succs}
  /\ \A j, k \in DOMAIN graph : Addresses(graph[j]) \cap Addresses(graph[k]) # {} => j = k
  /\ PartitionsTheCode(code, graph)
  /\ FollowsTheCode(code, graph)

\* Two blocks share no instruction.
LEMMA BlocksApart ==
  ASSUME NEW B, NEW n \in Nat,
         DOMAIN B = 0 .. n - 1,
         \A k \in DOMAIN B : B[k].start \in Nat /\ B[k].last \in Nat /\ B[k].start <= B[k].last,
         \A j, k \in DOMAIN B : j < k => B[j].last < B[k].start
  PROVE  \A j, k \in DOMAIN B : Addresses(B[j]) \cap Addresses(B[k]) # {} => j = k
<1> TAKE j, k \in DOMAIN B
<1> HAVE Addresses(B[j]) \cap Addresses(B[k]) # {}
<1>1. PICK a \in Addresses(B[j]) : a \in Addresses(B[k])
  OBVIOUS
<1>2. /\ a \in Int /\ B[j].start <= a /\ a <= B[j].last
      /\ B[k].start <= a /\ a <= B[k].last
      /\ B[j].last \in Int /\ B[k].last \in Int /\ B[j].start \in Int /\ B[k].start \in Int
  BY <1>1 DEF Addresses
<1>3. ~(j < k) /\ ~(k < j)
  <2>1. ~(B[j].last < B[k].start) /\ ~(B[k].last < B[j].start)
    BY <1>2
  <2>2. QED
    BY <2>1
<1>4. j \in Int /\ k \in Int
  OBVIOUS
<1>5. QED
  BY <1>3, <1>4

LEMMA KeptAre ==
  ASSUME NEW code, CodeOK(code), NEW B, BlocksAre(code, B)
  PROVE  LET succs == [k \in DOMAIN B |-> Successors(code, B, k)]
             kept  == Kept(code, B, succs)
         IN  /\ kept \subseteq DOMAIN B /\ 0 \in kept
             /\ DOMAIN code \ Stranded(code) \subseteq Covered(B, kept)
             /\ Covered(B, kept) \subseteq DOMAIN code
             /\ OwnSlowPaths(code) => Covered(B, kept) \cap Stranded(code) = {}
             /\ \A k \in DOMAIN B \ kept : Addresses(B[k]) \subseteq Stranded(code)
<1> DEFINE D == DOMAIN code
           K == DOMAIN B
           lo == Min(D)
           succs == [k \in K |-> Successors(code, B, k)]
           guarded == [k \in K |-> succs[k] \union GuardTargets(code, B, k)]
           F == [a \in D |-> Flow(code, a)]
           FG == [a \in D |-> GuardedFlow(code, a)]
           R0 == Reached(succs, {0})
           RG == Reached(guarded, {0})
           All(S) == Covered(B, S)
<1>1. /\ IsFiniteSet(D) /\ lo \in D /\ D \subseteq Nat
      /\ \A a, b \in D : \A c \in a .. b : c \in D
      /\ \A a \in D : code[a].to \in Nat
  <2>1. PICK l \in Nat \ {0}, hi \in Nat :
          /\ l <= hi /\ D = l .. hi /\ lo = l /\ IsFiniteSet(D)
          /\ \A a \in D : code[a].op \in Kinds /\ code[a].to \in Nat
    BY CodeIs
  <2>2. D \subseteq Nat /\ l \in D /\ \A a, b \in D : \A c \in a .. b : c \in D
    BY <2>1
  <2>3. QED
    BY <2>1, <2>2
<1>2. /\ \E n \in Nat : K = 0 .. n - 1
      /\ 0 \in K /\ B[0].start = lo
      /\ \A k \in K : /\ B[k].start \in Leaders(code) /\ B[k].last \in D
                      /\ B[k].start \in Nat /\ B[k].last \in Nat /\ B[k].start <= B[k].last
      /\ \A l \in Leaders(code) : \E k \in K : B[k].start = l
      /\ \A j, k \in K : j < k => B[j].last < B[k].start
      /\ \A a \in D : \E k \in K : a \in Addresses(B[k])
  BY DEF BlocksAre
<1>3. IsFiniteSet(K)
  <2>1. PICK n \in Nat : K = 0 .. n - 1
    BY <1>2
  <2>2. IsFiniteSet(0 .. n - 1)
    BY FS_Interval
  <2>3. QED
    BY <2>1, <2>2
<1>4. \A j, k \in K : Addresses(B[j]) \cap Addresses(B[k]) # {} => j = k
  BY <1>2, BlocksApart
<1>5. \A k \in K : /\ Addresses(B[k]) \subseteq D /\ Addresses(B[k]) # {}
                   /\ B[k].start \in Addresses(B[k]) /\ B[k].last \in Addresses(B[k])
  <2> TAKE k \in K
  <2>1. B[k].start \in D /\ B[k].last \in D
    BY <1>2 DEF Leaders
  <2>2. \A a \in B[k].start .. B[k].last : a \in D
    BY <1>1, <2>1
  <2>3. B[k].start \in B[k].start .. B[k].last /\ B[k].last \in B[k].start .. B[k].last
    BY <1>2
  <2>4. QED
    BY <2>2, <2>3 DEF Addresses
<1>6. /\ F \in [D -> SUBSET D] /\ FG \in [D -> SUBSET D]
      /\ \A a \in D : F[a] = Flow(code, a) /\ FG[a] = GuardedFlow(code, a)
  BY DEF Flow, GuardedFlow
<1>7. \A k \in K : /\ Successors(code, B, k) \subseteq K
                   /\ {B[j].start : j \in Successors(code, B, k)} = Flow(code, B[k].last)
                   /\ \A a \in Addresses(B[k]) \ {B[k].last} : Flow(code, a) = {a + 1}
  BY SuccessorsOf
<1>8. /\ succs \in [K -> SUBSET K] /\ guarded \in [K -> SUBSET K]
      /\ \A k \in K : /\ succs[k] = Successors(code, B, k)
                      /\ guarded[k] = succs[k] \union GuardTargets(code, B, k)
  <2>1. \A k \in K : GuardTargets(code, B, k) \subseteq K
    BY DEF GuardTargets, StartingAt
  <2>2. QED
    BY <1>7, <2>1
<1>9. Kept(code, B, succs) = K \ (RG \ R0)
  BY DEF Kept
<1> HIDE DEF D, K, lo, succs, guarded, F, FG, R0, RG
<1>10. R0 \subseteq K /\ RG \subseteq K /\ 0 \in R0
  <2>1. {0} \in SUBSET K
    BY <1>2
  <2>2. /\ {0} \subseteq Reached(succs, {0}) /\ Reached(succs, {0}) \subseteq K
        /\ Reached(guarded, {0}) \subseteq K
    BY <1>3, <1>8, <2>1, ReachedIs
  <2>3. QED
    BY <2>2 DEF R0, RG
<1>11. All(R0) = RunsTo(code, lo)
  <2>1. Tiles(D, F, K, succs, B)
    <3> SUFFICES ASSUME NEW k \in K
                 PROVE  /\ B[k].start \in Nat /\ B[k].last \in Nat /\ B[k].start <= B[k].last
                        /\ Addresses(B[k]) \subseteq D
                        /\ \A a \in Addresses(B[k]) \ {B[k].last} : a + 1 \in F[a]
                        /\ \A j \in succs[k] : \E a \in Addresses(B[k]) : B[j].start \in F[a]
      BY DEF Tiles
    <3>1. \A a \in Addresses(B[k]) \ {B[k].last} : a + 1 \in F[a]
      BY <1>5, <1>6, <1>7
    <3>2. ASSUME NEW j \in succs[k] PROVE B[j].start \in F[B[k].last]
      <4>1. B[j].start \in Flow(code, B[k].last)
        <5>1. j \in Successors(code, B, k)
          BY <1>8
        <5>2. B[j].start \in {B[i].start : i \in Successors(code, B, k)}
          BY <5>1
        <5>3. QED
          BY <1>7, <5>2
      <4>2. QED
        BY <1>5, <1>6, <4>1
    <3>3. QED
      BY <1>2, <1>5, <3>1, <3>2
  <2>2. NoOther(R0, F, succs, B)
    <3> SUFFICES ASSUME NEW k \in R0, NEW a \in Addresses(B[k]), NEW b \in F[a]
                 PROVE  (a # B[k].last /\ b = a + 1) \/ \E j \in succs[k] : b = B[j].start
      BY DEF NoOther
    <3>1. k \in K /\ a \in D /\ b \in Flow(code, a)
      BY <1>5, <1>6, <1>10
    <3>2. CASE a = B[k].last
      BY <1>7, <1>8, <3>1, <3>2
    <3>3. CASE a # B[k].last
      BY <1>7, <3>1, <3>3
    <3>4. QED
      BY <3>2, <3>3
  <2>3. Covered(B, R0) = Reached(F, {B[0].start})
    <3>1. B[0].start \in Addresses(B[0])
      BY <1>2, <1>5
    <3>2. IsFiniteSet(D) /\ IsFiniteSet(K) /\ 0 \in K /\ F \in [D -> SUBSET D] /\ succs \in [K -> SUBSET K]
      BY <1>1, <1>2, <1>3, <1>6, <1>8
    <3>3. /\ Covered(B, Reached(succs, {0})) \subseteq Reached(F, {B[0].start})
          /\ NoOther(Reached(succs, {0}), F, succs, B)
             => \A p \in Addresses(B[0]) : Reached(F, {p}) \subseteq Covered(B, Reached(succs, {0}))
      BY <2>1, <3>2, BlockReach
    <3>4. QED
      BY <2>2, <3>1, <3>3 DEF R0
  <2>4. RunsTo(code, lo) = Reached(F, {B[0].start})
    BY <1>2 DEF RunsTo, F, D
  <2>5. QED
    BY <2>3, <2>4
<1>12. /\ All(RG) \subseteq RunsToGuarded(code, lo)
       /\ OwnSlowPaths(code) => All(RG) = RunsToGuarded(code, lo)
  <2>1. Tiles(D, FG, K, guarded, B)
    <3> SUFFICES ASSUME NEW k \in K
                 PROVE  /\ B[k].start \in Nat /\ B[k].last \in Nat /\ B[k].start <= B[k].last
                        /\ Addresses(B[k]) \subseteq D
                        /\ \A a \in Addresses(B[k]) \ {B[k].last} : a + 1 \in FG[a]
                        /\ \A j \in guarded[k] : \E a \in Addresses(B[k]) : B[j].start \in FG[a]
      BY DEF Tiles
    <3>1. \A a \in Addresses(B[k]) \ {B[k].last} : a + 1 \in FG[a]
      BY <1>5, <1>6, <1>7 DEF GuardedFlow
    <3>2. ASSUME NEW j \in guarded[k] PROVE \E a \in Addresses(B[k]) : B[j].start \in FG[a]
      <4>1. CASE j \in succs[k]
        <5>1. B[j].start \in FG[B[k].last]
          <6>1. B[j].start \in Flow(code, B[k].last)
            <7>1. j \in Successors(code, B, k)
              BY <1>8, <4>1
            <7>2. B[j].start \in {B[i].start : i \in Successors(code, B, k)}
              BY <7>1
            <7>3. QED
              BY <1>7, <7>2
          <6>2. B[j].start \in GuardedFlow(code, B[k].last)
            BY <6>1 DEF GuardedFlow
          <6>3. QED
            BY <1>5, <1>6, <6>2
        <5>2. QED
          BY <1>5, <5>1
      <4>2. CASE j \in GuardTargets(code, B, k)
        <5>1. PICK a \in Addresses(B[k]) : code[a].op = "check" /\ j \in StartingAt(B, code[a].to)
          BY <4>2 DEF GuardTargets, Addresses
        <5>2. a \in D /\ j \in K /\ B[j].start = code[a].to /\ B[j].start \in D
          BY <1>5, <5>1 DEF StartingAt, K
        <5>3. B[j].start \in FG[a]
          BY <1>6, <5>1, <5>2 DEF GuardedFlow, D
        <5>4. QED
          BY <5>3
      <4>3. QED
        BY <1>8, <4>1, <4>2
    <3>3. QED
      BY <1>2, <1>5, <3>1, <3>2
  <2>2. ASSUME OwnSlowPaths(code) PROVE NoOther(RG, FG, guarded, B)
    <3> SUFFICES ASSUME NEW k \in RG, NEW a \in Addresses(B[k]), NEW b \in FG[a]
                 PROVE  (a # B[k].last /\ b = a + 1) \/ \E j \in guarded[k] : b = B[j].start
      BY DEF NoOther
    <3>1. k \in K /\ a \in D /\ b \in GuardedFlow(code, a)
      BY <1>5, <1>6, <1>10
    <3>2. CASE b \in Flow(code, a)
      <4>1. CASE a = B[k].last
        BY <1>7, <1>8, <3>1, <3>2, <4>1
      <4>2. CASE a # B[k].last
        BY <1>7, <3>1, <3>2, <4>2
      <4>3. QED
        BY <4>1, <4>2
    <3>3. CASE b \notin Flow(code, a)
      <4>1. code[a].op = "check" /\ b = code[a].to /\ b \in D
        BY <3>1, <3>3 DEF GuardedFlow, D
      <4>2. PICK last \in D : SlowPath(code, a, last)
        BY <2>2, <3>1, <4>1 DEF OwnSlowPaths, D
      <4>3. code[b - 1].op \in Ends /\ b - 1 \in D /\ (b - 1) + 1 = b
        <5>1. a + 1 < b /\ code[b - 1].op \in {"jump", "return"}
          BY <4>1, <4>2 DEF SlowPath
        <5>2. a \in Nat /\ b \in Nat
          BY <1>1, <3>1, <4>1
        <5>3. b - 1 \in a .. b
          BY <5>1, <5>2
        <5>4. b - 1 \in D
          BY <1>1, <3>1, <4>1, <5>3
        <5>5. QED
          BY <5>1, <5>2, <5>4 DEF Ends
      <4>4. b \in Leaders(code)
        BY <4>1, <4>3 DEF Leaders, D
      <4>5. PICK j \in K : B[j].start = b
        BY <1>2, <4>4
      <4>6. j \in GuardTargets(code, B, k)
        <5>1. j \in StartingAt(B, code[a].to)
          BY <4>1, <4>5 DEF StartingAt, K
        <5>2. a \in {c \in B[k].start .. B[k].last : code[c].op = "check"}
          BY <4>1 DEF Addresses
        <5>3. QED
          BY <5>1, <5>2 DEF GuardTargets
      <4>7. QED
        BY <1>8, <3>1, <4>5, <4>6
    <3>4. QED
      BY <3>2, <3>3
  <2>3. /\ Covered(B, RG) \subseteq Reached(FG, {B[0].start})
        /\ OwnSlowPaths(code) => Covered(B, RG) = Reached(FG, {B[0].start})
    <3>1. B[0].start \in Addresses(B[0])
      BY <1>2, <1>5
    <3>2. IsFiniteSet(D) /\ IsFiniteSet(K) /\ 0 \in K /\ FG \in [D -> SUBSET D] /\ guarded \in [K -> SUBSET K]
      BY <1>1, <1>2, <1>3, <1>6, <1>8
    <3>3. /\ Covered(B, Reached(guarded, {0})) \subseteq Reached(FG, {B[0].start})
          /\ NoOther(Reached(guarded, {0}), FG, guarded, B)
             => \A p \in Addresses(B[0]) : Reached(FG, {p}) \subseteq Covered(B, Reached(guarded, {0}))
      BY <2>1, <3>2, BlockReach
    <3>4. QED
      BY <2>2, <3>1, <3>3 DEF RG
  <2>4. RunsToGuarded(code, lo) = Reached(FG, {B[0].start})
    BY <1>2 DEF RunsToGuarded, FG, D
  <2>5. QED
    BY <2>3, <2>4
<1> DEFINE kept == K \ (RG \ R0)
<1>13. \A k \in K : \A S \in SUBSET K : \A a \in Addresses(B[k]) : a \in All(S) <=> k \in S
  <2> TAKE k \in K
  <2> TAKE S \in SUBSET K
  <2> TAKE a \in Addresses(B[k])
  <2>1. ASSUME a \in All(S) PROVE k \in S
    <3>1. PICK j \in S : a \in Addresses(B[j])
      BY <2>1 DEF Covered
    <3>2. j = k
      BY <1>4, <3>1
    <3>3. QED
      BY <3>1, <3>2
  <2>2. QED
    BY <2>1 DEF Covered
<1>14. /\ All(RG) \ All(R0) \subseteq Stranded(code)
       /\ OwnSlowPaths(code) => Stranded(code) = All(RG) \ All(R0)
  BY <1>11, <1>12 DEF Stranded, lo, D
<1>15. /\ \A k \in K : \A a \in Addresses(B[k]) : k \in RG \ R0 => a \in Stranded(code)
       /\ OwnSlowPaths(code) =>
            \A k \in K : \A a \in Addresses(B[k]) : a \in Stranded(code) => k \in RG \ R0
  <2>1. \A k \in K : \A a \in Addresses(B[k]) : a \in All(RG) \ All(R0) <=> k \in RG \ R0
    BY <1>10, <1>13
  <2> HIDE DEF All
  <2>2. QED
    BY <1>14, <2>1
<1>16. /\ D \ Stranded(code) \subseteq All(kept) /\ All(kept) \subseteq D
       /\ OwnSlowPaths(code) => All(kept) \cap Stranded(code) = {}
  <2>1. ASSUME NEW a \in All(kept) PROVE a \in D /\ (OwnSlowPaths(code) => a \notin Stranded(code))
    <3>1. PICK k \in kept : a \in Addresses(B[k])
      BY <2>1 DEF Covered
    <3>2. QED
      BY <1>5, <1>15, <3>1
  <2>2. ASSUME NEW a \in D \ Stranded(code) PROVE a \in All(kept)
    <3>1. PICK k \in K : a \in Addresses(B[k])
      BY <1>2
    <3>2. k \in kept
      BY <1>15, <3>1
    <3>3. QED
      BY <3>1, <3>2 DEF Covered
  <2>3. QED
    BY <2>1, <2>2
<1>17. \A k \in K \ kept : Addresses(B[k]) \subseteq Stranded(code)
  BY <1>15
<1>18. 0 \in kept
  BY <1>2, <1>10
<1>19. QED
  BY <1>9, <1>16, <1>17, <1>18 DEF K, D, succs

\* The graph of a record, whatever is in it, is the record's code.
THEOREM GraphOf ==
  ASSUME NEW code, CodeOK(code)
  PROVE  GraphIs(code, BuildFunctionIr(code))
<1> DEFINE D == DOMAIN code
           B == Blocks(code)
           K == DOMAIN B
           succs == [k \in K |-> Successors(code, B, k)]
           kept  == Kept(code, B, succs)
           n     == Cardinality(kept)
           old(i) == Nth(kept, i)
           H == Covered(B, kept)
           graph == BuildFunctionIr(code)
<1>1. BlocksAre(code, B)
  BY BlocksOf
<1>2. /\ kept \subseteq K /\ 0 \in kept
      /\ D \ Stranded(code) \subseteq H /\ H \subseteq D
      /\ OwnSlowPaths(code) => H \cap Stranded(code) = {}
  BY <1>1, KeptAre
<1>3. /\ \E m \in Nat : K = 0 .. m - 1
      /\ B[0].start = Min(D)
      /\ \A k \in K : /\ B[k].last \in D /\ B[k].start \in Leaders(code)
                      /\ B[k].start \in Nat /\ B[k].last \in Nat /\ B[k].start <= B[k].last
      /\ \A j, k \in K : j < k => B[j].last < B[k].start
  BY <1>1 DEF BlocksAre
<1>4. /\ \A k \in K : /\ Successors(code, B, k) \subseteq K
                      /\ {B[j].start : j \in Successors(code, B, k)} = Flow(code, B[k].last)
                      /\ \A a \in Addresses(B[k]) \ {B[k].last} : Flow(code, a) = {a + 1}
  BY <1>1, SuccessorsOf
<1>5. \A k \in K : succs[k] = Successors(code, B, k)
  OBVIOUS
<1>6. DOMAIN graph = 0 .. n - 1
  BY DEF BuildFunctionIr, Renumber
<1>7. \A i \in 0 .. n - 1 :
        /\ graph[i].start = B[old(i)].start
        /\ graph[i].last  = B[old(i)].last
        /\ graph[i].succs = {Place(kept, j) : j \in succs[old(i)] \cap kept}
        /\ graph[i].preds = {j \in 0 .. n - 1 : i \in graph[j].succs}
  <2> DEFINE g0 == Renumber(B, succs, kept)
  <2>1. graph = [i \in DOMAIN g0 |->
                   [start |-> g0[i].start, last |-> g0[i].last, succs |-> g0[i].succs,
                    preds |-> Predecessors(g0, i)]]
    BY DEF BuildFunctionIr
  <2>2. /\ DOMAIN g0 = 0 .. n - 1
        /\ \A i \in 0 .. n - 1 : /\ g0[i].start = B[old(i)].start
                                 /\ g0[i].last = B[old(i)].last
                                 /\ g0[i].succs = {Place(kept, j) : j \in succs[old(i)] \cap kept}
    BY DEF Renumber
  <2> HIDE DEF g0, graph, n, kept, succs, B
  <2>3. \A i \in 0 .. n - 1 : /\ graph[i].start = g0[i].start /\ graph[i].last = g0[i].last
                              /\ graph[i].succs = g0[i].succs
                              /\ graph[i].preds = Predecessors(g0, i)
    BY <2>1, <2>2
  <2>4. \A i \in 0 .. n - 1 : Predecessors(g0, i) = {j \in 0 .. n - 1 : i \in graph[j].succs}
    BY <2>2, <2>3 DEF Predecessors
  <2>5. QED
    BY <2>2, <2>3, <2>4
<1> HIDE DEF graph, n, H, kept, succs, B, K, D
<1>8. kept \in SUBSET Nat /\ IsFiniteSet(kept)
  <2>1. PICK m \in Nat : K = 0 .. m - 1
    BY <1>3
  <2>2. IsFiniteSet(0 .. m - 1) /\ 0 .. m - 1 \subseteq Nat
    BY FS_Interval
  <2>3. QED
    BY <1>2, <2>1, <2>2, FS_Subset
<1>9. /\ n \in Nat
      /\ \A k \in 0 .. n - 1 : old(k) \in kept /\ Place(kept, old(k)) = k
      /\ \A x \in kept : Place(kept, x) \in 0 .. n - 1 /\ old(Place(kept, x)) = x
      /\ \A j, k \in 0 .. n - 1 : j < k <=> old(j) < old(k)
  BY <1>8, NthIs DEF n
<1>10. \A k \in 0 .. n - 1 : old(k) \in K
  BY <1>2, <1>9
<1>11. n # 0 /\ 0 \in 0 .. n - 1 /\ old(0) = 0
  <2>1. Place(kept, 0) \in 0 .. n - 1 /\ old(Place(kept, 0)) = 0
    BY <1>2, <1>9
  <2>2. 0 \in 0 .. n - 1 /\ n # 0
    BY <1>9, <2>1
  <2>3. old(0) \in Nat
    BY <1>8, <1>9, <2>2
  <2>4. ~(0 < Place(kept, 0))
    <3>1. SUFFICES ASSUME 0 < Place(kept, 0) PROVE FALSE
      OBVIOUS
    <3>2. old(0) < 0
      BY <1>9, <2>1, <2>2, <3>1
    <3>3. QED
      BY <2>3, <3>2
  <2>5. Place(kept, 0) = 0
    BY <1>9, <2>1, <2>4
  <2>6. QED
    BY <2>1, <2>2, <2>5
<1>12. \A i \in 0 .. n - 1 : Addresses(graph[i]) = Addresses(B[old(i)])
  BY <1>7 DEF Addresses
<1>13. \A k \in K : /\ Addresses(B[k]) \subseteq D
                    /\ B[k].start \in Addresses(B[k]) /\ B[k].last \in Addresses(B[k])
  <2> TAKE k \in K
  <2>1. PICK lo \in Nat, hi \in Nat : D = lo .. hi
    BY CodeIs DEF D
  <2>2. B[k].start \in D /\ B[k].last \in D
    BY <1>3 DEF Leaders, D
  <2>3. \A a \in B[k].start .. B[k].last : a \in D
    BY <2>1, <2>2
  <2>4. B[k].start \in B[k].start .. B[k].last /\ B[k].last \in B[k].start .. B[k].last
    BY <1>3
  <2>5. QED
    BY <2>3, <2>4 DEF Addresses
<1>14. \A j, k \in K : Addresses(B[j]) \cap Addresses(B[k]) # {} => j = k
  <2>1. PICK m \in Nat : K = 0 .. m - 1
    BY <1>3
  <2>2. QED
    BY <1>3, <2>1, BlocksApart DEF K
<1>15. \A j \in K : j \in kept <=> B[j].start \in H
  <2> TAKE j \in K
  <2>1. B[j].start \in Addresses(B[j])
    BY <1>13
  <2>2. ASSUME B[j].start \in H PROVE j \in kept
    <3>1. PICK k \in kept : B[j].start \in Addresses(B[k])
      BY <2>2 DEF Covered, H
    <3>2. j = k
      BY <1>2, <1>14, <2>1, <3>1
    <3>3. QED
      BY <3>1, <3>2
  <2>3. QED
    BY <2>1, <2>2 DEF Covered, H
<1>16. ASSUME NEW i \in 0 .. n - 1
       PROVE  /\ graph[i].succs \subseteq 0 .. n - 1
              /\ Flow(code, graph[i].last) \cap H = {graph[j].start : j \in graph[i].succs}
  <2> DEFINE S == succs[old(i)] \cap kept
  <2>1. S \subseteq kept /\ graph[i].succs = {Place(kept, j) : j \in S}
    BY <1>7
  <2> HIDE DEF S
  <2>2. graph[i].succs \subseteq 0 .. n - 1
    BY <1>9, <2>1
  <2>3. \A j \in S : graph[Place(kept, j)].start = B[j].start
    BY <1>7, <1>9, <2>1
  <2>4. {graph[j].start : j \in graph[i].succs} = {B[j].start : j \in S}
    <3>1. ASSUME NEW x \in {graph[j].start : j \in graph[i].succs} PROVE x \in {B[j].start : j \in S}
      <4>1. PICK j \in graph[i].succs : x = graph[j].start
        OBVIOUS
      <4>2. PICK k \in S : j = Place(kept, k)
        BY <2>1, <4>1
      <4>3. x = B[k].start
        BY <2>3, <4>1, <4>2
      <4>4. QED
        BY <4>3
    <3>2. ASSUME NEW k \in S PROVE B[k].start \in {graph[j].start : j \in graph[i].succs}
      <4>1. Place(kept, k) \in graph[i].succs /\ graph[Place(kept, k)].start = B[k].start
        BY <2>1, <2>3
      <4>2. QED
        BY <4>1
    <3>3. QED
      BY <3>1, <3>2
  <2>5. old(i) \in K /\ graph[i].last = B[old(i)].last
    BY <1>7, <1>10
  <2>6. {B[j].start : j \in Successors(code, B, old(i))} = Flow(code, graph[i].last)
    BY <1>4, <2>5
  <2>7. S = Successors(code, B, old(i)) \cap kept /\ Successors(code, B, old(i)) \subseteq K
    BY <1>4, <1>5, <2>5 DEF S
  <2>8. Flow(code, graph[i].last) \cap H = {B[j].start : j \in S}
    <3>1. ASSUME NEW x \in Flow(code, graph[i].last), x \in H PROVE x \in {B[j].start : j \in S}
      <4>1. PICK j \in Successors(code, B, old(i)) : x = B[j].start
        BY <2>6
      <4>2. j \in S
        BY <1>15, <2>7, <3>1, <4>1
      <4>3. QED
        BY <4>1, <4>2
    <3>2. ASSUME NEW j \in S PROVE B[j].start \in Flow(code, graph[i].last) \cap H
      <4>1. j \in Successors(code, B, old(i)) /\ j \in K /\ j \in kept
        BY <2>7
      <4>2. B[j].start \in {B[k].start : k \in Successors(code, B, old(i))}
        BY <4>1
      <4>3. QED
        BY <1>15, <2>6, <4>1, <4>2
    <3>3. QED
      BY <3>1, <3>2
  <2>9. QED
    BY <2>2, <2>4, <2>8
<1>17. ASSUME NEW i \in 0 .. n - 1,
              OwnSlowPaths(code) \/ graph[i].last \in RunsTo(code, Min(D))
       PROVE  Flow(code, graph[i].last) = {graph[j].start : j \in graph[i].succs}
  <2>1. graph[i].last \in D /\ graph[i].last \in H
    BY <1>7, <1>9, <1>10, <1>13 DEF Covered, H
  <2>2. Flow(code, graph[i].last) \subseteq D
    BY DEF Flow, D
  <2>3. CASE OwnSlowPaths(code)
    <3>1. Flow(code, graph[i].last) \cap Stranded(code) = {}
      BY <1>2, <2>1, <2>3, StrandedIs DEF D
    <3>2. QED
      BY <1>2, <1>16, <2>2, <3>1
  <2>4. CASE graph[i].last \in RunsTo(code, Min(D))
    <3>1. IsFiniteSet(D) /\ Min(D) \in D
      BY CodeIs DEF D
    <3>2. Flow(code, graph[i].last) \subseteq RunsTo(code, Min(D))
      BY <2>4, <3>1, RunsToIs DEF D
    <3>3. Flow(code, graph[i].last) \cap Stranded(code) = {}
      BY <3>2 DEF Stranded, D
    <3>4. QED
      BY <1>2, <1>16, <2>2, <3>3
  <2>5. QED
    BY <1>17, <2>3, <2>4
<1>18. \A i \in 0 .. n - 1 : /\ graph[i].start \in Nat /\ graph[i].last \in Nat
                             /\ graph[i].start <= graph[i].last
                             /\ Addresses(graph[i]) \subseteq D
  BY <1>3, <1>7, <1>10, <1>12, <1>13
<1>19. \A i, j \in 0 .. n - 1 : i < j => graph[i].last < graph[j].start
  <2> TAKE i, j \in 0 .. n - 1
  <2> HAVE i < j
  <2>1. old(i) < old(j) /\ old(i) \in K /\ old(j) \in K
    BY <1>9, <1>10
  <2>2. B[old(i)].last < B[old(j)].start
    BY <1>3, <2>1
  <2>3. QED
    BY <1>7, <2>2
<1>20. \A i, j \in 0 .. n - 1 : Addresses(graph[i]) \cap Addresses(graph[j]) # {} => i = j
  BY <1>6, <1>9, <1>18, <1>19, BlocksApart
<1>21. InBlocks(graph) = H
  <2>1. UNION {Addresses(graph[i]) : i \in 0 .. n - 1} = Covered(B, kept)
    <3>1. ASSUME NEW i \in 0 .. n - 1, NEW a \in Addresses(graph[i]) PROVE a \in Covered(B, kept)
      BY <1>9, <1>12 DEF Covered
    <3>2. ASSUME NEW k \in kept, NEW a \in Addresses(B[k])
          PROVE  a \in UNION {Addresses(graph[i]) : i \in 0 .. n - 1}
      <4>1. Place(kept, k) \in 0 .. n - 1 /\ a \in Addresses(graph[Place(kept, k)])
        BY <1>9, <1>12
      <4>2. QED
        BY <4>1
    <3>3. QED
      BY <3>1, <3>2 DEF Covered
  <2>2. QED
    BY <1>6, <2>1 DEF InBlocks, H
<1>22. PartitionsTheCode(code, graph)
  BY <1>2, <1>6, <1>19, <1>21 DEF PartitionsTheCode, D
<1>23. FollowsTheCode(code, graph)
  <2>1. ASSUME NEW i \in 0 .. n - 1
        PROVE  /\ \A a \in Addresses(graph[i]) \ {graph[i].last} : Flow(code, a) = {a + 1}
               /\ \A j \in 0 .. n - 1 : j \in graph[i].succs <=> i \in graph[j].preds
    <3>1. \A a \in Addresses(graph[i]) \ {graph[i].last} : Flow(code, a) = {a + 1}
      BY <1>4, <1>7, <1>10, <1>12
    <3>2. \A j \in 0 .. n - 1 : j \in graph[i].succs <=> i \in graph[j].preds
      BY <1>7
    <3>3. QED
      BY <3>1, <3>2
  <2>2. QED
    BY <1>6, <1>16, <1>21, <2>1 DEF FollowsTheCode
<1>24. IsFiniteSet(0 .. n - 1) /\ Cardinality(0 .. n - 1) = n
  <2>1. IsFiniteSet(0 .. n - 1) /\ Cardinality(0 .. n - 1) = IF 0 > n - 1 THEN 0 ELSE (n - 1) - 0 + 1
    BY <1>9, FS_Interval
  <2>2. QED
    BY <1>9, <1>11, <2>1
<1>25. graph[0].start = Min(D)
  BY <1>3, <1>7, <1>11
<1>26. \A i \in 0 .. n - 1 : /\ graph[i].succs \subseteq 0 .. n - 1
                             /\ {graph[j].start : j \in graph[i].succs} \subseteq Flow(code, graph[i].last)
  <2> TAKE i \in 0 .. n - 1
  <2>1. graph[i].succs \subseteq 0 .. n - 1
    BY <1>16
  <2>2. {graph[j].start : j \in graph[i].succs} \subseteq Flow(code, graph[i].last)
    BY <1>16
  <2>3. QED
    BY <2>1, <2>2
<1>27. n \in Nat \ {0} /\ 0 \in 0 .. n - 1
  BY <1>9, <1>11
<1> HIDE DEF graph, D, n
<1>28. GraphIs(code, graph)
  BY <1>6, <1>17, <1>18, <1>20, <1>22, <1>23, <1>24, <1>25, <1>26, <1>27 DEF GraphIs, D
<1>29. QED
  BY <1>28 DEF graph

-----------------------------------------------------------------------------
(* What is reached from a block is what its code runs to.                    *)

SuccsOf(graph) == [k \in DOMAIN graph |-> graph[k].succs]

THEOREM GraphReach ==
  ASSUME NEW code, CodeOK(code), NEW graph, GraphIs(code, graph), NEW k0 \in DOMAIN graph,
         k0 = 0 \/ OwnSlowPaths(code)
  PROVE  /\ Reached(SuccsOf(graph), {k0}) \subseteq DOMAIN graph
         /\ k0 \in Reached(SuccsOf(graph), {k0})
         /\ Covered(graph, Reached(SuccsOf(graph), {k0})) \subseteq RunsTo(code, graph[k0].start)
         /\ \A p \in Addresses(graph[k0]) :
              RunsTo(code, p) \subseteq Covered(graph, Reached(SuccsOf(graph), {k0}))
<1> DEFINE D == DOMAIN code
           K == DOMAIN graph
           e == SuccsOf(graph)
           F == [a \in D |-> Flow(code, a)]
<1>1. IsFiniteSet(D) /\ IsFiniteSet(K)
  BY CodeIs DEF GraphIs
<1>2. F \in [D -> SUBSET D]
  BY DEF Flow
<1>3. e \in [K -> SUBSET K] /\ \A k \in K : e[k] = graph[k].succs
  BY DEF SuccsOf, GraphIs
<1>4. /\ \A k \in K : /\ graph[k].start \in Nat /\ graph[k].last \in Nat /\ graph[k].start <= graph[k].last
                      /\ Addresses(graph[k]) \subseteq D
                      /\ {graph[j].start : j \in graph[k].succs} \subseteq Flow(code, graph[k].last)
                      /\ OwnSlowPaths(code) \/ graph[k].last \in RunsTo(code, Min(D)) =>
                           Flow(code, graph[k].last) = {graph[j].start : j \in graph[k].succs}
      /\ \A k \in K : \A a \in Addresses(graph[k]) \ {graph[k].last} : Flow(code, a) = {a + 1}
      /\ graph[0].start = Min(D)
  BY DEF GraphIs, FollowsTheCode
<1>5. \A k \in K : graph[k].last \in Addresses(graph[k])
  BY <1>4 DEF Addresses
<1> HIDE DEF K, D, e
<1>6. Tiles(D, F, K, e, graph)
  <2>1. ASSUME NEW k \in K
        PROVE  /\ graph[k].start \in Nat /\ graph[k].last \in Nat /\ graph[k].start <= graph[k].last
               /\ Addresses(graph[k]) \subseteq D
               /\ \A a \in Addresses(graph[k]) \ {graph[k].last} : a + 1 \in F[a]
               /\ \A j \in e[k] : \E a \in Addresses(graph[k]) : graph[j].start \in F[a]
    <3>1. \A a \in Addresses(graph[k]) \ {graph[k].last} : a + 1 \in F[a]
      BY <1>4
    <3>2. ASSUME NEW j \in e[k] PROVE \E a \in Addresses(graph[k]) : graph[j].start \in F[a]
      <4>1. graph[j].start \in F[graph[k].last]
        BY <1>3, <1>4, <1>5, <3>2
      <4>2. QED
        BY <1>5, <4>1
    <3>3. QED
      BY <1>4, <3>1, <3>2
  <2>2. QED
    BY <2>1 DEF Tiles
<1>7. /\ k0 \in Reached(e, {k0}) /\ Reached(e, {k0}) \subseteq K
  BY <1>1, <1>3, ReachedIs DEF K
<1>8. \A p : RunsTo(code, p) = Reached(F, {p})
  BY DEF RunsTo, D
<1>9. k0 \in K
  BY DEF K
<1>10. /\ Covered(graph, Reached(e, {k0})) \subseteq Reached(F, {graph[k0].start})
       /\ NoOther(Reached(e, {k0}), F, e, graph)
             => \A p \in Addresses(graph[k0]) : Reached(F, {p}) \subseteq Covered(graph, Reached(e, {k0}))
  <2> HIDE DEF F
  <2>1. QED
    BY <1>1, <1>2, <1>3, <1>6, <1>9, BlockReach
<1>11. NoOther(Reached(e, {k0}), F, e, graph)
  <2>1. ASSUME NEW k \in Reached(e, {k0})
        PROVE  k \in K /\ Flow(code, graph[k].last) = {graph[j].start : j \in graph[k].succs}
    <3>1. k \in K /\ graph[k].last \in Addresses(graph[k])
      BY <1>5, <1>7
    <3>2. graph[k].last \in Reached(F, {graph[k0].start})
      <4> HIDE DEF F
      <4>1. QED
        BY <1>10, <3>1 DEF Covered
    <3>3. graph[k].last \in RunsTo(code, graph[k0].start)
      BY <1>8, <3>2
    <3>4. QED
      BY <1>4, <3>1, <3>3
  <2>2. ASSUME NEW k \in Reached(e, {k0}), NEW a \in Addresses(graph[k]), NEW b \in F[a]
        PROVE  (a # graph[k].last /\ b = a + 1) \/ \E j \in e[k] : b = graph[j].start
    <3>1. k \in K /\ a \in D /\ F[a] = Flow(code, a)
      BY <1>4, <2>1
    <3>2. CASE a = graph[k].last
      <4>1. b \in {graph[j].start : j \in graph[k].succs}
        BY <2>1, <2>2, <3>1, <3>2
      <4>2. e[k] = graph[k].succs
        BY <1>3, <3>1
      <4>3. QED
        BY <4>1, <4>2
    <3>3. CASE a # graph[k].last
      BY <1>4, <2>2, <3>1, <3>3
    <3>4. QED
      BY <3>2, <3>3
  <2>3. QED
    BY <2>2 DEF NoOther
<1> HIDE DEF F
<1>12. QED
  BY <1>7, <1>8, <1>10, <1>11 DEF e, K

-----------------------------------------------------------------------------
(* The functions of the pipeline.                                            *)

\* The same where what is behind some calls is cut off.
RunsBut(code, calls) == [a \in DOMAIN code |-> IF a \in calls THEN {} ELSE Flow(code, a)]

LEMMA PrunedReach ==
  ASSUME NEW code, CodeOK(code), NEW graph, GraphIs(code, graph), NEW calls
  PROVE  LET cut == CutAfterCalls(graph, calls)
         IN  /\ DOMAIN cut = DOMAIN graph
             /\ \A i, j \in DOMAIN cut : j \in cut[i].succs <=> i \in cut[j].preds
             /\ Covered(cut, Reached(SuccsOf(cut), {0})) = Reached(RunsBut(code, calls), {Min(DOMAIN code)})
<1> DEFINE D == DOMAIN code
           K == DOMAIN graph
           cut == CutAfterCalls(graph, calls)
           ended == {i \in K : Raises(graph[i], calls) # {}}
           e == SuccsOf(cut)
           F == RunsBut(code, calls)
<1>1. IsFiniteSet(D) /\ IsFiniteSet(K) /\ D \subseteq Nat
  BY CodeIs DEF GraphIs
<1>2. F \in [D -> SUBSET D]
  BY DEF Flow, RunsBut
<1>3. /\ DOMAIN cut = K
      /\ \A k \in K : /\ cut[k].start = graph[k].start
                      /\ cut[k].last = IF k \in ended THEN Min(Raises(graph[k], calls)) ELSE graph[k].last
                      /\ cut[k].succs = IF k \in ended THEN {} ELSE graph[k].succs
                      /\ cut[k].preds = graph[k].preds \ ended
  BY DEF CutAfterCalls
<1>4. e \in [K -> SUBSET K] /\ \A k \in K : e[k] = cut[k].succs
  BY <1>3 DEF SuccsOf, GraphIs
<1>5. /\ \A k \in K : /\ graph[k].start \in Nat /\ graph[k].last \in Nat /\ graph[k].start <= graph[k].last
                      /\ Addresses(graph[k]) \subseteq D
                      /\ {graph[j].start : j \in graph[k].succs} \subseteq Flow(code, graph[k].last)
                      /\ graph[k].last \in RunsTo(code, Min(D)) =>
                           Flow(code, graph[k].last) = {graph[j].start : j \in graph[k].succs}
      /\ \A k \in K : \A a \in Addresses(graph[k]) \ {graph[k].last} : Flow(code, a) = {a + 1}
      /\ \A i, j \in K : j \in graph[i].succs <=> i \in graph[j].preds
  BY DEF GraphIs, FollowsTheCode
<1>6. \A i, j \in K : j \in cut[i].succs <=> i \in cut[j].preds
  <2> HIDE DEF cut, K
  <2>1. \A i \in K : i \in ended <=> Raises(graph[i], calls) # {}
    OBVIOUS
  <2> HIDE DEF ended
  <2>2. QED
    BY <1>3, <1>5
<1>7. /\ 0 \in K /\ cut[0].start = Min(D)
  BY <1>3 DEF GraphIs
<1>8. ASSUME NEW k \in K
      PROVE  /\ cut[k].start \in Nat /\ cut[k].last \in Nat /\ cut[k].start <= cut[k].last
             /\ cut[k].last <= graph[k].last /\ Addresses(cut[k]) \subseteq Addresses(graph[k])
             /\ k \in ended => cut[k].last \in calls
             /\ \A a \in Addresses(cut[k]) \ {cut[k].last} : a \notin calls
             /\ k \notin ended => cut[k].last = graph[k].last /\ Addresses(graph[k]) \cap calls = {}
  <2> DEFINE R == Raises(graph[k], calls)
  <2>1. CASE k \in ended
    <3>1. R \subseteq Nat /\ R # {} /\ R = Addresses(graph[k]) \cap calls
      BY <1>5, <2>1 DEF Raises, Addresses
    <3>2. Min(R) \in R /\ \A y \in R : Min(R) <= y
      BY <3>1, MinOf
    <3>3. cut[k].last = Min(R) /\ cut[k].start = graph[k].start
      BY <1>3, <2>1
    <3> HIDE DEF R, cut, ended
    <3>4. /\ graph[k].start \in Nat /\ graph[k].last \in Nat
          /\ Min(R) \in graph[k].start .. graph[k].last /\ Min(R) \in calls
      BY <1>5, <3>1, <3>2 DEF Addresses
    <3>5. /\ cut[k].start \in Nat /\ cut[k].last \in Nat /\ cut[k].start <= cut[k].last
          /\ cut[k].last <= graph[k].last /\ cut[k].last \in calls
      BY <3>3, <3>4
    <3>6. Addresses(cut[k]) \subseteq Addresses(graph[k])
      BY <3>3, <3>4, <3>5 DEF Addresses
    <3>7. ASSUME NEW a \in Addresses(cut[k]) \ {cut[k].last} PROVE a \notin calls
      <4>1. a \in Nat /\ a < Min(R)
        BY <3>3, <3>4, <3>5, <3>7 DEF Addresses
      <4>2. a \notin R
        BY <3>2, <3>4, <4>1
      <4>3. QED
        BY <3>1, <3>6, <3>7, <4>2
    <3>8. QED
      BY <2>1, <3>5, <3>6, <3>7
  <2>2. CASE k \notin ended
    <3>1. Addresses(graph[k]) \cap calls = {} /\ cut[k].last = graph[k].last /\ cut[k].start = graph[k].start
      BY <1>3, <2>2 DEF Raises
    <3> HIDE DEF ended, cut
    <3>2. QED
      BY <1>5, <2>2, <3>1 DEF Addresses
  <2>3. QED
    BY <2>1, <2>2
<1>9. \A k \in K : cut[k].last \in Addresses(cut[k])
  BY <1>8 DEF Addresses
<1>10. \A a \in D : F[a] = IF a \in calls THEN {} ELSE Flow(code, a)
  BY DEF RunsBut
<1> HIDE DEF K, D, e, cut, ended, F
<1>11. Tiles(D, F, K, e, cut)
  <2>1. ASSUME NEW k \in K
        PROVE  /\ cut[k].start \in Nat /\ cut[k].last \in Nat /\ cut[k].start <= cut[k].last
               /\ Addresses(cut[k]) \subseteq D
               /\ \A a \in Addresses(cut[k]) \ {cut[k].last} : a + 1 \in F[a]
               /\ \A j \in e[k] : \E a \in Addresses(cut[k]) : cut[j].start \in F[a]
    <3>1. ASSUME NEW a \in Addresses(cut[k]) \ {cut[k].last} PROVE a + 1 \in F[a]
      <4>1. a \in Addresses(graph[k]) /\ a \in D /\ a \notin calls
        BY <1>5, <1>8, <3>1
      <4>2. a # graph[k].last
        BY <1>5, <1>8, <3>1 DEF Addresses
      <4>3. QED
        BY <1>5, <1>10, <4>1, <4>2
    <3>2. ASSUME NEW j \in e[k] PROVE \E a \in Addresses(cut[k]) : cut[j].start \in F[a]
      <4>1. k \notin ended /\ j \in graph[k].succs /\ j \in K
        BY <1>3, <1>4, <3>2
      <4>2. cut[k].last = graph[k].last /\ graph[k].last \notin calls /\ graph[k].last \in D
        BY <1>5, <1>8, <1>9, <4>1
      <4>3. cut[j].start \in F[cut[k].last]
        BY SMTT(30), <1>3, <1>5, <1>10, <4>1, <4>2
      <4>4. QED
        BY <1>9, <4>3
    <3>3. QED
      BY <1>5, <1>8, <3>1, <3>2
  <2>2. QED
    BY <2>1 DEF Tiles
<1>12. Reached(e, {0}) \subseteq K
  BY <1>1, <1>4, <1>7, ReachedIs
<1>13. /\ Covered(cut, Reached(e, {0})) \subseteq Reached(F, {cut[0].start})
       /\ NoOther(Reached(e, {0}), F, e, cut)
             => \A p \in Addresses(cut[0]) : Reached(F, {p}) \subseteq Covered(cut, Reached(e, {0}))
  BY <1>1, <1>2, <1>4, <1>7, <1>11, BlockReach
<1>14. Reached(F, {Min(D)}) \subseteq RunsTo(code, Min(D))
  <2> DEFINE T == RunsTo(code, Min(D))
  <2>1. Min(D) \in D
    BY CodeIs DEF D
  <2>2. Min(D) \in T /\ \A a \in T : Flow(code, a) \subseteq T
    BY <1>1, <2>1, RunsToIs DEF D
  <2>3. \A a \in D : F[a] \subseteq Flow(code, a)
    BY <1>10
  <2> HIDE DEF T
  <2>4. {Min(D)} \subseteq T /\ \A a \in T \cap D : F[a] \subseteq T
    BY <2>2, <2>3
  <2>5. {Min(D)} \in SUBSET D
    BY <2>1
  <2>6. Reached(F, {Min(D)}) \subseteq T
    BY <1>1, <1>2, <2>4, <2>5, ReachedIs
  <2>7. QED
    BY <2>6 DEF T
<1>15. NoOther(Reached(e, {0}), F, e, cut)
  <2>1. ASSUME NEW k \in Reached(e, {0}), NEW a \in Addresses(cut[k]), NEW b \in F[a]
        PROVE  (a # cut[k].last /\ b = a + 1) \/ \E j \in e[k] : b = cut[j].start
    <3>0. k \in K /\ a \in RunsTo(code, Min(D))
      BY <1>7, <1>12, <1>13, <1>14, <2>1 DEF Covered
    <3>1. a \in D /\ a \notin calls /\ b \in Flow(code, a) /\ a \in Addresses(graph[k])
      BY <1>5, <1>8, <1>10, <2>1, <3>0
    <3>2. CASE a = cut[k].last
      <4>1. k \notin ended /\ a = graph[k].last
        BY <1>8, <3>0, <3>1, <3>2
      <4>2. PICK j \in graph[k].succs : b = graph[j].start
        BY <1>5, <3>0, <3>1, <4>1
      <4>3. j \in e[k] /\ j \in K
        BY <1>3, <1>4, <3>0, <4>1, <4>2
      <4>4. QED
        BY <1>3, <4>2, <4>3
    <3>3. CASE a # cut[k].last
      <4>1. a # graph[k].last
        BY <1>5, <1>8, <2>1, <3>0, <3>3 DEF Addresses
      <4>2. QED
        BY <1>5, <3>0, <3>1, <3>3, <4>1
    <3>4. QED
      BY <3>2, <3>3
  <2>2. QED
    BY <2>1 DEF NoOther
<1>16. cut[0].start \in Addresses(cut[0])
  BY <1>7, <1>8 DEF Addresses
<1>17. Covered(cut, Reached(e, {0})) = Reached(F, {Min(D)})
  BY <1>7, <1>13, <1>15, <1>16
<1>18. QED
  BY <1>3, <1>6, <1>17 DEF cut, K, e, F, D

-----------------------------------------------------------------------------
(* What is chosen.                                                          *)

\* Ranks of functions that decode, none twice.
Picks(r) ==
  {s \in Seq(DOMAIN r.functions) :
     /\ \A j, k \in DOMAIN s : s[j] = s[k] => j = k
     /\ \A k \in DOMAIN s : Decodes(r.functions[s[k]])}

LEMMA RequestIs ==
  ASSUME NEW r \in Requests
  PROVE  /\ Len(r.functions) \in Nat /\ DOMAIN r.functions = 1 .. Len(r.functions)
         /\ Ranked(r) \subseteq DOMAIN r.functions
         /\ \A n : OfCategory(r, n) \subseteq DOMAIN r.functions
<1>1. Len(r.functions) \in Nat /\ DOMAIN r.functions = 1 .. Len(r.functions)
  BY RequestsAssumption
<1>2. Ranked(r) \subseteq DOMAIN r.functions
  BY DEF Ranked, Scoped, Targeted
<1>3. QED
  BY <1>1, <1>2 DEF OfCategory

LEMMA PickIs ==
  ASSUME NEW r \in Requests, NEW i \in DOMAIN r.functions, NEW s \in Picks(r),
         Cap(r) # {} \/ \A k \in DOMAIN s : s[k] # i
  PROVE  Pick(r, i, s) \in Picks(r)
<1>1. CASE Fits(r, i, s) /\ Decodes(r.functions[i])
  <2>1. \A k \in DOMAIN s : s[k] # i
    <3>1. SUFFICES ASSUME Cap(r) # {} PROVE \A k \in DOMAIN s : s[k] # i
      OBVIOUS
    <3>2. r.functions[i].entry \notin EntriesOf(r, s)
      BY <1>1, <3>1 DEF Fits
    <3>3. QED
      BY <3>2 DEF EntriesOf
  <2>2. Pick(r, i, s) = Append(s, i) /\ s \in Seq(DOMAIN r.functions)
    BY <1>1 DEF Pick, Picks
  <2> DEFINE t == Append(s, i)
  <2>3. t \in Seq(DOMAIN r.functions) /\ DOMAIN t = 1 .. Len(s) + 1 /\ DOMAIN s = 1 .. Len(s)
        /\ Len(s) \in Nat /\ t[Len(s) + 1] = i /\ \A k \in 1 .. Len(s) : t[k] = s[k]
    BY <2>2
  <2> HIDE DEF t
  <2>4. \A k \in DOMAIN t : k \in DOMAIN s \/ k = Len(s) + 1
    BY <2>3
  <2>5. \A j, k \in DOMAIN t : t[j] = t[k] => j = k
    BY <2>1, <2>3, <2>4 DEF Picks
  <2>6. \A k \in DOMAIN t : Decodes(r.functions[t[k]])
    BY <1>1, <2>3, <2>4 DEF Picks
  <2>7. t \in Picks(r)
    BY <2>3, <2>5, <2>6 DEF Picks
  <2>8. QED
    BY <2>2, <2>7 DEF t
<1>2. CASE ~(Fits(r, i, s) /\ Decodes(r.functions[i]))
  BY <1>2 DEF Pick
<1>3. QED
  BY <1>1, <1>2

NextSeed(r, n, before) ==
  LET fresh == {i \in OfCategory(r, n) : r.functions[i].entry \notin EntriesOf(r, before)}
  IN  IF fresh = {} THEN before ELSE Append(before, Min(fresh))

PassOne(r, n, before) ==
  IF n \notin Ranked(r) THEN before
  ELSE IF Fits(r, n, before.picked) /\ Crowded(r, n, before.picked)
  THEN [before EXCEPT !.deferred = @ \union {n}]
  ELSE [before EXCEPT !.picked = Pick(r, n, @)]

SeedsBy(r, seeds) ==
  /\ seeds[0] = <<>>
  /\ \A n \in Nat : seeds[n + 1] = NextSeed(r, n + 1, seeds[n])

SeededBy(r, picked) ==
  /\ picked[0] = <<>>
  /\ \A n \in Nat : picked[n + 1] = Pick(r, SeedEntries(r)[n + 1], picked[n])

PassBy(r, pass) ==
  /\ pass[0] = [picked |-> Seeded(r), deferred |-> {}]
  /\ \A n \in Nat : pass[n + 1] = PassOne(r, n + 1, pass[n])

InTurnBy(r, ranks, before, after) ==
  /\ after[0] = before
  /\ \A n \in Nat : after[n + 1] = IF n + 1 \in ranks THEN Pick(r, n + 1, after[n]) ELSE after[n]

LEMMA NextSeedIs ==
  ASSUME NEW r \in Requests, NEW n \in Nat, NEW before \in Seq(DOMAIN r.functions)
  PROVE  NextSeed(r, n, before) \in Seq(DOMAIN r.functions)
<1> DEFINE V == DOMAIN r.functions
           fresh == {i \in OfCategory(r, n) : r.functions[i].entry \notin EntriesOf(r, before)}
<1>1. fresh \subseteq V /\ V = 1 .. Len(r.functions)
  BY RequestIs
<1>2. fresh \in SUBSET Nat
  BY <1>1
<1>3. fresh # {} => Min(fresh) \in V
  BY <1>1, <1>2, MinOf
<1> HIDE DEF fresh, V
<1>4. IF fresh = {} THEN before \in Seq(V) ELSE Append(before, Min(fresh)) \in Seq(V)
  BY <1>3 DEF V
<1>5. QED
  BY <1>4 DEF fresh, V, NextSeed

LEMMA SeedsSteps ==
  ASSUME NEW r \in Requests
  PROVE  \E seeds : SeedsBy(r, seeds) /\ SeedEntries(r) = seeds[5]
<1> DEFINE V == DOMAIN r.functions
           Eq(g) == g = [n \in Nat |-> IF n = 0 THEN <<>> ELSE NextSeed(r, n, g[n - 1])]
           seeds == CHOOSE g : Eq(g)
           step == [n \in Nat |-> [before \in Seq(V) |-> NextSeed(r, n, before)]]
<1>1. step \in [Nat -> [Seq(V) -> Seq(V)]] /\ <<>> \in Seq(V)
  BY NextSeedIs
<1>2. PICK g : Follows(g, Seq(V), <<>>, step)
  <2> HIDE DEF step, V
  <2>1. QED
    BY <1>1, Recursion
<1>3. Eq(g)
  <2>1. ASSUME NEW n \in Nat PROVE g[n] = IF n = 0 THEN <<>> ELSE NextSeed(r, n, g[n - 1])
    <3>1. CASE n = 0
      BY <1>2, <3>1 DEF Follows
    <3>2. CASE n # 0
      <4>1. n - 1 \in Nat /\ (n - 1) + 1 = n
        BY <3>2
      <4>2. g[(n - 1) + 1] = step[(n - 1) + 1][g[n - 1]] /\ g[n - 1] \in Seq(V)
        BY <1>2, <4>1 DEF Follows
      <4>3. g[n] = NextSeed(r, n, g[n - 1])
        BY <4>1, <4>2
      <4>4. QED
        BY <3>2, <4>3
    <3>3. QED
      BY <3>1, <3>2
  <2>2. QED
    BY <1>2, <2>1 DEF Follows
<1>4. Eq(seeds)
  BY <1>3
<1>5. SeedEntries(r) = seeds[Len(Categories)]
  BY DEF SeedEntries, NextSeed
<1>6. Len(Categories) = 5
  BY DEF Categories
<1> HIDE DEF seeds
<1>7. seeds[0] = <<>>
  BY <1>4
<1>8. ASSUME NEW n \in Nat PROVE seeds[n + 1] = NextSeed(r, n + 1, seeds[n])
  <2>1. n + 1 \in Nat /\ n + 1 # 0 /\ (n + 1) - 1 = n
    OBVIOUS
  <2>2. seeds[n + 1] = NextSeed(r, n + 1, seeds[(n + 1) - 1])
    BY <1>4, <2>1
  <2>3. QED
    BY <2>1, <2>2
<1>9. SeedsBy(r, seeds)
  BY <1>7, <1>8 DEF SeedsBy
<1>10. QED
  BY <1>5, <1>6, <1>9

LEMMA SeededSteps ==
  ASSUME NEW r \in Requests
  PROVE  \E picked : SeededBy(r, picked) /\ Seeded(r) = picked[Len(SeedEntries(r))]
<1> DEFINE V == DOMAIN r.functions
           seeds == SeedEntries(r)
           W == V \union {seeds[n] : n \in Nat}
           Eq(g) == g = [n \in Nat |-> IF n = 0 THEN <<>> ELSE Pick(r, seeds[n], g[n - 1])]
           picked == CHOOSE g : Eq(g)
           step == [n \in Nat |-> [before \in Seq(W) |-> Pick(r, seeds[n], before)]]
<1>1. \A n \in Nat : \A before \in Seq(W) : Pick(r, seeds[n], before) \in Seq(W)
  <2> TAKE n \in Nat
  <2> TAKE before \in Seq(W)
  <2>1. seeds[n] \in W
    OBVIOUS
  <2> HIDE DEF W, seeds
  <2>2. QED
    BY <2>1 DEF Pick
<1>2. step \in [Nat -> [Seq(W) -> Seq(W)]] /\ <<>> \in Seq(W)
  BY <1>1
<1>3. PICK g : Follows(g, Seq(W), <<>>, step)
  <2> HIDE DEF step, W
  <2>1. QED
    BY <1>2, Recursion
<1>4. Eq(g)
  <2>1. ASSUME NEW n \in Nat PROVE g[n] = IF n = 0 THEN <<>> ELSE Pick(r, seeds[n], g[n - 1])
    <3>1. CASE n = 0
      BY <1>3, <3>1 DEF Follows
    <3>2. CASE n # 0
      <4>1. n - 1 \in Nat /\ (n - 1) + 1 = n
        BY <3>2
      <4>2. g[(n - 1) + 1] = step[(n - 1) + 1][g[n - 1]] /\ g[n - 1] \in Seq(W)
        BY <1>3, <4>1 DEF Follows
      <4> HIDE DEF W, seeds
      <4>3. g[n] = Pick(r, seeds[n], g[n - 1])
        BY <4>1, <4>2
      <4>4. QED
        BY <3>2, <4>3
    <3>3. QED
      BY <3>1, <3>2
  <2>2. QED
    BY <1>3, <2>1 DEF Follows
<1>5. Eq(picked)
  BY <1>4
<1>6. Seeded(r) = picked[Len(seeds)]
  BY DEF Seeded
<1> HIDE DEF picked
<1>7. picked[0] = <<>>
  BY <1>5
<1>8. ASSUME NEW n \in Nat PROVE picked[n + 1] = Pick(r, seeds[n + 1], picked[n])
  <2>1. n + 1 \in Nat /\ n + 1 # 0 /\ (n + 1) - 1 = n
    OBVIOUS
  <2>2. picked[n + 1] = Pick(r, seeds[n + 1], picked[(n + 1) - 1])
    BY <1>5, <2>1
  <2>3. QED
    BY <2>1, <2>2
<1>9. SeededBy(r, picked)
  BY <1>7, <1>8 DEF SeededBy
<1>10. QED
  BY <1>6, <1>9

LEMMA InTurnSteps ==
  ASSUME NEW r \in Requests, NEW ranks \in SUBSET DOMAIN r.functions,
         NEW before \in Seq(DOMAIN r.functions)
  PROVE  \E after : /\ InTurnBy(r, ranks, before, after)
                    /\ InTurn(r, ranks, before) = after[Len(r.functions)]
<1> DEFINE V == DOMAIN r.functions
           more(n, s) == IF n \in ranks THEN Pick(r, n, s) ELSE s
           Eq(g) == g = [n \in Nat |-> IF n = 0 THEN before
                                       ELSE IF n \in ranks THEN Pick(r, n, g[n - 1]) ELSE g[n - 1]]
           after == CHOOSE g : Eq(g)
           step == [n \in Nat |-> [s \in Seq(V) |-> more(n, s)]]
<1>1. \A n \in Nat : \A s \in Seq(V) : more(n, s) \in Seq(V)
  <2> TAKE n \in Nat
  <2> TAKE s \in Seq(V)
  <2>1. n \in ranks => n \in V
    OBVIOUS
  <2> HIDE DEF V
  <2>2. n \in ranks => Append(s, n) \in Seq(V)
    BY <2>1
  <2>3. QED
    BY <2>2 DEF Pick
<1>2. step \in [Nat -> [Seq(V) -> Seq(V)]] /\ before \in Seq(V)
  BY <1>1
<1>3. PICK g : Follows(g, Seq(V), before, step)
  <2> HIDE DEF step, V
  <2>1. QED
    BY <1>2, Recursion
<1>4. Eq(g)
  <2>1. ASSUME NEW n \in Nat
        PROVE g[n] = IF n = 0 THEN before ELSE IF n \in ranks THEN Pick(r, n, g[n - 1]) ELSE g[n - 1]
    <3>1. CASE n = 0
      BY <1>3, <3>1 DEF Follows
    <3>2. CASE n # 0
      <4>1. n - 1 \in Nat /\ (n - 1) + 1 = n
        BY <3>2
      <4>2. g[(n - 1) + 1] = step[(n - 1) + 1][g[n - 1]] /\ g[n - 1] \in Seq(V)
        BY <1>3, <4>1 DEF Follows
      <4>3. g[n] = more(n, g[n - 1])
        BY <4>1, <4>2
      <4>4. QED
        BY <3>2, <4>3
    <3>3. QED
      BY <3>1, <3>2
  <2>2. QED
    BY <1>3, <2>1 DEF Follows
<1>5. Eq(after)
  BY <1>4
<1>6. InTurn(r, ranks, before) = after[Len(r.functions)]
  BY DEF InTurn
<1> HIDE DEF after
<1>7. after[0] = before
  BY <1>5
<1>8. ASSUME NEW n \in Nat
      PROVE after[n + 1] = IF n + 1 \in ranks THEN Pick(r, n + 1, after[n]) ELSE after[n]
  <2>1. n + 1 \in Nat /\ n + 1 # 0 /\ (n + 1) - 1 = n
    OBVIOUS
  <2>2. QED
    BY <1>5, <2>1
<1>9. InTurnBy(r, ranks, before, after)
  BY <1>7, <1>8 DEF InTurnBy
<1>10. QED
  BY <1>6, <1>9

Of(s) == {s[k] : k \in DOMAIN s}

Full(r, s) == \A max \in Cap(r) : max <= Len(s)

\* Under a cap, an entry is there once.
Sound(r, s) ==
  /\ s \in Picks(r) /\ Of(s) \subseteq Ranked(r)
  /\ IsFiniteSet(EntriesOf(r, s)) /\ Len(s) = Cardinality(EntriesOf(r, s))
  /\ \A max \in Cap(r) : Len(s) <= max

\* One list is the begin of another, which is no longer when the cap is used up.
GrowsTo(r, s, t) ==
  /\ Of(s) \subseteq Of(t) /\ EntriesOf(r, s) \subseteq EntriesOf(r, t) /\ Len(s) <= Len(t)
  /\ Full(r, s) => t = s

PicksOne(r, i, s, t) ==
  /\ GrowsTo(r, s, t)
  /\ Len(t) <= Len(s) + 1
  /\ \/ t = s
     \/ Of(t) = Of(s) \union {i} /\ Fits(r, i, s) /\ Decodes(r.functions[i])
  /\ Decodes(r.functions[i]) => r.functions[i].entry \in EntriesOf(r, t) \/ Full(r, s)

LEMMA CapIs ==
  ASSUME NEW r \in Requests, Cap(r) # {}
  PROVE  \E max \in Nat : Cap(r) = {max}
<1>1. r.max \subseteq Nat /\ \A x, y \in r.max : x = y
  BY RequestsAssumption
<1>2. Cap(r) = r.max
  BY DEF Cap
<1>3. QED
  BY <1>1, <1>2

LEMMA EntriesAre ==
  ASSUME NEW r, NEW s
  PROVE  EntriesOf(r, s) = {r.functions[i].entry : i \in Of(s)}
BY DEF EntriesOf, Of

LEMMA GrowsOn ==
  ASSUME NEW r, NEW s, NEW t, NEW u, GrowsTo(r, s, t), GrowsTo(r, t, u),
         Len(s) \in Nat, Len(t) \in Nat, Len(u) \in Nat
  PROVE  GrowsTo(r, s, u)
BY DEF GrowsTo

LEMMA SoundIs ==
  ASSUME NEW r \in Requests, NEW s, Sound(r, s)
  PROVE  /\ s \in Seq(DOMAIN r.functions) /\ Len(s) \in Nat /\ DOMAIN s = 1 .. Len(s)
         /\ Of(s) \subseteq Nat /\ Of(s) \subseteq DOMAIN r.functions
         /\ \A i \in Of(s) : Decodes(r.functions[i])
         /\ GrowsTo(r, s, s)
<1>1. s \in Seq(DOMAIN r.functions)
  BY DEF Sound, Picks
<1>2. Len(s) \in Nat /\ DOMAIN s = 1 .. Len(s)
  BY <1>1
<1>3. Of(s) \subseteq DOMAIN r.functions
  BY <1>1 DEF Of
<1>4. DOMAIN r.functions \subseteq Nat
  BY RequestIs
<1>5. \A i \in Of(s) : Decodes(r.functions[i])
  BY DEF Sound, Picks, Of
<1>6. GrowsTo(r, s, s)
  BY <1>2 DEF GrowsTo
<1>7. QED
  BY <1>1, <1>2, <1>3, <1>4, <1>5, <1>6

LEMMA EmptyIsSound ==
  ASSUME NEW r \in Requests, Cap(r) # {}
  PROVE  Sound(r, <<>>)
<1>1. <<>> \in Picks(r)
  BY DEF Picks
<1>2. Of(<<>>) = {} /\ EntriesOf(r, <<>>) = {}
  BY DEF Of, EntriesOf
<1>3. IsFiniteSet({}) /\ Cardinality({}) = 0 /\ Len(<<>>) = 0
  BY FS_EmptySet
<1>4. QED
  BY <1>1, <1>2, <1>3, CapIs DEF Sound

LEMMA PickSound ==
  ASSUME NEW r \in Requests, Cap(r) # {}, NEW s, Sound(r, s), NEW i \in Ranked(r)
  PROVE  Sound(r, Pick(r, i, s)) /\ PicksOne(r, i, s, Pick(r, i, s))
<1>1. PICK max \in Nat : Cap(r) = {max}
  BY CapIs
<1>2. /\ s \in Seq(DOMAIN r.functions) /\ Len(s) \in Nat /\ DOMAIN s = 1 .. Len(s)
      /\ GrowsTo(r, s, s)
  BY SoundIs
<1>3. i \in DOMAIN r.functions
  BY RequestIs
<1> DEFINE c == r.functions[i]
           E == EntriesOf(r, s)
<1>4. CASE Fits(r, i, s) /\ Decodes(c)
  <2> DEFINE t == Append(s, i)
  <2>1. Pick(r, i, s) = t
    BY <1>4 DEF Pick
  <2>2. Pick(r, i, s) \in Picks(r)
    BY <1>3, PickIs DEF Sound
  <2>3. /\ Len(t) = Len(s) + 1 /\ DOMAIN t = 1 .. Len(s) + 1 /\ t[Len(s) + 1] = i
        /\ \A k \in 1 .. Len(s) : t[k] = s[k]
    BY <1>2, <1>3
  <2> HIDE DEF t
  <2>4. Of(t) = Of(s) \union {i}
    <3>1. \A k \in DOMAIN t : k \in DOMAIN s \/ k = Len(s) + 1
      BY <1>2, <2>3
    <3>2. \A k \in DOMAIN s : k \in DOMAIN t /\ t[k] = s[k]
      BY <1>2, <2>3
    <3>3. Len(s) + 1 \in DOMAIN t
      BY <1>2, <2>3
    <3>4. QED
      BY <2>3, <3>1, <3>2, <3>3 DEF Of
  <2>5. EntriesOf(r, t) = E \union {c.entry}
    BY <2>4, EntriesAre
  <2>6. c.entry \notin E /\ Len(s) < max
    BY <1>1, <1>4 DEF Fits
  <2>7. IsFiniteSet(E) /\ Cardinality(E) = Len(s)
    BY DEF Sound
  <2>8. IsFiniteSet(E \union {c.entry}) /\ Cardinality(E \union {c.entry}) = Len(s) + 1
    <3> HIDE DEF E, c
    <3>1. QED
      BY <2>6, <2>7, FS_AddElement
  <2>9. Of(t) \subseteq Ranked(r)
    BY <2>4 DEF Sound
  <2>10. Len(t) <= max
    BY <1>2, <2>3, <2>6
  <2>11. Sound(r, t)
    BY <1>1, <2>1, <2>2, <2>3, <2>5, <2>8, <2>9, <2>10 DEF Sound
  <2>12. ~Full(r, s)
    BY <1>1, <1>2, <2>6 DEF Full
  <2>13. GrowsTo(r, s, t)
    BY <1>2, <2>3, <2>4, <2>5, <2>12 DEF GrowsTo
  <2>14. PicksOne(r, i, s, t)
    BY <1>2, <1>4, <2>3, <2>4, <2>5, <2>13 DEF PicksOne
  <2>15. QED
    BY <2>1, <2>11, <2>14
<1>5. CASE ~(Fits(r, i, s) /\ Decodes(c))
  <2>1. Pick(r, i, s) = s
    BY <1>5 DEF Pick
  <2>2. Decodes(c) => c.entry \in E \/ Full(r, s)
    <3>1. SUFFICES ASSUME Decodes(c), c.entry \notin E PROVE Full(r, s)
      OBVIOUS
    <3>2. ~(Len(s) < max)
      BY <1>1, <1>5, <3>1 DEF Fits
    <3>3. QED
      BY <1>1, <1>2, <3>2 DEF Full
  <2>3. PicksOne(r, i, s, s)
    BY <1>2, <2>2 DEF PicksOne
  <2>4. QED
    BY <2>1, <2>3
<1>6. QED
  BY <1>4, <1>5

\* A seed is the best at its entry, and the best of a category is one.
FirstOfEntry(r, i) ==
  /\ i \in Ranked(r)
  /\ \A j \in Ranked(r) : r.functions[j].entry = r.functions[i].entry => i <= j

HasBest(r, m, s) ==
  OfCategory(r, m) # {} => \E p \in DOMAIN s : p <= m /\ s[p] = Min(OfCategory(r, m))

SeedsTo(r, n, s) ==
  /\ s \in Seq(DOMAIN r.functions) /\ Len(s) <= n
  /\ \A i \in Of(s) : FirstOfEntry(r, i)
  /\ \A m \in 1 .. n : HasBest(r, m, s)

LEMMA SeedStep ==
  ASSUME NEW r \in Requests, NEW n \in Nat, NEW s, SeedsTo(r, n, s)
  PROVE  SeedsTo(r, n + 1, NextSeed(r, n + 1, s))
<1> DEFINE C == OfCategory(r, n + 1)
           fresh == {i \in C : r.functions[i].entry \notin EntriesOf(r, s)}
           t == NextSeed(r, n + 1, s)
<1>1. t \in Seq(DOMAIN r.functions) /\ s \in Seq(DOMAIN r.functions)
  BY NextSeedIs DEF SeedsTo
<1>2. DOMAIN s = 1 .. Len(s) /\ Len(s) \in Nat /\ Len(s) <= n
  BY <1>1 DEF SeedsTo
<1>3. C \subseteq Ranked(r) /\ Ranked(r) \subseteq Nat
  BY RequestIs DEF OfCategory
<1>4. \A i, j \in Ranked(r) : r.functions[i].entry = r.functions[j].entry => (i \in C <=> j \in C)
  BY DEF OfCategory
<1>5. C # {} => Min(C) \in C /\ \A j \in C : Min(C) <= j
  <2>1. C \in SUBSET Nat
    BY <1>3
  <2> HIDE DEF C
  <2>2. QED
    BY <2>1, MinOf
<1>6. fresh # {} => Min(fresh) \in fresh /\ \A j \in fresh : Min(fresh) <= j
  <2>1. fresh \in SUBSET Nat
    BY <1>3
  <2> HIDE DEF fresh
  <2>2. QED
    BY <2>1, MinOf
\* At an entry that is there already stands the best one of it.
<1>7. C # {} /\ Min(C) \notin fresh => \E p \in DOMAIN s : s[p] = Min(C)
  <2>1. SUFFICES ASSUME C # {}, Min(C) \notin fresh PROVE \E p \in DOMAIN s : s[p] = Min(C)
    OBVIOUS
  <2> DEFINE b == Min(C)
  <2>2. b \in C /\ r.functions[b].entry \in EntriesOf(r, s)
    BY <1>5, <2>1
  <2>3. PICK p \in DOMAIN s : r.functions[s[p]].entry = r.functions[b].entry
    BY <2>2 DEF EntriesOf
  <2>4. s[p] \in Ranked(r) /\ s[p] <= b
    BY <1>3, <2>2, <2>3 DEF SeedsTo, FirstOfEntry, Of
  <2>5. s[p] \in C
    BY <1>3, <1>4, <2>2, <2>3, <2>4
  <2>6. b <= s[p] /\ b \in Nat /\ s[p] \in Nat
    BY <1>3, <1>5, <2>2, <2>5
  <2>7. s[p] = b
    BY <2>4, <2>6
  <2>8. QED
    BY <2>7
<1>8. \A m \in 1 .. n + 1 : m \in 1 .. n \/ m = n + 1
  OBVIOUS
<1>9. CASE fresh = {}
  <2>1. t = s
    BY <1>9 DEF NextSeed
  <2>2. HasBest(r, n + 1, s)
    <3>1. SUFFICES ASSUME C # {} PROVE \E p \in DOMAIN s : p <= n + 1 /\ s[p] = Min(C)
      BY DEF HasBest
    <3>2. PICK p \in DOMAIN s : s[p] = Min(C)
      BY <1>7, <1>9, <3>1
    <3>3. p <= n + 1
      BY <1>2, <3>2
    <3>4. QED
      BY <3>2, <3>3
  <2>3. QED
    BY <1>1, <1>2, <1>8, <2>1, <2>2 DEF SeedsTo
<1>10. CASE fresh # {}
  <2> DEFINE x == Min(fresh)
  <2>1. t = Append(s, x) /\ x \in fresh
    BY <1>6, <1>10 DEF NextSeed
  <2>2. x \in DOMAIN r.functions
    BY <1>3, <2>1, RequestIs
  <2> HIDE DEF t
  <2>3. /\ Len(t) = Len(s) + 1 /\ DOMAIN t = 1 .. Len(s) + 1 /\ t[Len(s) + 1] = x
        /\ \A k \in 1 .. Len(s) : t[k] = s[k]
    <3> HIDE DEF x
    <3>1. QED
      BY <1>1, <1>2, <2>1, <2>2
  <2>4. FirstOfEntry(r, x)
    <3>1. x \in Ranked(r)
      BY <1>3, <2>1
    <3>2. ASSUME NEW j \in Ranked(r), r.functions[j].entry = r.functions[x].entry PROVE x <= j
      <4>1. j \in fresh
        BY <1>4, <2>1, <3>1, <3>2
      <4>2. QED
        BY <1>6, <4>1
    <3>3. QED
      BY <3>1, <3>2 DEF FirstOfEntry
  <2>5. \A i \in Of(t) : i \in Of(s) \/ i = x
    <3>1. \A k \in DOMAIN t : k \in DOMAIN s \/ k = Len(s) + 1
      BY <1>2, <2>3
    <3>2. QED
      BY <1>2, <2>3, <3>1 DEF Of
  <2>6. \A i \in Of(t) : FirstOfEntry(r, i)
    BY <2>4, <2>5 DEF SeedsTo
  <2>7. \A m \in 1 .. n : HasBest(r, m, t)
    <3>1. \A k \in DOMAIN s : k \in DOMAIN t /\ t[k] = s[k]
      BY <1>2, <2>3
    <3>2. QED
      BY <3>1 DEF SeedsTo, HasBest
  <2>8. HasBest(r, n + 1, t)
    <3>1. SUFFICES ASSUME C # {} PROVE \E p \in DOMAIN t : p <= n + 1 /\ t[p] = Min(C)
      BY DEF HasBest
    <3>2. CASE Min(C) \in fresh
      <4>1. x \in C /\ x <= Min(C) /\ Min(C) <= x /\ x \in Nat /\ Min(C) \in Nat
        BY <1>3, <1>5, <1>6, <2>1, <3>2
      <4>2. x = Min(C)
        BY <4>1
      <4>3. Len(s) + 1 \in DOMAIN t /\ Len(s) + 1 <= n + 1
        BY <1>2, <2>3
      <4>4. QED
        BY <2>3, <4>2, <4>3
    <3>3. CASE Min(C) \notin fresh
      <4>1. PICK p \in DOMAIN s : s[p] = Min(C)
        BY <1>7, <3>1, <3>3
      <4>2. p \in DOMAIN t /\ t[p] = s[p] /\ p <= n + 1
        BY <1>2, <2>3, <4>1
      <4>3. QED
        BY <4>1, <4>2
    <3>4. QED
      BY <3>2, <3>3
  <2>9. Len(t) <= n + 1 /\ t \in Seq(DOMAIN r.functions)
    BY <1>1, <1>2, <2>3 DEF t
  <2>10. SeedsTo(r, n + 1, t)
    BY <1>8, <2>6, <2>7, <2>8, <2>9 DEF SeedsTo
  <2>11. QED
    BY <2>10 DEF t
<1>11. QED
  BY <1>9, <1>10

LEMMA SeedsAreBest ==
  ASSUME NEW r \in Requests
  PROVE  SeedsTo(r, 5, SeedEntries(r))
<1>1. PICK seeds : SeedsBy(r, seeds) /\ SeedEntries(r) = seeds[5]
  BY SeedsSteps
<1> DEFINE T == {n \in Nat : SeedsTo(r, n, seeds[n])}
<1>2. 0 \in T
  <2>1. <<>> \in Seq(DOMAIN r.functions) /\ Len(<<>>) = 0 /\ Of(<<>>) = {}
    BY DEF Of
  <2>2. SeedsTo(r, 0, <<>>)
    BY <2>1 DEF SeedsTo
  <2>3. QED
    BY <1>1, <2>2 DEF SeedsBy
<1>3. ASSUME NEW n \in Nat, n \in T PROVE n + 1 \in T
  <2>1. SeedsTo(r, n + 1, NextSeed(r, n + 1, seeds[n]))
    BY <1>3, SeedStep
  <2>2. QED
    BY <1>1, <2>1 DEF SeedsBy
<1>4. \A n \in Nat : n \in T
  <2> HIDE DEF T
  <2>1. QED
    BY <1>2, <1>3, Induction
<1>5. QED
  BY <1>1, <1>4

\* What a seed leaves: its entry, when it decodes and the cap goes as far.
SeededTo(r, n, s) ==
  /\ Sound(r, s) /\ Len(s) <= n /\ Of(s) \subseteq Of(SeedEntries(r))
  /\ \A p \in 1 .. n :
       LET c == r.functions[SeedEntries(r)[p]] IN
       Decodes(c) => c.entry \in EntriesOf(r, s) \/ \A max \in Cap(r) : max < p

LEMMA SeededIsBest ==
  ASSUME NEW r \in Requests, Cap(r) # {}
  PROVE  SeededTo(r, Len(SeedEntries(r)), Seeded(r))
<1> DEFINE seeds == SeedEntries(r)
<1>1. PICK picked : SeededBy(r, picked) /\ Seeded(r) = picked[Len(seeds)]
  BY SeededSteps
<1>2. seeds \in Seq(DOMAIN r.functions) /\ \A i \in Of(seeds) : i \in Ranked(r)
  BY SeedsAreBest DEF SeedsTo, FirstOfEntry
<1>3. Len(seeds) \in Nat /\ DOMAIN seeds = 1 .. Len(seeds)
  BY <1>2
<1>4. PICK max \in Nat : Cap(r) = {max}
  BY CapIs
<1> HIDE DEF seeds
<1> DEFINE T == {n \in Nat : n <= Len(seeds) => SeededTo(r, n, picked[n])}
<1>5. 0 \in T
  <2>1. Sound(r, <<>>) /\ Len(<<>>) = 0 /\ Of(<<>>) = {}
    BY EmptyIsSound DEF Of
  <2>2. SeededTo(r, 0, <<>>)
    BY <2>1 DEF SeededTo
  <2>3. QED
    BY <1>1, <2>2 DEF SeededBy
<1>6. ASSUME NEW n \in Nat, n \in T PROVE n + 1 \in T
  <2>1. SUFFICES ASSUME n + 1 <= Len(seeds) PROVE SeededTo(r, n + 1, picked[n + 1])
    OBVIOUS
  <2> DEFINE i == seeds[n + 1]
             s == picked[n]
             t == Pick(r, i, s)
             c(p) == r.functions[seeds[p]]
  <2>2. n + 1 \in DOMAIN seeds /\ n <= Len(seeds)
    BY <1>3, <2>1
  <2>3. i \in Ranked(r) /\ i \in Of(seeds)
    BY <1>2, <2>2 DEF Of
  <2>4. SeededTo(r, n, s) /\ picked[n + 1] = t
    BY <1>1, <1>6, <2>2 DEF SeededBy, seeds
  <2>5. Sound(r, s) /\ Len(s) <= n
    BY <2>4 DEF SeededTo
  <2> HIDE DEF i, s
  <2>6. Sound(r, t) /\ PicksOne(r, i, s, t)
    BY <2>3, <2>5, PickSound
  <2> HIDE DEF t
  <2>7. Len(s) \in Nat /\ Len(t) \in Nat /\ Len(t) <= Len(s) + 1
    BY <2>5, <2>6, SoundIs DEF PicksOne
  <2>8. Of(t) \subseteq Of(seeds)
    BY <2>3, <2>4, <2>6 DEF PicksOne, SeededTo, seeds
  <2>9. ASSUME NEW p \in 1 .. n + 1, Decodes(c(p))
        PROVE  c(p).entry \in EntriesOf(r, t) \/ \A m \in Cap(r) : m < p
    <3>1. CASE p \in 1 .. n
      <4>1. c(p).entry \in EntriesOf(r, s) \/ \A m \in Cap(r) : m < p
        BY <2>4, <2>9, <3>1 DEF SeededTo, seeds
      <4>2. QED
        BY <2>6, <4>1 DEF PicksOne, GrowsTo
    <3>2. CASE p = n + 1
      <4>1. c(p) = r.functions[i]
        BY <3>2 DEF i
      <4>2. c(p).entry \in EntriesOf(r, t) \/ Full(r, s)
        BY <2>6, <2>9, <4>1 DEF PicksOne
      <4>3. Full(r, s) => max <= n
        BY <1>4, <2>5, <2>7 DEF Full
      <4>4. QED
        BY <1>4, <3>2, <4>2, <4>3
    <3>3. QED
      BY <3>1, <3>2
  <2>10. SeededTo(r, n + 1, t)
    BY <2>5, <2>6, <2>7, <2>8, <2>9 DEF SeededTo, seeds
  <2>11. QED
    BY <2>4, <2>10
<1>7. \A n \in Nat : n \in T
  <2> HIDE DEF T
  <2>1. QED
    BY <1>5, <1>6, Induction
<1>8. QED
  BY <1>1, <1>3, <1>7 DEF seeds

LEMMA AtLeastTwo ==
  ASSUME NEW S, IsFiniteSet(S)
  PROVE  Cardinality(S) >= 2 <=> \E x, y \in S : x # y
<1>1. Cardinality(S) \in Nat
  BY FS_CardinalityType
<1>2. ASSUME NEW x \in S PROVE Cardinality(S \ {x}) \in Nat /\ Cardinality(S \ {x}) = Cardinality(S) - 1
                               /\ IsFiniteSet(S \ {x})
  BY <1>2, FS_RemoveElement, FS_CardinalityType
<1>3. \A T : IsFiniteSet(T) => (Cardinality(T) = 0 <=> T = {})
  BY FS_EmptySet
<1>4. CASE S = {}
  BY <1>3, <1>4
<1>5. CASE S # {}
  <2>1. PICK x \in S : TRUE
    BY <1>5
  <2>2. Cardinality(S) >= 2 <=> S \ {x} # {}
    <3> DEFINE n == Cardinality(S)
               m == Cardinality(S \ {x})
    <3>1. n \in Nat /\ m \in Nat /\ m = n - 1
      BY <1>1, <1>2, <2>1
    <3>2. m = 0 <=> S \ {x} = {}
      BY <1>2, <1>3, <2>1
    <3> HIDE DEF n, m
    <3>3. n >= 2 <=> S \ {x} # {}
      BY <3>1, <3>2
    <3>4. QED
      BY <3>3 DEF n
  <2>3. (\E y, z \in S : y # z) <=> S \ {x} # {}
    BY <2>1
  <2>4. QED
    BY <2>2, <2>3
<1>6. QED
  BY <1>4, <1>5

\* A function crowds nobody out by its place in a list, only by being there.
CrowdedBy(r, i, K) ==
  LET c == r.functions[i] IN
  /\ c.name # NoName
  /\ \/ \E k \in K : SameOwner(c, r.functions[k])
     \/ \E k, l \in K : k # l /\ SameName(c, r.functions[k]) /\ SameName(c, r.functions[l])

LEMMA CrowdedIs ==
  ASSUME NEW r \in Requests, NEW s \in Picks(r), NEW i
  PROVE  Crowded(r, i, s) <=> CrowdedBy(r, i, Of(s))
<1> DEFINE c == r.functions[i]
           S == {k \in DOMAIN s : SameName(c, r.functions[s[k]])}
<1>1. s \in Seq(DOMAIN r.functions) /\ \A j, k \in DOMAIN s : s[j] = s[k] => j = k
  BY DEF Picks
<1>2. DOMAIN s = 1 .. Len(s) /\ Len(s) \in Nat
  BY <1>1
<1>3. IsFiniteSet(S)
  <2>1. IsFiniteSet(1 .. Len(s))
    BY <1>2, FS_Interval
  <2>2. S \subseteq 1 .. Len(s)
    BY <1>2
  <2> HIDE DEF S
  <2>3. QED
    BY <2>1, <2>2, FS_Subset
<1>4. Cardinality(S) >= 2 <=> \E x, y \in S : x # y
  BY <1>3, AtLeastTwo
<1>5. (\E x, y \in S : x # y) <=>
        \E k, l \in Of(s) : k # l /\ SameName(c, r.functions[k]) /\ SameName(c, r.functions[l])
  <2>1. ASSUME NEW x \in S, NEW y \in S, x # y
        PROVE  \E k, l \in Of(s) : k # l /\ SameName(c, r.functions[k]) /\ SameName(c, r.functions[l])
    <3>1. s[x] \in Of(s) /\ s[y] \in Of(s) /\ s[x] # s[y]
      BY <1>1, <2>1 DEF Of
    <3>2. QED
      BY <3>1
  <2>2. ASSUME NEW k \in Of(s), NEW l \in Of(s), k # l,
               SameName(c, r.functions[k]), SameName(c, r.functions[l])
        PROVE  \E x, y \in S : x # y
    <3>1. PICK x \in DOMAIN s : s[x] = k
      BY DEF Of
    <3>2. PICK y \in DOMAIN s : s[y] = l
      BY DEF Of
    <3>3. QED
      BY <2>2, <3>1, <3>2
  <2>3. QED
    BY <2>1, <2>2
<1>6. (\E k \in DOMAIN s : SameOwner(c, r.functions[s[k]])) <=> \E k \in Of(s) : SameOwner(c, r.functions[k])
  BY DEF Of
<1>7. QED
  BY <1>4, <1>5, <1>6 DEF Crowded, CrowdedBy

LEMMA PassSteps ==
  ASSUME NEW r \in Requests, Seeded(r) \in Seq(DOMAIN r.functions)
  PROVE  \E pass : PassBy(r, pass) /\ FirstPass(r) = pass[Len(r.functions)]
<1> DEFINE V == DOMAIN r.functions
           S == [picked : Seq(V), deferred : SUBSET V]
           base == [picked |-> Seeded(r), deferred |-> {}]
           Eq(g) == g = [n \in Nat |-> IF n = 0 THEN base ELSE PassOne(r, n, g[n - 1])]
           pass == CHOOSE g : Eq(g)
           step == [n \in Nat |-> [before \in S |-> PassOne(r, n, before)]]
<1>1. \A n \in Nat : \A before \in S : PassOne(r, n, before) \in S
  <2> TAKE n \in Nat
  <2> TAKE before \in S
  <2>1. n \in Ranked(r) => n \in V
    BY RequestIs
  <2>2. before = [picked |-> before.picked, deferred |-> before.deferred]
    OBVIOUS
  <2> HIDE DEF V
  <2>3. n \in Ranked(r) => Pick(r, n, before.picked) \in Seq(V)
    BY <2>1 DEF Pick
  <2>4. QED
    BY <2>1, <2>2, <2>3 DEF PassOne
<1>2. step \in [Nat -> [S -> S]] /\ base \in S
  BY <1>1
<1>3. FirstPass(r) = pass[Len(r.functions)]
  BY DEF FirstPass, PassOne
<1> HIDE DEF base
<1>4. PICK g : Follows(g, S, base, step)
  <2> HIDE DEF step, S
  <2>1. QED
    BY <1>2, Recursion
<1>5. Eq(g)
  <2>1. ASSUME NEW n \in Nat PROVE g[n] = IF n = 0 THEN base ELSE PassOne(r, n, g[n - 1])
    <3>1. CASE n = 0
      BY <1>4, <3>1 DEF Follows
    <3>2. CASE n # 0
      <4>1. n - 1 \in Nat /\ (n - 1) + 1 = n
        BY <3>2
      <4>2. g[(n - 1) + 1] = step[(n - 1) + 1][g[n - 1]] /\ g[n - 1] \in S
        BY <1>4, <4>1 DEF Follows
      <4> HIDE DEF S
      <4>3. g[n] = PassOne(r, n, g[n - 1])
        BY <4>1, <4>2
      <4>4. QED
        BY <3>2, <4>3
    <3>3. QED
      BY <3>1, <3>2
  <2>2. QED
    BY <1>4, <2>1 DEF Follows
<1>6. Eq(pass)
  BY <1>5
<1> HIDE DEF pass, S
<1>7. pass[0] = base
  BY <1>6
<1>8. ASSUME NEW n \in Nat PROVE pass[n + 1] = PassOne(r, n + 1, pass[n])
  <2>1. n + 1 \in Nat /\ n + 1 # 0 /\ (n + 1) - 1 = n
    OBVIOUS
  <2>2. QED
    BY <1>6, <2>1
<1>9. PassBy(r, pass)
  BY <1>7, <1>8 DEF PassBy, base
<1>10. QED
  BY <1>3, <1>9

\* What the first pass knows of the ranks up to n: those it left out met a full list,
\* those it put off were crowded out by better ones, and nobody it took is crowded.
LeftOut(r, n, p, d) ==
  \A i \in Ranked(r) :
    i <= n /\ i \notin d /\ Decodes(r.functions[i]) /\ r.functions[i].entry \notin EntriesOf(r, p) =>
      Full(r, p) /\ Of(p) \subseteq Of(Seeded(r)) \union 1 .. i - 1

Better(r, i, p) == {k \in Of(p) : k \in Of(Seeded(r)) \/ k < i}

PutOff(r, p, d) == \A i \in d : CrowdedBy(r, i, Better(r, i, p))

Uncrowded(r, p) == \A j \in Of(p) \ Of(Seeded(r)) : ~CrowdedBy(r, j, Of(p) \ {j})

AloneAfter(r, p, d) ==
  \A j \in Of(p) \ Of(Seeded(r)) : \A k \in d :
    k < j /\ r.functions[j].name # NoName => ~SameOwner(r.functions[j], r.functions[k])

PassTo(r, n, b) ==
  /\ Sound(r, b.picked) /\ GrowsTo(r, Seeded(r), b.picked)
  /\ Of(b.picked) \subseteq Of(Seeded(r)) \union 1 .. n
  /\ b.deferred \subseteq 1 .. n /\ b.deferred \subseteq Ranked(r)
  /\ b = [picked |-> b.picked, deferred |-> b.deferred]
  /\ LeftOut(r, n, b.picked, b.deferred)
  /\ PutOff(r, b.picked, b.deferred)
  /\ Uncrowded(r, b.picked)
  /\ AloneAfter(r, b.picked, b.deferred)

LEMMA CrowdedMore ==
  ASSUME NEW r, NEW i, NEW K, NEW L, K \subseteq L, CrowdedBy(r, i, K)
  PROVE  CrowdedBy(r, i, L)
BY DEF CrowdedBy

\* Crowding is by who is like it.
LEMMA CrowdedAlike ==
  ASSUME NEW r, NEW i, NEW j, NEW K, CrowdedBy(r, i, K),
         SameOwner(r.functions[i], r.functions[j])
  PROVE  CrowdedBy(r, j, K)
BY DEF CrowdedBy, SameOwner, SameName

LEMMA CrowdedEither ==
  ASSUME NEW r, NEW i, NEW j, NEW K, i \in K, j \notin K, ~CrowdedBy(r, j, K),
         ~CrowdedBy(r, i, K \ {i})
  PROVE  ~CrowdedBy(r, i, (K \union {j}) \ {i})
<1>1. SUFFICES ASSUME CrowdedBy(r, i, (K \union {j}) \ {i}) PROVE FALSE
  OBVIOUS
<1> DEFINE c(k) == r.functions[k]
<1>2. c(i).name # NoName
  BY <1>1 DEF CrowdedBy
<1>3. CASE \E k \in (K \union {j}) \ {i} : SameOwner(c(i), c(k))
  <2>1. PICK k \in (K \union {j}) \ {i} : SameOwner(c(i), c(k))
    BY <1>3
  <2>2. k = j
    BY <1>2, <2>1 DEF CrowdedBy
  <2>3. SameOwner(c(j), c(i)) /\ c(j).name # NoName
    BY <1>2, <2>1, <2>2 DEF SameOwner
  <2>4. QED
    BY <2>3 DEF CrowdedBy
<1>4. CASE \E k, l \in (K \union {j}) \ {i} : k # l /\ SameName(c(i), c(k)) /\ SameName(c(i), c(l))
  <2>1. PICK k \in (K \union {j}) \ {i}, l \in (K \union {j}) \ {i} :
          k # l /\ SameName(c(i), c(k)) /\ SameName(c(i), c(l))
    BY <1>4
  <2>2. k = j \/ l = j
    BY <1>2, <2>1 DEF CrowdedBy
  <2>3. PICK m \in K \ {i} : SameName(c(i), c(m)) /\ SameName(c(i), c(j))
    BY <2>1, <2>2
  <2>4. SameName(c(j), c(i)) /\ SameName(c(j), c(m)) /\ c(j).name # NoName /\ m # i
    BY <1>2, <2>3 DEF SameName
  <2>5. QED
    BY <2>3, <2>4 DEF CrowdedBy
<1>5. QED
  BY <1>1, <1>3, <1>4 DEF CrowdedBy

LEMMA PassStep ==
  ASSUME NEW r \in Requests, Cap(r) # {}, Sound(r, Seeded(r)),
         NEW n \in Nat, NEW b, PassTo(r, n, b)
  PROVE  PassTo(r, n + 1, PassOne(r, n + 1, b))
<1> DEFINE p == b.picked
           d == b.deferred
           S == Of(Seeded(r))
           x == n + 1
           e(i) == r.functions[i].entry
<1>1. /\ Sound(r, p) /\ GrowsTo(r, Seeded(r), p) /\ Of(p) \subseteq S \union 1 .. n
      /\ d \subseteq 1 .. n /\ d \subseteq Ranked(r) /\ b = [picked |-> p, deferred |-> d]
      /\ LeftOut(r, n, p, d) /\ PutOff(r, p, d) /\ Uncrowded(r, p) /\ AloneAfter(r, p, d)
  BY DEF PassTo
<1>2. Ranked(r) \subseteq Nat /\ Of(p) \subseteq Nat /\ p \in Picks(r) /\ S \subseteq Nat /\ S \subseteq Of(p)
  BY <1>1, RequestIs, SoundIs DEF Sound, GrowsTo
<1>3. 1 .. n \subseteq 1 .. x /\ (1 .. x) \ {x} \subseteq 1 .. n /\ x \in 1 .. x /\ x - 1 = n /\ x \notin 1 .. n
  OBVIOUS
<1>4. \A i \in Ranked(r) : i <= x => i <= n \/ i = x
  BY <1>2
<1> HIDE DEF x
<1>5. CASE x \notin Ranked(r)
  <2>1. LeftOut(r, x, p, d)
    BY <1>1, <1>4, <1>5 DEF LeftOut
  <2>2. PassTo(r, x, b)
    BY <1>1, <1>3, <2>1 DEF PassTo
  <2>3. QED
    BY <1>5, <2>2 DEF PassOne, x
<1>6. CASE x \in Ranked(r) /\ Fits(r, x, p) /\ Crowded(r, x, p)
  <2> DEFINE g == d \union {x}
             a == [picked |-> p, deferred |-> g]
  <2>1. PassOne(r, x, b) = a
    BY <1>1, <1>6 DEF PassOne
  <2>2. LeftOut(r, x, p, g)
    BY <1>1, <1>4 DEF LeftOut
  <2>3. CrowdedBy(r, x, Better(r, x, p))
    <3>1. CrowdedBy(r, x, Of(p))
      BY <1>2, <1>6, CrowdedIs
    <3>2. Of(p) \subseteq Better(r, x, p)
      BY <1>1 DEF Better, x
    <3>3. QED
      BY <3>1, <3>2, CrowdedMore
  <2>4. PutOff(r, p, g)
    BY <1>1, <2>3 DEF PutOff
  <2>5. AloneAfter(r, p, g)
    <3>1. \A j \in Of(p) \ S : ~(x < j)
      BY <1>1, <1>2 DEF x
    <3>2. QED
      BY <1>1, <3>1 DEF AloneAfter
  <2>6. g \subseteq 1 .. x /\ g \subseteq Ranked(r) /\ Of(p) \subseteq S \union 1 .. x
    BY <1>1, <1>3, <1>6
  <2> HIDE DEF g
  <2>7. PassTo(r, x, a)
    BY <1>1, <2>2, <2>4, <2>5, <2>6 DEF PassTo
  <2>8. QED
    BY <2>1, <2>7 DEF x
<1>7. CASE x \in Ranked(r) /\ ~(Fits(r, x, p) /\ Crowded(r, x, p))
  <2> DEFINE t == Pick(r, x, p)
             a == [picked |-> t, deferred |-> d]
  <2>1. PassOne(r, x, b) = a
    BY <1>1, <1>7 DEF PassOne
  <2>2. Sound(r, t) /\ PicksOne(r, x, p, t)
    BY <1>1, <1>7, PickSound
  <2> HIDE DEF t
  <2>3. GrowsTo(r, p, t) /\ Of(p) \subseteq Of(t) /\ EntriesOf(r, p) \subseteq EntriesOf(r, t)
    BY <2>2 DEF PicksOne, GrowsTo
  <2>4. GrowsTo(r, Seeded(r), t)
    BY <1>1, <2>2, <2>3, GrowsOn, SoundIs
  <2>5. Of(t) \subseteq Of(p) \union {x}
    BY <2>2 DEF PicksOne
  <2>6. PutOff(r, t, d)
    <3>1. \A i \in d : Better(r, i, p) \subseteq Better(r, i, t)
      BY <2>3 DEF Better
    <3>2. QED
      BY <1>1, <3>1, CrowdedMore DEF PutOff
  <2>7. CASE t = p
    <3>1. LeftOut(r, x, p, d)
      <4>1. Decodes(r.functions[x]) /\ e(x) \notin EntriesOf(r, p) => Full(r, p)
        BY <2>2, <2>7 DEF PicksOne
      <4>2. QED
        BY <1>1, <1>3, <1>4, <4>1 DEF LeftOut
    <3>2. QED
      BY <1>1, <1>3, <2>1, <2>7, <3>1 DEF PassTo, x
  <2>8. CASE Of(t) = Of(p) \union {x} /\ Fits(r, x, p) /\ Decodes(r.functions[x])
    <3>1. ~CrowdedBy(r, x, Of(p))
      BY <1>2, <1>7, <2>8, CrowdedIs
    <3>2. x \notin Of(p)
      <4>1. e(x) \notin EntriesOf(r, p)
        BY <2>8, CapIs DEF Fits
      <4>2. QED
        BY <4>1, EntriesAre
    <3>3. LeftOut(r, x, t, d)
      <4> SUFFICES ASSUME NEW i \in Ranked(r), i <= x, i \notin d, Decodes(r.functions[i]),
                          e(i) \notin EntriesOf(r, t)
                   PROVE  Full(r, t) /\ Of(t) \subseteq S \union 1 .. i - 1
        BY DEF LeftOut
      <4>1. i # x
        BY <2>8, EntriesAre
      <4>2. Full(r, p) /\ Of(p) \subseteq S \union 1 .. i - 1
        BY <1>1, <1>4, <2>3, <4>1 DEF LeftOut
      <4>3. t = p
        BY <2>3, <4>2 DEF GrowsTo
      <4>4. QED
        BY <4>2, <4>3
    <3>4. Uncrowded(r, t)
      <4> SUFFICES ASSUME NEW j \in Of(t) \ S PROVE ~CrowdedBy(r, j, Of(t) \ {j})
        BY DEF Uncrowded
      <4>1. CASE j = x
        <5>1. Of(t) \ {j} \subseteq Of(p)
          BY <2>8, <4>1
        <5>2. QED
          BY <3>1, <4>1, <5>1, CrowdedMore
      <4>2. CASE j # x
        <5>1. j \in Of(p) /\ ~CrowdedBy(r, j, Of(p) \ {j})
          BY <1>1, <2>8, <4>2 DEF Uncrowded
        <5>2. ~CrowdedBy(r, j, (Of(p) \union {x}) \ {j})
          BY <3>1, <3>2, <5>1, CrowdedEither
        <5>3. QED
          BY <2>8, <5>2
      <4>3. QED
        BY <4>1, <4>2
    <3>5. AloneAfter(r, t, d)
      <4> SUFFICES ASSUME NEW j \in Of(t) \ S, NEW k \in d, k < j, r.functions[j].name # NoName,
                          SameOwner(r.functions[j], r.functions[k])
                   PROVE  FALSE
        BY DEF AloneAfter
      <4>1. j # x => j \in Of(p) \ S
        BY <2>8
      <4>2. j = x
        BY <1>1, <4>1 DEF AloneAfter
      <4>3. CrowdedBy(r, k, Better(r, k, p)) /\ SameOwner(r.functions[k], r.functions[x])
        BY <1>1, <4>2 DEF PutOff, SameOwner
      <4>4. CrowdedBy(r, x, Better(r, k, p))
        BY <4>3, CrowdedAlike
      <4>5. Better(r, k, p) \subseteq Of(p)
        BY DEF Better
      <4>6. QED
        BY <3>1, <4>4, <4>5, CrowdedMore
    <3>6. Of(t) \subseteq S \union 1 .. x /\ d \subseteq 1 .. x
      BY <1>1, <1>3, <2>5
    <3>7. PassTo(r, x, a)
      BY <1>1, <2>2, <2>4, <2>6, <3>3, <3>4, <3>5, <3>6 DEF PassTo
    <3>8. QED
      BY <2>1, <3>7 DEF x
  <2>9. QED
    BY <2>2, <2>7, <2>8 DEF PicksOne
<1>8. QED
  BY <1>5, <1>6, <1>7

LEMMA FirstPassIsBest ==
  ASSUME NEW r \in Requests, Cap(r) # {}
  PROVE  PassTo(r, Len(r.functions), FirstPass(r))
<1>1. Sound(r, Seeded(r))
  BY SeededIsBest DEF SeededTo
<1>2. PICK pass : PassBy(r, pass) /\ FirstPass(r) = pass[Len(r.functions)]
  BY <1>1, SoundIs, PassSteps
<1> DEFINE T == {n \in Nat : PassTo(r, n, pass[n])}
           base == [picked |-> Seeded(r), deferred |-> {}]
<1>3. 0 \in T
  <2>1. GrowsTo(r, Seeded(r), Seeded(r)) /\ Ranked(r) \subseteq 1 .. Len(r.functions)
    BY <1>1, SoundIs, RequestIs
  <2>2. LeftOut(r, 0, base.picked, base.deferred)
    BY <2>1 DEF LeftOut
  <2>3. PassTo(r, 0, base)
    BY <1>1, <2>1, <2>2 DEF PassTo, PutOff, Uncrowded, AloneAfter
  <2>4. QED
    BY <1>2, <2>3 DEF PassBy
<1>4. ASSUME NEW n \in Nat, n \in T PROVE n + 1 \in T
  <2>1. PassTo(r, n + 1, PassOne(r, n + 1, pass[n]))
    BY <1>1, <1>4, PassStep
  <2>2. PassTo(r, n + 1, pass[n + 1])
    BY <1>2, <2>1 DEF PassBy
  <2>3. QED
    BY <2>2
<1>5. \A n \in Nat : n \in T
  <2> HIDE DEF T
  <2>1. QED
    BY <1>3, <1>4, Induction
<1>6. Len(r.functions) \in Nat
  BY RequestIs
<1>7. QED
  BY <1>2, <1>5, <1>6

\* What is added to the first pass are those it put off, the best first.
BackTo(r, p, d, n, s) ==
  /\ Sound(r, s) /\ GrowsTo(r, p, s)
  /\ Of(s) \subseteq Of(p) \union {k \in d : k <= n}
  /\ \A i \in d :
       i <= n /\ Decodes(r.functions[i]) /\ r.functions[i].entry \notin EntriesOf(r, s) =>
         Full(r, s) /\ Of(s) \subseteq Of(p) \union {k \in d : k < i}

LEMMA BackStep ==
  ASSUME NEW r \in Requests, Cap(r) # {}, NEW p, Sound(r, p), NEW d \in SUBSET Ranked(r),
         NEW n \in Nat, NEW s, BackTo(r, p, d, n, s)
  PROVE  BackTo(r, p, d, n + 1, IF n + 1 \in d THEN Pick(r, n + 1, s) ELSE s)
<1> DEFINE x == n + 1
           e(i) == r.functions[i].entry
<1>1. d \subseteq Nat /\ \A i \in d : i <= x => i <= n \/ i = x
  BY RequestIs
<1>2. {k \in d : k <= n} \subseteq {k \in d : k <= x} /\ {k \in d : k <= n} \subseteq {k \in d : k < x}
  <2>1. \A k \in d : k <= n => k <= x /\ k < x
    <3> TAKE k \in d
    <3>1. k \in Nat
      BY <1>1
    <3>2. QED
      BY <3>1
  <2>2. QED
    BY <2>1
<1>3. CASE x \notin d
  BY <1>1, <1>2, <1>3 DEF BackTo
<1>4. CASE x \in d
  <2> DEFINE t == Pick(r, x, s)
  <2>1. Sound(r, s) /\ GrowsTo(r, p, s) /\ x \in Ranked(r)
    BY <1>4 DEF BackTo
  <2>2. Sound(r, t) /\ PicksOne(r, x, s, t)
    BY <2>1, PickSound
  <2> HIDE DEF t
  <2>3. GrowsTo(r, s, t) /\ EntriesOf(r, s) \subseteq EntriesOf(r, t)
    BY <2>2 DEF PicksOne, GrowsTo
  <2>4. GrowsTo(r, p, t)
    BY <2>1, <2>2, <2>3, GrowsOn, SoundIs
  <2>5. Of(t) \subseteq Of(p) \union {k \in d : k <= x}
    <3>1. x \in {k \in d : k <= x}
      BY <1>4
    <3>2. Of(t) \subseteq Of(s) \union {x}
      BY <2>2 DEF PicksOne
    <3>3. QED
      BY <1>2, <3>1, <3>2 DEF BackTo
  <2>6. ASSUME NEW i \in d, i <= x, Decodes(r.functions[i]), e(i) \notin EntriesOf(r, t)
        PROVE  Full(r, t) /\ Of(t) \subseteq Of(p) \union {k \in d : k < i}
    <3>1. CASE i = x
      <4>1. Full(r, s)
        BY <2>2, <2>6, <3>1 DEF PicksOne
      <4>2. t = s
        BY <2>3, <4>1 DEF GrowsTo
      <4>3. QED
        BY <1>2, <3>1, <4>1, <4>2 DEF BackTo
    <3>2. CASE i # x
      <4>1. Full(r, s) /\ Of(s) \subseteq Of(p) \union {k \in d : k < i}
        BY <1>1, <2>3, <2>6, <3>2 DEF BackTo
      <4>2. t = s
        BY <2>3, <4>1 DEF GrowsTo
      <4>3. QED
        BY <4>1, <4>2
    <3>3. QED
      BY <3>1, <3>2
  <2>7. BackTo(r, p, d, x, t)
    BY <2>2, <2>4, <2>5, <2>6 DEF BackTo
  <2>8. QED
    BY <1>4, <2>7 DEF t
<1>5. QED
  BY <1>3, <1>4

LEMMA BackIsBest ==
  ASSUME NEW r \in Requests, Cap(r) # {}, NEW p, Sound(r, p), NEW d \in SUBSET Ranked(r)
  PROVE  BackTo(r, p, d, Len(r.functions), InTurn(r, d, p))
<1>1. d \in SUBSET DOMAIN r.functions /\ p \in Seq(DOMAIN r.functions) /\ GrowsTo(r, p, p)
      /\ d \subseteq Nat /\ Len(r.functions) \in Nat /\ \A i \in d : ~(i <= 0)
  BY RequestIs, SoundIs
<1>2. PICK after : /\ InTurnBy(r, d, p, after)
                   /\ InTurn(r, d, p) = after[Len(r.functions)]
  BY <1>1, InTurnSteps
<1> DEFINE T == {n \in Nat : BackTo(r, p, d, n, after[n])}
<1>3. 0 \in T
  <2>1. BackTo(r, p, d, 0, p)
    BY <1>1 DEF BackTo
  <2>2. QED
    BY <1>2, <2>1 DEF InTurnBy
<1>4. ASSUME NEW n \in Nat, n \in T PROVE n + 1 \in T
  <2>1. BackTo(r, p, d, n + 1, IF n + 1 \in d THEN Pick(r, n + 1, after[n]) ELSE after[n])
    BY <1>4, BackStep
  <2>2. BackTo(r, p, d, n + 1, after[n + 1])
    BY <1>2, <2>1 DEF InTurnBy
  <2>3. QED
    BY <2>2
<1>5. \A n \in Nat : n \in T
  <2> HIDE DEF T
  <2>1. QED
    BY <1>3, <1>4, Induction
<1>6. QED
  BY <1>1, <1>2, <1>5

\* Without a cap everything that decodes is taken.
OpenTo(r, n, s) ==
  /\ s \in Picks(r)
  /\ Of(s) = {i \in Ranked(r) : i <= n /\ Decodes(r.functions[i])}

LEMMA OpenStep ==
  ASSUME NEW r \in Requests, Cap(r) = {}, NEW n \in Nat, NEW s, OpenTo(r, n, s)
  PROVE  OpenTo(r, n + 1, IF n + 1 \in Ranked(r) THEN Pick(r, n + 1, s) ELSE s)
<1> DEFINE x == n + 1
           D(m) == {i \in Ranked(r) : i <= m /\ Decodes(r.functions[i])}
<1>1. Ranked(r) \subseteq Nat /\ Ranked(r) \subseteq DOMAIN r.functions
  BY RequestIs
<1>2. s \in Picks(r) /\ Of(s) = D(n) /\ s \in Seq(DOMAIN r.functions)
  BY DEF OpenTo, Picks
<1>3. D(x) = IF x \in Ranked(r) /\ Decodes(r.functions[x]) THEN D(n) \union {x} ELSE D(n)
  BY <1>1
<1> HIDE DEF D
<1>4. CASE x \in Ranked(r) /\ Decodes(r.functions[x])
  <2> DEFINE t == Append(s, x)
  <2>1. Pick(r, x, s) = t
    BY <1>4 DEF Pick, Fits
  <2>2. x \notin Of(s)
    BY <1>2 DEF D
  <2>3. t \in Picks(r)
    <3>1. \A k \in DOMAIN s : s[k] # x
      BY <2>2 DEF Of
    <3>2. Pick(r, x, s) \in Picks(r)
      BY <1>1, <1>2, <1>4, <3>1, PickIs
    <3>3. QED
      BY <2>1, <3>2
  <2>4. Of(t) = Of(s) \union {x}
    <3>1. /\ DOMAIN s = 1 .. Len(s) /\ Len(s) \in Nat
          /\ DOMAIN t = 1 .. Len(s) + 1 /\ t[Len(s) + 1] = x
          /\ \A k \in 1 .. Len(s) : t[k] = s[k]
      BY <1>1, <1>2, <1>4
    <3> HIDE DEF t
    <3>2. \A k \in DOMAIN t : k \in DOMAIN s \/ k = Len(s) + 1
      BY <3>1
    <3>3. \A k \in DOMAIN s : k \in DOMAIN t /\ t[k] = s[k]
      BY <3>1
    <3>4. Len(s) + 1 \in DOMAIN t
      BY <3>1
    <3>5. QED
      BY <3>1, <3>2, <3>3, <3>4 DEF Of
  <2>5. OpenTo(r, x, t)
    BY <1>2, <1>3, <1>4, <2>3, <2>4 DEF OpenTo, D
  <2>6. QED
    BY <1>4, <2>1, <2>5
<1>5. CASE ~(x \in Ranked(r) /\ Decodes(r.functions[x]))
  <2>1. (IF x \in Ranked(r) THEN Pick(r, x, s) ELSE s) = s
    BY <1>5 DEF Pick
  <2>2. OpenTo(r, x, s)
    BY <1>2, <1>3, <1>5 DEF OpenTo, D
  <2>3. QED
    BY <2>1, <2>2
<1>6. QED
  BY <1>4, <1>5

LEMMA OpenIsAll ==
  ASSUME NEW r \in Requests, Cap(r) = {}
  PROVE  OpenTo(r, Len(r.functions), InTurn(r, Ranked(r), <<>>))
<1>1. Ranked(r) \in SUBSET DOMAIN r.functions /\ <<>> \in Seq(DOMAIN r.functions)
      /\ Ranked(r) \subseteq Nat /\ Len(r.functions) \in Nat /\ \A i \in Ranked(r) : ~(i <= 0)
  BY RequestIs
<1>2. PICK after : /\ InTurnBy(r, Ranked(r), <<>>, after)
                   /\ InTurn(r, Ranked(r), <<>>) = after[Len(r.functions)]
  BY <1>1, InTurnSteps
<1> DEFINE T == {n \in Nat : OpenTo(r, n, after[n])}
<1>3. 0 \in T
  <2>1. <<>> \in Picks(r) /\ Of(<<>>) = {}
    BY DEF Picks, Of
  <2>2. OpenTo(r, 0, <<>>)
    BY <1>1, <2>1 DEF OpenTo
  <2>3. QED
    BY <1>2, <2>2 DEF InTurnBy
<1>4. ASSUME NEW n \in Nat, n \in T PROVE n + 1 \in T
  <2>1. OpenTo(r, n + 1, IF n + 1 \in Ranked(r) THEN Pick(r, n + 1, after[n]) ELSE after[n])
    BY <1>4, OpenStep
  <2>2. OpenTo(r, n + 1, after[n + 1])
    BY <1>2, <2>1 DEF InTurnBy
  <2>3. QED
    BY <2>2
<1>5. \A n \in Nat : n \in T
  <2> HIDE DEF T
  <2>1. QED
    BY <1>3, <1>4, Induction
<1>6. QED
  BY <1>1, <1>2, <1>5

Decoded(r) == {i \in Ranked(r) : Decodes(r.functions[i])}

LEMMA CappedIs ==
  ASSUME NEW r \in Requests, Cap(r) # {}
  PROVE  LET first == FirstPass(r) IN
         /\ PassTo(r, Len(r.functions), first)
         /\ BackTo(r, first.picked, first.deferred, Len(r.functions), Chosen(r))
         /\ Of(Seeded(r)) \subseteq Of(first.picked) /\ Of(first.picked) \subseteq Of(Chosen(r))
         /\ EntriesOf(r, Seeded(r)) \subseteq EntriesOf(r, Chosen(r))
         /\ EntriesOf(r, first.picked) \subseteq EntriesOf(r, Chosen(r))
<1> DEFINE first == FirstPass(r)
<1>1. PassTo(r, Len(r.functions), first)
  BY FirstPassIsBest
<1>2. Sound(r, first.picked) /\ first.deferred \in SUBSET Ranked(r) /\ GrowsTo(r, Seeded(r), first.picked)
  BY <1>1 DEF PassTo
<1>3. Chosen(r) = InTurn(r, first.deferred, first.picked)
  BY DEF Chosen, ChosenUnder
<1>4. BackTo(r, first.picked, first.deferred, Len(r.functions), Chosen(r))
  BY <1>2, <1>3, BackIsBest
<1>5. QED
  BY <1>1, <1>2, <1>4 DEF GrowsTo, BackTo

\* Who is not there met a full list: in the first pass, where all that is there came
\* before it, or after it was put off.
LEMMA NotThere ==
  ASSUME NEW r \in Requests, Cap(r) # {}, NEW i \in Decoded(r),
         r.functions[i].entry \notin EntriesOf(r, Chosen(r))
  PROVE  LET first == FirstPass(r) IN
         /\ Full(r, Chosen(r))
         /\ \/ /\ Chosen(r) = first.picked
               /\ Of(Chosen(r)) \subseteq Of(Seeded(r)) \union 1 .. i - 1
            \/ /\ i \in first.deferred
               /\ Of(Chosen(r)) \subseteq Of(first.picked) \union {k \in first.deferred : k < i}
<1> DEFINE first == FirstPass(r)
           p == first.picked
           d == first.deferred
<1>1. /\ PassTo(r, Len(r.functions), first) /\ BackTo(r, p, d, Len(r.functions), Chosen(r))
      /\ EntriesOf(r, p) \subseteq EntriesOf(r, Chosen(r))
  BY CappedIs
<1>2. i \in Ranked(r) /\ Decodes(r.functions[i]) /\ i <= Len(r.functions)
  BY RequestIs DEF Decoded
<1> HIDE DEF first
<1>3. CASE i \in d
  BY <1>1, <1>2, <1>3 DEF BackTo, first
<1>4. CASE i \notin d
  <2>1. Full(r, p) /\ Of(p) \subseteq Of(Seeded(r)) \union 1 .. i - 1
    BY <1>1, <1>2, <1>4 DEF PassTo, LeftOut
  <2>2. Chosen(r) = p
    BY <1>1, <2>1 DEF BackTo, GrowsTo
  <2>3. QED
    BY <2>1, <2>2 DEF first
<1>5. QED
  BY <1>3, <1>4

LEMMA CapIsUsed ==
  ASSUME NEW r \in Requests, NEW max \in Cap(r)
  PROVE  /\ Len(Chosen(r)) = Cardinality(EntriesOf(r, Chosen(r)))
         /\ Len(Chosen(r)) = Min({max, Cardinality({r.functions[i].entry : i \in Decoded(r)})})
<1> DEFINE C == Chosen(r)
           E == EntriesOf(r, C)
           A == {r.functions[i].entry : i \in Decoded(r)}
<1>1. Cap(r) # {} /\ max \in Nat /\ Cap(r) = {max}
  BY CapIs
<1>2. Sound(r, C)
  BY <1>1, CappedIs DEF BackTo
<1>3. Len(C) = Cardinality(E) /\ IsFiniteSet(E) /\ Len(C) <= max /\ Len(C) \in Nat
  BY <1>1, <1>2, SoundIs DEF Sound
<1>4. Of(C) \subseteq Decoded(r)
  BY <1>2, SoundIs DEF Sound, Decoded
<1>5. E \subseteq A
  BY <1>4, EntriesAre
<1>6. IsFiniteSet(A)
  <2>1. Len(r.functions) \in Nat /\ Decoded(r) \subseteq 1 .. Len(r.functions)
    BY RequestIs DEF Decoded
  <2>2. IsFiniteSet(Decoded(r))
    <3>1. IsFiniteSet(1 .. Len(r.functions))
      BY <2>1, FS_Interval
    <3>2. QED
      BY <2>1, <3>1, FS_Subset
  <2> DEFINE e == [i \in Decoded(r) |-> r.functions[i].entry]
  <2>3. e \in Surjection(Decoded(r), A)
    BY DEF Surjection
  <2>4. QED
    BY <2>2, <2>3, FS_Surjection
<1>7. Cardinality(E) <= Cardinality(A) /\ Cardinality(A) \in Nat
  BY <1>5, <1>6, FS_Subset, FS_CardinalityType
<1>8. Len(C) = max \/ Len(C) = Cardinality(A)
  <2>1. CASE A \subseteq E
    <3>1. A = E
      BY <1>5, <2>1
    <3>2. QED
      BY <1>3, <3>1
  <2>2. CASE ~(A \subseteq E)
    <3>1. PICK i \in Decoded(r) : r.functions[i].entry \notin E
      BY <2>2
    <3>2. Full(r, C)
      BY <1>1, <3>1, NotThere
    <3>3. max <= Len(C)
      BY <1>1, <3>2 DEF Full
    <3>4. QED
      BY <1>1, <1>3, <3>3
  <2>3. QED
    BY <2>1, <2>2
<1> HIDE DEF C, E, A
<1>9. {max, Cardinality(A)} \in SUBSET Nat /\ {max, Cardinality(A)} # {}
  BY <1>1, <1>7
<1> DEFINE m == Min({max, Cardinality(A)})
<1>10. m \in {max, Cardinality(A)} /\ m <= max /\ m <= Cardinality(A)
  BY <1>9, MinOf
<1> DEFINE a == Cardinality(A)
           l == Len(C)
<1>11. l \in Nat /\ a \in Nat /\ l <= max /\ l <= a
  BY <1>3, <1>7
<1>12. l = m
  <2> HIDE DEF a, l, m
  <2>1. m \in {max, a} /\ m <= max /\ m <= a
    BY <1>10 DEF a
  <2>2. l = max \/ l = a
    BY <1>8 DEF l, a
  <2>3. QED
    BY <1>1, <1>11, <2>1, <2>2
<1>13. QED
  BY <1>3, <1>12 DEF C, E, A

LEMMA SeedsAreIn ==
  ASSUME NEW r \in Requests, NEW max \in Cap(r), NEW n \in 1 .. 5, n <= max,
         NEW i \in OfCategory(r, n), Decodes(r.functions[i]), i = Min(OfCategory(r, n))
  PROVE  r.functions[i].entry \in EntriesOf(r, Chosen(r))
<1> DEFINE seeds == SeedEntries(r)
<1>1. Cap(r) # {} /\ max \in Nat /\ Cap(r) = {max}
  BY CapIs
<1>2. seeds \in Seq(DOMAIN r.functions) /\ HasBest(r, n, seeds)
  BY SeedsAreBest DEF SeedsTo
<1>3. PICK p \in DOMAIN seeds : p <= n /\ seeds[p] = i
  BY <1>2 DEF HasBest
<1>4. p \in 1 .. Len(seeds) /\ p \in Nat /\ ~(max < p)
  BY <1>1, <1>2, <1>3
<1>5. SeededTo(r, Len(seeds), Seeded(r))
  BY <1>1, SeededIsBest
<1>6. r.functions[i].entry \in EntriesOf(r, Seeded(r))
  BY <1>1, <1>3, <1>4, <1>5 DEF SeededTo
<1>7. QED
  BY <1>1, <1>6, CappedIs

Ahead(r, i) ==
  {k \in Of(Chosen(r)) \ {i} : k < i \/ r.functions[k].entry \in EntriesOf(r, SeedEntries(r))}

LEMMA NobodyIsPassedOver ==
  ASSUME NEW r \in Requests, Cap(r) # {},
         NEW i \in Decoded(r), r.functions[i].entry \notin EntriesOf(r, Chosen(r)),
         NEW j \in Of(Chosen(r)), r.functions[j].entry \notin EntriesOf(r, SeedEntries(r))
  PROVE  /\ i < j \/ CrowdedBy(r, j, Ahead(r, j)) => CrowdedBy(r, i, Ahead(r, i))
         /\ i < j => ~(r.functions[j].name # NoName /\ \E k \in Ahead(r, j) : SameOwner(r.functions[j], r.functions[k]))
<1> DEFINE first == FirstPass(r)
           p == first.picked
           d == first.deferred
           S == Of(Seeded(r))
           C == Chosen(r)
<1>1. /\ PassTo(r, Len(r.functions), first) /\ BackTo(r, p, d, Len(r.functions), C)
      /\ S \subseteq Of(p) /\ Of(p) \subseteq Of(C)
  BY CappedIs
<1>2. S \subseteq Of(SeedEntries(r))
  BY SeededIsBest DEF SeededTo
<1>3. \A k \in S : r.functions[k].entry \in EntriesOf(r, SeedEntries(r))
  BY <1>2, EntriesAre
<1>4. j \notin S
  BY <1>3
<1>5. i \in Nat /\ Of(C) \subseteq Nat
  BY <1>1, RequestIs, SoundIs DEF Decoded, BackTo
<1>6. i \notin Of(C)
  BY EntriesAre
<1>7. j \in Of(p) => ~CrowdedBy(r, j, Of(p) \ {j})
  BY <1>1, <1>4 DEF PassTo, Uncrowded
<1>8. \/ C = p /\ Of(C) \subseteq S \union 1 .. i - 1
      \/ i \in d /\ Of(C) \subseteq Of(p) \union {k \in d : k < i}
  BY NotThere
<1>9. Ahead(r, j) \subseteq Of(C) \ {j}
  BY DEF Ahead
<1> HIDE DEF first, C
<1>10. CASE C = p /\ Of(C) \subseteq S \union 1 .. i - 1
  <2>1. j \in 1 .. i - 1
    BY <1>4, <1>10 DEF C
  <2>2. ~(i < j)
    BY <1>5, <2>1
  <2>3. ~CrowdedBy(r, j, Ahead(r, j))
    BY <1>7, <1>9, <1>10, CrowdedMore DEF C
  <2>4. QED
    BY <2>2, <2>3
<1>11. CASE i \in d /\ Of(C) \subseteq Of(p) \union {k \in d : k < i}
  <2>1. CrowdedBy(r, i, Ahead(r, i))
    <3>1. CrowdedBy(r, i, Better(r, i, p))
      BY <1>1, <1>11 DEF PassTo, PutOff
    <3>2. Better(r, i, p) \subseteq Ahead(r, i)
      BY <1>1, <1>3, <1>6 DEF Better, Ahead, C
    <3>3. QED
      BY <3>1, <3>2, CrowdedMore
  <2>2. ASSUME i < j, r.functions[j].name # NoName, NEW k \in Ahead(r, j),
               SameOwner(r.functions[j], r.functions[k])
        PROVE  FALSE
    <3>1. j \in Of(p)
      BY <1>5, <1>11, <2>2 DEF C
    <3>2. k \in Of(p) \union {m \in d : m < i} /\ k # j /\ k \in Nat /\ j \in Nat
      BY <1>5, <1>9, <1>11, <2>2 DEF C
    <3>3. CASE k \in Of(p)
      <4>1. k \in Of(p) \ {j}
        BY <3>2, <3>3
      <4>2. CrowdedBy(r, j, Of(p) \ {j})
        BY <2>2, <4>1 DEF CrowdedBy
      <4>3. QED
        BY <1>7, <3>1, <4>2
    <3>4. CASE k \in d /\ k < i
      <4>1. k < j
        BY <1>5, <2>2, <3>2, <3>4
      <4>2. QED
        BY <1>1, <1>4, <2>2, <3>1, <3>4, <4>1 DEF PassTo, AloneAfter
    <3>5. QED
      BY <3>2, <3>3, <3>4
  <2>3. QED
    BY <2>1, <2>2
<1>12. QED
  BY <1>8, <1>10, <1>11

\* What is chosen are functions that decode, none of them twice.
LEMMA ChosenIs ==
  ASSUME NEW r \in Requests
  PROVE  Chosen(r) \in Picks(r)
<1>1. CASE Cap(r) = {}
  <2>1. OpenTo(r, Len(r.functions), Chosen(r))
    BY <1>1, OpenIsAll DEF Chosen
  <2>2. QED
    BY <2>1 DEF OpenTo
<1>2. CASE Cap(r) # {}
  BY <1>2, CappedIs DEF BackTo, Sound
<1>3. QED
  BY <1>1, <1>2

-----------------------------------------------------------------------------
(* Pieces.                                                                   *)

\* The part of a code from one address up to another.
Part(code, from, upto) == [a \in {b \in DOMAIN code : from <= b /\ b < upto} |-> code[a]]

\* Between the begin and the end of a code, or where a frame is pushed behind the end
\* of a path.
IsPart(code, from, upto) ==
  /\ from \in Nat \ {0} /\ upto \in Nat /\ from < upto
  /\ from \in DOMAIN code
  /\ upto \in Candidates(code) \/ upto = Max(DOMAIN code) + 1

LEMMA PartIs ==
  ASSUME NEW code, CodeOK(code), NEW from, NEW upto, IsPart(code, from, upto)
  PROVE  /\ CodeOK(Part(code, from, upto))
         /\ DOMAIN Part(code, from, upto) = from .. upto - 1
         /\ DOMAIN Part(code, from, upto) \subseteq DOMAIN code
         /\ Min(DOMAIN Part(code, from, upto)) = from
         /\ \A a \in DOMAIN Part(code, from, upto) : Part(code, from, upto)[a] = code[a]
<1> DEFINE part == Part(code, from, upto)
           P == DOMAIN part
           D == DOMAIN code
<1>1. PICK lo \in Nat \ {0}, hi \in Nat :
        /\ lo <= hi /\ D = lo .. hi /\ Max(D) = hi
  BY CodeIs
<1>2. /\ from \in Nat \ {0} /\ upto \in Nat /\ from < upto /\ lo <= from /\ upto <= hi + 1
      /\ upto = hi + 1 \/ (upto \in D /\ code[upto].op = "push")
  <2>1. from \in Nat \ {0} /\ upto \in Nat /\ from < upto /\ from \in D
        /\ (upto \in Candidates(code) \/ upto = hi + 1)
    BY <1>1 DEF IsPart
  <2>2. upto \in Candidates(code) => upto \in D /\ code[upto].op = "push"
    BY DEF Candidates
  <2>3. QED
    BY <1>1, <2>1, <2>2
<1>3. P = from .. upto - 1 /\ \A a \in P : part[a] = code[a] /\ a \in D
  <2>1. P = {b \in D : from <= b /\ b < upto} /\ \A a \in P : part[a] = code[a] /\ a \in D
    BY DEF Part
  <2>2. {b \in D : from <= b /\ b < upto} = from .. upto - 1
    BY <1>1, <1>2
  <2>3. QED
    BY <2>1, <2>2
<1>4. part = [a \in P |-> part[a]]
  BY DEF Part
<1> HIDE DEF part, P
<1>5. from \in P /\ upto - 1 \in P /\ P \in SUBSET Nat /\ P # {} /\ \A y \in P : from <= y /\ y <= upto - 1
  <2>1. from \in from .. upto - 1 /\ upto - 1 \in from .. upto - 1
    BY <1>2
  <2>2. from .. upto - 1 \subseteq Nat /\ \A y \in from .. upto - 1 : from <= y /\ y <= upto - 1
    BY <1>2
  <2>3. QED
    BY <1>3, <2>1, <2>2
<1>6. Min(P) = from
  <2>1. Min(P) \in P /\ \A y \in P : Min(P) <= y
    BY <1>5, MinOf
  <2>2. Min(P) \in Nat /\ Min(P) <= from /\ from <= Min(P)
    BY <1>5, <2>1
  <2>3. QED
    BY <1>2, <2>2
<1>7. \A a \in P : part[a] \in Instruction
  BY <1>3 DEF CodeOK
<1>8. CodeOK(part)
  BY <1>2, <1>3, <1>4, <1>5, <1>7 DEF CodeOK, P
<1>9. QED
  BY <1>3, <1>6, <1>8 DEF part, P, D

\* The cuts of a range divide it: what starts at one of them ends at the next.
Divided(lo, top, cuts0) ==
  LET starts == {lo} \union cuts0
      ends   == cuts0 \union {top}
      n == Cardinality(starts)
      From(k) == Nth(starts, k - 1)
      Upto(k) == Nth(ends, k - 1)
  IN  /\ n = Cardinality(cuts0) + 1 /\ n \in Nat
      /\ From(1) = lo
      /\ \A k \in 1 .. n : /\ From(k) \in starts /\ Upto(k) \in ends /\ From(k) < Upto(k)
                           /\ \A c \in cuts0 : c <= From(k) \/ Upto(k) <= c
                           /\ k # 1 => From(k) # lo
      /\ \A a \in lo .. top - 1 : \E k \in 1 .. n : From(k) <= a /\ a < Upto(k)
      /\ \A j, k \in 1 .. n : j < k => Upto(j) <= From(k)

LEMMA CutsDivide ==
  ASSUME NEW lo \in Nat, NEW top \in Nat, lo < top, NEW cuts0, IsFiniteSet(cuts0),
         \A c \in cuts0 : c \in Nat /\ lo < c /\ c < top
  PROVE  Divided(lo, top, cuts0)
<1> DEFINE starts == {lo} \union cuts0
           ends == cuts0 \union {top}
           m == Cardinality(cuts0)
           s(k) == Nth(starts, k)
           e(k) == Nth(ends, k)
<1>1. m \in Nat /\ lo \notin cuts0 /\ top \notin cuts0
  BY FS_CardinalityType
<1>2. /\ IsFiniteSet(starts) /\ Cardinality(starts) = m + 1
      /\ IsFiniteSet(ends) /\ Cardinality(ends) = m + 1
  <2>1. starts = cuts0 \union {lo}
    OBVIOUS
  <2>2. QED
    BY <1>1, <2>1, FS_AddElement
<1>3. starts \in SUBSET Nat /\ ends \in SUBSET Nat
  OBVIOUS
<1> HIDE DEF m
<1>4. /\ \A k \in 0 .. m : s(k) \in starts /\ Place(starts, s(k)) = k
      /\ \A x \in starts : Place(starts, x) \in 0 .. m /\ s(Place(starts, x)) = x
      /\ \A j, k \in 0 .. m : j < k <=> s(j) < s(k)
  <2> HIDE DEF starts, ends
  <2>1. m = (m + 1) - 1
    BY <1>1
  <2>2. QED
    BY <1>2, <1>3, <2>1, NthIs
<1>5. /\ \A k \in 0 .. m : e(k) \in ends /\ Place(ends, e(k)) = k
      /\ \A x \in ends : Place(ends, x) \in 0 .. m /\ e(Place(ends, x)) = x
      /\ \A j, k \in 0 .. m : j < k <=> e(j) < e(k)
  <2> HIDE DEF starts, ends
  <2>1. m = (m + 1) - 1
    BY <1>1
  <2>2. QED
    BY <1>2, <1>3, <2>1, NthIs
<1>6. Place(starts, lo) = 0
  <2>1. {y \in starts : y < lo} = {}
    OBVIOUS
  <2>2. QED
    BY <2>1, FS_EmptySet DEF Place
<1>7. Place(ends, top) = m
  <2>1. {y \in ends : y < top} = cuts0
    OBVIOUS
  <2>2. QED
    BY <2>1 DEF Place, m
<1>8. \A c \in cuts0 : Place(starts, c) = Place(ends, c) + 1
  <2> TAKE c \in cuts0
  <2> DEFINE B == {y \in ends : y < c}
  <2>1. {y \in starts : y < c} = B \union {lo} /\ lo \notin B
    BY <1>1
  <2>2. IsFiniteSet(B)
    BY <1>2, FS_Subset
  <2> HIDE DEF B
  <2>3. Cardinality(B \union {lo}) = Cardinality(B) + 1
    BY <2>1, <2>2, FS_AddElement
  <2>4. QED
    BY <2>1, <2>3 DEF Place, B
<1> HIDE DEF starts, ends
<1>9. s(0) = lo /\ lo \in starts /\ top \in ends /\ \A c \in cuts0 : c \in starts /\ c \in ends
  BY <1>4, <1>6 DEF starts, ends
<1>10. e(m) = top
  BY <1>5, <1>7, <1>9
<1>11. \A k \in 0 .. m - 1 : e(k) \in cuts0 /\ k + 1 \in 0 .. m /\ s(k + 1) = e(k)
  <2> TAKE k \in 0 .. m - 1
  <2>1. k \in 0 .. m /\ k + 1 \in 0 .. m /\ k # m
    BY <1>1
  <2>2. e(k) \in ends /\ e(k) # top
    BY <1>5, <1>7, <2>1
  <2>3. e(k) \in cuts0
    BY <2>2 DEF ends
  <2>4. Place(starts, e(k)) = k + 1
    BY <1>5, <1>8, <2>1, <2>3
  <2>5. QED
    BY <1>4, <1>9, <2>1, <2>3, <2>4
<1>12. \A k \in 0 .. m : s(k) < e(k)
  <2> TAKE k \in 0 .. m
  <2>1. CASE k = m
    <3>1. s(m) < top
      <4>1. m \in 0 .. m
        BY <1>1
      <4>2. s(m) \in starts
        BY <1>4, <4>1
      <4>3. QED
        BY <4>2 DEF starts
    <3>2. QED
      BY <1>10, <2>1, <3>1
  <2>2. CASE k # m
    <3>1. k \in 0 .. m - 1 /\ k < k + 1
      BY <1>1, <2>2
    <3>2. s(k) < s(k + 1)
      BY <1>4, <1>11, <3>1
    <3>3. QED
      BY <1>11, <3>1, <3>2
  <2>3. QED
    BY <2>1, <2>2
<1>13. \A x, y \in starts : x \in Nat /\ y \in Nat
  BY <1>3
<1>14. \A j, k \in 0 .. m : j < k => e(j) <= s(k)
  <2> TAKE j, k \in 0 .. m
  <2> HAVE j < k
  <2>1. j \in 0 .. m - 1 /\ j + 1 \in 0 .. m
    BY <1>1
  <2>2. e(j) = s(j + 1)
    BY <1>11, <2>1
  <2>3. CASE j + 1 = k
    <3>1. s(k) \in Nat
      BY <1>4, <1>13
    <3>2. QED
      BY <2>2, <2>3, <3>1
  <2>4. CASE j + 1 # k
    <3>1. j + 1 < k
      BY <2>4
    <3>2. s(j + 1) < s(k) /\ s(j + 1) \in Nat /\ s(k) \in Nat
      BY <1>4, <1>13, <2>1, <3>1
    <3>3. QED
      BY <2>2, <3>2
  <2>5. QED
    BY <2>3, <2>4
<1>15. \A k \in 0 .. m : \A c \in cuts0 : c <= s(k) \/ e(k) <= c
  <2> TAKE k \in 0 .. m
  <2> TAKE c \in cuts0
  <2> DEFINE j == Place(starts, c)
  <2>1. j \in 0 .. m /\ s(j) = c /\ c \in Nat /\ s(k) \in Nat
    BY <1>4, <1>9, <1>13
  <2> HIDE DEF j
  <2>2. CASE k < j
    BY <1>14, <2>1, <2>2
  <2>3. CASE j < k
    <3>1. s(j) < s(k)
      BY <1>4, <2>1, <2>3
    <3>2. QED
      BY <2>1, <3>1
  <2>4. CASE j = k
    BY <2>1, <2>4
  <2>5. QED
    BY <2>1, <2>2, <2>3, <2>4
<1>16. \A a \in lo .. top - 1 : \E k \in 0 .. m : s(k) <= a /\ a < e(k)
  <2> TAKE a \in lo .. top - 1
  <2> DEFINE B == {x \in starts : x <= a}
  <2>1. B \in SUBSET Nat /\ B # {} /\ a \in Nat /\ \A y \in B : y <= a
    <3>1. a \in Nat /\ lo <= a
      OBVIOUS
    <3>2. lo \in B
      BY <1>9, <3>1
    <3>3. QED
      BY <1>3, <3>1, <3>2
  <2>2. Max(B) \in B /\ \A y \in B : y <= Max(B)
    <3> HIDE DEF B
    <3>1. QED
      BY <2>1, MaxOf
  <2> DEFINE k == Place(starts, Max(B))
  <2>3. k \in 0 .. m /\ s(k) = Max(B) /\ s(k) <= a
    BY <1>4, <2>2
  <2> HIDE DEF k
  <2>4. a < e(k)
    <3>1. CASE k = m
      BY <1>10, <3>1
    <3>2. CASE k # m
      <4>1. k \in 0 .. m - 1 /\ k < k + 1
        BY <1>1, <2>3, <3>2
      <4>2. k + 1 \in 0 .. m /\ s(k + 1) = e(k) /\ s(k) < s(k + 1) /\ s(k + 1) \in starts
        BY <1>4, <1>11, <2>3, <4>1
      <4>3. s(k + 1) \in Nat /\ s(k) \in Nat
        BY <1>4, <1>13, <2>3, <4>2
      <4>4. ~(s(k + 1) <= a)
        BY <2>2, <2>3, <4>2, <4>3
      <4>5. QED
        BY <2>1, <4>2, <4>3, <4>4
    <3>3. QED
      BY <3>1, <3>2
  <2>5. QED
    BY <2>3, <2>4
<1>17. \A k \in 1 .. m + 1 : k - 1 \in 0 .. m
  BY <1>1
<1>18. \A k \in 1 .. m + 1 : k # 1 => s(k - 1) # lo
  <2> TAKE k \in 1 .. m + 1
  <2> HAVE k # 1
  <2>1. 0 \in 0 .. m /\ 0 < k - 1 /\ k - 1 \in 0 .. m
    BY <1>1
  <2>2. s(0) < s(k - 1) /\ s(k - 1) \in Nat
    BY <1>4, <1>13, <2>1
  <2>3. QED
    BY <1>9, <2>2
<1>19. \A a \in lo .. top - 1 : \E k \in 1 .. m + 1 : s(k - 1) <= a /\ a < e(k - 1)
  <2> TAKE a \in lo .. top - 1
  <2>1. PICK k \in 0 .. m : s(k) <= a /\ a < e(k)
    BY <1>16
  <2>2. k + 1 \in 1 .. m + 1 /\ (k + 1) - 1 = k
    BY <1>1
  <2>3. QED
    BY <2>1, <2>2
<1>20. \A j, k \in 1 .. m + 1 : j < k => e(j - 1) <= s(k - 1)
  <2> TAKE j, k \in 1 .. m + 1
  <2> HAVE j < k
  <2>1. j - 1 < k - 1
    BY <1>1
  <2>2. QED
    BY <1>14, <1>17, <2>1
<1>21. s(1 - 1) = lo
  BY <1>9
<1>22. \A k \in 1 .. m + 1 : /\ s(k - 1) \in starts /\ e(k - 1) \in ends /\ s(k - 1) < e(k - 1)
                             /\ \A c \in cuts0 : c <= s(k - 1) \/ e(k - 1) <= c
                             /\ k # 1 => s(k - 1) # lo
  BY <1>4, <1>5, <1>12, <1>15, <1>17, <1>18
<1>23. m + 1 \in Nat
  BY <1>1
<1>24. QED
  BY <1>2, <1>19, <1>20, <1>21, <1>22, <1>23 DEF Divided, starts, ends, m

-----------------------------------------------------------------------------
(* What every state of a run satisfies.                                      *)

\* What a record is, before it is split and after.
Codes  == {code \in UNION {[D -> Instruction] : D \in SUBSET Nat} : CodeOK(code)}
Record == {g \in [id : Nat, declared : BOOLEAN, entry : Nat, code : Codes] : g.entry = Min(DOMAIN g.code)}

TypesHold ==
  /\ request \in Requests
  /\ records \in Seq(Record) /\ todo \in Seq(Record) /\ out \in Seq(Record)
  /\ source \in Seq(Nat) /\ nextId \in Nat
  /\ pc \in {"off", "records", "candidates"}
  /\ rejected \in [Reasons -> Nat]

\* What is still to do is the end of what was given.
Numbered(g) == \A i, j \in DOMAIN g : g[i].id = g[j].id => i = j

TodoIsTheRest ==
  /\ Numbered(records)
  /\ Len(todo) <= Len(records)
  /\ \A k \in DOMAIN todo : todo[k] = records[Len(records) - Len(todo) + k]
  /\ pc = "off" => records = <<>> /\ todo = <<>> /\ out = <<>> /\ source = <<>> /\ functions = <<>>

\* Nothing leads to an address: from the entry, guards and all, or from any jump.
EntryOnly(code, c) ==
  /\ c \notin RunsToGuarded(code, Min(DOMAIN code))
  /\ \A a \in DOMAIN code : code[a].op \in Aimed => code[a].to # c

RunsBelow(code, from, upto) == \A b \in RunsTo(code, from) : b < upto

\* What is made of a record is a part of its code.  It does not run out of itself, and,
\* unless it begins the record, is not led to, where slow paths are their guards' own.
MadeOf(g, h) ==
  /\ \E upto \in Nat : /\ IsPart(g.code, h.entry, upto)
                       /\ h.code = Part(g.code, h.entry, upto)
                       /\ OwnSlowPaths(g.code) => RunsBelow(g.code, h.entry, upto)
  /\ OwnSlowPaths(g.code) /\ h.entry # g.entry => EntryOnly(g.code, h.entry)

Meet(g, h) == DOMAIN g.code \cap DOMAIN h.code # {}

\* The functions made are the records before this one, part by part.
OutIsMade ==
  /\ Len(source) = Len(out)
  /\ \A j \in DOMAIN out : source[j] \in 1 .. At - 1 /\ MadeOf(records[source[j]], out[j])
  /\ \A i \in 1 .. At - 1 : \A a \in DOMAIN records[i].code :
       \E j \in DOMAIN out : source[j] = i /\ a \in DOMAIN out[j].code
  /\ \A j, k \in DOMAIN out : source[j] = source[k] /\ Meet(out[j], out[k]) => j = k

\* While there is more to split, the next id is behind all ids in use.
IdsAreFresh ==
  /\ Numbered(out)
  /\ \A j \in DOMAIN out : \A k \in DOMAIN todo : out[j].id # todo[k].id
  /\ todo # <<>> => /\ \A j \in DOMAIN out : out[j].id < nextId
                    /\ \A i \in DOMAIN records : records[i].id < nextId

\* Where the piece starts that the next candidate may end.
Base == Max({f.entry} \union cuts)

\* Every cut is behind whatever runs from the ones before, where slow paths are their
\* guards' own.
CutsHold ==
  pc = "candidates" =>
    /\ todo # <<>>
    /\ ir = BuildFunctionIr(f.code)
    /\ cand \subseteq Candidates(f.code) /\ cuts \subseteq Candidates(f.code)
    /\ \A c \in cuts : \A d \in cand : c < d
    /\ entry = Containing(ir, Base) /\ reach = HighestReachable(ir, entry)
    /\ OwnSlowPaths(f.code) =>
         /\ \A c \in cuts : EntryOnly(f.code, c)
         /\ \A c \in cuts : \A p \in {f.entry} \union cuts : p < c => RunsBelow(f.code, p, c)

\* The graphs are those of the functions made.
GraphsAreBuilt ==
  /\ functions # <<>> =>
       /\ Done /\ DOMAIN functions = DOMAIN out
       /\ \A k \in DOMAIN functions :
            LET graph == BuildFunctionIr(out[k].code) IN
            functions[k] = IF pruned THEN CutAfterCalls(graph, raising) ELSE graph
  /\ pruned => DOMAIN functions # {}

IInv ==
  /\ TypesHold
  /\ TodoIsTheRest
  /\ OutIsMade
  /\ IdsAreFresh
  /\ CutsHold
  /\ NoBlockStaysZero
  /\ GraphsAreBuilt

-----------------------------------------------------------------------------
LEMMA RecordIs ==
  ASSUME NEW g \in Record
  PROVE  CodeOK(g.code) /\ g.id \in Nat /\ g.entry = Min(DOMAIN g.code) /\ g.entry \in Nat
BY DEF Record, Codes

LEMMA RecordOf ==
  ASSUME NEW id \in Nat, NEW declared \in BOOLEAN, NEW code, CodeOK(code)
  PROVE  [id |-> id, declared |-> declared, entry |-> Min(DOMAIN code), code |-> code] \in Record
<1>1. PICK lo \in Nat \ {0}, hi \in Nat : lo <= hi /\ DOMAIN code = lo .. hi /\ Min(DOMAIN code) = lo
  BY CodeIs
<1>2. code \in [DOMAIN code -> Instruction] /\ DOMAIN code \in SUBSET Nat
  BY <1>1 DEF CodeOK
<1>3. code \in Codes
  BY <1>2 DEF Codes
<1> HIDE DEF Codes
<1>4. QED
  BY <1>1, <1>3 DEF Record

LEMMA CandidateIs ==
  ASSUME NEW code, CodeOK(code), NEW c \in Candidates(code)
  PROVE  /\ c \in DOMAIN code /\ c \in Nat /\ Min(DOMAIN code) < c
         /\ OwnSlowPaths(code) => c \notin Stranded(code)
         /\ c <= Max(DOMAIN code)
         /\ \A g \in DOMAIN code : code[g].op = "check" => c # g + 1
<1>1. PICK lo \in Nat \ {0}, hi \in Nat :
        lo <= hi /\ DOMAIN code = lo .. hi /\ Min(DOMAIN code) = lo /\ Max(DOMAIN code) = hi
  BY CodeIs
<1>2. c \in DOMAIN code /\ c - 1 \in DOMAIN code /\ code[c - 1].op \in Terminators /\ code[c].op = "push"
  BY DEF Candidates
<1>3. OwnSlowPaths(code) => c \notin Stranded(code)
  BY <1>2, StrandedIs
<1>4. \A g \in DOMAIN code : code[g].op = "check" => c # g + 1
  <2> TAKE g \in DOMAIN code
  <2>1. c = g + 1 => c - 1 = g
    BY <1>1
  <2>2. QED
    BY <1>2, <2>1 DEF Terminators
<1>5. QED
  BY <1>1, <1>2, <1>3, <1>4

\* The highest address reached bounds what is run to.
LEMMA ReachBounds ==
  ASSUME NEW code, CodeOK(code), OwnSlowPaths(code), NEW p \in DOMAIN code, p \notin Stranded(code)
  PROVE  LET graph == BuildFunctionIr(code) IN
         /\ Containing(graph, p) # {}
         /\ HighestReachable(graph, Containing(graph, p)) \in Nat
         /\ \A b \in RunsTo(code, p) : b <= HighestReachable(graph, Containing(graph, p))
<1> DEFINE graph == BuildFunctionIr(code)
           K == DOMAIN graph
<1>1. GraphIs(code, graph)
  BY GraphOf
<1> HIDE DEF graph
<1>2. PICK k \in K : p \in Addresses(graph[k])
  BY <1>1 DEF GraphIs, PartitionsTheCode, InBlocks
<1>3. Containing(graph, p) = {k}
  BY <1>1, <1>2 DEF GraphIs, Containing
<1> DEFINE R == Reached(SuccsOf(graph), {k})
           L == {graph[i].last : i \in R}
<1>4. R \subseteq K /\ RunsTo(code, p) \subseteq Covered(graph, R)
  BY <1>1, <1>2, GraphReach
<1>5. HighestReachable(graph, Containing(graph, p)) = Max({0} \union L)
  BY <1>3 DEF HighestReachable, SuccsOf
<1>6. PICK lo \in Nat \ {0}, hi \in Nat : lo <= hi /\ DOMAIN code = lo .. hi
  BY CodeIs
<1>7. \A i \in K : graph[i].last \in Nat /\ graph[i].start \in Nat /\ graph[i].last <= hi
  <2> TAKE i \in K
  <2>1. /\ graph[i].start \in Nat /\ graph[i].last \in Nat /\ graph[i].start <= graph[i].last
        /\ Addresses(graph[i]) \subseteq DOMAIN code
    BY <1>1 DEF GraphIs
  <2>2. graph[i].last \in DOMAIN code
    BY <2>1 DEF Addresses
  <2>3. QED
    BY <1>6, <2>1, <2>2
<1> HIDE DEF R, K
<1>8. ({0} \union L) \in SUBSET Nat /\ \A y \in {0} \union L : y <= hi
  BY <1>4, <1>6, <1>7
<1>9. Max({0} \union L) \in {0} \union L /\ \A y \in {0} \union L : y <= Max({0} \union L)
  <2> HIDE DEF L
  <2>1. QED
    BY <1>8, MaxOf
<1>10. ASSUME NEW b \in RunsTo(code, p) PROVE b <= Max({0} \union L)
  <2>1. PICK i \in R : b \in Addresses(graph[i])
    BY <1>4 DEF Covered
  <2>2. graph[i].last <= Max({0} \union L)
    BY <1>9, <2>1
  <2>3. Max({0} \union L) \in Nat
    BY <1>8, <1>9
  <2>4. b \in Nat /\ b <= graph[i].last /\ graph[i].last \in Nat
    BY <1>4, <1>7, <2>1 DEF Addresses
  <2>5. QED
    BY <2>2, <2>3, <2>4
<1>11. Max({0} \union L) \in Nat
  BY <1>8, <1>9
<1>12. QED
  BY <1>2, <1>3, <1>5, <1>10, <1>11 DEF graph, Containing

\* The piece that starts a record starts in the first block.
LEMMA FirstBlock ==
  ASSUME NEW code, CodeOK(code)
  PROVE  Containing(BuildFunctionIr(code), Min(DOMAIN code)) = {0}
<1> DEFINE graph == BuildFunctionIr(code)
<1>1. GraphIs(code, graph)
  BY GraphOf
<1> HIDE DEF graph
<1>2. 0 \in DOMAIN graph /\ Min(DOMAIN code) \in Addresses(graph[0])
  BY <1>1 DEF GraphIs, Addresses
<1>3. Containing(graph, Min(DOMAIN code)) = {0}
  BY <1>1, <1>2 DEF GraphIs, Containing
<1>4. QED
  BY <1>3 DEF graph

\* A jump out of a slow path comes back behind its guard, where no frame is pushed, so
\* it does not matter that the blocks no longer hold it.
LEMMA CutIsEntryOnly ==
  ASSUME NEW code, CodeOK(code), OwnSlowPaths(code), NEW c \in Candidates(code),
         c \notin BranchTargets(code, BuildFunctionIr(code)),
         RunsBelow(code, Min(DOMAIN code), c)
  PROVE  EntryOnly(code, c)
<1> DEFINE graph == BuildFunctionIr(code)
           lo == Min(DOMAIN code)
<1>1. GraphIs(code, graph)
  BY GraphOf
<1>2. c \in DOMAIN code /\ c \in Nat /\ c \notin Stranded(code)
  BY CandidateIs
<1>3. c \notin RunsTo(code, lo)
  BY <1>2 DEF RunsBelow
<1>4. c \notin RunsToGuarded(code, lo)
  BY <1>2, <1>3 DEF Stranded
<1> HIDE DEF graph
<1>5. ASSUME NEW a \in DOMAIN code, code[a].op \in Aimed PROVE code[a].to # c
  <2>1. CASE a \in Stranded(code)
    <3>1. code[a].op = "jump"
      BY <1>5, <2>1, StrandedIs DEF Aimed
    <3>2. PICK g \in DOMAIN code : code[g].op = "check" /\ code[a].to = g + 1
      BY <2>1, <3>1, StrandedIs
    <3>3. QED
      BY <3>2, CandidateIs
  <2>2. CASE a \notin Stranded(code)
    <3>1. PICK k \in DOMAIN graph : a \in Addresses(graph[k])
      BY <1>1, <2>2 DEF GraphIs, PartitionsTheCode, InBlocks
    <3>2. code[a].to \in BranchTargets(code, graph)
      BY <1>5, <3>1 DEF BranchTargets
    <3>3. QED
      BY <3>2 DEF graph
  <2>3. QED
    BY <2>1, <2>2
<1>6. QED
  BY <1>4, <1>5 DEF EntryOnly

\* What a record is cut into.
CutsOf(g, points) ==
  /\ points \subseteq Candidates(g.code)
  /\ OwnSlowPaths(g.code) =>
       /\ \A c \in points : EntryOnly(g.code, c)
       /\ \A c \in points : \A p \in {g.entry} \union points : p < c => RunsBelow(g.code, p, c)

PiecesOf(g, points, id, ps) ==
  LET n == Cardinality(points) + 1 IN
  /\ Cardinality(points) \in Nat
  /\ ps \in Seq(Record) /\ Len(ps) = n
  /\ \A k \in 1 .. n : MadeOf(g, ps[k])
  /\ \A a \in DOMAIN g.code : \E k \in 1 .. n : a \in DOMAIN ps[k].code
  /\ \A j, k \in 1 .. n : Meet(ps[j], ps[k]) => j = k
  /\ \A k \in 1 .. n : ps[k].id = IF k = 1 THEN g.id ELSE id + k - 2

LEMMA PiecesAre ==
  ASSUME NEW g \in Record, NEW points, CutsOf(g, points), NEW id \in Nat
  PROVE  PiecesOf(g, points, id, Pieces(g, points, id))
<1> DEFINE code == g.code
           lo == g.entry
           top == Max(DOMAIN code) + 1
           starts == {lo} \union points
           ends   == points \union {top}
           m == Cardinality(points)
           n == Cardinality(starts)
           From(k) == Nth(starts, k - 1)
           Upto(k) == Nth(ends, k - 1)
           ps == Pieces(g, points, id)
<1>1. CodeOK(code) /\ lo = Min(DOMAIN code) /\ lo \in Nat /\ g.id \in Nat
  BY RecordIs
<1>2. PICK hi \in Nat : /\ lo \in Nat \ {0} /\ lo <= hi /\ DOMAIN code = lo .. hi
                        /\ Max(DOMAIN code) = hi /\ IsFiniteSet(DOMAIN code)
  BY <1>1, CodeIs
<1>3. top = hi + 1 /\ top \in Nat /\ lo < top
  BY <1>2
<1>4. /\ points \subseteq Candidates(code) /\ points \subseteq DOMAIN code
      /\ \A c \in points : c \in Nat /\ lo < c /\ c < top
  <2>1. points \subseteq Candidates(code)
    BY DEF CutsOf
  <2>2. \A c \in points : c \in DOMAIN code /\ c \in Nat /\ lo < c
    BY <1>1, <2>1, CandidateIs
  <2>3. QED
    BY <1>2, <1>3, <2>1, <2>2
<1>5. IsFiniteSet(points)
  BY <1>2, <1>4, FS_Subset
<1> HIDE DEF code, top, lo
<1>6. /\ n = m + 1 /\ n \in Nat
      /\ From(1) = lo
      /\ \A k \in 1 .. n : /\ From(k) \in starts /\ Upto(k) \in ends /\ From(k) < Upto(k)
                           /\ \A c \in points : c <= From(k) \/ Upto(k) <= c
                           /\ k # 1 => From(k) # lo
      /\ \A a \in lo .. top - 1 : \E k \in 1 .. n : From(k) <= a /\ a < Upto(k)
      /\ \A j, k \in 1 .. n : j < k => Upto(j) <= From(k)
  <2>1. lo \in Nat
    BY <1>1
  <2>2. QED
    <3>1. Divided(lo, top, points)
      BY <1>3, <1>4, <1>5, <2>1, CutsDivide
    <3>2. QED
      BY <3>1 DEF Divided
<1>7. m \in Nat
  BY <1>5, FS_CardinalityType
<1>8. \A k \in 1 .. n : /\ ps[k] = Piece(g, From(k), Upto(k), IF k = 1 THEN g.id ELSE id + k - 2)
                        /\ ps[k].entry = From(k)
                        /\ ps[k].code = Part(code, From(k), Upto(k))
                        /\ ps[k].id = IF k = 1 THEN g.id ELSE id + k - 2
  BY DEF Pieces, Piece, Part, code, lo, top
<1>9. ps = [k \in 1 .. n |-> ps[k]]
  BY DEF Pieces, lo
<1> HIDE DEF n, m, ps, From, Upto
<1>10. \A k \in 1 .. n : /\ From(k) \in Nat /\ Upto(k) \in Nat
                         /\ IsPart(code, From(k), Upto(k))
  <2> TAKE k \in 1 .. n
  <2>1. From(k) \in starts /\ Upto(k) \in ends /\ From(k) < Upto(k)
    BY <1>6
  <2>2. lo \in DOMAIN code
    BY <1>2
  <2>3. From(k) \in DOMAIN code /\ From(k) \in Nat \ {0}
    BY <1>2, <1>4, <2>1, <2>2
  <2>4. Upto(k) \in Nat /\ (Upto(k) \in Candidates(code) \/ Upto(k) = Max(DOMAIN code) + 1)
    BY <1>3, <1>4, <2>1 DEF top
  <2>5. QED
    BY <2>1, <2>3, <2>4 DEF IsPart
<1>11. \A k \in 1 .. n : /\ CodeOK(ps[k].code) /\ DOMAIN ps[k].code = From(k) .. Upto(k) - 1
                         /\ Min(DOMAIN ps[k].code) = From(k)
  BY <1>1, <1>8, <1>10, PartIs
<1>12. \A k \in 1 .. n : ps[k].id \in Nat
  <2> TAKE k \in 1 .. n
  <2>1. CASE k = 1
    BY <1>1, <1>8, <2>1
  <2>2. CASE k # 1
    BY <1>6, <1>8, <2>2
  <2>3. QED
    BY <2>1, <2>2
<1>13. \A k \in 1 .. n : ps[k] \in Record
  <2> TAKE k \in 1 .. n
  <2> DEFINE d == g.declared /\ From(k) = g.entry
             i == IF k = 1 THEN g.id ELSE id + k - 2
  <2>1. ps[k] = [id |-> i, declared |-> d, entry |-> From(k), code |-> ps[k].code]
    <3>1. ps[k] = Piece(g, From(k), Upto(k), i)
      BY <1>8
    <3>2. QED
      BY <3>1 DEF Piece
  <2>2. d \in BOOLEAN /\ i \in Nat
    BY <1>8, <1>12
  <2> HIDE DEF d, i
  <2>3. [id |-> i, declared |-> d, entry |-> Min(DOMAIN ps[k].code), code |-> ps[k].code] \in Record
    BY <1>11, <2>2, RecordOf
  <2>4. QED
    BY <1>11, <2>1, <2>3
<1>14. ps \in Seq(Record) /\ Len(ps) = n
  <2>1. ps \in [1 .. n -> Record] /\ n \in Nat
    BY <1>6, <1>9, <1>13
  <2>2. QED
    BY <2>1, IsASeq
<1>15. ASSUME NEW k \in 1 .. n PROVE MadeOf(g, ps[k])
  <2>1. ASSUME OwnSlowPaths(code) PROVE RunsBelow(code, From(k), Upto(k))
    <3>1. CASE Upto(k) \in points
      BY <1>6, <2>1, <3>1 DEF CutsOf, code, lo
    <3>2. CASE Upto(k) = top
      <4>1. From(k) \in DOMAIN code
        BY <1>10 DEF IsPart
      <4>2. RunsTo(code, From(k)) \subseteq DOMAIN code
        BY <1>2, <4>1, RunsToIs
      <4>3. QED
        BY <1>2, <1>3, <3>2, <4>2 DEF RunsBelow
    <3>3. QED
      BY <1>6, <3>1, <3>2
  <2>2. OwnSlowPaths(code) /\ From(k) # lo => EntryOnly(code, From(k))
    BY <1>6 DEF CutsOf, code
  <2>3. QED
    BY <1>8, <1>10, <2>1, <2>2 DEF MadeOf, code, lo
<1>16. ASSUME NEW a \in DOMAIN code PROVE \E k \in 1 .. n : a \in DOMAIN ps[k].code
  <2>1. a \in lo .. top - 1 /\ a \in Nat
    BY <1>2, <1>3
  <2>2. PICK k \in 1 .. n : From(k) <= a /\ a < Upto(k)
    BY <1>6, <2>1
  <2>3. a \in From(k) .. Upto(k) - 1
    BY <1>10, <2>1, <2>2
  <2>4. QED
    BY <1>11, <2>3
<1>17. ASSUME NEW j \in 1 .. n, NEW k \in 1 .. n, Meet(ps[j], ps[k]) PROVE j = k
  <2>1. PICK a : a \in From(j) .. Upto(j) - 1 /\ a \in From(k) .. Upto(k) - 1
    BY <1>11, <1>17 DEF Meet
  <2>2. From(j) \in Nat /\ Upto(j) \in Nat /\ From(k) \in Nat /\ Upto(k) \in Nat
    BY <1>10
  <2>3. a \in Int /\ From(j) <= a /\ a < Upto(j) /\ From(k) <= a /\ a < Upto(k)
    BY <2>1, <2>2
  <2>4. ~(j < k)
    <3>1. j < k => Upto(j) <= From(k)
      BY <1>6
    <3>2. QED
      BY <2>2, <2>3, <3>1
  <2>5. ~(k < j)
    <3>1. k < j => Upto(k) <= From(j)
      BY <1>6
    <3>2. QED
      BY <2>2, <2>3, <3>1
  <2>6. QED
    BY <1>6, <2>4, <2>5
<1>18. \A k \in 1 .. n : ps[k].id = IF k = 1 THEN g.id ELSE id + k - 2
  BY <1>8
<1>19. QED
  BY <1>6, <1>7, <1>14, <1>15, <1>16, <1>17, <1>18 DEF PiecesOf, ps, m, code

\* The pieces of the record at hand go out.
Added(points, ps) ==
  /\ out' = out \o ps /\ source' = source \o [k \in DOMAIN ps |-> At] /\ todo' = Tail(todo)
  /\ UNCHANGED records /\ pc' = "records" /\ nextId' = nextId + Cardinality(points)

\* What the record at hand is made into comes behind what was made before.
LEMMA MoreIsMade ==
  ASSUME TypesHold, TodoIsTheRest, OutIsMade, IdsAreFresh, todo # <<>>,
         NEW points, NEW ps, PiecesOf(f, points, nextId, ps), Added(points, ps)
  PROVE  /\ todo' \in Seq(Record) /\ out' \in Seq(Record) /\ source' \in Seq(Nat) /\ nextId' \in Nat
         /\ TodoIsTheRest' /\ OutIsMade' /\ IdsAreFresh'
<1> DEFINE N == Len(out)
           n == Len(ps)
           m == Cardinality(points)
           at == At
           more == [k \in DOMAIN ps |-> at]
<1>1. /\ records \in Seq(Record) /\ todo \in Seq(Record) /\ out \in Seq(Record)
      /\ source \in Seq(Nat) /\ nextId \in Nat
  BY DEF TypesHold
<1>2. /\ m \in Nat /\ ps \in Seq(Record) /\ n = m + 1 /\ n \in Nat
      /\ \A k \in 1 .. n : MadeOf(f, ps[k])
      /\ \A a \in DOMAIN f.code : \E k \in 1 .. n : a \in DOMAIN ps[k].code
      /\ \A j, k \in 1 .. n : Meet(ps[j], ps[k]) => j = k
      /\ \A k \in 1 .. n : ps[k].id = IF k = 1 THEN f.id ELSE nextId + k - 2
  BY DEF PiecesOf
<1>3. /\ Len(todo) \in Nat \ {0} /\ Len(records) \in Nat /\ Len(todo) <= Len(records)
      /\ DOMAIN todo = 1 .. Len(todo) /\ DOMAIN records = 1 .. Len(records)
      /\ \A k \in DOMAIN todo : todo[k] = records[Len(records) - Len(todo) + k]
  <2>1. Len(todo) # 0
    BY <1>1
  <2>2. QED
    BY <1>1, <2>1 DEF TodoIsTheRest
<1>4. at \in 1 .. Len(records) /\ at = Len(records) - Len(todo) + 1 /\ at \in Nat
  BY <1>3 DEF At
<1>5. f = todo[1] /\ f = records[at] /\ 1 \in DOMAIN todo
  <2>1. f = todo[1] /\ 1 \in DOMAIN todo
    BY <1>1, <1>3 DEF f
  <2>2. QED
    BY <1>3, <1>4, <2>1
<1>6. /\ Tail(todo) \in Seq(Record) /\ Len(Tail(todo)) = Len(todo) - 1
      /\ DOMAIN Tail(todo) = 1 .. Len(todo) - 1
      /\ \A k \in 1 .. Len(todo) - 1 : Tail(todo)[k] = todo[k + 1]
  BY <1>1, HeadTailProperties
<1>7. At' = at + 1
  <2>1. Len(records') = Len(records) /\ Len(todo') = Len(todo) - 1
    BY <1>6 DEF Added
  <2>2. QED
    BY <1>3, <1>4, <2>1 DEF At
<1> HIDE DEF at
<1>8. more \in Seq(Nat) /\ Len(more) = n /\ \A k \in 1 .. n : more[k] = at
  <2>1. DOMAIN ps = 1 .. n
    BY <1>2
  <2>2. more \in [1 .. n -> Nat]
    BY <1>4, <2>1
  <2>3. QED
    BY <1>2, <2>1, <2>2, IsASeq
<1>9. source' = source \o more
  BY DEF at, Added
<1> HIDE DEF more
<1>10. N \in Nat /\ N = Len(source) /\ DOMAIN out = 1 .. N
  BY <1>1 DEF OutIsMade
<1>11. /\ out' \in Seq(Record) /\ Len(out') = N + n /\ DOMAIN out' = 1 .. N + n
       /\ \A j \in 1 .. N : out'[j] = out[j]
       /\ \A j \in N + 1 .. N + n : out'[j] = ps[j - N]
  <2> HIDE DEF N, n
  <2>1. out \o ps \in Seq(Record) /\ Len(out \o ps) = N + n
    BY <1>1, <1>2, ConcatProperties DEF N, n
  <2>2. \A j \in 1 .. N + n : (out \o ps)[j] = IF j <= N THEN out[j] ELSE ps[j - N]
    BY <1>1, <1>2, ConcatProperties DEF N, n
  <2>3. DOMAIN (out \o ps) = 1 .. N + n
    BY <2>1
  <2>4. out' = out \o ps /\ n \in Nat /\ N \in Nat
    BY <1>2, <1>10 DEF Added
  <2>5. out' \in Seq(Record) /\ Len(out') = N + n /\ DOMAIN out' = 1 .. N + n
    BY <2>1, <2>3, <2>4
  <2>6. \A j \in 1 .. N : out'[j] = out[j]
    <3> TAKE j \in 1 .. N
    <3>1. j \in 1 .. N + n /\ j <= N
      BY <2>4
    <3>2. QED
      BY <2>2, <2>4, <3>1
  <2>7. \A j \in N + 1 .. N + n : out'[j] = ps[j - N]
    <3> TAKE j \in N + 1 .. N + n
    <3>1. j \in 1 .. N + n /\ ~(j <= N)
      BY <2>4
    <3>2. QED
      BY <2>2, <2>4, <3>1
  <2>8. QED
    BY <2>5, <2>6, <2>7
<1>12. /\ source' \in Seq(Nat) /\ Len(source') = N + n
       /\ \A j \in 1 .. N : source'[j] = source[j]
       /\ \A j \in N + 1 .. N + n : source'[j] = at
  <2> HIDE DEF N, n
  <2>1. source \o more \in Seq(Nat) /\ Len(source \o more) = Len(source) + Len(more)
    BY <1>1, <1>8, ConcatProperties
  <2>2. \A j \in 1 .. N + n : (source \o more)[j] = IF j <= N THEN source[j] ELSE more[j - N]
    BY <1>1, <1>8, <1>10, ConcatProperties
  <2>3. \A j \in N + 1 .. N + n : j - N \in 1 .. n
    BY <1>2, <1>10
  <2>4. source' \in Seq(Nat) /\ Len(source') = N + n
    BY <1>8, <1>9, <1>10, <2>1
  <2>5. \A j \in 1 .. N : source'[j] = source[j]
    <3> TAKE j \in 1 .. N
    <3>1. j \in 1 .. N + n /\ j <= N
      BY <1>2, <1>10
    <3>2. QED
      BY <1>9, <2>2, <3>1
  <2>6. \A j \in N + 1 .. N + n : source'[j] = at
    <3> TAKE j \in N + 1 .. N + n
    <3>1. j \in 1 .. N + n /\ ~(j <= N) /\ j - N \in 1 .. n
      BY <1>2, <1>10, <2>3
    <3>2. QED
      BY <1>8, <1>9, <2>2, <3>1
  <2>7. QED
    BY <2>4, <2>5, <2>6
<1> HIDE DEF N, n, m
<1>13. \A j \in 1 .. N + n : j \in 1 .. N \/ (j \in N + 1 .. N + n /\ j - N \in 1 .. n)
  BY <1>2, <1>10
<1>14. \A k \in 1 .. n : N + k \in N + 1 .. N + n /\ N + k \in 1 .. N + n /\ (N + k) - N = k
  BY <1>2, <1>10
<1>15. TodoIsTheRest'
  <2> USE DEF Added
  <2>1. Len(todo') <= Len(records')
    BY <1>3, <1>6
  <2>2. ASSUME NEW k \in DOMAIN todo' PROVE todo'[k] = records'[Len(records') - Len(todo') + k]
    <3>1. k \in 1 .. Len(todo) - 1 /\ todo'[k] = todo[k + 1] /\ Len(todo') = Len(todo) - 1
      BY <1>6
    <3> DEFINE l == Len(todo)
               r == Len(records)
    <3>2. l \in Nat /\ r \in Nat /\ k \in 1 .. l - 1 /\ DOMAIN todo = 1 .. l
      BY <1>3, <3>1
    <3> HIDE DEF l, r
    <3>3. k + 1 \in 1 .. l /\ r - l + (k + 1) = r - (l - 1) + k
      BY <3>2
    <3>4. todo[k + 1] = records[r - (l - 1) + k]
      BY <1>3, <3>2, <3>3 DEF l, r
    <3>5. QED
      BY <3>1, <3>4 DEF l, r
  <2>3. Numbered(records')
    BY DEF TodoIsTheRest
  <2>4. QED
    BY <2>1, <2>2, <2>3 DEF TodoIsTheRest
<1>16. /\ \A j \in 1 .. N : source[j] \in 1 .. at - 1 /\ MadeOf(records[source[j]], out[j])
       /\ \A i \in 1 .. at - 1 : \A a \in DOMAIN records[i].code :
            \E j \in 1 .. N : source[j] = i /\ a \in DOMAIN out[j].code
       /\ \A j, k \in 1 .. N : source[j] = source[k] /\ Meet(out[j], out[k]) => j = k
  BY <1>10 DEF OutIsMade, at
<1>17. OutIsMade'
  <2>1. ASSUME NEW j \in 1 .. N + n
        PROVE  source'[j] \in 1 .. at /\ MadeOf(records[source'[j]], out'[j])
    <3>1. CASE j \in 1 .. N
      <4>1. source[j] \in 1 .. at
        BY <1>4, <1>16, <3>1
      <4>2. QED
        BY <1>11, <1>12, <1>16, <3>1, <4>1
    <3>2. CASE j \in N + 1 .. N + n /\ j - N \in 1 .. n
      <4>1. at \in 1 .. at
        BY <1>4
      <4>2. source'[j] = at /\ out'[j] = ps[j - N] /\ MadeOf(f, ps[j - N])
        BY <1>2, <1>11, <1>12, <3>2
      <4>3. QED
        BY <1>5, <4>1, <4>2
    <3>3. QED
      BY <1>13, <3>1, <3>2
  <2>2. ASSUME NEW i \in 1 .. at, NEW a \in DOMAIN records[i].code
        PROVE  \E j \in 1 .. N + n : source'[j] = i /\ a \in DOMAIN out'[j].code
    <3>1. CASE i = at
      <4>1. PICK k \in 1 .. n : a \in DOMAIN ps[k].code
        BY <1>2, <1>5, <2>2, <3>1
      <4>2. source'[N + k] = at /\ out'[N + k] = ps[k]
        BY <1>11, <1>12, <1>14
      <4>3. QED
        BY <1>14, <3>1, <4>1, <4>2
    <3>2. CASE i # at
      <4>1. i \in 1 .. at - 1
        BY <1>4, <3>2
      <4>2. PICK j \in 1 .. N : source[j] = i /\ a \in DOMAIN out[j].code
        BY <1>16, <2>2, <4>1
      <4>3. j \in 1 .. N + n
        BY <1>2, <1>10
      <4>4. QED
        BY <1>11, <1>12, <4>2, <4>3
    <3>3. QED
      BY <3>1, <3>2
  <2>3. ASSUME NEW j \in 1 .. N + n, NEW k \in 1 .. N + n, source'[j] = source'[k], Meet(out'[j], out'[k])
        PROVE  j = k
    <3>1. \A i \in 1 .. N : source[i] # at
      BY <1>4, <1>16
    <3>2. CASE j \in 1 .. N /\ k \in 1 .. N
      BY <1>11, <1>12, <1>16, <2>3, <3>2
    <3>3. CASE j \in 1 .. N /\ k \in N + 1 .. N + n
      BY <1>12, <2>3, <3>1, <3>3
    <3>4. CASE k \in 1 .. N /\ j \in N + 1 .. N + n
      BY <1>12, <2>3, <3>1, <3>4
    <3>5. CASE j \in N + 1 .. N + n /\ j - N \in 1 .. n /\ k \in N + 1 .. N + n /\ k - N \in 1 .. n
      <4>1. j - N = k - N
        BY <1>2, <1>11, <2>3, <3>5
      <4>2. QED
        BY <1>10, <4>1
    <3>6. QED
      BY <1>13, <3>2, <3>3, <3>4, <3>5
  <2>4. At' - 1 = at
    BY <1>4, <1>7
  <2>5. Len(source') = Len(out')
    BY <1>11, <1>12
  <2>6. OutIsMade' <=> 
          /\ Len(source') = Len(out')
          /\ \A j \in DOMAIN out' : source'[j] \in 1 .. At' - 1 /\ MadeOf(records'[source'[j]], out'[j])
          /\ \A i \in 1 .. At' - 1 : \A a \in DOMAIN records'[i].code :
               \E j \in DOMAIN out' : source'[j] = i /\ a \in DOMAIN out'[j].code
          /\ \A j, k \in DOMAIN out' : source'[j] = source'[k] /\ Meet(out'[j], out'[k]) => j = k
    BY DEF OutIsMade
  <2>7. DOMAIN out' = 1 .. N + n /\ records' = records
    BY <1>11 DEF Added
  <2>8. \A j \in DOMAIN out' : source'[j] \in 1 .. At' - 1 /\ MadeOf(records'[source'[j]], out'[j])
    BY <2>1, <2>4, <2>7
  <2>9. \A i \in 1 .. At' - 1 : \A a \in DOMAIN records'[i].code :
          \E j \in DOMAIN out' : source'[j] = i /\ a \in DOMAIN out'[j].code
    <3> TAKE i \in 1 .. At' - 1
    <3> TAKE a \in DOMAIN records'[i].code
    <3>1. i \in 1 .. at /\ a \in DOMAIN records[i].code
      BY <1>4, <2>4, <2>7
    <3>2. PICK j \in 1 .. N + n : source'[j] = i /\ a \in DOMAIN out'[j].code
      BY <2>2, <3>1
    <3>3. QED
      BY <2>7, <3>2
  <2>10. \A j, k \in DOMAIN out' : source'[j] = source'[k] /\ Meet(out'[j], out'[k]) => j = k
    BY <2>3, <2>7
  <2>11. QED
    BY <2>5, <2>6, <2>8, <2>9, <2>10
<1>18. /\ \A j \in 1 .. N : out[j].id < nextId /\ out[j].id \in Nat
       /\ \A i \in DOMAIN records : records[i].id < nextId /\ records[i].id \in Nat
       /\ \A j \in 1 .. N : \A k \in DOMAIN todo : out[j].id # todo[k].id
       /\ Numbered(out) /\ Numbered(records)
  <2>1. \A j \in 1 .. N : out[j] \in Record
    BY <1>1, <1>10
  <2>2. \A i \in DOMAIN records : records[i] \in Record
    BY <1>1
  <2>3. QED
    BY <1>10, <2>1, <2>2, RecordIs DEF IdsAreFresh, TodoIsTheRest
<1>19. f.id < nextId /\ f.id \in Nat /\ \A j \in 1 .. N : out[j].id # f.id
  BY <1>3, <1>4, <1>5, <1>18
<1>20. \A k \in 1 .. n : /\ k = 1 => ps[k].id = f.id
                         /\ k # 1 => ps[k].id = nextId + k - 2 /\ ps[k].id >= nextId
                         /\ ps[k].id < nextId + m /\ ps[k].id \in Nat
  <2> TAKE k \in 1 .. n
  <2>1. CASE k = 1
    <3>1. ps[k].id = f.id
      BY <1>2, <2>1
    <3>2. QED
      BY <1>1, <1>2, <1>19, <2>1, <3>1
  <2>2. CASE k # 1
    <3>1. ps[k].id = nextId + k - 2 /\ k \in Nat /\ 2 <= k /\ k <= m + 1
      BY <1>2, <2>2
    <3>2. nextId + k - 2 >= nextId /\ nextId + k - 2 < nextId + m /\ nextId + k - 2 \in Nat
      BY <1>1, <1>2, <3>1
    <3>3. QED
      BY <2>2, <3>1, <3>2
  <2>3. QED
    BY <2>1, <2>2
<1>21. \A j, k \in 1 .. n : ps[j].id = ps[k].id => j = k
  <2> TAKE j, k \in 1 .. n
  <2> HAVE ps[j].id = ps[k].id
  <2>1. CASE j = 1 /\ k = 1
    BY <2>1
  <2>2. CASE j = 1 /\ k # 1
    BY <1>1, <1>19, <1>20, <2>2
  <2>3. CASE j # 1 /\ k = 1
    BY <1>1, <1>19, <1>20, <2>3
  <2>4. CASE j # 1 /\ k # 1
    <3>1. nextId + j - 2 = nextId + k - 2
      BY <1>20, <2>4
    <3>2. QED
      BY <1>1, <3>1
  <2>5. QED
    BY <2>1, <2>2, <2>3, <2>4
<1>22. IdsAreFresh'
  <2>1. ASSUME NEW j \in 1 .. N + n, NEW k \in 1 .. N + n, out'[j].id = out'[k].id PROVE j = k
    <3>1. \A i \in 1 .. N : \A l \in 1 .. n : out[i].id # ps[l].id
      <4> TAKE i \in 1 .. N
      <4> TAKE l \in 1 .. n
      <4>1. CASE l = 1
        BY <1>19, <1>20, <4>1
      <4>2. CASE l # 1
        BY <1>1, <1>18, <1>20, <4>2
      <4>3. QED
        BY <4>1, <4>2
    <3>2. CASE j \in 1 .. N /\ k \in 1 .. N
      BY <1>10, <1>11, <1>18, <2>1, <3>2 DEF Numbered
    <3>3. CASE j \in 1 .. N /\ k \in N + 1 .. N + n /\ k - N \in 1 .. n
      BY <1>11, <2>1, <3>1, <3>3
    <3>4. CASE k \in 1 .. N /\ j \in N + 1 .. N + n /\ j - N \in 1 .. n
      BY <1>11, <2>1, <3>1, <3>4
    <3>5. CASE j \in N + 1 .. N + n /\ j - N \in 1 .. n /\ k \in N + 1 .. N + n /\ k - N \in 1 .. n
      <4>1. j - N = k - N
        BY <1>11, <1>21, <2>1, <3>5
      <4>2. QED
        BY <1>10, <4>1
    <3>6. QED
      BY <1>13, <3>2, <3>3, <3>4, <3>5
  <2>2. ASSUME NEW j \in 1 .. N + n, NEW k \in DOMAIN todo' PROVE out'[j].id # todo'[k].id
    <3>1. k \in 1 .. Len(todo) - 1 /\ k + 1 \in DOMAIN todo /\ todo'[k] = todo[k + 1]
      BY <1>3, <1>6 DEF Added
    <3> DEFINE q == Len(records) - Len(todo) + (k + 1)
    <3>2. q \in DOMAIN records /\ q # at /\ todo'[k] = records[q]
      BY <1>3, <1>4, <3>1
    <3> HIDE DEF q
    <3>3. CASE j \in 1 .. N
      BY <1>11, <1>18, <3>1, <3>3
    <3>4. CASE j \in N + 1 .. N + n /\ j - N \in 1 .. n
      <4>1. out'[j].id = ps[j - N].id
        BY <1>11, <3>4
      <4>2. records[q].id < nextId /\ records[q].id \in Nat
        BY <1>18, <3>2
      <4>3. records[q].id # f.id
        BY <1>3, <1>4, <1>5, <1>18, <3>2 DEF Numbered
      <4>4. CASE j - N = 1
        BY <1>20, <3>2, <3>4, <4>1, <4>3, <4>4
      <4>5. CASE j - N # 1
        <5>1. ps[j - N].id >= nextId /\ ps[j - N].id \in Nat
          BY <1>20, <3>4, <4>5
        <5>2. out'[j].id # records[q].id
          BY <1>1, <4>1, <4>2, <5>1
        <5>3. QED
          BY <3>2, <5>2
      <4>6. QED
        BY <4>4, <4>5
    <3>5. QED
      BY <1>13, <3>3, <3>4
  <2>3. ASSUME NEW j \in 1 .. N + n PROVE out'[j].id < nextId + m
    <3>1. CASE j \in 1 .. N
      <4>1. out'[j] = out[j] /\ out[j].id < nextId /\ out[j].id \in Nat
        BY <1>11, <1>18, <3>1
      <4>2. QED
        BY <1>1, <1>2, <4>1
    <3>2. CASE j \in N + 1 .. N + n /\ j - N \in 1 .. n
      BY <1>11, <1>20, <3>2
    <3>3. QED
      BY <1>13, <3>1, <3>2
  <2>4. \A i \in DOMAIN records : records[i].id < nextId + m
    BY <1>1, <1>2, <1>18
  <2>5. nextId' = nextId + m
    BY DEF m, Added
  <2>6. records' = records
    BY DEF Added
  <2>7. Numbered(out')
    BY <1>11, <2>1 DEF Numbered
  <2>8. QED
    BY <1>11, <2>2, <2>3, <2>4, <2>5, <2>6, <2>7 DEF IdsAreFresh
<1>23. nextId' \in Nat /\ todo' = Tail(todo)
  BY <1>1, <1>2 DEF m, Added
<1>24. QED
  BY <1>6, <1>11, <1>12, <1>15, <1>17, <1>22, <1>23

-----------------------------------------------------------------------------
(* Every step keeps it.                                                      *)

\* A record that is not cut is made of itself.
LEMMA WholeIs ==
  ASSUME NEW g \in Record
  PROVE  MadeOf(g, g)
<1> DEFINE code == g.code
           top == Max(DOMAIN code) + 1
<1>1. CodeOK(code) /\ g.entry = Min(DOMAIN code)
  BY RecordIs
<1>2. PICK lo \in Nat \ {0}, hi \in Nat :
        /\ lo <= hi /\ DOMAIN code = lo .. hi /\ Min(DOMAIN code) = lo /\ Max(DOMAIN code) = hi
        /\ IsFiniteSet(DOMAIN code)
  BY <1>1, CodeIs
<1>3. top \in Nat /\ top = hi + 1 /\ g.entry = lo /\ lo \in DOMAIN code
  BY <1>1, <1>2
<1>4. IsPart(code, g.entry, top)
  BY <1>2, <1>3 DEF IsPart
<1>5. code = Part(code, g.entry, top)
  <2>1. {b \in DOMAIN code : lo <= b /\ b < hi + 1} = DOMAIN code
    BY <1>2
  <2>2. code = [a \in DOMAIN code |-> code[a]]
    BY <1>1 DEF CodeOK
  <2> HIDE DEF code
  <2>3. QED
    BY <1>3, <2>1, <2>2 DEF Part
<1>6. RunsBelow(code, g.entry, top)
  <2>1. RunsTo(code, lo) \subseteq DOMAIN code
    BY <1>2, <1>3, RunsToIs
  <2>2. QED
    BY <1>2, <1>3, <2>1 DEF RunsBelow
<1>7. QED
  BY <1>3, <1>4, <1>5, <1>6 DEF MadeOf

LEMMA OnePiece ==
  ASSUME NEW g \in Record, NEW id
  PROVE  PiecesOf(g, {}, id, <<g>>)
<1>1. Cardinality({}) = 0
  BY FS_EmptySet
<1>2. <<g>> \in Seq(Record) /\ Len(<<g>>) = 1 /\ <<g>>[1] = g
  OBVIOUS
<1>3. \A k \in 1 .. 0 + 1 : k = 1
  OBVIOUS
<1>4. 1 \in 1 .. 0 + 1
  OBVIOUS
<1>5. MadeOf(g, g)
  BY WholeIs
<1>6. QED
  BY <1>1, <1>2, <1>3, <1>4, <1>5 DEF PiecesOf

\* Where the piece at hand starts.
LEMMA BaseIs ==
  ASSUME TypesHold, CutsHold, pc = "candidates"
  PROVE  /\ f \in Record /\ Base \in {f.entry} \union cuts
         /\ \A c \in {f.entry} \union cuts : c <= Base /\ c \in Nat
         /\ Base \in DOMAIN f.code /\ Base \in Nat
         /\ OwnSlowPaths(f.code) => Base \notin Stranded(f.code)
         /\ \A d \in cand : d \in DOMAIN f.code /\ d \in Nat /\ Base < d
<1>1. todo # <<>> /\ todo \in Seq(Record)
  BY DEF CutsHold, TypesHold
<1>2. f \in Record
  BY <1>1 DEF f
<1>3. CodeOK(f.code) /\ f.entry = Min(DOMAIN f.code)
  BY <1>2, RecordIs
<1>4. PICK lo \in Nat \ {0}, hi \in Nat :
        /\ lo <= hi /\ DOMAIN f.code = lo .. hi /\ Min(DOMAIN f.code) = lo /\ Max(DOMAIN f.code) = hi
  BY <1>3, CodeIs
<1>5. \A c \in Candidates(f.code) : /\ c \in DOMAIN f.code /\ c \in Nat /\ f.entry < c
                                    /\ c <= hi
                                    /\ OwnSlowPaths(f.code) => c \notin Stranded(f.code)
  BY <1>3, <1>4, CandidateIs
<1>6. /\ f.entry \in DOMAIN f.code /\ f.entry \in Nat /\ f.entry <= hi
      /\ OwnSlowPaths(f.code) => f.entry \notin Stranded(f.code)
  BY <1>3, <1>4, StrandedIs
<1>7. cuts \subseteq Candidates(f.code) /\ cand \subseteq Candidates(f.code) /\ \A c \in cuts : \A d \in cand : c < d
  BY DEF CutsHold
<1> DEFINE S == {f.entry} \union cuts
<1>8. S \in SUBSET Nat /\ S # {} /\ \A y \in S : y <= hi
  BY <1>5, <1>6, <1>7
<1>9. Base \in S /\ \A y \in S : y <= Base
  <2>1. Base = Max(S)
    BY DEF Base
  <2> HIDE DEF S
  <2>2. QED
    BY <1>8, <2>1, MaxOf
<1>10. /\ Base \in DOMAIN f.code /\ Base \in Nat
       /\ OwnSlowPaths(f.code) => Base \notin Stranded(f.code)
  BY <1>5, <1>6, <1>7, <1>9
<1>11. \A d \in cand : d \in DOMAIN f.code /\ d \in Nat /\ Base < d
  BY <1>5, <1>6, <1>7, <1>9
<1>12. QED
  BY <1>2, <1>8, <1>9, <1>10, <1>11

LEMMA InitHolds == PipelineInit => IInv
<1> SUFFICES ASSUME PipelineInit PROVE IInv
  OBVIOUS
<1> USE DEF PipelineInit, SelectInit, PruneInit, SplitInit
<1>1. TypesHold
  BY DEF TypesHold
<1>2. TodoIsTheRest
  BY DEF TodoIsTheRest, Numbered
<1>3. OutIsMade
  BY DEF OutIsMade, At
<1>4. IdsAreFresh
  BY DEF IdsAreFresh, Numbered
<1>5. CutsHold
  BY DEF CutsHold
<1>6. NoBlockStaysZero
  BY DEF NoBlockStaysZero, Reasons
<1>7. GraphsAreBuilt
  BY DEF GraphsAreBuilt
<1>8. QED
  BY <1>1, <1>2, <1>3, <1>4, <1>5, <1>6, <1>7 DEF IInv

\* What the splitting steps leave alone.
Aside == UNCHANGED <<selectVars, functions, pruned, raising, prune>>

LEMMA NotBuiltYet ==
  ASSUME IInv, todo # <<>> \/ pc # "records", Aside
  PROVE  functions = <<>> /\ GraphsAreBuilt'
BY DEF IInv, GraphsAreBuilt, Done, Aside

LEMMA PassHolds == IInv /\ Pass /\ Aside => IInv'
<1> SUFFICES ASSUME IInv, Pass, Aside PROVE IInv'
  OBVIOUS
<1>1. TypesHold /\ TodoIsTheRest /\ OutIsMade /\ IdsAreFresh /\ CutsHold /\ NoBlockStaysZero
  BY DEF IInv
<1>2. todo # <<>> /\ pc = "records" /\ todo' = Tail(todo) /\ UNCHANGED <<records, nextId, pc, rejected>>
      /\ out' = Append(out, f) /\ source' = Append(source, At)
  BY DEF Pass
<1>3. todo \in Seq(Record) /\ out \in Seq(Record) /\ source \in Seq(Nat) /\ records \in Seq(Record) /\ nextId \in Nat
  BY <1>1 DEF TypesHold
<1>4. f \in Record /\ At \in Nat
  <2>1. Len(todo) <= Len(records)
    BY <1>1 DEF TodoIsTheRest
  <2>2. QED
    BY <1>2, <1>3, <2>1 DEF f, At
<1>5. PiecesOf(f, {}, nextId, <<f>>)
  BY <1>4, OnePiece
<1>6. out' = out \o <<f>>
  BY <1>2, <1>3, <1>4, AppendIsConcat
<1>7. source' = source \o [k \in DOMAIN <<f>> |-> At]
  <2>1. [k \in DOMAIN <<f>> |-> At] = <<At>>
    OBVIOUS
  <2>2. QED
    BY <1>2, <1>3, <1>4, <2>1, AppendIsConcat
<1>8. nextId' = nextId + Cardinality({})
  BY <1>2, <1>3, FS_EmptySet
<1>9. /\ todo' \in Seq(Record) /\ out' \in Seq(Record) /\ source' \in Seq(Nat) /\ nextId' \in Nat
      /\ TodoIsTheRest' /\ OutIsMade' /\ IdsAreFresh'
  <2>1. Added({}, <<f>>)
    BY <1>2, <1>6, <1>7, <1>8 DEF Added
  <2>2. QED
    BY <1>1, <1>2, <1>5, <2>1, MoreIsMade
<1>10. TypesHold'
  BY <1>1, <1>2, <1>9 DEF TypesHold, Aside, selectVars
<1>11. CutsHold' /\ NoBlockStaysZero'
  BY <1>1, <1>2 DEF CutsHold, NoBlockStaysZero
<1>12. GraphsAreBuilt'
  BY <1>2, NotBuiltYet
<1>13. QED
  BY <1>9, <1>10, <1>11, <1>12 DEF IInv

LEMMA LookHolds == IInv /\ Look /\ Aside => IInv'
<1> SUFFICES ASSUME IInv, Look, Aside PROVE IInv'
  OBVIOUS
<1>1. TypesHold /\ TodoIsTheRest /\ OutIsMade /\ IdsAreFresh /\ NoBlockStaysZero
  BY DEF IInv
<1>2. /\ todo # <<>> /\ pc = "records" /\ pc' = "candidates"
      /\ ir' = BuildFunctionIr(f.code) /\ cand' = Candidates(f.code) /\ cuts' = {}
      /\ entry' = {0} /\ reach' = HighestReachable(ir', {0})
      /\ UNCHANGED <<records, todo, out, source, nextId, rejected>>
  BY DEF Look
<1>3. f \in Record /\ f' = f
  BY <1>1, <1>2 DEF TypesHold, f
<1>4. CodeOK(f.code) /\ f.entry = Min(DOMAIN f.code) /\ f.entry \in Nat
  BY <1>3, RecordIs
<1>5. Base' = f.entry
  <2>1. {f.entry} \union {} \in SUBSET Nat /\ {f.entry} \union {} = {f.entry}
    BY <1>4
  <2>2. Max({f.entry}) \in {f.entry}
    <3>1. {f.entry} \in SUBSET Nat /\ {f.entry} # {} /\ \A y \in {f.entry} : y <= f.entry
      BY <1>4
    <3>2. QED
      BY <1>4, <3>1, MaxOf
  <2>3. Base' = Max({f.entry} \union {})
    BY <1>2, <1>3 DEF Base
  <2>4. QED
    BY <2>1, <2>2, <2>3
<1>6. Containing(ir', f.entry) = {0}
  BY <1>2, <1>4, FirstBlock
<1>7. CutsHold'
  BY <1>2, <1>3, <1>5, <1>6 DEF CutsHold
<1>8. TypesHold'
  BY <1>1, <1>2 DEF TypesHold, Aside, selectVars
<1>9. TodoIsTheRest' /\ OutIsMade' /\ IdsAreFresh' /\ NoBlockStaysZero'
  BY <1>1, <1>2 DEF TodoIsTheRest, OutIsMade, IdsAreFresh, NoBlockStaysZero, At
<1>10. GraphsAreBuilt'
  BY <1>2, NotBuiltYet
<1>11. QED
  BY <1>7, <1>8, <1>9, <1>10 DEF IInv

LEMMA RejectHolds == IInv /\ Reject /\ Aside => IInv'
<1> SUFFICES ASSUME IInv, Reject, Aside PROVE IInv'
  OBVIOUS
<1>1. TypesHold /\ TodoIsTheRest /\ OutIsMade /\ IdsAreFresh /\ CutsHold /\ NoBlockStaysZero
  BY DEF IInv
<1>2. /\ pc = "candidates" /\ Verdict \in Reasons /\ cand' = cand \ {point}
      /\ rejected' = [rejected EXCEPT ![Verdict] = @ + 1]
      /\ UNCHANGED <<records, todo, out, source, nextId, pc, ir, cuts, entry, reach>>
  BY DEF Reject
<1>3. f' = f /\ Base' = Base
  BY <1>2 DEF f, Base
<1>4. CutsHold'
  BY <1>1, <1>2, <1>3 DEF CutsHold
<1>5. ASSUME OwnSlowPaths(f.code) PROVE Verdict # "noBlock"
  <2>1. CodeOK(f.code) /\ Base \in DOMAIN f.code /\ Base \notin Stranded(f.code)
    BY <1>1, <1>2, <1>5, BaseIs, RecordIs
  <2>2. Containing(BuildFunctionIr(f.code), Base) # {}
    BY <1>5, <2>1, ReachBounds
  <2>3. entry # {}
    BY <1>1, <1>2, <2>2 DEF CutsHold
  <2>4. QED
    BY <2>3 DEF Verdict
<1>6. rejected' \in [Reasons -> Nat] /\ NoBlockStaysZero'
  <2>1. rejected \in [Reasons -> Nat]
    BY <1>1 DEF TypesHold
  <2>2. rejected' \in [Reasons -> Nat]
    BY <1>2, <2>1
  <2>3. \E i \in DOMAIN records : f = records[i]
    <3>1. /\ records \in Seq(Record) /\ todo \in Seq(Record) /\ todo # <<>>
          /\ Len(todo) <= Len(records)
          /\ \A k \in DOMAIN todo : todo[k] = records[Len(records) - Len(todo) + k]
      BY <1>1, <1>2 DEF TypesHold, TodoIsTheRest, CutsHold
    <3>2. 1 \in DOMAIN todo /\ f = todo[1]
      BY <3>1 DEF f
    <3>3. Len(records) - Len(todo) + 1 \in DOMAIN records
      BY <3>1, <3>2
    <3>4. QED
      BY <3>1, <3>2, <3>3
  <2>4. ASSUME \A i \in DOMAIN records : OwnSlowPaths(records[i].code)
        PROVE  rejected'["noBlock"] = 0
    <3>1. Verdict # "noBlock"
      BY <1>5, <2>3, <2>4
    <3>2. rejected["noBlock"] = 0
      BY <1>1, <2>4 DEF NoBlockStaysZero
    <3>3. QED
      BY <1>2, <2>1, <3>1, <3>2 DEF Reasons
  <2>5. QED
    BY <1>2, <2>2, <2>4 DEF NoBlockStaysZero
<1>7. TypesHold'
  BY <1>1, <1>2, <1>6 DEF TypesHold, Aside, selectVars
<1>8. TodoIsTheRest' /\ OutIsMade' /\ IdsAreFresh'
  BY <1>1, <1>2 DEF TodoIsTheRest, OutIsMade, IdsAreFresh, At, Aside
<1>9. GraphsAreBuilt'
  BY <1>2, NotBuiltYet
<1>10. QED
  BY <1>4, <1>6, <1>7, <1>8, <1>9 DEF IInv

LEMMA AcceptHolds == IInv /\ Accept /\ Aside => IInv'
<1> SUFFICES ASSUME IInv, Accept, Aside PROVE IInv'
  OBVIOUS
<1>1. TypesHold /\ TodoIsTheRest /\ OutIsMade /\ IdsAreFresh /\ CutsHold /\ NoBlockStaysZero
  BY DEF IInv
<1>2. /\ pc = "candidates" /\ cand # {} /\ Verdict = "accepted" /\ cand' = cand \ {point}
      /\ cuts' = cuts \union {point} /\ entry' = Containing(ir, point)
      /\ reach' = HighestReachable(ir, entry')
      /\ UNCHANGED <<records, todo, out, source, nextId, pc, ir, rejected>>
  BY DEF Accept
<1>3. /\ f \in Record /\ Base \in {f.entry} \union cuts
      /\ \A c \in {f.entry} \union cuts : c <= Base /\ c \in Nat
      /\ Base \in DOMAIN f.code /\ Base \in Nat
      /\ OwnSlowPaths(f.code) => Base \notin Stranded(f.code)
      /\ \A d \in cand : d \in DOMAIN f.code /\ d \in Nat /\ Base < d
  BY <1>1, <1>2, BaseIs
<1>4. CodeOK(f.code) /\ f.entry = Min(DOMAIN f.code)
  BY <1>3, RecordIs
<1>5. /\ ir = BuildFunctionIr(f.code) /\ cand \subseteq Candidates(f.code) /\ cuts \subseteq Candidates(f.code)
      /\ entry = Containing(ir, Base) /\ reach = HighestReachable(ir, entry)
      /\ OwnSlowPaths(f.code) =>
           /\ \A c \in cuts : EntryOnly(f.code, c)
           /\ \A c \in cuts : \A p \in {f.entry} \union cuts : p < c => RunsBelow(f.code, p, c)
      /\ \A c \in cuts : \A d \in cand : c < d
  BY <1>1, <1>2 DEF CutsHold
<1>6. point \in cand /\ \A d \in cand : point <= d
  <2>1. cand \in SUBSET Nat
    BY <1>3
  <2>2. QED
    BY <1>2, <2>1, MinOf DEF point
<1>7. point \in Nat /\ Base < point /\ point \in Candidates(f.code)
  BY <1>3, <1>5, <1>6
<1>8. point \notin BranchTargets(f.code, ir) /\ ~(point <= reach)
  BY <1>2 DEF Verdict
<1> HIDE DEF point
<1>9. \A p \in {f.entry} \union cuts : p < point
  BY <1>3, <1>7
<1>10. ASSUME OwnSlowPaths(f.code), NEW p \in {f.entry} \union cuts PROVE RunsBelow(f.code, p, point)
  <2>1. p \in Nat /\ p <= Base
    BY <1>3
  <2>2. CASE p = Base
    <3>1. reach \in Nat /\ \A b \in RunsTo(f.code, Base) : b <= reach
      BY <1>3, <1>4, <1>5, <1>10, ReachBounds
    <3>2. RunsTo(f.code, Base) \subseteq Nat
      <4>1. IsFiniteSet(DOMAIN f.code) /\ DOMAIN f.code \subseteq Nat
        BY <1>4, CodeIs
      <4>2. QED
        BY <1>3, <4>1, RunsToIs
    <3>3. \A b \in RunsTo(f.code, Base) : b < point
      BY <1>7, <1>8, <3>1, <3>2
    <3>4. QED
      BY <1>7, <2>2, <3>3 DEF RunsBelow
  <2>3. CASE p # Base
    <3>1. Base \in cuts /\ p < Base
      <4>1. p < Base
        BY <1>3, <2>1, <2>3
      <4>2. CASE Base = f.entry
        <5>1. p \in cuts
          BY <2>3, <4>2
        <5>2. f.entry < p
          BY <1>4, <1>5, <5>1, CandidateIs
        <5>3. QED
          BY <1>3, <2>1, <4>1, <4>2, <5>2
      <4>3. QED
        BY <1>3, <4>1, <4>2
    <3>2. RunsBelow(f.code, p, Base)
      BY <1>5, <1>10, <3>1
    <3>3. p \in DOMAIN f.code
      BY <1>4, <1>5, CandidateIs, CodeIs
    <3>4. RunsTo(f.code, p) \subseteq Nat
      <4>1. IsFiniteSet(DOMAIN f.code) /\ DOMAIN f.code \subseteq Nat
        BY <1>4, CodeIs
      <4>2. QED
        BY <3>3, <4>1, RunsToIs
    <3>5. \A b \in RunsTo(f.code, p) : b < point
      BY <1>3, <1>7, <3>2, <3>4 DEF RunsBelow
    <3>6. QED
      BY <1>3, <1>7, <2>1, <3>1, <3>5 DEF RunsBelow
  <2>4. QED
    BY <2>2, <2>3
<1>11. OwnSlowPaths(f.code) => EntryOnly(f.code, point)
  BY <1>4, <1>5, <1>7, <1>8, <1>10, CutIsEntryOnly
<1>12. f' = f
  BY <1>2 DEF f
<1>13. Base' = point
  <2> DEFINE S == {f.entry} \union cuts \union {point}
  <2>1. Base' = Max(S)
    <3>1. {f.entry} \union cuts' = S
      BY <1>2
    <3>2. QED
      BY <1>12, <3>1 DEF Base
  <2>2. S \in SUBSET Nat /\ point \in S /\ \A y \in S : y <= point
    BY <1>3, <1>7, <1>9
  <2> HIDE DEF S
  <2>3. Max(S) \in S /\ \A y \in S : y <= Max(S)
    BY <1>7, <2>2, MaxOf
  <2>4. Max(S) \in Nat /\ Max(S) <= point /\ point <= Max(S)
    BY <2>2, <2>3
  <2>5. QED
    BY <1>7, <2>1, <2>4
<1>14. CutsHold'
  <2>1. cand' \subseteq Candidates(f.code) /\ cuts' \subseteq Candidates(f.code)
    BY <1>2, <1>5, <1>7
  <2>2. \A c \in cuts' : \A d \in cand' : c < d
    <3> TAKE c \in cuts'
    <3> TAKE d \in cand'
    <3>1. d \in cand /\ d # point /\ point <= d /\ d \in Nat
      BY <1>2, <1>3, <1>6
    <3>2. CASE c = point
      BY <1>7, <3>1, <3>2
    <3>3. CASE c # point
      BY <1>2, <1>5, <3>1, <3>3
    <3>4. QED
      BY <3>2, <3>3
  <2>3. entry' = Containing(ir', Base') /\ reach' = HighestReachable(ir', entry')
    BY <1>2, <1>13
  <2>4. OwnSlowPaths(f.code) => \A c \in cuts' : EntryOnly(f.code, c)
    BY <1>2, <1>5, <1>11
  <2>5. ASSUME OwnSlowPaths(f.code)
        PROVE  \A c \in cuts' : \A p \in {f.entry} \union cuts' : p < c => RunsBelow(f.code, p, c)
    <3> TAKE c \in cuts'
    <3> TAKE p \in {f.entry} \union cuts'
    <3> HAVE p < c
    <3>1. CASE p = point
      <4>1. c # point /\ c \in cuts
        BY <1>2, <1>7, <3>1
      <4>2. c < point /\ c \in Nat
        BY <1>3, <1>9, <4>1
      <4>3. QED
        BY <1>7, <3>1, <4>2
    <3>2. CASE p # point
      <4>1. p \in {f.entry} \union cuts
        BY <1>2, <3>2
      <4>2. QED
        BY <1>2, <1>5, <1>10, <2>5, <4>1
    <3>3. QED
      BY <3>1, <3>2
  <2>6. todo' # <<>> /\ ir' = BuildFunctionIr(f'.code)
    BY <1>1, <1>2, <1>5, <1>12 DEF CutsHold
  <2>7. QED
    BY <1>12, <2>1, <2>2, <2>3, <2>4, <2>5, <2>6 DEF CutsHold
<1>15. TypesHold'
  BY <1>1, <1>2 DEF TypesHold, Aside, selectVars
<1>16. TodoIsTheRest' /\ OutIsMade' /\ IdsAreFresh' /\ NoBlockStaysZero'
  BY <1>1, <1>2 DEF TodoIsTheRest, OutIsMade, IdsAreFresh, NoBlockStaysZero, At, Aside
<1>17. GraphsAreBuilt'
  BY <1>2, NotBuiltYet
<1>18. QED
  BY <1>14, <1>15, <1>16, <1>17 DEF IInv

LEMMA CutHolds == IInv /\ Cut /\ Aside => IInv'
<1> SUFFICES ASSUME IInv, Cut, Aside PROVE IInv'
  OBVIOUS
<1>1. TypesHold /\ TodoIsTheRest /\ OutIsMade /\ IdsAreFresh /\ CutsHold /\ NoBlockStaysZero
  BY DEF IInv
<1> DEFINE ps == Pieces(f, cuts, nextId)
<1>2. /\ pc = "candidates" /\ pc' = "records" /\ todo' = Tail(todo)
      /\ out' = out \o ps /\ source' = source \o [k \in DOMAIN ps |-> At]
      /\ nextId' = nextId + Cardinality(cuts) /\ UNCHANGED <<records, rejected>>
  BY DEF Cut
<1>3. f \in Record /\ todo # <<>> /\ nextId \in Nat
  BY <1>1, <1>2, BaseIs DEF CutsHold, TypesHold
<1>4. CutsOf(f, cuts)
  BY <1>1, <1>2 DEF CutsHold, CutsOf
<1>5. PiecesOf(f, cuts, nextId, ps)
  BY <1>3, <1>4, PiecesAre
<1> HIDE DEF ps
<1>6. /\ todo' \in Seq(Record) /\ out' \in Seq(Record) /\ source' \in Seq(Nat) /\ nextId' \in Nat
      /\ TodoIsTheRest' /\ OutIsMade' /\ IdsAreFresh'
  <2>1. Added(cuts, ps)
    BY <1>2 DEF Added
  <2>2. QED
    BY <1>1, <1>3, <1>5, <2>1, MoreIsMade
<1>7. TypesHold'
  BY <1>1, <1>2, <1>6 DEF TypesHold, Aside, selectVars
<1>8. CutsHold' /\ NoBlockStaysZero'
  BY <1>1, <1>2 DEF CutsHold, NoBlockStaysZero
<1>9. GraphsAreBuilt'
  BY <1>2, NotBuiltYet
<1>10. QED
  BY <1>6, <1>7, <1>8, <1>9 DEF IInv

LEMMA BuildHolds == IInv /\ BuildProgramIr /\ UNCHANGED selectVars => IInv'
<1> SUFFICES ASSUME IInv, BuildProgramIr, UNCHANGED selectVars PROVE IInv'
  OBVIOUS
<1>1. /\ Done /\ functions = <<>> /\ functions' = [i \in DOMAIN out |-> BuildFunctionIr(out[i].code)]
      /\ UNCHANGED splitVars /\ UNCHANGED <<pruned, raising, prune>>
  BY DEF BuildProgramIr
<1>2. DOMAIN <<>> = {}
  OBVIOUS
<1>3. ~pruned /\ (pruned' <=> pruned)
  BY <1>1, <1>2 DEF IInv, GraphsAreBuilt
<1>4. Done' /\ out' = out /\ DOMAIN functions' = DOMAIN out
  BY <1>1 DEF Done, splitVars
<1>5. GraphsAreBuilt'
  BY <1>1, <1>3, <1>4 DEF GraphsAreBuilt
<1>6. TypesHold' /\ OutIsMade' /\ IdsAreFresh' /\ CutsHold' /\ NoBlockStaysZero'
  <2>1. UNCHANGED <<request, records, todo, out, source, nextId, pc, ir, cand, cuts, entry, reach, rejected>>
    BY <1>1 DEF splitVars, selectVars
  <2>2. TypesHold' /\ OutIsMade' /\ IdsAreFresh'
    BY <2>1 DEF IInv, TypesHold, OutIsMade, IdsAreFresh, At
  <2>3. CutsHold' /\ NoBlockStaysZero'
    BY <2>1 DEF IInv, CutsHold, NoBlockStaysZero, Base, f
  <2>4. QED
    BY <2>2, <2>3
<1>7. TodoIsTheRest'
  BY <1>1 DEF IInv, TodoIsTheRest, Done, splitVars
<1>8. QED
  BY <1>5, <1>6, <1>7 DEF IInv

LEMMA PruneHolds == IInv /\ PruneCalls /\ UNCHANGED selectVars => IInv'
<1> SUFFICES ASSUME IInv, PruneCalls, UNCHANGED selectVars PROVE IInv'
  OBVIOUS
<1>1. /\ functions # <<>> /\ ~pruned /\ pruned' /\ UNCHANGED splitVars
      /\ \E calls \in (SUBSET CallSites) \ {{}} :
           raising' = calls /\ functions' = [k \in DOMAIN functions |-> CutAfterCalls(functions[k], calls)]
  BY DEF PruneCalls
<1>2. /\ Done /\ DOMAIN functions = DOMAIN out
      /\ \A k \in DOMAIN functions : functions[k] = BuildFunctionIr(out[k].code)
  BY <1>1 DEF IInv, GraphsAreBuilt
<1>3. /\ functions' = [k \in DOMAIN functions |-> CutAfterCalls(functions[k], raising')]
      /\ raising' # {} /\ raising' \subseteq CallSites
  BY <1>1
<1>4. DOMAIN functions # {}
  BY <1>3 DEF CallSites
<1>5. Done' /\ out' = out
  BY <1>1, <1>2 DEF Done, splitVars
<1>6. GraphsAreBuilt'
  BY <1>1, <1>2, <1>3, <1>4, <1>5 DEF GraphsAreBuilt
<1>7. TypesHold' /\ OutIsMade' /\ IdsAreFresh' /\ CutsHold' /\ NoBlockStaysZero'
  <2>1. UNCHANGED <<request, records, todo, out, source, nextId, pc, ir, cand, cuts, entry, reach, rejected>>
    BY <1>1 DEF splitVars, selectVars
  <2>2. TypesHold' /\ OutIsMade' /\ IdsAreFresh'
    BY <2>1 DEF IInv, TypesHold, OutIsMade, IdsAreFresh, At
  <2>3. CutsHold' /\ NoBlockStaysZero'
    BY <2>1 DEF IInv, CutsHold, NoBlockStaysZero, Base, f
  <2>4. QED
    BY <2>2, <2>3
<1>8. TodoIsTheRest'
  BY <1>1, <1>2 DEF IInv, TodoIsTheRest, Done, splitVars
<1>9. QED
  BY <1>6, <1>7, <1>8 DEF IInv

LEMMA FiniteBound ==
  ASSUME NEW S \in SUBSET Nat, IsFiniteSet(S)
  PROVE  \E n \in Nat : \A y \in S : y <= n
<1> DEFINE m == Cardinality(S)
<1>1. m \in Nat
  BY FS_CardinalityType
<1>2. /\ \A k \in 0 .. m - 1 : Nth(S, k) \in S /\ Place(S, Nth(S, k)) = k
      /\ \A x \in S : Place(S, x) \in 0 .. m - 1 /\ Nth(S, Place(S, x)) = x
      /\ \A j, k \in 0 .. m - 1 : j < k <=> Nth(S, j) < Nth(S, k)
  BY NthIs
<1> HIDE DEF m
<1>3. CASE m = 0
  <2>1. S = {}
    BY <1>1, <1>2, <1>3
  <2>2. QED
    BY <2>1
<1>4. CASE m # 0
  <2>1. m - 1 \in 0 .. m - 1 /\ Nth(S, m - 1) \in Nat
    <3>1. m - 1 \in 0 .. m - 1
      BY <1>1, <1>4
    <3>2. QED
      BY <1>2, <3>1
  <2>2. \A y \in S : y <= Nth(S, m - 1)
    <3> TAKE y \in S
    <3>1. Place(S, y) \in 0 .. m - 1 /\ Nth(S, Place(S, y)) = y /\ y \in Nat
      BY <1>2
    <3>2. CASE Place(S, y) = m - 1
      BY <3>1, <3>2
    <3>3. CASE Place(S, y) # m - 1
      <4>1. Place(S, y) < m - 1
        BY <1>1, <3>1, <3>3
      <4>2. Nth(S, Place(S, y)) < Nth(S, m - 1)
        BY <1>2, <2>1, <3>1, <4>1
      <4>3. QED
        BY <2>1, <3>1, <4>2
    <3>4. QED
      BY <3>2, <3>3
  <2>3. QED
    BY <2>1, <2>2
<1>5. QED
  BY <1>3, <1>4

\* What a request's functions are decoded to.
LEMMA GivenIs ==
  ASSUME NEW r \in Requests, NEW ranks \in Picks(r)
  PROVE  LET given == [i \in DOMAIN ranks |-> Disassembly(r.functions[ranks[i]])] IN
         given \in Seq(Record) /\ Numbered(given)
<1> DEFINE given == [i \in DOMAIN ranks |-> Disassembly(r.functions[ranks[i]])]
<1>1. /\ ranks \in Seq(DOMAIN r.functions)
      /\ \A j, k \in DOMAIN ranks : ranks[j] = ranks[k] => j = k
      /\ \A k \in DOMAIN ranks : Decodes(r.functions[ranks[k]])
  BY DEF Picks
<1>2. \A i \in DOMAIN ranks : ranks[i] \in DOMAIN r.functions
  BY <1>1
<1>3. /\ \A i \in DOMAIN r.functions : Function(r.functions[i])
      /\ \A i, j \in DOMAIN r.functions : r.functions[i].id = r.functions[j].id => i = j
  BY RequestsAssumption
<1>4. \A i \in DOMAIN ranks : Disassembly(r.functions[ranks[i]]) \in Record
  <2> TAKE i \in DOMAIN ranks
  <2> DEFINE c == r.functions[ranks[i]]
  <2>1. c.id \in Nat /\ CodeOK(c.code) /\ c.entry = Min(DOMAIN c.code)
    BY <1>1, <1>2, <1>3 DEF Function
  <2> HIDE DEF c
  <2>2. [id |-> c.id, declared |-> TRUE, entry |-> Min(DOMAIN c.code), code |-> c.code] \in Record
    BY <2>1, RecordOf
  <2>3. Disassembly(c) \in Record
    BY <2>1, <2>2 DEF Disassembly
  <2>4. QED
    BY <2>3 DEF c
<1>5. given \in Seq(Record)
  <2>1. Len(ranks) \in Nat /\ DOMAIN ranks = 1 .. Len(ranks)
    BY <1>1
  <2>2. given \in [1 .. Len(ranks) -> Record]
    BY <1>4, <2>1
  <2>3. QED
    BY <2>1, <2>2, IsASeq
<1>6. \A i \in DOMAIN ranks : given[i].id = r.functions[ranks[i]].id
  BY DEF Disassembly
<1>7. Numbered(given)
  <2>1. DOMAIN given = DOMAIN ranks
    OBVIOUS
  <2> HIDE DEF given
  <2>2. QED
    BY <1>1, <1>2, <1>3, <1>6, <2>1 DEF Numbered
<1>8. QED
  BY <1>5, <1>7

LEMMA SelectHolds == IInv /\ SelectAndSplit => IInv'
<1> SUFFICES ASSUME IInv, SelectAndSplit PROVE IInv'
  OBVIOUS
<1> DEFINE given == [i \in DOMAIN chosen' |-> Disassembly(request.functions[chosen'[i]])]
<1>1. TypesHold /\ TodoIsTheRest /\ NoBlockStaysZero /\ GraphsAreBuilt
  BY DEF IInv
<1>2. /\ chosen' = Chosen(request) /\ request' = request
      /\ SplitRecords(given) \/ KeepRecords(given)
      /\ UNCHANGED <<functions, pruned, raising, prune>>
  BY DEF SelectAndSplit, Disassemble
<1>3. request \in Requests /\ source \in Seq(Nat) /\ nextId \in Nat /\ rejected \in [Reasons -> Nat]
      /\ todo \in Seq(Record) /\ out \in Seq(Record)
  BY <1>1 DEF TypesHold
<1>4. chosen' \in Picks(request)
  BY <1>2, <1>3, ChosenIs
<1>5. given \in Seq(Record) /\ Numbered(given)
  BY <1>3, <1>4, GivenIs
<1> HIDE DEF given
<1>6. DOMAIN given = 1 .. Len(given) /\ Len(given) \in Nat
  BY <1>5
<1>7. \A i \in DOMAIN given : given[i] \in Record
  BY <1>5
<1>8. pc = "off" /\ pc' = "records" /\ records' = given /\ UNCHANGED rejected
  BY <1>2 DEF SplitRecords, KeepRecords
<1>9. records = <<>> /\ out = <<>> /\ source = <<>> /\ todo = <<>> /\ functions = <<>>
  BY <1>1, <1>8 DEF TodoIsTheRest
<1>10. CutsHold' /\ NoBlockStaysZero' /\ GraphsAreBuilt'
  <2>1. rejected["noBlock"] = 0
    BY <1>1, <1>9 DEF NoBlockStaysZero
  <2>2. QED
    BY <1>1, <1>2, <1>8, <1>9, <2>1 DEF CutsHold, NoBlockStaysZero, GraphsAreBuilt
<1>11. CASE SplitRecords(given)
  <2> DEFINE ids == {given[i].id : i \in DOMAIN given}
  <2>1. todo' = given /\ nextId' = Max({0} \union ids) + 1 /\ out' = <<>> /\ source' = <<>>
    BY <1>9, <1>11 DEF SplitRecords
  <2>2. \A i \in DOMAIN given : given[i].id \in Nat
    BY <1>7, RecordIs
  <2>3. Max({0} \union ids) \in Nat /\ \A y \in ids : y <= Max({0} \union ids)
    <3>1. IsFiniteSet(ids)
      <4>1. IsFiniteSet(DOMAIN given)
        BY <1>6, FS_Interval
      <4> DEFINE idOf == [i \in DOMAIN given |-> given[i].id]
      <4>2. ids = {idOf[i] : i \in DOMAIN given}
        OBVIOUS
      <4>3. idOf \in Surjection(DOMAIN given, ids)
        BY DEF Surjection
      <4>4. QED
        BY <4>1, <4>3, FS_Surjection
    <3> DEFINE S == {0} \union ids
    <3>2. S \in SUBSET Nat /\ S # {} /\ IsFiniteSet(S)
      BY <2>2, <3>1, FS_AddElement
    <3> HIDE DEF S, ids
    <3>3. \E n \in Nat : \A y \in S : y <= n
      BY <3>2, FiniteBound
    <3>4. Max(S) \in S /\ \A y \in S : y <= Max(S)
      BY <3>2, <3>3, MaxOf
    <3>5. QED
      BY <3>2, <3>4 DEF S
  <2>4. nextId' \in Nat /\ \A i \in DOMAIN given : given[i].id < nextId'
    <3> DEFINE top == Max({0} \union ids)
    <3>1. \A i \in DOMAIN given : given[i].id <= top
      BY <2>3
    <3>2. top \in Nat /\ nextId' = top + 1
      BY <2>1, <2>3
    <3> HIDE DEF top, ids
    <3>3. QED
      BY <2>2, <3>1, <3>2
  <2> HIDE DEF ids
  <2>5. TypesHold'
    BY <1>2, <1>3, <1>5, <1>8, <1>9, <2>1, <2>4 DEF TypesHold
  <2>6. TodoIsTheRest'
    <3>1. \A k \in DOMAIN given : k = Len(given) - Len(given) + k
      BY <1>6
    <3>2. QED
      BY <1>5, <1>6, <1>8, <2>1, <3>1 DEF TodoIsTheRest
  <2>7. OutIsMade' /\ IdsAreFresh'
    <3>1. At' = 1
      BY <1>6, <1>8, <2>1 DEF At
    <3>2. 1 .. 1 - 1 = {}
      OBVIOUS
    <3>3. OutIsMade'
      BY <2>1, <3>1, <3>2 DEF OutIsMade
    <3>4. IdsAreFresh'
      <4>1. DOMAIN <<>> = {}
        OBVIOUS
      <4>2. Numbered(<<>>)
        BY <4>1 DEF Numbered
      <4>3. QED
        BY <1>8, <2>1, <2>4, <4>1, <4>2 DEF IdsAreFresh
    <3>5. QED
      BY <3>3, <3>4
  <2>8. QED
    BY <1>10, <2>5, <2>6, <2>7 DEF IInv
<1>12. CASE KeepRecords(given)
  <2>1. /\ out' = given /\ source' = [i \in DOMAIN given |-> i] /\ todo' = <<>> /\ nextId' = nextId
    BY <1>9, <1>12 DEF KeepRecords
  <2>2. source' \in Seq(Nat) /\ Len(source') = Len(given) /\ \A i \in DOMAIN given : source'[i] = i
    <3>1. source' \in [1 .. Len(given) -> Nat]
      BY <1>6, <2>1
    <3>2. source' \in Seq(Nat)
      BY <1>6, <3>1, IsASeq
    <3>3. QED
      BY <1>6, <2>1, <3>2
  <2>3. TypesHold'
    BY <1>2, <1>3, <1>5, <1>8, <2>1, <2>2 DEF TypesHold
  <2>4. TodoIsTheRest'
    BY <1>5, <1>6, <1>8, <2>1 DEF TodoIsTheRest
  <2>5. At' - 1 = Len(given)
    BY <1>6, <1>8, <2>1 DEF At
  <2>6. OutIsMade'
    <3>1. \A j \in DOMAIN given : MadeOf(given[j], given[j])
      BY <1>7, WholeIs
    <3>2. OutIsMade' <=>
            /\ Len(source') = Len(out')
            /\ \A j \in DOMAIN out' : source'[j] \in 1 .. At' - 1 /\ MadeOf(records'[source'[j]], out'[j])
            /\ \A i \in 1 .. At' - 1 : \A a \in DOMAIN records'[i].code :
                 \E j \in DOMAIN out' : source'[j] = i /\ a \in DOMAIN out'[j].code
            /\ \A j, k \in DOMAIN out' : source'[j] = source'[k] /\ Meet(out'[j], out'[k]) => j = k
      BY DEF OutIsMade
    <3>3. \A j \in DOMAIN out' : source'[j] \in 1 .. At' - 1 /\ MadeOf(records'[source'[j]], out'[j])
      BY <1>6, <1>8, <2>1, <2>2, <2>5, <3>1
    <3>4. \A i \in 1 .. At' - 1 : \A a \in DOMAIN records'[i].code :
            \E j \in DOMAIN out' : source'[j] = i /\ a \in DOMAIN out'[j].code
      <4> TAKE i \in 1 .. At' - 1
      <4> TAKE a \in DOMAIN records'[i].code
      <4>1. i \in DOMAIN out' /\ source'[i] = i /\ a \in DOMAIN out'[i].code
        BY <1>6, <1>8, <2>1, <2>2, <2>5
      <4>2. QED
        BY <4>1
    <3>5. \A j, k \in DOMAIN out' : source'[j] = source'[k] => j = k
      BY <2>1, <2>2
    <3>6. QED
      BY <2>1, <2>2, <3>2, <3>3, <3>4, <3>5
  <2>7. IdsAreFresh'
    BY <1>5, <2>1 DEF IdsAreFresh
  <2>8. QED
    BY <1>10, <2>3, <2>4, <2>6, <2>7 DEF IInv
<1>13. QED
  BY <1>2, <1>11, <1>12

LEMMA StandHolds == IInv /\ UNCHANGED <<request, vars>> => IInv'
<1> SUFFICES ASSUME IInv, UNCHANGED <<request, vars>> PROVE IInv'
  OBVIOUS
<1> USE DEF vars, splitVars
<1>1. TypesHold' /\ TodoIsTheRest' /\ OutIsMade' /\ IdsAreFresh'
  BY DEF IInv, TypesHold, TodoIsTheRest, OutIsMade, IdsAreFresh, At
<1>2. CutsHold' /\ NoBlockStaysZero' /\ GraphsAreBuilt'
  BY DEF IInv, CutsHold, NoBlockStaysZero, GraphsAreBuilt, Base, f, Done
<1>3. QED
  BY <1>1, <1>2 DEF IInv

LEMMA NextHolds == IInv /\ [PipelineNext]_pipelineVars => IInv'
<1> SUFFICES ASSUME IInv, [PipelineNext]_pipelineVars PROVE IInv'
  OBVIOUS
<1>1. CASE GiveUp
  BY <1>1, StandHolds DEF GiveUp, Refuse
<1>2. CASE SelectAndSplit
  BY <1>2, SelectHolds
<1>3. CASE PruneNext /\ UNCHANGED selectVars
  <2>1. CASE Split
    <3>1. SplitNext /\ Aside
      BY <1>3, <2>1 DEF Split, Aside
    <3>2. QED
      BY <3>1, PassHolds, LookHolds, RejectHolds, AcceptHolds, CutHolds DEF SplitNext
  <2>2. CASE BuildProgramIr
    BY <1>3, <2>2, BuildHolds
  <2>3. CASE PruneCalls
    BY <1>3, <2>3, PruneHolds
  <2>4. QED
    BY <1>3, <2>1, <2>2, <2>3 DEF PruneNext
<1>4. CASE UNCHANGED pipelineVars
  BY <1>4, StandHolds DEF pipelineVars, selectVars
<1>5. QED
  BY <1>1, <1>2, <1>3, <1>4 DEF PipelineNext

THEOREM Invariant == PipelineSpec => []IInv
<1>1. PipelineInit => IInv
  BY InitHolds
<1>2. IInv /\ [PipelineNext]_pipelineVars => IInv'
  BY NextHolds
<1>3. QED
  BY <1>1, <1>2, PTL DEF PipelineSpec

-----------------------------------------------------------------------------
(* What follows from it.                                                     *)

\* A function made, in what it is a part of.
LEMMA MadeIs ==
  ASSUME IInv, NEW i \in DOMAIN out
  PROVE  /\ out[i] \in Record /\ CodeOK(out[i].code) /\ out[i].entry = Min(DOMAIN out[i].code)
         /\ source[i] \in DOMAIN records /\ Source(i) \in Record
         /\ CodeOK(Source(i).code) /\ Source(i).entry = Min(DOMAIN Source(i).code)
         /\ MadeOf(Source(i), out[i])
         /\ DOMAIN out[i].code \subseteq DOMAIN Source(i).code
         /\ \A a \in DOMAIN out[i].code : out[i].code[a] = Source(i).code[a]
<1>1. out \in Seq(Record) /\ records \in Seq(Record) /\ todo \in Seq(Record)
  BY DEF IInv, TypesHold
<1>2. source[i] \in 1 .. At - 1 /\ MadeOf(records[source[i]], out[i])
  BY DEF IInv, OutIsMade
<1>3. At - 1 \in Nat /\ At - 1 <= Len(records) /\ Len(records) \in Nat
  BY <1>1 DEF IInv, TodoIsTheRest, At
<1>4. source[i] \in DOMAIN records
  BY <1>1, <1>2, <1>3
<1>5. out[i] \in Record /\ Source(i) \in Record
  BY <1>1, <1>4 DEF Source
<1>6. MadeOf(Source(i), out[i])
  BY <1>2 DEF Source
<1>7. CodeOK(out[i].code) /\ CodeOK(Source(i).code) /\ out[i].entry = Min(DOMAIN out[i].code)
      /\ Source(i).entry = Min(DOMAIN Source(i).code)
  BY <1>5, RecordIs
<1> DEFINE code == Source(i).code
           from == out[i].entry
<1>8. PICK upto \in Nat : IsPart(code, from, upto) /\ out[i].code = Part(code, from, upto)
  BY <1>6 DEF MadeOf
<1> HIDE DEF code, from
<1>9. /\ DOMAIN Part(code, from, upto) \subseteq DOMAIN code
      /\ \A a \in DOMAIN Part(code, from, upto) : Part(code, from, upto)[a] = code[a]
  BY <1>7, <1>8, PartIs DEF code
<1>10. QED
  BY <1>4, <1>5, <1>6, <1>7, <1>8, <1>9 DEF code

\* The blocks of every record at hand, and of every function made, are its code, edge by
\* edge, with nothing lost but what only a guard led to, wherever the slow paths lie; and
\* all of that is lost where every guard has a slow path of its own.
THEOREM GraphsHold == PipelineSpec => []GraphIsTheCode
<1>1. ASSUME IInv PROVE GraphIsTheCode
  <2>1. ASSUME NEW code, CodeOK(code)
        PROVE  PartitionsTheCode(code, BuildFunctionIr(code)) /\ FollowsTheCode(code, BuildFunctionIr(code))
    BY <2>1, GraphOf DEF GraphIs
  <2>2. ASSUME pc = "candidates" PROVE PartitionsTheCode(f.code, ir) /\ FollowsTheCode(f.code, ir)
    <3>1. f \in Record /\ ir = BuildFunctionIr(f.code)
      BY <1>1, <2>2, BaseIs DEF IInv, CutsHold
    <3>2. QED
      BY <2>1, <3>1, RecordIs
  <2>3. \A i \in DOMAIN out : CodeOK(out[i].code)
    BY <1>1, MadeIs
  <2>4. QED
    BY <2>1, <2>2, <2>3 DEF GraphIsTheCode
<1>2. QED
  BY <1>1, Invariant, PTL

\* Every instruction goes out once, in a function of its own record, and every function
\* has an id of its own.
THEOREM OutputHolds == PipelineSpec => []OutputIsTheInput
<1>1. ASSUME IInv, Done PROVE
        /\ \A i \in DOMAIN records : \A a \in DOMAIN records[i].code :
             Cardinality({j \in DOMAIN out : source[j] = i /\ a \in DOMAIN out[j].code}) = 1
        /\ \A j \in DOMAIN out : \A a \in DOMAIN out[j].code :
             a \in DOMAIN Source(j).code /\ out[j].code[a] = Source(j).code[a]
        /\ \A i, j \in DOMAIN out : i < j => out[i].id # out[j].id
  <2>1. ASSUME NEW i \in DOMAIN records, NEW a \in DOMAIN records[i].code
        PROVE  Cardinality({j \in DOMAIN out : source[j] = i /\ a \in DOMAIN out[j].code}) = 1
    <3>1. i \in 1 .. At - 1
      <4>1. records \in Seq(Record) /\ Len(todo) = 0
        BY <1>1 DEF IInv, TypesHold, Done
      <4>2. At - 1 = Len(records)
        BY <4>1 DEF At
      <4>3. QED
        BY <4>1, <4>2
    <3>2. PICK j \in DOMAIN out : source[j] = i /\ a \in DOMAIN out[j].code
      BY <1>1, <3>1 DEF IInv, OutIsMade
    <3>3. \A k \in DOMAIN out : source[k] = i /\ a \in DOMAIN out[k].code => j = k
      <4> TAKE k \in DOMAIN out
      <4> HAVE source[k] = i /\ a \in DOMAIN out[k].code
      <4>1. Meet(out[j], out[k])
        BY <3>2 DEF Meet
      <4>2. \A l, m \in DOMAIN out : source[l] = source[m] /\ Meet(out[l], out[m]) => l = m
        BY <1>1 DEF IInv, OutIsMade
      <4>3. QED
        BY <3>2, <4>1, <4>2
    <3>4. {k \in DOMAIN out : source[k] = i /\ a \in DOMAIN out[k].code} = {j}
      BY <3>2, <3>3
    <3>5. QED
      BY <3>4, FS_Singleton
  <2>2. \A j \in DOMAIN out : \A a \in DOMAIN out[j].code :
          a \in DOMAIN Source(j).code /\ out[j].code[a] = Source(j).code[a]
    BY <1>1, MadeIs
  <2>3. \A i, j \in DOMAIN out : i < j => out[i].id # out[j].id
    <3>1. out \in Seq(Record) /\ \A i, j \in DOMAIN out : out[i].id = out[j].id => i = j
      BY <1>1 DEF IInv, TypesHold, IdsAreFresh, Numbered
    <3> TAKE i, j \in DOMAIN out
    <3> HAVE i < j
    <3>2. i \in Nat /\ j \in Nat
      BY <3>1
    <3>3. i # j
      BY <3>2
    <3>4. QED
      BY <3>1, <3>3
  <2>4. QED
    BY <2>1, <2>2, <2>3
<1>2. IInv => OutputIsTheInput
  BY <1>1 DEF OutputIsTheInput
<1>3. QED
  BY <1>2, Invariant, PTL

\* A function that does not begin its record is one that nothing falls, branches or is
\* guarded into, where every guard of the record has a slow path of its own.
THEOREM EntriesHold == PipelineSpec => []CutsAreEntries
<1>1. ASSUME IInv, NEW i \in DOMAIN out, OwnSlowPaths(Source(i).code), out[i].entry # Source(i).entry
      PROVE  /\ out[i].entry \notin RunsToGuarded(Source(i).code, Source(i).entry)
             /\ \A a \in DOMAIN Source(i).code : Source(i).code[a].op \in Aimed => Source(i).code[a].to # out[i].entry
  <2>1. MadeOf(Source(i), out[i]) /\ Source(i).entry = Min(DOMAIN Source(i).code)
    BY <1>1, MadeIs
  <2>2. EntryOnly(Source(i).code, out[i].entry)
    BY <1>1, <2>1 DEF MadeOf
  <2>3. QED
    BY <2>1, <2>2 DEF EntryOnly
<1>2. IInv => CutsAreEntries
  BY <1>1 DEF CutsAreEntries
<1>3. QED
  BY <1>2, Invariant, PTL

\* A part that does not run out of itself runs to what its code runs to from there,
\* going ahead.
LEMMA PartRuns ==
  ASSUME NEW code, CodeOK(code), NEW from, NEW upto \in Nat, IsPart(code, from, upto), RunsBelow(code, from, upto)
  PROVE  RunsTo([a \in {b \in DOMAIN code : b >= from} |-> code[a]], from) = RunsTo(Part(code, from, upto), from)
<1> DEFINE ahead == [a \in {b \in DOMAIN code : b >= from} |-> code[a]]
           part == Part(code, from, upto)
<1>1. PICK lo \in Nat, hi \in Nat : DOMAIN code = lo .. hi
  BY CodeIs
<1>2. from \in Nat /\ from < upto /\ from \in DOMAIN code /\ upto \in Nat
  BY DEF IsPart
<1>3. /\ DOMAIN part = from .. upto - 1 /\ DOMAIN part \subseteq DOMAIN code
      /\ \A a \in DOMAIN part : part[a] = code[a]
  BY PartIs
<1>4. /\ DOMAIN ahead = {b \in DOMAIN code : b >= from} /\ \A a \in DOMAIN ahead : ahead[a] = code[a]
  OBVIOUS
<1> HIDE DEF ahead, part
<1>5. \A b \in DOMAIN code : /\ b \in Nat
                             /\ b \in DOMAIN part <=> (b >= from /\ b < upto)
                             /\ b \in DOMAIN ahead <=> b >= from
  BY <1>1, <1>2, <1>3, <1>4
<1>6. from \in DOMAIN part /\ from \in DOMAIN ahead /\ DOMAIN part \subseteq DOMAIN ahead /\ DOMAIN ahead \subseteq DOMAIN code
  BY <1>2, <1>3, <1>4, <1>5
<1>7. IsFiniteSet(DOMAIN code) /\ IsFiniteSet(DOMAIN part) /\ IsFiniteSet(DOMAIN ahead)
  <2>1. IsFiniteSet(DOMAIN code)
    BY CodeIs
  <2>2. QED
    BY <1>3, <1>6, <2>1, FS_Subset
<1>8. \A a \in DOMAIN part : Flow(part, a) = Flow(code, a) \cap DOMAIN part
  BY <1>3 DEF Flow
<1>9. \A a \in DOMAIN ahead : Flow(ahead, a) = Flow(code, a) \cap DOMAIN ahead
  BY <1>4, <1>6 DEF Flow
<1> DEFINE P == RunsTo(part, from)
           A == RunsTo(ahead, from)
           C == RunsTo(code, from)
<1>10. /\ from \in P /\ P \subseteq DOMAIN part
       /\ \A a \in P : Flow(part, a) \subseteq P
       /\ \A T : from \in T /\ (\A a \in T \cap DOMAIN part : Flow(part, a) \subseteq T) => P \subseteq T
  BY <1>6, <1>7, RunsToIs
<1>11. /\ from \in A /\ A \subseteq DOMAIN ahead
       /\ \A a \in A : Flow(ahead, a) \subseteq A
       /\ \A T : from \in T /\ (\A a \in T \cap DOMAIN ahead : Flow(ahead, a) \subseteq T) => A \subseteq T
  BY <1>6, <1>7, RunsToIs
<1>12. from \in C /\ \A a \in C : Flow(code, a) \subseteq C
  BY <1>2, <1>7, RunsToIs
<1>13. \A b \in C : b < upto
  BY DEF RunsBelow
<1> HIDE DEF P, A, C
<1>14. P \subseteq A
  <2>1. \A a \in A \cap DOMAIN part : Flow(part, a) \subseteq A
    BY <1>6, <1>8, <1>9, <1>11
  <2>2. QED
    BY <1>10, <1>11, <2>1
<1>15. P \subseteq C
  <2>1. \A a \in C \cap DOMAIN part : Flow(part, a) \subseteq C
    BY <1>8, <1>12
  <2>2. QED
    BY <1>10, <1>12, <2>1
<1>16. A \subseteq P
  <2>1. ASSUME NEW a \in P, NEW b \in Flow(ahead, a) PROVE b \in P
    <3>1. a \in DOMAIN ahead /\ a \in C /\ a \in DOMAIN part
      BY <1>6, <1>10, <1>15
    <3>2. b \in Flow(code, a) /\ b \in DOMAIN ahead
      BY <1>9, <2>1, <3>1
    <3>3. b < upto
      BY <1>12, <1>13, <3>1, <3>2
    <3>4. b \in DOMAIN part
      BY <1>5, <1>6, <3>2, <3>3
    <3>5. QED
      BY <1>8, <1>10, <2>1, <3>1, <3>2, <3>4
  <2>2. QED
    BY <1>10, <1>11, <2>1
<1>17. QED
  BY <1>14, <1>16 DEF A, P, ahead, part

\* What a function shows is all that its record runs to from its entry, going ahead, and
\* no candidate is given up because nothing stands before it, where every guard of the
\* record has a slow path of its own.
THEOREM NothingIsAmputated == PipelineSpec => []NothingAmputated
<1>1. ASSUME IInv, NEW i \in DOMAIN out, OwnSlowPaths(Source(i).code)
      PROVE  LET g     == out[i]
                 code  == Source(i).code
                 ahead == [a \in {b \in DOMAIN code : b >= g.entry} |-> code[a]]
                 graph == BuildFunctionIr(g.code)
                 shown == Reached([k \in DOMAIN graph |-> graph[k].succs], {0})
             IN  RunsTo(ahead, g.entry) = UNION {Addresses(graph[k]) : k \in shown}
  <2> DEFINE g     == out[i]
             code  == Source(i).code
             ahead == [a \in {b \in DOMAIN code : b >= g.entry} |-> code[a]]
             graph == BuildFunctionIr(g.code)
             shown == Reached(SuccsOf(graph), {0})
  <2>1. CodeOK(g.code) /\ g.entry = Min(DOMAIN g.code) /\ CodeOK(code) /\ MadeOf(Source(i), g)
    BY <1>1, MadeIs
  <2>2. PICK upto \in Nat : /\ IsPart(code, g.entry, upto) /\ g.code = Part(code, g.entry, upto)
                            /\ RunsBelow(code, g.entry, upto)
    BY <1>1, <2>1 DEF MadeOf
  <2>3. RunsTo(ahead, g.entry) = RunsTo(g.code, g.entry)
    BY <2>1, <2>2, PartRuns
  <2>4. GraphIs(g.code, graph)
    BY <2>1, GraphOf
  <2> HIDE DEF graph
  <2>5. 0 \in DOMAIN graph /\ graph[0].start = g.entry /\ g.entry \in Addresses(graph[0])
    BY <2>1, <2>4 DEF GraphIs, Addresses
  <2>6. Covered(graph, shown) = RunsTo(g.code, g.entry)
    <3> HIDE DEF g
    <3>1. /\ Covered(graph, shown) \subseteq RunsTo(g.code, graph[0].start)
          /\ \A p \in Addresses(graph[0]) : RunsTo(g.code, p) \subseteq Covered(graph, shown)
      BY <2>1, <2>4, <2>5, GraphReach
    <3>2. QED
      BY <2>5, <3>1
  <2>7. QED
    BY <2>3, <2>6 DEF Covered, SuccsOf, graph
<1>2. IInv => NothingAmputated
  BY <1>1 DEF NothingAmputated, IInv
<1>3. QED
  BY <1>2, Invariant, PTL

\* With the calls of raising stubs cut, what the emitters walk is what runs when such a
\* call does not come back.
THEOREM PrunedHolds == PipelineSpec => []PrunedIsTheCode
<1>1. ASSUME IInv, pruned, NEW k \in DOMAIN functions
      PROVE  LET graph == functions[k]
                 code  == out[k].code
                 runs  == [a \in DOMAIN code |-> IF a \in raising THEN {} ELSE Flow(code, a)]
             IN  /\ DOMAIN graph = 0 .. Cardinality(DOMAIN graph) - 1
                 /\ \A i, j \in DOMAIN graph : j \in graph[i].succs <=> i \in graph[j].preds
                 /\ UNION {Addresses(graph[i]) : i \in ReachableBlocks(graph)}
                      = Reached(runs, {Min(DOMAIN code)})
  <2> DEFINE code  == out[k].code
             whole == BuildFunctionIr(code)
             graph == CutAfterCalls(whole, raising)
  <2>1. functions # <<>>
    BY <1>1
  <2>2. k \in DOMAIN out /\ functions[k] = graph
    BY <1>1, <2>1 DEF IInv, GraphsAreBuilt
  <2>3. CodeOK(code)
    BY <1>1, <2>2, MadeIs
  <2>4. GraphIs(code, whole)
    BY <2>3, GraphOf
  <2> HIDE DEF whole
  <2>5. /\ DOMAIN graph = DOMAIN whole
        /\ \A i, j \in DOMAIN graph : j \in graph[i].succs <=> i \in graph[j].preds
        /\ Covered(graph, Reached(SuccsOf(graph), {0})) = Reached(RunsBut(code, raising), {Min(DOMAIN code)})
    BY <2>3, <2>4, PrunedReach
  <2>6. DOMAIN graph = 0 .. Cardinality(DOMAIN graph) - 1
    BY <2>4, <2>5 DEF GraphIs
  <2> HIDE DEF graph
  <2>7. UNION {Addresses(graph[i]) : i \in ReachableBlocks(graph)}
          = Reached([a \in DOMAIN code |-> IF a \in raising THEN {} ELSE Flow(code, a)], {Min(DOMAIN code)})
    BY <2>5 DEF Covered, SuccsOf, ReachableBlocks, RunsBut
  <2>8. /\ DOMAIN functions[k] = 0 .. Cardinality(DOMAIN functions[k]) - 1
        /\ \A i, j \in DOMAIN functions[k] : j \in functions[k][i].succs <=> i \in functions[k][j].preds
    BY <2>2, <2>5, <2>6
  <2>9. UNION {Addresses(functions[k][i]) : i \in ReachableBlocks(functions[k])}
          = Reached([a \in DOMAIN code |-> IF a \in raising THEN {} ELSE Flow(code, a)], {Min(DOMAIN code)})
    BY <2>2, <2>7
  <2>10. QED
    BY <2>8, <2>9
<1>2. IInv => PrunedIsTheCode
  BY <1>1 DEF PrunedIsTheCode
<1>3. QED
  BY <1>2, Invariant, PTL

\* Of a request the choice is made once.
ChosenOnce ==
  /\ request \in Requests
  /\ selection = "made" => chosen = Chosen(request)

LEMMA ChosenOnceHolds == PipelineSpec => []ChosenOnce
<1>1. PipelineInit => ChosenOnce
  BY DEF PipelineInit, SelectInit, ChosenOnce
<1>2. ChosenOnce /\ [PipelineNext]_pipelineVars => ChosenOnce'
  <2> SUFFICES ASSUME ChosenOnce, [PipelineNext]_pipelineVars PROVE ChosenOnce'
    OBVIOUS
  <2>1. CASE GiveUp
    BY <2>1 DEF GiveUp, Refuse, ChosenOnce
  <2>2. CASE SelectAndSplit
    BY <2>2 DEF SelectAndSplit, Disassemble, ChosenOnce
  <2>3. CASE UNCHANGED selectVars
    BY <2>3 DEF selectVars, ChosenOnce
  <2>4. QED
    BY <2>1, <2>2, <2>3 DEF PipelineNext, pipelineVars
<1>3. QED
  BY <1>1, <1>2, PTL DEF PipelineSpec

\* Whatever was asked and in whichever order the functions rank: the choice is the
\* best, with a cap and without.
THEOREM SelectionHolds == PipelineSpec => []SelectionIsBest
<1>1. ChosenOnce => SelectionIsBest
  <2> SUFFICES ASSUME ChosenOnce, selection = "made" PROVE SelectionIsBest
    BY DEF SelectionIsBest
  <2> DEFINE r       == request
             fs      == r.functions
             C       == chosen
             decoded == {i \in Ranked(r) : Decodes(fs[i])}
             kept    == {C[k] : k \in DOMAIN C}
             entries == EntriesOf(r, C)
             seeds   == {i \in kept : fs[i].entry \in EntriesOf(r, SeedEntries(r))}
             ahead(i) == {k \in kept \ {i} : k < i} \union (seeds \ {i})
             TwiceOfOwner(i) == fs[i].name # NoName /\ \E k \in ahead(i) : SameOwner(fs[i], fs[k])
             ThriceOfName(i) == /\ fs[i].name # NoName
                                /\ Cardinality({k \in ahead(i) : SameName(fs[i], fs[k])}) >= 2
             Repeats(i) == TwiceOfOwner(i) \/ ThriceOfName(i)
             passedOver == {i \in decoded : fs[i].entry \notin entries}
  <2>1. r \in Requests /\ C = Chosen(r)
    BY DEF ChosenOnce
  <2>2. decoded = Decoded(r) /\ kept = Of(C)
    BY DEF Decoded, Of
  <2>3. ASSUME Cap(r) = {} PROVE kept = decoded
    <3>1. OpenTo(r, Len(fs), C)
      BY <2>1, <2>3, OpenIsAll DEF Chosen
    <3>2. \A i \in Ranked(r) : i <= Len(fs)
      BY <2>1, RequestIs
    <3>3. QED
      BY <2>2, <3>1, <3>2 DEF OpenTo
  <2> HIDE DEF r, C
  <2>4. ASSUME NEW max \in Cap(r)
        PROVE  /\ Len(C) = Cardinality(entries)
               /\ Len(C) = Min({max, Cardinality({fs[i].entry : i \in decoded})})
    BY <2>1, <2>2, <2>4, CapIsUsed
  <2>5. ASSUME NEW max \in Cap(r), NEW n \in DOMAIN Categories, NEW i \in OfCategory(r, n) \cap decoded,
               n <= max, i = Min(OfCategory(r, n))
        PROVE  fs[i].entry \in entries
    <3>1. DOMAIN Categories = 1 .. 5
      BY DEF Categories
    <3>2. n \in 1 .. 5 /\ Decodes(r.functions[i])
      BY <2>5, <3>1
    <3>3. QED
      BY <2>1, <2>5, <3>2, SeedsAreIn
  <2>6. ASSUME Cap(r) # {}, NEW i
        PROVE  /\ ahead(i) = Ahead(r, i)
               /\ Repeats(i) <=> CrowdedBy(r, i, ahead(i))
    <3>1. ahead(i) = Ahead(r, i)
      BY <2>1 DEF Ahead, Of
    <3>2. IsFiniteSet(kept)
      <4>1. kept \subseteq 1 .. Len(fs) /\ Len(fs) \in Nat
        BY <2>1, <2>2, <2>6, CappedIs, SoundIs, RequestIs DEF BackTo
      <4>2. IsFiniteSet(1 .. Len(fs))
        BY <4>1, FS_Interval
      <4> HIDE DEF kept
      <4>3. QED
        BY <4>1, <4>2, FS_Subset
    <3> DEFINE alike == {k \in ahead(i) : SameName(fs[i], fs[k])}
    <3>3. alike \subseteq kept
      OBVIOUS
    <3>4. IsFiniteSet(alike)
      <4> HIDE DEF alike, kept
      <4>1. QED
        BY <3>2, <3>3, FS_Subset
    <3>5. Cardinality(alike) >= 2 <=> \E x, y \in alike : x # y
      <4> HIDE DEF alike
      <4>1. QED
        BY <3>4, AtLeastTwo
    <3> HIDE DEF ahead
    <3>6. QED
      BY <3>1, <3>5 DEF CrowdedBy
  <2>7. ASSUME NEW max \in Cap(r), NEW i \in passedOver, NEW j \in kept \ seeds
        PROVE  /\ i < j \/ Repeats(j) => Repeats(i)
               /\ i < j => ~TwiceOfOwner(j)
    <3>1. /\ Cap(r) # {} /\ i \in Decoded(r) /\ fs[i].entry \notin EntriesOf(r, C)
          /\ j \in Of(C) /\ fs[j].entry \notin EntriesOf(r, SeedEntries(r))
      BY <2>2, <2>7
    <3>2. /\ i < j \/ CrowdedBy(r, j, Ahead(r, j)) => CrowdedBy(r, i, Ahead(r, i))
          /\ i < j => ~(fs[j].name # NoName /\ \E k \in Ahead(r, j) : SameOwner(fs[j], fs[k]))
      BY <2>1, <3>1, NobodyIsPassedOver
    <3>3. /\ ahead(i) = Ahead(r, i) /\ ahead(j) = Ahead(r, j)
          /\ Repeats(i) <=> CrowdedBy(r, i, ahead(i))
          /\ Repeats(j) <=> CrowdedBy(r, j, ahead(j))
      BY <2>6, <3>1
    <3> HIDE DEF ahead
    <3>4. QED
      BY <3>2, <3>3
  <2> HIDE DEF Repeats, TwiceOfOwner, passedOver, decoded, kept, entries, seeds
  <2>8. /\ Cap(r) = {} => kept = decoded
        /\ \A max \in Cap(r) :
             /\ Len(C) = Cardinality(entries)
             /\ Len(C) = Min({max, Cardinality({fs[i].entry : i \in decoded})})
             /\ \A n \in DOMAIN Categories : \A i \in OfCategory(r, n) \cap decoded :
                  n <= max /\ i = Min(OfCategory(r, n)) => fs[i].entry \in entries
             /\ \A i \in passedOver : \A j \in kept \ seeds :
                  /\ i < j \/ Repeats(j) => Repeats(i)
                  /\ i < j => ~TwiceOfOwner(j)
    BY <2>3, <2>4, <2>5, <2>7
  <2>9. QED
    BY <2>8 DEF SelectionIsBest, Repeats, TwiceOfOwner, passedOver, decoded, kept, entries, seeds,
                      r, C, ThriceOfName, ahead
<1>2. QED
  BY <1>1, ChosenOnceHolds, PTL

-----------------------------------------------------------------------------
(* What an APK adds: the paths to the stages of the start, for every APK.     *)

\* The methods that the search may meet.
Keys == {r.of : r \in scan.refs} \union {i.of : i \in scan.invokes}

\* Nothing else calls or has a stage.
LEMMA CallersAre ==
  /\ \A key : Callers(key) \subseteq Keys
  /\ Terminals \subseteq Keys
BY DEF Callers, Terminals, Keys

\* Ranks can be compared.
LEMMA RankIs == ASSUME NEW key PROVE Rank(key) \in Nat
<1> DEFINE given == {n \in 1 .. 5 :
         \/ n = 5 /\ key.class \in apk.application
         \/ n = 4 /\ key.class \in apk.opened
         \/ n = 3 /\ key.class \in apk.activities
         \/ n = 2 /\ IsActivity(key.class)
         \/ n = 1 /\ key.name \in Prompts
         \/ n = 1 /\ key.name \in Lifecycle /\ (key.class \in apk.applications \/ key \in Terminals)}
<1>1. Rank(key) = Max({0} \union given)
  BY Zenon DEF Rank
<1>2. given \subseteq 1 .. 5
  OBVIOUS
<1> HIDE DEF given
<1>3. {0} \union given \in SUBSET Nat /\ {0} \union given # {} /\ \A y \in {0} \union given : y <= 5
  BY <1>2
<1>4. Max({0} \union given) \in {0} \union given
  BY <1>3, MaxOf
<1>5. QED
  BY <1>1, <1>3, <1>4

\* What is read of the dex files stays as it is when they were scanned.
LEMMA Unmoved ==
  ASSUME UNCHANGED <<apk, scan>>
  PROVE  /\ Keys' = Keys /\ Terminals' = Terminals
         /\ \A key : /\ Callers(key)' = Callers(key)
                     /\ OwnStages(key)' = OwnStages(key)
                     /\ Rank(key)' = Rank(key)
         /\ \A keys : Stages(keys)' = Stages(keys)
<1>1. Keys' = Keys
  BY DEF Keys
<1>2. Terminals' = Terminals
  BY DEF Terminals
<1>3. ASSUME NEW call PROVE Target(call)' = Target(call)
  BY DEF Target
<1>4. ASSUME NEW key PROVE Callers(key)' = Callers(key)
  BY <1>3 DEF Callers
<1>5. ASSUME NEW key PROVE OwnStages(key)' = OwnStages(key)
  BY DEF OwnStages
<1>6. ASSUME NEW class PROVE IsActivity(class)' = IsActivity(class)
  BY DEF IsActivity, Super, Classes, ReadDexes
<1>7. ASSUME NEW key PROVE Rank(key)' = Rank(key)
  BY <1>2, <1>6, Zenon DEF Rank
<1>8. ASSUME NEW keys PROVE Stages(keys)' = Stages(keys)
  BY <1>5, <1>6 DEF Stages
<1>9. QED
  BY <1>1, <1>2, <1>4, <1>5, <1>7, <1>8

-----------------------------------------------------------------------------
(* The search.                                                              *)

\* Backwards along calls.
Walk(path) ==
  /\ path \in Seq(Keys) /\ path # <<>>
  /\ \A i \in 1 .. Len(path) - 1 : path[i + 1] \in Callers(path[i])

\* There is a path, and key, n methods away, would give no better one.
AsSure(best, key, n) ==
  /\ best # <<>>
  /\ \/ Rank(Last(best)) > Rank(key)
     \/ Rank(Last(best)) = Rank(key) /\ Len(best) <= n

\* Those that call v were seen when v was met, and v is no better end.
Settled(s, level, v) ==
  /\ \A c \in Callers(v) : c \in s.visited /\ level[c] <= level[v] + 1
  /\ v = s.terminal \/ Rank(v) = 0 \/ AsSure(s.best, v, level[v])

Waits(s, v) == \E i \in DOMAIN s.queue : v = Last(s.queue[i])

\* How far from the terminal each method was met; a queue holds two distances.
Levels(s, level) ==
  /\ level \in [s.visited -> Nat] /\ level[s.terminal] = 1
  /\ \A i \in DOMAIN s.queue : Last(s.queue[i]) \in s.visited /\ level[Last(s.queue[i])] = Len(s.queue[i])
  /\ \A i, j \in DOMAIN s.queue : i < j => Len(s.queue[i]) <= Len(s.queue[j])
  /\ s.queue # <<>> => \A v \in s.visited : level[v] <= Len(s.queue[1]) + 1
  /\ \A v \in s.visited : Waits(s, v) \/ level[v] > MaxDepth \/ Settled(s, level, v)

SearchOK(s) ==
  /\ s \in [terminal : Terminals, queue : Seq(Seq(Keys)), visited : SUBSET Keys, best : Seq(Keys)]
  /\ s.terminal \in s.visited
  /\ \A i \in DOMAIN s.queue : Walk(s.queue[i]) /\ s.queue[i][1] = s.terminal
  /\ s.best # <<>> => /\ Walk(s.best) /\ s.best[1] = s.terminal /\ Len(s.best) <= MaxDepth
                      /\ Last(s.best) # s.terminal /\ Rank(Last(s.best)) > 0
  /\ \E level : Levels(s, level)

\* No walk within the depth ends at a surer place, or at one as sure and sooner.
Best(back) ==
  \A path \in Seq(Keys) :
    /\ Walk(path) /\ path[1] = back[1] /\ Len(path) <= MaxDepth
    /\ Last(path) # back[1] /\ Rank(Last(path)) > 0
    => Len(back) > 1 /\ AsSure(back, Last(path), Len(path))

ChainOf(back) == [keys |-> Reverse(back), stages |-> Stages(Range(back))]

ChainOK(c) ==
  \E back \in Seq(Keys) :
    /\ c = ChainOf(back)
    /\ Walk(back) /\ back[1] \in Terminals /\ (Len(back) = 1 \/ Len(back) <= MaxDepth)
    /\ Best(back)

\* Every terminal waits, is being searched for, or has its stages on paths.
Reaches(key) == OwnStages(key) \subseteq UNION {c.stages : c \in chains}

StartupInv ==
  /\ apk \in Apks
  /\ IsFiniteSet(scan.invokes)
  /\ startup \in {"reading", "linking", "searching", "linked", "done"}
  /\ startup = "reading" => chains = {}
  /\ startup \in {"linked", "done"} => terminals = {}
  /\ terminals \subseteq Terminals
  /\ startup = "searching" => SearchOK(search)
  /\ \A c \in chains : ChainOK(c)
  /\ startup # "reading" =>
       \A key \in Terminals : key \in terminals \/ (startup = "searching" /\ key = search.terminal) \/ Reaches(key)

LEMMA WalkUnmoved ==
  ASSUME UNCHANGED <<apk, scan>>
  PROVE  /\ \A path : Walk(path)' <=> Walk(path)
         /\ \A s : SearchOK(s)' <=> SearchOK(s)
         /\ \A c : ChainOK(c)' <=> ChainOK(c)
<1> USE Unmoved
<1>1. ASSUME NEW path PROVE Walk(path)' <=> Walk(path)
  BY DEF Walk
<1>2. ASSUME NEW best, NEW key, NEW n PROVE AsSure(best, key, n)' <=> AsSure(best, key, n)
  BY DEF AsSure
<1>3. ASSUME NEW s, NEW level, NEW v PROVE Settled(s, level, v)' <=> Settled(s, level, v)
  BY <1>2 DEF Settled
<1>4. ASSUME NEW s, NEW level PROVE Levels(s, level)' <=> Levels(s, level)
  BY <1>3, Zenon DEF Levels, Waits
<1>5. ASSUME NEW s PROVE SearchOK(s)' <=> SearchOK(s)
  BY <1>1, <1>4 DEF SearchOK
<1>6. ASSUME NEW back PROVE Best(back)' <=> Best(back)
  BY <1>1, <1>2 DEF Best
<1>7. ASSUME NEW back PROVE ChainOf(back)' = ChainOf(back)
  BY DEF ChainOf
<1>8. ASSUME NEW c PROVE ChainOK(c)' <=> ChainOK(c)
  BY <1>1, <1>6, <1>7 DEF ChainOK
<1>9. QED
  BY <1>1, <1>5, <1>8

LEMMA ReachesUnmoved ==
  ASSUME UNCHANGED <<apk, scan, chains>>
  PROVE  \A key : Reaches(key)' <=> Reaches(key)
BY Unmoved DEF Reaches

\* An order of a finite set has all of it.
LEMMA OrderIs ==
  ASSUME NEW S, IsFiniteSet(S), NEW order \in SetToSeqs(S)
  PROVE  /\ order \in Seq(S)
         /\ \A x \in S : \E i \in DOMAIN order : order[i] = x
         /\ \A i, j \in DOMAIN order : order[i] = order[j] => i = j
<1> DEFINE n == Cardinality(S)
           D == 1 .. n
<1>1. n \in Nat
  BY FS_CardinalityType
<1>2. order \in [D -> S] /\ \A i, j \in D : i # j => order[i] # order[j]
  BY DEF SetToSeqs
<1>3. order \in Injection(D, S)
  BY <1>2 DEF Injection, IsInjective
<1>4. Cardinality(D) = n
  BY <1>1, FS_Interval
<1>5. order \in Surjection(D, S)
  BY <1>3, <1>4, FS_Injection
<1>6. \A x \in S : \E i \in D : order[i] = x
  BY <1>5 DEF Surjection
<1>7. QED
  BY <1>1, <1>2, <1>6

LEMMA CallersFinite ==
  ASSUME IsFiniteSet(scan.invokes), NEW key
  PROVE  IsFiniteSet(Callers(key))
<1> DEFINE by == {i \in scan.invokes : key \in Target(i.call)}
           img == [i \in by |-> i.of]
<1>1. IsFiniteSet(by)
  BY FS_Subset
<1>2. Callers(key) = {i.of : i \in by}
  BY DEF Callers
<1>3. img \in Surjection(by, Callers(key))
  BY <1>2 DEF Surjection
<1>4. QED
  BY <1>1, <1>3, FS_Surjection

LEMMA JoinedIs ==
  ASSUME NEW S, NEW a \in Seq(S), NEW b \in Seq(S)
  PROVE  /\ a \o b \in Seq(S) /\ Len(a \o b) = Len(a) + Len(b) /\ DOMAIN (a \o b) = 1 .. Len(a) + Len(b)
         /\ \A i \in 1 .. Len(a) : (a \o b)[i] = a[i]
         /\ \A i \in 1 .. Len(b) : (a \o b)[Len(a) + i] = b[i]
OBVIOUS

LEMMA LonelyWalk ==
  ASSUME NEW key \in Keys
  PROVE  /\ <<key>> \in Seq(Keys) /\ Walk(<<key>>) /\ Len(<<key>>) = 1 /\ Last(<<key>>) = key
BY DEF Walk, Last

LEMMA WalkOn ==
  ASSUME NEW path, Walk(path), NEW c \in Callers(Last(path))
  PROVE  /\ Append(path, c) \in Seq(Keys) /\ Walk(Append(path, c))
         /\ Len(Append(path, c)) = Len(path) + 1
         /\ Last(Append(path, c)) = c /\ Append(path, c)[1] = path[1]
<1>1. c \in Keys
  BY CallersAre
<1>2. path \in Seq(Keys) /\ Len(path) \in Nat /\ Len(path) > 0
  BY DEF Walk
<1> DEFINE longer == Append(path, c)
<1>3. longer \in Seq(Keys) /\ Len(longer) = Len(path) + 1 /\ longer[Len(path) + 1] = c
      /\ \A i \in 1 .. Len(path) : longer[i] = path[i]
  BY <1>1, <1>2
<1>4. ASSUME NEW i \in 1 .. Len(longer) - 1 PROVE longer[i + 1] \in Callers(longer[i])
  <2>1. i \in 1 .. Len(path) /\ longer[i] = path[i]
    BY <1>2, <1>3
  <2>2. CASE i = Len(path)
    BY <1>3, <2>1, <2>2 DEF Last
  <2>3. CASE i # Len(path)
    <3>1. i \in 1 .. Len(path) - 1 /\ i + 1 \in 1 .. Len(path)
      BY <1>2, <2>1, <2>3
    <3>2. path[i + 1] \in Callers(path[i])
      BY <3>1 DEF Walk
    <3>3. QED
      BY <1>3, <2>1, <3>1, <3>2
  <2>4. QED
    BY <2>2, <2>3
<1>5. longer # <<>>
  BY <1>2, <1>3
<1>6. Walk(longer)
  BY <1>3, <1>4, <1>5 DEF Walk
<1>7. Last(longer) = c
  BY <1>3 DEF Last
<1>8. longer[1] = path[1]
  BY <1>2, <1>3
<1>9. QED
  BY <1>3, <1>6, <1>7, <1>8

\* What Visit makes of a search, for one order of the methods it sees first.
Visited(s, order) ==
  LET path  == Head(s.queue)
      at    == Last(path)
  IN  [s EXCEPT !.queue   = Tail(@) \o [i \in DOMAIN order |-> Append(path, order[i])],
                !.visited = @ \union (Callers(at) \ s.visited),
                !.best    = IF at # s.terminal /\ Surer(path, @) THEN path ELSE @]

\* Following the first of the queue keeps two distances in it, each method at its
\* own, and the best of those that were followed.
LEMMA VisitedIs ==
  ASSUME NEW s, SearchOK(s), s.queue # <<>>, Len(Head(s.queue)) <= MaxDepth,
         NEW order \in Seq(Callers(Last(Head(s.queue))) \ s.visited),
         \A x \in Callers(Last(Head(s.queue))) \ s.visited : \E i \in DOMAIN order : order[i] = x
  PROVE  SearchOK(Visited(s, order))
<1> DEFINE q == s.queue
           path == q[1]
           at == Last(path)
           h == Len(path)
           k == Len(q)
           m == Len(order)
           fresh == Callers(at) \ s.visited
           children == [i \in DOMAIN order |-> Append(path, order[i])]
           q2 == Tail(q) \o children
           best2 == IF at # s.terminal /\ Surer(path, s.best) THEN path ELSE s.best
           t == Visited(s, order)
<1>1. /\ s = [terminal |-> s.terminal, queue |-> q, visited |-> s.visited, best |-> s.best]
      /\ s.terminal \in Terminals /\ q \in Seq(Seq(Keys)) /\ s.visited \in SUBSET Keys /\ s.best \in Seq(Keys)
      /\ s.terminal \in s.visited
      /\ \A i \in DOMAIN q : Walk(q[i]) /\ q[i][1] = s.terminal
      /\ s.best # <<>> => /\ Walk(s.best) /\ s.best[1] = s.terminal /\ Len(s.best) <= MaxDepth
                          /\ Last(s.best) # s.terminal /\ Rank(Last(s.best)) > 0
  BY DEF SearchOK
<1>2. PICK level : Levels(s, level)
  BY DEF SearchOK
<1>3. k \in Nat /\ k > 0 /\ DOMAIN q = 1 .. k /\ Head(q) = path /\ 1 \in DOMAIN q
  BY <1>1
<1>4. Walk(path) /\ path[1] = s.terminal /\ h \in Nat /\ h <= MaxDepth /\ path \in Seq(Keys)
  <2>1. Walk(path) /\ path[1] = s.terminal /\ h <= MaxDepth
    BY <1>1, <1>3
  <2>2. QED
    BY <2>1 DEF Walk
<1>5. t = [terminal |-> s.terminal, queue |-> q2, visited |-> s.visited \union fresh, best |-> best2]
  <2>1. t = [s EXCEPT !.queue = q2, !.visited = s.visited \union fresh, !.best = best2]
    BY <1>3 DEF Visited
  <2> HIDE DEF q2, fresh, best2, t
  <2>2. QED
    BY <1>1, <2>1
<1>6. m \in Nat /\ DOMAIN order = 1 .. m /\ \A i \in 1 .. m : order[i] \in fresh
  BY <1>3
<1>7. ASSUME NEW i \in 1 .. m
      PROVE  /\ children[i] \in Seq(Keys) /\ Walk(children[i]) /\ children[i][1] = s.terminal
             /\ Len(children[i]) = h + 1 /\ Last(children[i]) = order[i]
  <2>1. order[i] \in Callers(at) /\ children[i] = Append(path, order[i])
    BY <1>6
  <2> HIDE DEF children, path
  <2>2. /\ Append(path, order[i]) \in Seq(Keys) /\ Walk(Append(path, order[i]))
        /\ Len(Append(path, order[i])) = Len(path) + 1
        /\ Last(Append(path, order[i])) = order[i] /\ Append(path, order[i])[1] = path[1]
    BY <1>4, <2>1, WalkOn
  <2>3. QED
    BY <1>4, <2>1, <2>2
<1>8. children \in Seq(Seq(Keys)) /\ Len(children) = m
  BY <1>6, <1>7
<1> HIDE DEF children, k, m, h
<1>9. /\ q2 \in Seq(Seq(Keys)) /\ Len(q2) = (k - 1) + m /\ DOMAIN q2 = 1 .. (k - 1) + m
      /\ \A i \in 1 .. k - 1 : q2[i] = q[i + 1]
      /\ \A i \in 1 .. m : q2[(k - 1) + i] = children[i]
  <2> DEFINE tail == Tail(q)
  <2>1. tail \in Seq(Seq(Keys)) /\ Len(tail) = k - 1 /\ \A i \in 1 .. k - 1 : tail[i] = q[i + 1]
    BY <1>1, <1>3 DEF k
  <2>2. q2 = tail \o children
    OBVIOUS
  <2> HIDE DEF tail, q, q2
  <2>3. /\ q2 \in Seq(Seq(Keys)) /\ Len(q2) = Len(tail) + Len(children) /\ DOMAIN q2 = 1 .. Len(tail) + Len(children)
        /\ \A i \in 1 .. Len(tail) : q2[i] = tail[i]
        /\ \A i \in 1 .. Len(children) : q2[Len(tail) + i] = children[i]
    BY <1>8, <2>1, <2>2, JoinedIs
  <2>4. QED
    BY <1>8, <2>1, <2>3
<1> HIDE DEF q2
<1>10. \A i \in DOMAIN q2 : \/ i \in 1 .. k - 1 /\ i + 1 \in DOMAIN q /\ q2[i] = q[i + 1]
                            \/ i - (k - 1) \in 1 .. m /\ q2[i] = children[i - (k - 1)]
  <2> TAKE i \in DOMAIN q2
  <2>1. CASE i < k
    BY <1>3, <1>9, <2>1
  <2>2. CASE ~(i < k)
    <3>1. i - (k - 1) \in 1 .. m /\ (k - 1) + (i - (k - 1)) = i
      BY <1>3, <1>6, <1>9, <2>2
    <3>2. QED
      BY <1>9, <3>1
  <2>3. QED
    BY <2>1, <2>2
<1> DEFINE level2 == [v \in s.visited \union fresh |-> IF v \in s.visited THEN level[v] ELSE h + 1]
<1>11. /\ level \in [s.visited -> Nat] /\ level[s.terminal] = 1
       /\ \A i \in DOMAIN q : Last(q[i]) \in s.visited /\ level[Last(q[i])] = Len(q[i])
       /\ \A i, j \in DOMAIN q : i < j => Len(q[i]) <= Len(q[j])
       /\ \A v \in s.visited : level[v] <= h + 1
       /\ \A v \in s.visited : Waits(s, v) \/ level[v] > MaxDepth \/ Settled(s, level, v)
  BY <1>2, <1>3 DEF Levels, h
<1>12. /\ level2 \in [s.visited \union fresh -> Nat]
       /\ \A v \in s.visited : level2[v] = level[v]
       /\ \A v \in fresh : level2[v] = h + 1
  BY <1>4, <1>11
<1> HIDE DEF level2, fresh
<1>13. ASSUME NEW i \in DOMAIN q2
       PROVE  /\ Walk(q2[i]) /\ q2[i][1] = s.terminal
              /\ Last(q2[i]) \in s.visited \union fresh /\ level2[Last(q2[i])] = Len(q2[i])
              /\ h <= Len(q2[i]) /\ Len(q2[i]) <= h + 1 /\ Len(q2[i]) \in Nat
  <2>1. CASE i \in 1 .. k - 1 /\ i + 1 \in DOMAIN q /\ q2[i] = q[i + 1]
    <3>1. Last(q[i + 1]) \in s.visited /\ level[Last(q[i + 1])] = Len(q[i + 1])
      BY <1>11, <2>1
    <3>2. 1 < i + 1 /\ Len(q[1]) <= Len(q[i + 1])
      <4>1. 1 < i + 1 /\ 1 \in DOMAIN q
        BY <1>3, <2>1
      <4>2. \A x, y \in DOMAIN q : x < y => Len(q[x]) <= Len(q[y])
        BY <1>11
      <4>3. QED
        BY <2>1, <4>1, <4>2
    <3>3. h = Len(q[1]) /\ Len(q[i + 1]) \in Nat
      BY <1>1, <2>1 DEF h
    <3>4. Len(q[i + 1]) <= h + 1
      BY <1>11, <3>1
    <3>5. level2[Last(q[i + 1])] = Len(q[i + 1])
      BY <1>12, <3>1
    <3>6. Walk(q[i + 1]) /\ q[i + 1][1] = s.terminal
      BY <1>1, <2>1
    <3>7. QED
      BY <2>1, <3>1, <3>2, <3>3, <3>4, <3>5, <3>6
  <2>2. CASE i - (k - 1) \in 1 .. m /\ q2[i] = children[i - (k - 1)]
    BY <1>4, <1>6, <1>7, <1>12, <2>2
  <2>3. QED
    BY <1>10, <2>1, <2>2
<1>14. ASSUME NEW i \in DOMAIN q2, NEW j \in DOMAIN q2, i < j PROVE Len(q2[i]) <= Len(q2[j])
  <2>1. CASE j - (k - 1) \in 1 .. m /\ q2[j] = children[j - (k - 1)]
    BY <1>7, <1>13, <2>1
  <2>2. CASE j \in 1 .. k - 1 /\ j + 1 \in DOMAIN q /\ q2[j] = q[j + 1]
    <3>1. i \in 1 .. k - 1 /\ i + 1 \in DOMAIN q
      BY <1>3, <1>9, <1>14, <2>2
    <3>2. q2[i] = q[i + 1]
      BY <1>9, <3>1
    <3>3. i + 1 < j + 1
      BY <1>14, <2>2, <3>1
    <3>4. QED
      BY <1>11, <2>2, <3>1, <3>2, <3>3
  <2>3. QED
    BY <1>10, <2>1, <2>2
<1>15. q2 # <<>> => \A v \in s.visited \union fresh : level2[v] <= Len(q2[1]) + 1
  <2> HAVE q2 # <<>>
  <2>1. 1 \in DOMAIN q2
    BY <1>9
  <2>2. h <= Len(q2[1]) /\ Len(q2[1]) \in Nat
    BY <1>13, <2>1
  <2>3. \A v \in s.visited \union fresh : level2[v] <= h + 1 /\ level2[v] \in Nat
    BY <1>4, <1>11, <1>12
  <2>4. QED
    BY <1>4, <2>2, <2>3
<1>16. Rank(at) \in Nat /\ Rank(Last(s.best)) \in Nat /\ Len(s.best) \in Nat
  BY <1>1, RankIs
<1>17. /\ best2 \in Seq(Keys)
       /\ best2 # <<>> => /\ Walk(best2) /\ best2[1] = s.terminal /\ Len(best2) <= MaxDepth
                          /\ Last(best2) # s.terminal /\ Rank(Last(best2)) > 0
  BY <1>1, <1>4 DEF Surer
<1>18. ASSUME NEW v, NEW n \in Nat, AsSure(s.best, v, n) PROVE AsSure(best2, v, n)
  <2>1. CASE best2 = s.best
    BY <1>18, <2>1
  <2>2. CASE best2 # s.best
    <3>1. best2 = path /\ Surer(path, s.best)
      BY <2>2
    <3>2. path # <<>>
      BY <1>4 DEF Walk
    <3>3. Rank(v) \in Nat
      BY RankIs
    <3>4. QED
      BY <1>4, <1>16, <1>18, <3>1, <3>2, <3>3 DEF AsSure, Surer
  <2>3. QED
    BY <2>1, <2>2
<1>19. at = s.terminal \/ Rank(at) = 0 \/ AsSure(best2, at, h)
  <2>1. path # <<>>
    BY <1>4 DEF Walk
  <2>2. SUFFICES ASSUME at # s.terminal, Rank(at) > 0 PROVE AsSure(best2, at, h)
    BY <1>16
  <2>3. CASE Surer(path, s.best)
    BY <1>4, <2>1, <2>2, <2>3 DEF AsSure, h
  <2>4. CASE ~Surer(path, s.best)
    BY <1>4, <1>16, <2>2, <2>4 DEF AsSure, Surer, h
  <2>5. QED
    BY <2>3, <2>4
<1>20. at \in s.visited /\ level[at] = h
  BY <1>3, <1>11 DEF h
<1> HIDE DEF best2, t, path, q
<1>21. Settled(t, level2, at)
  <2>1. ASSUME NEW c \in Callers(at) PROVE c \in s.visited \union fresh /\ level2[c] <= level2[at] + 1
    <3>1. c \in s.visited \/ c \in fresh
      BY DEF fresh
    <3>2. level2[at] = h
      BY <1>12, <1>20
    <3>3. QED
      BY <1>4, <1>11, <1>12, <3>1, <3>2
  <2>2. level2[at] = h
    BY <1>12, <1>20
  <2> HIDE DEF at
  <2>3. QED
    BY <1>5, <1>19, <2>1, <2>2 DEF Settled
<1>22. ASSUME NEW v \in s.visited, Settled(s, level, v) PROVE Settled(t, level2, v)
  <2>1. \A c \in Callers(v) : c \in s.visited /\ level2[c] <= level2[v] + 1
    BY <1>12, <1>22 DEF Settled
  <2>2. level[v] \in Nat /\ level2[v] = level[v]
    BY <1>11, <1>12
  <2>3. v = s.terminal \/ Rank(v) = 0 \/ AsSure(best2, v, level2[v])
    BY <1>18, <1>22, <2>2 DEF Settled
  <2>4. QED
    BY <1>5, <2>1, <2>3 DEF Settled
<1>23. ASSUME NEW v \in s.visited \union fresh PROVE Waits(t, v) \/ level2[v] > MaxDepth \/ Settled(t, level2, v)
  <2>1. CASE v \in fresh
    <3>1. PICK i \in DOMAIN order : order[i] = v
      BY <1>3, <2>1 DEF fresh, q
    <3>2. i \in 1 .. m
      BY <1>6
    <3>3. v = Last(children[i])
      BY <1>7, <3>1, <3>2
    <3>7. (k - 1) + i \in DOMAIN q2
      <4>1. k \in Nat /\ k > 0 /\ m \in Nat
        BY <1>3, <1>6
      <4>2. DOMAIN q2 = 1 .. (k - 1) + m
        BY <1>9
      <4>3. QED
        BY <3>2, <4>1, <4>2
    <3>4. v = Last(q2[(k - 1) + i])
      BY <1>9, <3>2, <3>3, <3>7
    <3>5. Waits(t, v)
      BY <1>5, <3>4, <3>7 DEF Waits
    <3>6. QED
      BY <3>5
  <2>2. CASE v \in s.visited /\ Waits(s, v)
    <3>1. PICK i \in DOMAIN q : v = Last(q[i])
      BY <2>2 DEF Waits, q
    <3>2. CASE i = 1
      <4>1. v = at
        BY <3>1, <3>2 DEF path, q
      <4>2. QED
        BY <1>21, <4>1
    <3>3. CASE i # 1
      <4>1. i - 1 \in 1 .. k - 1 /\ (i - 1) + 1 = i /\ i - 1 \in DOMAIN q2
        BY <1>3, <1>6, <1>9, <3>1, <3>3
      <4>2. q2[i - 1] = q[i]
        BY <1>9, <4>1
      <4>3. Waits(t, v)
        BY <1>5, <3>1, <4>1, <4>2 DEF Waits
      <4>4. QED
        BY <4>3
    <3>4. QED
      BY <3>2, <3>3
  <2>3. CASE v \in s.visited /\ level[v] > MaxDepth
    BY <1>12, <2>3
  <2>4. CASE v \in s.visited /\ Settled(s, level, v)
    BY <1>22, <2>4
  <2>5. QED
    BY <1>11, <2>1, <2>2, <2>3, <2>4
<1>24. Levels(t, level2)
  <2>1. level2[s.terminal] = 1
    BY <1>1, <1>11, <1>12
  <2>2. /\ \A i \in DOMAIN q2 : Last(q2[i]) \in s.visited \union fresh /\ level2[Last(q2[i])] = Len(q2[i])
        /\ \A i, j \in DOMAIN q2 : i < j => Len(q2[i]) <= Len(q2[j])
    BY <1>13, <1>14
  <2>3. QED
    BY <1>5, <1>12, <1>15, <1>23, <2>1, <2>2 DEF Levels
<1>25. fresh \subseteq Keys
  BY CallersAre DEF fresh
<1>26. QED
  <2>1. t \in [terminal : Terminals, queue : Seq(Seq(Keys)), visited : SUBSET Keys, best : Seq(Keys)]
    BY <1>1, <1>5, <1>9, <1>17, <1>25
  <2>2. t.terminal \in t.visited
    BY <1>1, <1>5
  <2>3. \A i \in DOMAIN t.queue : Walk(t.queue[i]) /\ t.queue[i][1] = t.terminal
    BY <1>5, <1>13
  <2>4. t.best # <<>> => /\ Walk(t.best) /\ t.best[1] = t.terminal /\ Len(t.best) <= MaxDepth
                         /\ Last(t.best) # t.terminal /\ Rank(Last(t.best)) > 0
    BY <1>5, <1>17
  <2>5. SearchOK(t)
    BY <1>24, <2>1, <2>2, <2>3, <2>4 DEF SearchOK
  <2>6. QED
    BY <2>5 DEF t

\* A method beyond the depth need not be followed.
LEMMA TurnedIs ==
  ASSUME NEW s, SearchOK(s), s.queue # <<>>, Len(Head(s.queue)) > MaxDepth
  PROVE  SearchOK([s EXCEPT !.queue = Tail(@)])
<1> DEFINE q == s.queue
           k == Len(q)
           q2 == Tail(q)
           t == [s EXCEPT !.queue = Tail(@)]
<1>1. /\ s = [terminal |-> s.terminal, queue |-> q, visited |-> s.visited, best |-> s.best]
      /\ s.terminal \in Terminals /\ q \in Seq(Seq(Keys)) /\ s.visited \in SUBSET Keys /\ s.best \in Seq(Keys)
      /\ s.terminal \in s.visited
      /\ \A i \in DOMAIN q : Walk(q[i]) /\ q[i][1] = s.terminal
      /\ s.best # <<>> => /\ Walk(s.best) /\ s.best[1] = s.terminal /\ Len(s.best) <= MaxDepth
                          /\ Last(s.best) # s.terminal /\ Rank(Last(s.best)) > 0
  BY DEF SearchOK
<1>2. PICK level : Levels(s, level)
  BY DEF SearchOK
<1>3. k \in Nat /\ k > 0 /\ DOMAIN q = 1 .. k /\ Head(q) = q[1] /\ 1 \in DOMAIN q
  BY <1>1
<1>4. q2 \in Seq(Seq(Keys)) /\ Len(q2) = k - 1 /\ DOMAIN q2 = 1 .. k - 1 /\ \A i \in 1 .. k - 1 : q2[i] = q[i + 1]
  BY <1>1, <1>3
<1>5. t = [terminal |-> s.terminal, queue |-> q2, visited |-> s.visited, best |-> s.best]
  <2>1. t = [s EXCEPT !.queue = q2]
    OBVIOUS
  <2> HIDE DEF q2, t
  <2>2. QED
    BY <1>1, <2>1
<1>6. /\ level \in [s.visited -> Nat] /\ level[s.terminal] = 1
      /\ \A i \in DOMAIN q : Last(q[i]) \in s.visited /\ level[Last(q[i])] = Len(q[i])
      /\ \A i, j \in DOMAIN q : i < j => Len(q[i]) <= Len(q[j])
      /\ \A v \in s.visited : level[v] <= Len(q[1]) + 1
      /\ \A v \in s.visited : Waits(s, v) \/ level[v] > MaxDepth \/ Settled(s, level, v)
  BY <1>2, <1>3 DEF Levels
<1> HIDE DEF q2, t
<1>7. \A i \in DOMAIN q2 : i + 1 \in DOMAIN q /\ q2[i] = q[i + 1]
  <2> HIDE DEF q, k
  <2>1. QED
    BY <1>3, <1>4
<1>8. \A i, j \in DOMAIN q2 : i < j => Len(q2[i]) <= Len(q2[j])
  <2> TAKE i, j \in DOMAIN q2
  <2> HAVE i < j
  <2>1. i + 1 \in DOMAIN q /\ j + 1 \in DOMAIN q /\ i + 1 < j + 1 /\ q2[i] = q[i + 1] /\ q2[j] = q[j + 1]
    BY <1>4, <1>7
  <2>2. QED
    BY <1>6, <2>1
<1>9. q2 # <<>> => \A v \in s.visited : level[v] <= Len(q2[1]) + 1
  <2> HAVE q2 # <<>>
  <2>1. 1 \in DOMAIN q2 /\ q2[1] = q[2] /\ 2 \in DOMAIN q
    BY <1>3, <1>4
  <2>2. Len(q[1]) <= Len(q[2])
    BY <1>3, <1>6, <2>1
  <2>3. Len(q[1]) \in Nat /\ Len(q[2]) \in Nat
    BY <1>1, <1>3, <2>1
  <2>4. QED
    BY <1>6, <2>1, <2>2, <2>3
<1>10. ASSUME NEW v \in s.visited PROVE Waits(t, v) \/ level[v] > MaxDepth \/ Settled(t, level, v)
  <2>1. CASE Waits(s, v)
    <3>1. PICK i \in DOMAIN q : v = Last(q[i])
      BY <2>1 DEF Waits
    <3>2. CASE i = 1
      BY <1>3, <1>6, <3>1, <3>2
    <3>3. CASE i # 1
      <4>1. i - 1 \in DOMAIN q2 /\ (i - 1) + 1 = i
        BY <1>3, <1>4, <3>1, <3>3
      <4>2. v = Last(q2[i - 1])
        BY <1>7, <3>1, <4>1
      <4>3. Waits(t, v)
        BY <1>5, <4>1, <4>2 DEF Waits
      <4>4. QED
        BY <4>3
    <3>4. QED
      BY <3>2, <3>3
  <2>2. CASE Settled(s, level, v)
    BY <1>5, <2>2 DEF Settled
  <2>3. QED
    BY <1>6, <2>1, <2>2
<1>11. Levels(t, level)
  <2>1. \A i \in DOMAIN q2 : Last(q2[i]) \in s.visited /\ level[Last(q2[i])] = Len(q2[i])
    BY <1>6, <1>7
  <2>2. QED
    BY <1>5, <1>6, <1>8, <1>9, <1>10, <2>1 DEF Levels
<1>12. \A i \in DOMAIN q2 : Walk(q2[i]) /\ q2[i][1] = s.terminal
  BY <1>1, <1>7
<1>13. SearchOK(t)
  BY <1>1, <1>4, <1>5, <1>11, <1>12 DEF SearchOK
<1>14. QED
  BY <1>13 DEF t

LEMMA BegunIs ==
  ASSUME NEW key \in Terminals
  PROVE  SearchOK([terminal |-> key, queue |-> <<<<key>>>>, visited |-> {key}, best |-> <<>>])
<1> DEFINE s == [terminal |-> key, queue |-> <<<<key>>>>, visited |-> {key}, best |-> <<>>]
           level == [v \in {key} |-> 1]
<1>1. key \in Keys
  BY CallersAre
<1>2. /\ <<key>> \in Seq(Keys) /\ Walk(<<key>>) /\ Len(<<key>>) = 1 /\ Last(<<key>>) = key
  BY <1>1, LonelyWalk
<1>3. /\ <<<<key>>>> \in Seq(Seq(Keys)) /\ DOMAIN <<<<key>>>> = {1} /\ <<<<key>>>>[1] = <<key>> /\ <<key>>[1] = key
  BY <1>2
<1>4. Waits(s, key)
  BY <1>2, <1>3 DEF Waits
<1>5. Levels(s, level)
  <2>1. level \in [{key} -> Nat] /\ level[key] = 1
    OBVIOUS
  <2> HIDE DEF level
  <2>2. s.terminal = key /\ s.visited = {key} /\ s.queue = <<<<key>>>>
    OBVIOUS
  <2> HIDE DEF s
  <2>3. \A i \in DOMAIN s.queue : s.queue[i] = <<key>>
    BY <1>3, <2>2
  <2>4. \A i \in DOMAIN s.queue : Last(s.queue[i]) \in s.visited /\ level[Last(s.queue[i])] = Len(s.queue[i])
    BY <1>2, <2>1, <2>2, <2>3
  <2>5. \A i, j \in DOMAIN s.queue : i < j => Len(s.queue[i]) <= Len(s.queue[j])
    BY <1>2, <2>3
  <2>6. \A v \in s.visited : level[v] <= Len(s.queue[1]) + 1
    BY <1>2, <1>3, <2>1, <2>2
  <2>7. QED
    BY <1>4, <2>1, <2>2, <2>4, <2>5, <2>6 DEF Levels
<1>6. QED
  BY <1>1, <1>2, <1>3, <1>5 DEF SearchOK

\* With the queue empty, every walk within the depth was followed.
LEMMA FollowedIs ==
  ASSUME NEW s, SearchOK(s), s.queue = <<>>, NEW level, Levels(s, level),
         NEW path, Walk(path), path[1] = s.terminal, Len(path) <= MaxDepth
  PROVE  \A i \in 1 .. Len(path) : path[i] \in s.visited /\ level[path[i]] <= i
<1> DEFINE T == {n \in Nat : n + 1 \in 1 .. Len(path) => path[n + 1] \in s.visited /\ level[path[n + 1]] <= n + 1}
<1>1. /\ level \in [s.visited -> Nat] /\ level[s.terminal] = 1 /\ s.terminal \in s.visited
      /\ \A v \in s.visited : level[v] > MaxDepth \/ Settled(s, level, v)
  BY DEF Levels, SearchOK, Waits
<1>2. 0 \in T
  BY <1>1
<1>3. ASSUME NEW n \in Nat, n \in T PROVE n + 1 \in T
  <2>1. SUFFICES ASSUME (n + 1) + 1 \in 1 .. Len(path)
                 PROVE  path[(n + 1) + 1] \in s.visited /\ level[path[(n + 1) + 1]] <= (n + 1) + 1
    OBVIOUS
  <2>2. Len(path) \in Nat
    BY DEF Walk
  <2>3. n + 1 \in 1 .. Len(path) /\ n + 1 \in 1 .. Len(path) - 1 /\ n + 1 <= MaxDepth
    BY <2>1, <2>2, StartupAssumption
  <2>4. path[n + 1] \in s.visited /\ level[path[n + 1]] <= n + 1 /\ level[path[n + 1]] \in Nat
    BY <1>1, <1>3, <2>3
  <2>5. ~(level[path[n + 1]] > MaxDepth)
    BY <2>3, <2>4, StartupAssumption
  <2>6. Settled(s, level, path[n + 1])
    BY <1>1, <2>4, <2>5
  <2>7. path[(n + 1) + 1] \in Callers(path[n + 1])
    BY <2>3 DEF Walk
  <2>8. path[(n + 1) + 1] \in s.visited /\ level[path[(n + 1) + 1]] <= level[path[n + 1]] + 1
    BY <2>6, <2>7 DEF Settled
  <2>9. level[path[(n + 1) + 1]] \in Nat
    BY <1>1, <2>8
  <2>10. QED
    BY <2>4, <2>8, <2>9
<1>4. \A n \in Nat : n \in T
  <2> HIDE DEF T
  <2>1. QED
    BY <1>2, <1>3, Induction
<1>5. TAKE i \in 1 .. Len(path)
<1>6. i - 1 \in Nat /\ (i - 1) + 1 = i
  BY DEF Walk
<1>7. i - 1 \in T
  BY <1>4, <1>6
<1>8. QED
  BY <1>6, <1>7

\* The best path of a search that is over is the best there is.
LEMMA FoundIs ==
  ASSUME NEW s, SearchOK(s), s.queue = <<>>
  PROVE  LET back == IF s.best = <<>> THEN <<s.terminal>> ELSE s.best
         IN  /\ back \in Seq(Keys) /\ back[1] = s.terminal
             /\ ChainOK(ChainOf(back))
<1> DEFINE back == IF s.best = <<>> THEN <<s.terminal>> ELSE s.best
<1>1. /\ s.terminal \in Terminals /\ s.best \in Seq(Keys)
      /\ s.best # <<>> => /\ Walk(s.best) /\ s.best[1] = s.terminal /\ Len(s.best) <= MaxDepth
                          /\ Last(s.best) # s.terminal
  BY DEF SearchOK
<1>2. s.terminal \in Keys
  BY <1>1, CallersAre
<1>3. /\ <<s.terminal>> \in Seq(Keys) /\ Walk(<<s.terminal>>) /\ Len(<<s.terminal>>) = 1
      /\ <<s.terminal>>[1] = s.terminal
  BY <1>2, LonelyWalk
<1>4. /\ back \in Seq(Keys) /\ Walk(back) /\ back[1] = s.terminal
      /\ Len(back) = 1 \/ Len(back) <= MaxDepth
  BY <1>1, <1>3
<1>5. PICK level : Levels(s, level)
  BY DEF SearchOK
<1>6. Best(back)
  <2>1. SUFFICES ASSUME NEW path \in Seq(Keys), Walk(path), path[1] = back[1], Len(path) <= MaxDepth,
                        Last(path) # back[1], Rank(Last(path)) > 0
                 PROVE  Len(back) > 1 /\ AsSure(back, Last(path), Len(path))
    BY DEF Best
  <2>2. Len(path) \in 1 .. Len(path) /\ Len(path) \in Nat
    BY <2>1 DEF Walk
  <2>3. Last(path) \in s.visited /\ level[Last(path)] <= Len(path)
    BY <1>4, <1>5, <2>1, <2>2, FollowedIs DEF Last
  <2>4. level[Last(path)] \in Nat
    BY <1>5, <2>3 DEF Levels
  <2>5. ~(level[Last(path)] > MaxDepth)
    BY <2>1, <2>2, <2>3, <2>4, StartupAssumption
  <2>6. Settled(s, level, Last(path))
    BY <1>5, <2>3, <2>5 DEF Levels, Waits
  <2>7. AsSure(s.best, Last(path), level[Last(path)])
    BY <1>4, <2>1, <2>6 DEF Settled
  <2>8. s.best # <<>> /\ back = s.best
    BY <2>7 DEF AsSure
  <2>9. Len(back) \in Nat /\ Len(back) > 0
    BY <1>4 DEF Walk
  <2>10. Len(back) > 1
    BY <1>1, <2>8, <2>9 DEF Last
  <2>11. AsSure(back, Last(path), Len(path))
    BY <2>2, <2>3, <2>4, <2>7, <2>8, <2>9 DEF AsSure
  <2>12. QED
    BY <2>10, <2>11
<1>7. ChainOK(ChainOf(back))
  <2> HIDE DEF back
  <2>1. QED
    BY <1>1, <1>4, <1>6 DEF ChainOK
<1>8. QED
  BY <1>4, <1>7

-----------------------------------------------------------------------------
(* The steps.                                                               *)

LEMMA ImageFinite ==
  ASSUME NEW S, IsFiniteSet(S), NEW img
  PROVE  IsFiniteSet({img[x] : x \in S})
<1> DEFINE g == [x \in S |-> img[x]]
<1>1. g \in Surjection(S, {img[x] : x \in S})
  BY DEF Surjection
<1>2. QED
  BY <1>1, FS_Surjection

\* Only finitely many calls are in the lists of an APK.
LEMMA CallsFinite ==
  ASSUME apk \in Apks
  PROVE  IsFiniteSet(AllCalls)
<1>1. \A d \in DOMAIN apk.dexes :
        /\ IsFiniteSet(DOMAIN apk.dexes[d].methods)
        /\ \A n \in DOMAIN apk.dexes[d].methods : IsFiniteSet(DOMAIN apk.dexes[d].methods[n].code)
  <2>1. ASSUME NEW list, IsList(list) PROVE IsFiniteSet(DOMAIN list)
    BY <2>1, FS_Interval DEF IsList
  <2>2. QED
    BY <2>1, ApksAssumption
<1>2. IsFiniteSet(ReadDexes)
  <2>1. IsFiniteSet(DOMAIN apk.dexes)
    BY ApksAssumption, FS_Interval DEF IsList
  <2>2. ReadDexes \in SUBSET DOMAIN apk.dexes
    BY DEF ReadDexes
  <2>3. QED
    BY <2>1, <2>2, FS_Subset
<1>3. IsFiniteSet(Places)
  <2> DEFINE img == [d \in ReadDexes |-> {d} \X DOMAIN apk.dexes[d].methods]
             parts == {img[d] : d \in ReadDexes}
  <2>1. IsFiniteSet(parts)
    <3> HIDE DEF img
    <3>1. QED
      BY <1>2, ImageFinite
  <2>2. \A d \in ReadDexes : IsFiniteSet(img[d])
    <3> TAKE d \in ReadDexes
    <3>1. IsFiniteSet({d}) /\ IsFiniteSet(DOMAIN apk.dexes[d].methods)
      BY <1>1, FS_Singleton DEF ReadDexes
    <3>2. IsFiniteSet({d} \X DOMAIN apk.dexes[d].methods)
      BY <3>1, FS_Product
    <3>3. QED
      BY <3>2
  <2>3. IsFiniteSet(UNION parts)
    BY <2>1, <2>2, FS_UNION
  <2>4. Places = UNION parts
    BY DEF Places
  <2>5. QED
    BY <2>3, <2>4
<1>4. ASSUME NEW p \in Places PROVE IsFiniteSet(CallsAt(p))
  <2> DEFINE code == MethodAt(p).code
             S == {n \in DOMAIN code : code[n].op = "invoke"}
             img == [n \in DOMAIN code |-> code[n].call]
  <2>1. p[1] \in DOMAIN apk.dexes /\ p[2] \in DOMAIN apk.dexes[p[1]].methods
    BY DEF Places, ReadDexes
  <2>2. IsFiniteSet(DOMAIN code)
    BY <1>1, <2>1 DEF MethodAt
  <2> HIDE DEF code
  <2>3. IsFiniteSet(S)
    <3>1. S \in SUBSET DOMAIN code
      OBVIOUS
    <3>2. QED
      BY <2>2, <3>1, FS_Subset
  <2>4. IsFiniteSet({img[n] : n \in S})
    BY <2>3, ImageFinite
  <2>5. CallsAt(p) = {img[n] : n \in S}
    BY DEF CallsAt, Range, code
  <2>6. QED
    BY <2>4, <2>5
<1>5. QED
  <2> DEFINE of(p) == {[of |-> KeyAt(p), call |-> call] : call \in CallsAt(p)}
             img == [p \in Places |-> of(p)]
             parts == {img[p] : p \in Places}
  <2>1. ASSUME NEW p \in Places PROVE IsFiniteSet(of(p))
    <3> DEFINE g == [call \in CallsAt(p) |-> [of |-> KeyAt(p), call |-> call]]
    <3>1. IsFiniteSet({g[call] : call \in CallsAt(p)})
      BY <1>4, ImageFinite
    <3>2. {g[call] : call \in CallsAt(p)} = of(p)
      OBVIOUS
    <3>3. QED
      BY <3>1, <3>2
  <2>2. AllCalls = UNION parts
    BY DEF AllCalls
  <2> HIDE DEF of
  <2>3. \A p \in Places : IsFiniteSet(img[p])
    BY <2>1
  <2> HIDE DEF img
  <2>4. IsFiniteSet(parts)
    BY <1>3, ImageFinite
  <2>5. QED
    BY <2>2, <2>3, <2>4, FS_UNION

LEMMA StartupInitHolds == StartupInit => StartupInv
<1> SUFFICES ASSUME StartupInit PROVE StartupInv
  OBVIOUS
<1>1. apk \in Apks /\ scan.refs = {} /\ scan.invokes = {} /\ terminals = {} /\ chains = {}
      /\ startup \in {"reading", "linked"}
  BY DEF StartupInit
<1>2. Terminals = {}
  BY <1>1 DEF Terminals
<1>3. QED
  BY <1>1, <1>2, FS_EmptySet DEF StartupInv

LEMMA ScanHolds == StartupInv /\ ScanDexes => StartupInv'
<1> SUFFICES ASSUME StartupInv, ScanDexes PROVE StartupInv'
  OBVIOUS
<1>1. /\ apk' \in Apks /\ chains' = {} /\ startup' = "linking" /\ terminals' = Terminals'
  BY DEF StartupInv, ScanDexes
<1>2. IsFiniteSet(scan'.invokes)
  <2>1. scan'.invokes \in SUBSET AllCalls
    BY DEF ScanDexes, Scanned
  <2>2. QED
    BY <2>1, CallsFinite, FS_Subset DEF StartupInv
<1>3. QED
  BY <1>1, <1>2 DEF StartupInv

LEMMA StartHolds == StartupInv /\ StartSearch => StartupInv'
<1> SUFFICES ASSUME StartupInv, StartSearch PROVE StartupInv'
  OBVIOUS
<1>1. UNCHANGED <<apk, scan, chains>> /\ startup' = "searching" /\ startup = "linking"
  BY DEF StartSearch
<1>2. PICK key \in terminals :
        /\ search' = [terminal |-> key, queue |-> <<<<key>>>>, visited |-> {key}, best |-> <<>>]
        /\ terminals' = terminals \ {key}
  BY DEF StartSearch
<1>3. key \in Terminals
  BY DEF StartupInv
<1>4. SearchOK(search')
  BY <1>2, <1>3, BegunIs
<1>5. SearchOK(search)'
  BY <1>1, <1>4, WalkUnmoved
<1>6. (\A c \in chains : ChainOK(c))'
  BY <1>1, WalkUnmoved DEF StartupInv
<1>7. Terminals' = Terminals /\ \A k \in Terminals : Reaches(k)' <=> Reaches(k)
  BY <1>1, Unmoved, ReachesUnmoved
<1>8. (\A k \in Terminals : k \in terminals \/ (startup = "searching" /\ k = search.terminal) \/ Reaches(k))'
  BY <1>1, <1>2, <1>7 DEF StartupInv
<1>9. terminals' \subseteq Terminals'
  BY <1>2, <1>7 DEF StartupInv
<1>10. QED
  BY <1>1, <1>5, <1>6, <1>8, <1>9 DEF StartupInv

LEMMA SearchHolds ==
  ASSUME StartupInv, UNCHANGED <<apk, startup, scan, terminals, chains>>, startup = "searching",
         SearchOK(search'), search'.terminal = search.terminal
  PROVE  StartupInv'
<1>1. SearchOK(search)'
  BY WalkUnmoved
<1>2. (\A c \in chains : ChainOK(c))'
  BY WalkUnmoved DEF StartupInv
<1>3. Terminals' = Terminals /\ \A k \in Terminals : Reaches(k)' <=> Reaches(k)
  BY Unmoved, ReachesUnmoved
<1>4. (\A k \in Terminals : k \in terminals \/ (startup = "searching" /\ k = search.terminal) \/ Reaches(k))'
  BY <1>3 DEF StartupInv
<1>5. QED
  BY <1>1, <1>2, <1>3, <1>4 DEF StartupInv

LEMMA VisitHolds == StartupInv /\ Visit => StartupInv'
<1> SUFFICES ASSUME StartupInv, Visit PROVE StartupInv'
  OBVIOUS
<1> DEFINE fresh == Callers(Last(Head(search.queue))) \ search.visited
<1>1. /\ UNCHANGED <<apk, startup, scan, terminals, chains>> /\ startup = "searching"
      /\ search.queue # <<>> /\ Len(Head(search.queue)) <= MaxDepth
  BY DEF Visit
<1>2. PICK order \in SetToSeqs(fresh) : search' = Visited(search, order)
  BY DEF Visit, Visited
<1>3. SearchOK(search)
  BY <1>1 DEF StartupInv
<1>4. IsFiniteSet(fresh)
  <2>1. IsFiniteSet(Callers(Last(Head(search.queue))))
    BY CallersFinite DEF StartupInv
  <2>2. fresh \in SUBSET Callers(Last(Head(search.queue)))
    OBVIOUS
  <2>3. QED
    BY <2>1, <2>2, FS_Subset
<1>5. order \in Seq(fresh) /\ \A x \in fresh : \E i \in DOMAIN order : order[i] = x
  BY <1>4, OrderIs
<1>6. SearchOK(search')
  BY <1>1, <1>2, <1>3, <1>5, VisitedIs
<1>7. search'.terminal = search.terminal
  BY <1>2, <1>3 DEF Visited, SearchOK
<1>8. QED
  BY <1>1, <1>6, <1>7, SearchHolds

LEMMA TurnHolds == StartupInv /\ TurnBack => StartupInv'
<1> SUFFICES ASSUME StartupInv, TurnBack PROVE StartupInv'
  OBVIOUS
<1>1. /\ UNCHANGED <<apk, startup, scan, terminals, chains>> /\ startup = "searching"
      /\ search.queue # <<>> /\ Len(Head(search.queue)) > MaxDepth
      /\ search' = [search EXCEPT !.queue = Tail(@)]
  BY DEF TurnBack
<1>2. SearchOK(search)
  BY <1>1 DEF StartupInv
<1>3. SearchOK(search')
  BY <1>1, <1>2, TurnedIs
<1>4. search'.terminal = search.terminal
  BY <1>1, <1>2 DEF SearchOK
<1>5. QED
  BY <1>1, <1>3, <1>4, SearchHolds

LEMMA OwnStagesIn ==
  ASSUME NEW back \in Seq(Keys), back # <<>>
  PROVE  OwnStages(back[1]) \subseteq ChainOf(back).stages
<1>1. back[1] \in Range(back)
  BY DEF Range
<1>2. QED
  BY <1>1 DEF ChainOf, Stages

LEMMA KeepHolds == StartupInv /\ KeepPath => StartupInv'
<1> SUFFICES ASSUME StartupInv, KeepPath PROVE StartupInv'
  OBVIOUS
<1> DEFINE back == IF search.best = <<>> THEN <<search.terminal>> ELSE search.best
<1>1. /\ UNCHANGED <<apk, scan, terminals>> /\ startup' = "linking" /\ startup = "searching"
      /\ search.queue = <<>>
      /\ chains' = chains \union {c \in {Chain} : \A d \in chains : ~SamePath(c, d)}
  BY DEF KeepPath
<1>2. SearchOK(search)
  BY <1>1 DEF StartupInv
<1>3. Chain = ChainOf(back)
  BY DEF Chain, ChainOf
<1>4. back \in Seq(Keys) /\ back[1] = search.terminal /\ ChainOK(Chain)
  BY <1>1, <1>2, <1>3, FoundIs
<1>5. back # <<>>
  OBVIOUS
<1> HIDE DEF back
<1>6. (\A c \in chains : ChainOK(c))'
  BY <1>1, <1>4, WalkUnmoved DEF StartupInv
<1>7. Terminals' = Terminals /\ \A k : OwnStages(k)' = OwnStages(k)
  BY <1>1, Unmoved
<1>8. OwnStages(search.terminal) \subseteq UNION {c.stages : c \in chains'}
  <2>1. OwnStages(search.terminal) \subseteq Chain.stages
    BY <1>3, <1>4, <1>5, OwnStagesIn
  <2>2. CASE \A d \in chains : ~SamePath(Chain, d)
    <3>1. Chain \in chains'
      BY <1>1, <2>2
    <3>2. QED
      BY <2>1, <3>1
  <2>3. CASE \E d \in chains : SamePath(Chain, d)
    <3>1. PICK d \in chains : Chain.stages = d.stages
      BY <2>3 DEF SamePath
    <3>2. d \in chains'
      BY <1>1
    <3>3. QED
      BY <2>1, <3>1, <3>2
  <2>4. QED
    BY <2>2, <2>3
<1>9. ASSUME NEW k \in Terminals PROVE k \in terminals \/ Reaches(k)'
  <2>1. CASE k = search.terminal
    BY <1>7, <1>8, <2>1 DEF Reaches
  <2>2. CASE Reaches(k)
    <3>1. UNION {c.stages : c \in chains} \subseteq UNION {c.stages : c \in chains'}
      BY <1>1
    <3>2. QED
      BY <1>7, <2>2, <3>1 DEF Reaches
  <2>3. QED
    BY <1>1, <2>1, <2>2 DEF StartupInv
<1>10. QED
  BY <1>1, <1>6, <1>7, <1>9 DEF StartupInv

\* A path that is dropped has no stage that those of the app have not.
LEMMA LinkHolds == StartupInv /\ Link => StartupInv'
<1> SUFFICES ASSUME StartupInv, Link PROVE StartupInv'
  OBVIOUS
<1>1. /\ UNCHANGED <<apk, scan, terminals>> /\ startup' = "linked" /\ startup = "linking" /\ terminals = {}
      /\ chains' = Retained(chains)
  BY DEF Link
<1> DEFINE covered == UNION {c.stages : c \in {d \in chains : OfTheApp(d)}}
<1>2. Retained(chains) = {c \in chains : covered = {} \/ OfTheApp(c) \/ ~(c.stages \subseteq covered)}
  BY DEF Retained
<1>3. UNION {c.stages : c \in chains} \subseteq UNION {c.stages : c \in Retained(chains)}
  <2>1. ASSUME NEW c \in chains, NEW stage \in c.stages
        PROVE  \E d \in Retained(chains) : stage \in d.stages
    <3>1. CASE c \in Retained(chains)
      BY <3>1
    <3>2. CASE c \notin Retained(chains)
      <4>1. stage \in covered
        BY <1>2, <3>2
      <4>2. PICK d \in chains : OfTheApp(d) /\ stage \in d.stages
        BY <4>1
      <4>3. d \in Retained(chains)
        BY <1>2, <4>2
      <4>4. QED
        BY <4>2, <4>3
    <3>3. QED
      BY <3>1, <3>2
  <2>2. QED
    BY <2>1
<1>4. (\A c \in chains : ChainOK(c))'
  BY <1>1, <1>2, WalkUnmoved DEF StartupInv
<1>5. Terminals' = Terminals /\ \A k : OwnStages(k)' = OwnStages(k)
  BY <1>1, Unmoved
<1>6. ASSUME NEW k \in Terminals PROVE Reaches(k)'
  <2>1. Reaches(k)
    BY <1>1 DEF StartupInv
  <2>2. QED
    BY <1>1, <1>3, <1>5, <2>1 DEF Reaches
<1>7. QED
  BY <1>1, <1>4, <1>5, <1>6 DEF StartupInv

LEMMA AsideHolds ==
  ASSUME StartupInv, UNCHANGED <<apk, scan, terminals, search, chains>>,
         startup' = startup \/ (startup = "linked" /\ startup' = "done")
  PROVE  StartupInv'
<1>1. startup = "searching" => SearchOK(search)'
  BY WalkUnmoved DEF StartupInv
<1>2. (\A c \in chains : ChainOK(c))'
  BY WalkUnmoved DEF StartupInv
<1>3. Terminals' = Terminals /\ \A k \in Terminals : Reaches(k)' <=> Reaches(k)
  BY Unmoved, ReachesUnmoved
<1>4. startup # "reading" =>
        (\A k \in Terminals : k \in terminals \/ (startup = "searching" /\ k = search.terminal) \/ Reaches(k))'
  BY <1>3 DEF StartupInv
<1>5. QED
  BY <1>1, <1>2, <1>3, <1>4 DEF StartupInv

LEMMA StartupNextHolds == StartupInv /\ [StartupNext]_startupVars => StartupInv'
<1> SUFFICES ASSUME StartupInv, [StartupNext]_startupVars PROVE StartupInv'
  OBVIOUS
<1>1. CASE ScanDexes
  BY <1>1, ScanHolds
<1>2. CASE StartSearch
  BY <1>2, StartHolds
<1>3. CASE Visit
  BY <1>3, VisitHolds
<1>4. CASE TurnBack
  BY <1>4, TurnHolds
<1>5. CASE KeepPath
  BY <1>5, KeepHolds
<1>6. CASE Link
  BY <1>6, LinkHolds
<1>7. CASE CollectHints
  <2>1. UNCHANGED <<apk, scan, terminals, search, chains>> /\ startup = "linked" /\ startup' = "done"
    BY <1>7 DEF CollectHints
  <2>2. QED
    BY <2>1, AsideHolds
<1>8. CASE UNCHANGED startupVars
  <2>1. UNCHANGED <<apk, scan, terminals, search, chains, startup>>
    BY <1>8 DEF startupVars
  <2>2. QED
    BY <2>1, AsideHolds
<1>9. QED
  BY <1>1, <1>2, <1>3, <1>4, <1>5, <1>6, <1>7, <1>8 DEF StartupNext

\* What ends n calls before key ends a walk from it.
LEMMA BeforeIs ==
  ASSUME NEW key \in Keys
  PROVE  \A n \in Nat : \A x \in Before(key, n) :
           \E path \in Seq(Keys) : Walk(path) /\ path[1] = key /\ Len(path) = n + 1 /\ Last(path) = x
<1> DEFINE more(keys) == UNION {Callers(c) : c \in keys}
           Eq(g) == g = [k \in Nat |-> IF k = 0 THEN {key} ELSE more(g[k - 1])]
           step == CHOOSE g : Eq(g)
<1>1. \E g : Eq(g)
  <2> DEFINE go == [n \in Nat |-> [keys \in SUBSET Keys |-> more(keys)]]
  <2>1. go \in [Nat -> [SUBSET Keys -> SUBSET Keys]] /\ {key} \in SUBSET Keys
    BY CallersAre
  <2>2. PICK g : Follows(g, SUBSET Keys, {key}, go)
    <3> HIDE DEF go
    <3>1. QED
      BY <2>1, Recursion
  <2>3. ASSUME NEW n \in Nat PROVE g[n] = IF n = 0 THEN {key} ELSE more(g[n - 1])
    <3>1. CASE n = 0
      BY <2>2, <3>1 DEF Follows
    <3>2. CASE n # 0
      <4>1. n - 1 \in Nat /\ (n - 1) + 1 = n
        BY <3>2
      <4>2. g[(n - 1) + 1] = go[(n - 1) + 1][g[n - 1]] /\ g[n - 1] \in SUBSET Keys
        BY <2>2, <4>1 DEF Follows
      <4>3. g[n] = more(g[n - 1])
        BY <4>1, <4>2
      <4>4. QED
        BY <3>2, <4>3
    <3>3. QED
      BY <3>1, <3>2
  <2>4. Eq(g)
    BY <2>2, <2>3 DEF Follows
  <2>5. QED
    BY <2>4
<1>2. Eq(step)
  BY <1>1
<1>3. \A n \in Nat : Before(key, n) = step[n]
  BY DEF Before
<1> HIDE DEF step
<1>4. step[0] = {key} /\ \A n \in Nat : step[n + 1] = more(step[n])
  <2>1. step[0] = {key}
    BY <1>2
  <2>2. ASSUME NEW n \in Nat PROVE step[n + 1] = more(step[n])
    <3>1. n + 1 \in Nat /\ n + 1 # 0 /\ (n + 1) - 1 = n
      OBVIOUS
    <3>2. step[n + 1] = more(step[(n + 1) - 1])
      BY <1>2, <3>1
    <3>3. QED
      BY <3>1, <3>2
  <2>3. QED
    BY <2>1, <2>2
<1> HIDE DEF Eq
<1> DEFINE EndsAt(n, x) == \E path \in Seq(Keys) : Walk(path) /\ path[1] = key /\ Len(path) = n + 1 /\ Last(path) = x
           T == {n \in Nat : \A x \in step[n] : EndsAt(n, x)}
<1>5. 0 \in T
  <2>1. <<key>> \in Seq(Keys) /\ Walk(<<key>>) /\ <<key>>[1] = key /\ Len(<<key>>) = 0 + 1 /\ Last(<<key>>) = key
    BY LonelyWalk
  <2>3. EndsAt(0, key)
    BY <2>1
  <2>2. QED
    BY <1>4, <2>3
<1>6. ASSUME NEW n \in Nat, n \in T PROVE n + 1 \in T
  <2>1. ASSUME NEW x \in step[n + 1] PROVE EndsAt(n + 1, x)
    <3>1. PICK c \in step[n] : x \in Callers(c)
      BY <1>4
    <3>2. PICK path \in Seq(Keys) : Walk(path) /\ path[1] = key /\ Len(path) = n + 1 /\ Last(path) = c
      BY <1>6, <3>1
    <3>3. QED
      BY <3>1, <3>2, WalkOn
  <2> HIDE DEF EndsAt
  <2>2. QED
    BY <2>1
<1>7. \A n \in Nat : n \in T
  <2> HIDE DEF T
  <2>1. QED
    BY <1>5, <1>6, Induction
<1>8. QED
  BY <1>3, <1>7

\* What is known of a path of the chain, said of it from its source on.
LEMMA ChainIs ==
  ASSUME NEW c, ChainOK(c)
  PROVE  LET last == Last(c.keys)
             size == Len(c.keys)
         IN  /\ last \in Terminals
             /\ \A i \in 1 .. size - 1 : c.keys[i] \in Callers(c.keys[i + 1])
             /\ c.stages = Stages(Range(c.keys))
             /\ \A n \in 1 .. MaxDepth - 1 : \A key \in Before(last, n) \ {last} :
                  Rank(key) > 0 => /\ size > 1
                                   /\ \/ Rank(key) < Rank(c.keys[1])
                                      \/ Rank(key) = Rank(c.keys[1]) /\ size <= n + 1
             /\ size <= Max({1, MaxDepth})
<1>1. PICK back \in Seq(Keys) :
        /\ c = ChainOf(back)
        /\ Walk(back) /\ back[1] \in Terminals /\ (Len(back) = 1 \/ Len(back) <= MaxDepth)
        /\ Best(back)
  BY DEF ChainOK
<1> DEFINE size == Len(back)
<1>2. size \in Nat /\ size > 0 /\ DOMAIN back = 1 .. size
  BY <1>1 DEF Walk
<1>3. c.keys = [i \in 1 .. size |-> back[(size - i) + 1]] /\ c.stages = Stages(Range(back))
  BY <1>1 DEF ChainOf, Reverse
<1>4. Len(c.keys) = size /\ DOMAIN c.keys = 1 .. size
  <2>1. c.keys \in Seq(Keys)
    BY <1>1, <1>2, <1>3
  <2>2. QED
    BY <1>2, <1>3, <2>1
<1>5. Last(c.keys) = back[1] /\ c.keys[1] = Last(back)
  BY <1>2, <1>3, <1>4 DEF Last
<1>6. Range(c.keys) = Range(back)
  <2>1. \A i \in 1 .. size : (size - i) + 1 \in 1 .. size /\ (size - ((size - i) + 1)) + 1 = i
    BY <1>2
  <2>2. QED
    <3>1. ASSUME NEW i \in 1 .. size PROVE c.keys[i] \in Range(back)
      BY <1>2, <1>3, <2>1 DEF Range
    <3>2. ASSUME NEW i \in 1 .. size PROVE back[i] \in Range(c.keys)
      <4>1. c.keys[(size - i) + 1] = back[i]
        BY <1>3, <2>1
      <4>2. QED
        BY <1>4, <2>1, <4>1 DEF Range
    <3>3. QED
      BY <1>2, <1>4, <3>1, <3>2 DEF Range
<1>7. \A i \in 1 .. size - 1 : c.keys[i] \in Callers(c.keys[i + 1])
  <2> TAKE i \in 1 .. size - 1
  <2>1. size - i \in 1 .. size - 1 /\ i \in 1 .. size /\ i + 1 \in 1 .. size /\ (size - (i + 1)) + 1 = size - i
    BY <1>2
  <2>2. back[(size - i) + 1] \in Callers(back[size - i])
    BY <1>1, <2>1 DEF Walk
  <2>3. QED
    BY <1>3, <2>1, <2>2
<1>8. ASSUME NEW n \in 1 .. MaxDepth - 1, NEW key \in Before(back[1], n) \ {back[1]}, Rank(key) > 0
      PROVE  /\ size > 1
             /\ \/ Rank(key) < Rank(Last(back))
                \/ Rank(key) = Rank(Last(back)) /\ size <= n + 1
  <2>1. back[1] \in Keys
    BY <1>1, CallersAre
  <2>2. n \in Nat /\ n + 1 <= MaxDepth
    BY StartupAssumption
  <2>3. PICK path \in Seq(Keys) : Walk(path) /\ path[1] = back[1] /\ Len(path) = n + 1 /\ Last(path) = key
    BY <2>1, <2>2, BeforeIs
  <2>4. size > 1 /\ AsSure(back, key, n + 1)
    BY <1>1, <1>8, <2>2, <2>3 DEF Best
  <2>5. Rank(key) \in Nat /\ Rank(Last(back)) \in Nat
    BY RankIs
  <2>6. QED
    BY <2>4, <2>5 DEF AsSure
<1>9. size <= Max({1, MaxDepth})
  <2> DEFINE S == {1, MaxDepth}
  <2>1. S \in SUBSET Nat /\ S # {} /\ (1 + MaxDepth) \in Nat /\ \A y \in S : y <= 1 + MaxDepth
    BY StartupAssumption
  <2>2. Max(S) \in S /\ \A y \in S : y <= Max(S)
    <3> HIDE DEF S
    <3>1. QED
      BY <2>1, MaxOf
  <2>3. 1 <= Max(S) /\ MaxDepth <= Max(S) /\ Max(S) \in Nat
    BY <2>2, StartupAssumption
  <2> HIDE DEF S
  <2>4. size <= Max(S)
    BY <1>1, <1>2, <2>3, StartupAssumption
  <2>5. QED
    BY <2>4 DEF S
<1> HIDE DEF size
<1>10. QED
  BY <1>1, <1>3, <1>4, <1>5, <1>6, <1>7, <1>8, <1>9

\* Every path that is kept is made of calls and comes from the surest and, of those,
\* the nearest place within the depth; and no stage that the dex files call is without
\* one (build_bootstrap_chain_evidence).  For every APK and every depth.
THEOREM ChainsHold == StartupSpec => []ChainsAreTheCalls
<1>1. StartupInv => ChainsAreTheCalls
  <2> SUFFICES ASSUME StartupInv, startup \in {"linked", "done"} PROVE ChainsAreTheCalls
    BY DEF ChainsAreTheCalls
  <2>1. \A c \in chains : ChainOK(c)
    BY DEF StartupInv
  <2>2. \A key \in Terminals : OwnStages(key) \subseteq UNION {c.stages : c \in chains}
    BY DEF StartupInv, Reaches
  <2>3. QED
    BY <2>1, <2>2, ChainIs DEF ChainsAreTheCalls
<1>2. StartupInit => StartupInv
  BY StartupInitHolds
<1>3. StartupInv /\ [StartupNext]_startupVars => StartupInv'
  BY StartupNextHolds
<1>4. QED
  BY <1>1, <1>2, <1>3, PTL DEF StartupSpec

\* A run is a start-up analysis and then a pipeline, so that what holds of either
\* holds of it (run_decompile).
THEOREM RunImplements == RunSpec => StartupSpec /\ PipelineSpec
<1>1. RunInit => StartupInit /\ PipelineInit
  BY DEF RunInit
<1>2. [RunNext]_runVars => [StartupNext]_startupVars /\ [PipelineNext]_pipelineVars
  BY DEF RunNext, runVars
<1>3. QED
  BY <1>1, <1>2, PTL DEF RunSpec, StartupSpec, PipelineSpec
=============================================================================
