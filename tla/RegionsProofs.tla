--------------------------- MODULE RegionsProofs ----------------------------
(* Theorems about Regions: what structuring is told about a block graph is   *)
(* what the definitions over paths say, for every graph.                     *)
EXTENDS Regions, FiniteSetTheorems, SequenceTheorems, WellFoundedInduction, TLAPS

-----------------------------------------------------------------------------
(* Induction, and functions that are defined by rounds.                      *)

Less == {p \in Nat \X Nat : p[1] < p[2]}

LEMMA LeastNumber ==
  ASSUME NEW S \in SUBSET Nat, S # {}
  PROVE  \E x \in S : \A y \in S : x <= y
<1>1. Less = OpToRel(<, Nat)
  BY DEF Less, OpToRel
<1>2. IsWellFoundedOn(Less, Nat)
  BY <1>1, NatLessThanWellFounded
<1>3. PICK x \in S : \A y \in S : ~(<<y, x>> \in Less)
  BY <1>2, WFMin
<1>4. \A y \in S : x <= y
  <2> TAKE y \in S
  <2>1. ~(y < x)
    BY <1>3 DEF Less
  <2>2. QED
    BY <2>1
<1>5. QED
  BY <1>4

LEMMA Induction ==
  ASSUME NEW T, 0 \in T, \A n \in Nat : n \in T => n + 1 \in T
  PROVE  \A n \in Nat : n \in T
<1> DEFINE S == {n \in Nat : n \notin T}
<1>1. SUFFICES ASSUME S # {} PROVE FALSE
  OBVIOUS
<1>2. PICK m \in S : \A y \in S : m <= y
  BY <1>1, LeastNumber
<1>3. m \in Nat /\ m # 0
  OBVIOUS
<1>4. m - 1 \in Nat /\ m - 1 \notin S
  BY <1>2, <1>3
<1>5. (m - 1) + 1 \in T
  BY <1>4
<1>6. (m - 1) + 1 = m
  BY <1>3
<1>7. QED
  BY <1>5, <1>6

\* A function that starts with base and goes on by the n-th function of step.
Follows(h, S, base, step) ==
  h \in [Nat -> S] /\ h[0] = base /\ \A n \in Nat : h[n + 1] = step[n + 1][h[n]]

LEMMA Recursion ==
  ASSUME NEW S, NEW base \in S, NEW step \in [Nat -> [S -> S]]
  PROVE  \E h : Follows(h, S, base, step)
<1> DEFINE Begun(n) == {h \in [0 .. n -> S] : /\ h[0] = base
                                              /\ \A k \in 0 .. n : k # n => h[k + 1] = step[k + 1][h[k]]}
           T == {n \in Nat : Begun(n) # {}}
<1>1. 0 \in T
  <2>1. [k \in 0 .. 0 |-> base] \in Begun(0)
    OBVIOUS
  <2>2. QED
    BY <2>1
<1>2. ASSUME NEW n \in Nat, n \in T PROVE n + 1 \in T
  <2>1. PICK h \in Begun(n) : TRUE
    BY <1>2
  <2> DEFINE g == [k \in 0 .. n + 1 |-> IF k <= n THEN h[k] ELSE step[n + 1][h[n]]]
  <2>2. h[n] \in S /\ step[n + 1] \in [S -> S]
    BY <2>1
  <2>3. g \in [0 .. n + 1 -> S]
    <3>1. \A k \in 0 .. n + 1 : k <= n => k \in 0 .. n
      OBVIOUS
    <3>2. QED
      BY <2>1, <2>2, <3>1
  <2>4. g[0] = base
    BY <2>1
  <2>5. ASSUME NEW k \in 0 .. n + 1, k # n + 1 PROVE g[k + 1] = step[k + 1][g[k]]
    <3>1. k \in 0 .. n /\ g[k] = h[k]
      BY <2>5
    <3>2. CASE k = n
      BY <3>1, <3>2
    <3>3. CASE k # n
      BY <2>1, <3>1, <3>3
    <3>4. QED
      BY <3>2, <3>3
  <2>6. g \in Begun(n + 1)
    BY <2>3, <2>4, <2>5
  <2> HIDE DEF Begun, g
  <2>7. QED
    BY <2>6
<1>3. \A n \in Nat : n \in T
  <2> HIDE DEF T
  <2>1. QED
    BY <1>1, <1>2, Induction
<1>4. ASSUME NEW n \in Nat, NEW m \in Nat, n <= m, NEW g \in Begun(n), NEW h \in Begun(m)
      PROVE  \A k \in 0 .. n : g[k] = h[k]
  <2> DEFINE A == {k \in Nat : k <= n => g[k] = h[k]}
  <2>1. 0 \in A
    OBVIOUS
  <2>2. ASSUME NEW k \in Nat, k \in A PROVE k + 1 \in A
    <3>1. SUFFICES ASSUME k + 1 <= n PROVE g[k + 1] = h[k + 1]
      OBVIOUS
    <3>2. k \in 0 .. n /\ k # n /\ k \in 0 .. m /\ k # m
      BY <1>4, <3>1
    <3>3. g[k] = h[k]
      BY <2>2, <3>2
    <3>4. QED
      BY <3>2, <3>3
  <2>3. \A k \in Nat : k \in A
    <3> HIDE DEF A
    <3>1. QED
      BY <2>1, <2>2, Induction
  <2>4. QED
    BY <2>3
<1> DEFINE of(n) == CHOOSE h \in Begun(n) : TRUE
           f == [n \in Nat |-> of(n)[n]]
<1>5. \A n \in Nat : of(n) \in Begun(n)
  BY <1>3
<1> HIDE DEF of
<1>6. f \in [Nat -> S]
  <2>1. \A n \in Nat : of(n)[n] \in S
    BY <1>5
  <2>2. QED
    BY <2>1
<1>7. f[0] = base
  BY <1>5
<1>8. ASSUME NEW n \in Nat PROVE f[n + 1] = step[n + 1][f[n]]
  <2>1. of(n + 1) \in Begun(n + 1) /\ of(n) \in Begun(n)
    BY <1>5
  <2>2. of(n)[n] = of(n + 1)[n]
    <3> HIDE DEF Begun
    <3>1. \A k \in 0 .. n : of(n)[k] = of(n + 1)[k]
      BY <1>4, <2>1
    <3>2. QED
      BY <3>1
  <2>3. of(n + 1)[n + 1] = step[n + 1][of(n + 1)[n]]
    BY <2>1
  <2>4. QED
    BY <2>2, <2>3
<1>9. Follows(f, S, base, step)
  BY <1>6, <1>7, <1>8 DEF Follows
<1>10. QED
  BY <1>9
\* The same function over and over.
Repeats(g, S, base, more) ==
  g \in [Nat -> S] /\ \A n \in Nat : g[n] = IF n = 0 THEN base ELSE more[g[n - 1]]

LEMMA Rounds ==
  ASSUME NEW S, NEW base \in S, NEW more \in [S -> S]
  PROVE  \E g : Repeats(g, S, base, more)
<1> DEFINE go == [n \in Nat |-> more]
<1>1. go \in [Nat -> [S -> S]]
  OBVIOUS
<1>2. PICK g : Follows(g, S, base, go)
  BY <1>1, Recursion
<1>3. ASSUME NEW n \in Nat, n # 0 PROVE g[n] = more[g[n - 1]]
  <2>1. n - 1 \in Nat /\ (n - 1) + 1 = n
    BY <1>3
  <2>2. g[(n - 1) + 1] = go[(n - 1) + 1][g[n - 1]]
    BY <1>2, <2>1 DEF Follows
  <2>3. QED
    BY <2>1, <2>2
<1>4. Repeats(g, S, base, more)
  BY <1>2, <1>3 DEF Follows, Repeats
<1>5. QED
  BY <1>4

-----------------------------------------------------------------------------
(* What is reached: the least set that holds the start and is closed.        *)

\* The rounds of a closure.
ClosureStep(edges, before) == before \union UNION {edges[x] : x \in before}

Closes(step, N, edges, from) ==
  /\ step \in [Nat -> SUBSET N]
  /\ step[0] = from
  /\ \A n \in Nat : step[n + 1] = ClosureStep(edges, step[n])
  /\ Closure(edges, from) = step[Cardinality(N)]

LEMMA ClosureRounds ==
  ASSUME NEW N, IsFiniteSet(N), NEW edges \in [N -> SUBSET N], NEW from \in SUBSET N
  PROVE  \E step : Closes(step, N, edges, from)
<1> DEFINE more == [before \in SUBSET N |-> ClosureStep(edges, before)]
           Eq(g) == g = [n \in Nat |-> IF n = 0 THEN from
                                      ELSE LET before == g[n - 1] IN before \union UNION {edges[x] : x \in before}]
           step == CHOOSE g : Eq(g)
<1>1. more \in [SUBSET N -> SUBSET N]
  BY DEF ClosureStep
<1>2. PICK g : Repeats(g, SUBSET N, from, more)
  BY <1>1, Rounds
<1>3. ASSUME NEW n \in Nat, n # 0 PROVE g[n] = ClosureStep(edges, g[n - 1])
  <2>1. n - 1 \in Nat /\ g[n - 1] \in SUBSET N
    BY <1>2, <1>3 DEF Repeats
  <2>2. g[n] = more[g[n - 1]]
    BY <1>2, <1>3 DEF Repeats
  <2>3. QED
    BY <2>1, <2>2
<1>4. Eq(g)
  BY <1>2, <1>3 DEF ClosureStep, Repeats
<1>5. Eq(step)
  BY <1>4
<1>6. Closure(edges, from) = step[Cardinality(N)]
  BY DEF Closure
<1> HIDE DEF step
<1>7. ASSUME NEW n \in Nat PROVE step[n + 1] = ClosureStep(edges, step[n])
  <2>1. n + 1 \in Nat /\ n + 1 # 0 /\ (n + 1) - 1 = n
    OBVIOUS
  <2>2. step[n + 1] = ClosureStep(edges, step[(n + 1) - 1])
    BY <1>5, <2>1 DEF ClosureStep
  <2>3. QED
    BY <2>1, <2>2
<1>8. step[0] = from
  BY <1>5
<1> HIDE DEF Eq
<1>9. \A n \in Nat : step[n] \in SUBSET N
  <2> DEFINE T == {n \in Nat : step[n] \in SUBSET N}
  <2>1. 0 \in T
    BY <1>8
  <2>2. \A n \in Nat : n \in T => n + 1 \in T
    BY <1>7 DEF ClosureStep
  <2>3. \A n \in Nat : n \in T
    <3> HIDE DEF T
    <3>1. QED
      BY <2>1, <2>2, Induction
  <2>4. QED
    BY <2>3
<1>10. step \in [Nat -> SUBSET N]
  <2>1. step = [n \in Nat |-> step[n]]
    BY <1>5 DEF Eq
  <2>2. QED
    BY <1>9, <2>1
<1>11. Closes(step, N, edges, from)
  BY <1>6, <1>7, <1>8, <1>10 DEF Closes
<1>12. QED
  BY <1>11

LEMMA ClosureIs ==
  ASSUME NEW N, IsFiniteSet(N), NEW edges \in [N -> SUBSET N], NEW from \in SUBSET N
  PROVE  /\ from \subseteq Closure(edges, from) /\ Closure(edges, from) \subseteq N
         /\ \A x \in Closure(edges, from) : edges[x] \subseteq Closure(edges, from)
         /\ \A T : from \subseteq T /\ (\A x \in T \cap N : edges[x] \subseteq T)
                     => Closure(edges, from) \subseteq T
<1> DEFINE more(before) == ClosureStep(edges, before)
           c == Cardinality(N)
<1>1. \A before \in SUBSET N : more(before) \in SUBSET N /\ before \subseteq more(before)
  BY DEF ClosureStep
<1>2. PICK step : Closes(step, N, edges, from)
  BY ClosureRounds
<1>4. Closure(edges, from) = step[c]
  BY <1>2 DEF Closes
<1>5. step[0] = from /\ \A n \in Nat : step[n + 1] = more(step[n])
  BY <1>2 DEF Closes
<1> HIDE DEF more
<1>6. \A n \in Nat : step[n] \in SUBSET N
  BY <1>2 DEF Closes
<1>7. \A n \in Nat : step[n] \subseteq step[n + 1]
  BY <1>1, <1>5, <1>6
<1>8. c \in Nat
  BY FS_CardinalityType
<1>9. ASSUME NEW k \in Nat, step[k + 1] = step[k] PROVE \A n \in Nat : n >= k => step[n] = step[k]
  <2> DEFINE T == {n \in Nat : n >= k => step[n] = step[k]}
  <2>1. 0 \in T
    OBVIOUS
  <2>2. ASSUME NEW n \in Nat, n \in T PROVE n + 1 \in T
    <3>1. SUFFICES ASSUME n + 1 >= k PROVE step[n + 1] = step[k]
      OBVIOUS
    <3>2. CASE n + 1 = k
      BY <3>2
    <3>3. CASE n + 1 # k
      <4>1. n >= k
        BY <3>1, <3>3
      <4>2. step[n] = step[k]
        BY <2>2, <4>1
      <4>3. QED
        BY <1>5, <1>9, <4>2
    <3>4. QED
      BY <3>2, <3>3
  <2>3. \A n \in Nat : n \in T
    <3> HIDE DEF T
    <3>1. QED
      BY <2>1, <2>2, Induction
  <2>4. QED
    BY <2>3
<1>10. \E k \in 0 .. c : step[k + 1] = step[k]
  <2>1. SUFFICES ASSUME \A k \in 0 .. c : step[k + 1] # step[k] PROVE FALSE
    OBVIOUS
  <2> DEFINE T == {n \in Nat : n <= c => Cardinality(step[n]) >= n + 1}
  <2>2. ASSUME NEW n \in Nat PROVE IsFiniteSet(step[n]) /\ Cardinality(step[n]) \in Nat /\ Cardinality(step[n]) <= c
    BY <1>6, FS_Subset, FS_CardinalityType
  <2>3. 0 \in T
    <3>1. step[1] # step[0]
      <4>1. step[0 + 1] # step[0]
        BY <1>8, <2>1
      <4>2. QED
        BY <4>1
    <3>2. step[0] # {}
      <4>1. SUFFICES ASSUME step[0] = {} PROVE FALSE
        OBVIOUS
      <4>2. step[0 + 1] = more(step[0])
        BY <1>5
      <4>3. step[0 + 1] = {}
        BY <4>1, <4>2 DEF more, ClosureStep
      <4>4. QED
        BY <3>1, <4>1, <4>3
    <3>3. Cardinality(step[0]) # 0
      BY <2>2, <3>2, FS_EmptySet
    <3>4. Cardinality(step[0]) >= 1
      BY <2>2, <3>3
    <3>5. QED
      BY <3>4
  <2>4. ASSUME NEW n \in Nat, n \in T PROVE n + 1 \in T
    <3>1. SUFFICES ASSUME n + 1 <= c PROVE Cardinality(step[n + 1]) >= n + 2
      OBVIOUS
    <3>2. n \in 0 .. c /\ Cardinality(step[n]) >= n + 1
      BY <1>8, <2>4, <3>1
    <3>3. step[n] \subseteq step[n + 1] /\ step[n + 1] # step[n]
      BY <1>7, <2>1, <3>2
    <3>4. Cardinality(step[n]) < Cardinality(step[n + 1])
      <4>1. IsFiniteSet(step[n + 1]) /\ Cardinality(step[n + 1]) \in Nat /\ Cardinality(step[n]) \in Nat
        BY <2>2
      <4>2. Cardinality(step[n]) <= Cardinality(step[n + 1])
            /\ (Cardinality(step[n]) = Cardinality(step[n + 1]) => step[n] = step[n + 1])
        BY <3>3, <4>1, FS_Subset
      <4>3. QED
        BY <3>3, <4>1, <4>2
    <3>5. QED
      BY <2>2, <3>2, <3>4
  <2>5. \A n \in Nat : n \in T
    <3> HIDE DEF T
    <3>1. QED
      BY <2>3, <2>4, Induction
  <2>6. Cardinality(step[c]) >= c + 1
    BY <1>8, <2>5
  <2>7. QED
    BY <1>8, <2>2, <2>6
<1>11. more(step[c]) = step[c]
  <2>1. PICK k \in 0 .. c : step[k + 1] = step[k]
    BY <1>10
  <2>2. step[c] = step[k] /\ step[c + 1] = step[k]
    BY <1>8, <1>9, <2>1
  <2>3. QED
    BY <1>5, <1>8, <2>2
<1>12. from \subseteq step[c]
  <2> DEFINE T == {n \in Nat : from \subseteq step[n]}
  <2>1. 0 \in T /\ \A n \in Nat : n \in T => n + 1 \in T
    BY <1>5, <1>7
  <2>2. \A n \in Nat : n \in T
    <3> HIDE DEF T
    <3>1. QED
      BY <2>1, Induction
  <2>3. QED
    BY <1>8, <2>2
<1>13. ASSUME NEW T, from \subseteq T, \A x \in T \cap N : edges[x] \subseteq T
       PROVE  step[c] \subseteq T
  <2> DEFINE A == {n \in Nat : step[n] \subseteq T}
  <2>1. 0 \in A
    BY <1>5, <1>13
  <2>2. ASSUME NEW n \in Nat, n \in A PROVE n + 1 \in A
    <3>1. more(step[n]) \subseteq T
      BY <1>6, <1>13, <2>2 DEF more, ClosureStep
    <3>2. QED
      BY <1>5, <3>1
  <2>3. \A n \in Nat : n \in A
    <3> HIDE DEF A
    <3>1. QED
      BY <2>1, <2>2, Induction
  <2>4. QED
    BY <1>8, <2>3
<1>14. \A x \in step[c] : edges[x] \subseteq step[c]
  BY <1>11 DEF more, ClosureStep
<1>15. step[c] \subseteq N
  BY <1>6, <1>8
<1> HIDE DEF c
<1>16. QED
  BY <1>4, <1>12, <1>13, <1>14, <1>15

-----------------------------------------------------------------------------
(* The dominance fixpoints, against what is reached on paths that avoid a     *)
(* block: one narrows as the other grows, round by round.                    *)

Everything(N, fixed) == [b \in N |-> IF b \in fixed THEN {b} ELSE N]

Narrows(round, N, from, fixed) ==
  /\ round \in [Nat -> [N -> SUBSET N]]
  /\ round[0] = Everything(N, fixed)
  /\ \A n \in Nat : round[n + 1] = Narrower(round[n], from, fixed)
  /\ Narrow(Everything(N, fixed), from, fixed) = round[Cardinality(N)]

LEMMA NarrowRounds ==
  ASSUME NEW N, NEW from \in [N -> SUBSET N], NEW fixed \in SUBSET N
  PROVE  \E round : Narrows(round, N, from, fixed)
<1> DEFINE S == [N -> SUBSET N]
           sets == Everything(N, fixed)
           more == [before \in S |-> Narrower(before, from, fixed)]
           Eq(g) == g = [n \in Nat |-> IF n = 0 THEN sets ELSE Narrower(g[n - 1], from, fixed)]
           round == CHOOSE g : Eq(g)
<1>1. sets \in S /\ DOMAIN sets = N
  BY DEF Everything
<1>2. more \in [S -> S]
  BY DEF Narrower
<1> HIDE DEF sets
<1>3. PICK g : Repeats(g, S, sets, more)
  <2> HIDE DEF S, more
  <2>1. QED
    BY <1>1, <1>2, Rounds
<1>4. ASSUME NEW n \in Nat, n # 0 PROVE g[n] = Narrower(g[n - 1], from, fixed)
  <2> HIDE DEF S
  <2>1. n - 1 \in Nat /\ g[n - 1] \in S
    BY <1>3, <1>4 DEF Repeats
  <2>2. g[n] = more[g[n - 1]]
    BY <1>3, <1>4 DEF Repeats
  <2>3. QED
    BY <2>1, <2>2
<1>5. Eq(g)
  BY <1>3, <1>4 DEF Repeats
<1>6. Eq(round)
  BY <1>5
<1>7. Narrow(sets, from, fixed) = round[Cardinality(N)]
  BY <1>1 DEF Narrow
<1> HIDE DEF round
<1>8. ASSUME NEW n \in Nat PROVE round[n + 1] = Narrower(round[n], from, fixed)
  <2>1. n + 1 \in Nat /\ n + 1 # 0 /\ (n + 1) - 1 = n
    OBVIOUS
  <2>2. round[n + 1] = Narrower(round[(n + 1) - 1], from, fixed)
    BY <1>6, <2>1
  <2>3. QED
    BY <2>1, <2>2
<1>9. round[0] = sets
  BY <1>6
<1>10. \A n \in Nat : round[n] \in S
  <2> DEFINE T == {n \in Nat : round[n] \in S}
  <2> HIDE DEF Eq
  <2>1. 0 \in T
    BY <1>1, <1>9
  <2>2. ASSUME NEW n \in Nat, n \in T PROVE n + 1 \in T
    <3>1. round[n] \in [N -> SUBSET N]
      BY <2>2
    <3>2. Narrower(round[n], from, fixed) \in [N -> SUBSET N]
      BY <3>1 DEF Narrower
    <3>3. QED
      BY <1>8, <3>2
  <2>3. \A n \in Nat : n \in T
    <3> HIDE DEF T
    <3>1. QED
      BY <2>1, <2>2, Induction
  <2>4. QED
    BY <2>3
<1>11. round \in [Nat -> S]
  <2> HIDE DEF S
  <2>1. round = [n \in Nat |-> round[n]]
    BY <1>6
  <2> HIDE DEF Eq
  <2>2. QED
    BY <1>10, <2>1
<1>12. Narrows(round, N, from, fixed)
  BY <1>7, <1>8, <1>9, <1>11 DEF Narrows, sets
<1>13. QED
  BY <1>12

\* d is in the set of b if no path from a fixed block leads to b past d.
LEMMA NarrowIs ==
  ASSUME NEW N, IsFiniteSet(N), NEW from \in [N -> SUBSET N], NEW fixed \in SUBSET N
  PROVE  LET dom == Narrow(Everything(N, fixed), from, fixed)
         IN  /\ dom \in [N -> SUBSET N]
             /\ \A b, d \in N :
                  d \in dom[b] <=> b \notin Closure(Avoiding(Inverted(from), {d}), fixed \ {d})
<1> DEFINE c == Cardinality(N)
<1>1. PICK round : Narrows(round, N, from, fixed)
  BY NarrowRounds
<1>2. c \in Nat
  BY FS_CardinalityType
<1>3. ASSUME NEW d \in N
      PROVE  \A b \in N : d \in round[c][b] <=> b \notin Closure(Avoiding(Inverted(from), {d}), fixed \ {d})
  <2> DEFINE edges == Avoiding(Inverted(from), {d})
  <2>1. edges \in [N -> SUBSET N] /\ \A x, b \in N : b \in edges[x] <=> b # d /\ x \in from[b]
    BY DEF Avoiding, Inverted
  <2>2. PICK step : Closes(step, N, edges, fixed \ {d})
    <3> HIDE DEF edges
    <3>1. fixed \ {d} \in SUBSET N
      OBVIOUS
    <3>2. QED
      BY <2>1, <3>1, ClosureRounds
  <2> HIDE DEF edges
  <2> DEFINE T == {n \in Nat : /\ \A b \in N : d \in round[n][b] <=> b \notin step[n]
                               /\ fixed \ {d} \subseteq step[n]}
  <2>3. 0 \in T
    BY <1>1, <2>2 DEF Narrows, Closes, Everything
  <2>4. ASSUME NEW n \in Nat, n \in T PROVE n + 1 \in T
    <3>1. /\ round[n] \in [N -> SUBSET N] /\ step[n] \in SUBSET N
          /\ round[n + 1] = Narrower(round[n], from, fixed)
          /\ step[n + 1] = step[n] \union UNION {edges[x] : x \in step[n]}
      BY <1>1, <2>2 DEF Narrows, Closes, ClosureStep
    <3>2. ASSUME NEW b \in N
          PROVE  b \in step[n + 1] <=> b \in step[n] \/ (b # d /\ \E x \in from[b] : x \in step[n])
      BY <2>1, <3>1
    <3>3. ASSUME NEW b \in N PROVE d \in round[n + 1][b] <=> b \notin step[n + 1]
      <4>1. CASE b \in fixed
        <5>1. round[n + 1][b] = round[n][b]
          BY <3>1, <4>1 DEF Narrower
        <5>2. b # d => b \in step[n]
          BY <2>4, <4>1
        <5>3. QED
          BY <2>4, <3>2, <5>1, <5>2
      <4>2. CASE b \notin fixed
        <5>1. round[n + 1][b] = {b} \union {x \in round[n][b] : \A p \in from[b] : x \in round[n][p]}
          BY <3>1, <4>2 DEF Narrower
        <5>2. \A p \in from[b] : d \in round[n][p] <=> p \notin step[n]
          BY <2>4
        <5>3. b = d => b \notin step[n]
          <6>1. ASSUME b = d PROVE d \in round[n][d]
            <7> DEFINE R == {m \in Nat : d \in round[m][d]}
            <7>1. 0 \in R
              BY <1>1 DEF Narrows, Everything
            <7>2. ASSUME NEW m \in Nat, m \in R PROVE m + 1 \in R
              <8>1. round[m] \in [N -> SUBSET N] /\ round[m + 1] = Narrower(round[m], from, fixed)
                BY <1>1 DEF Narrows
              <8>2. QED
                BY <7>2, <8>1 DEF Narrower
            <7>3. \A m \in Nat : m \in R
              <8> HIDE DEF R
              <8>1. QED
                BY <7>1, <7>2, Induction
            <7>4. QED
              BY <7>3
          <6>2. QED
            BY <2>4, <6>1
        <5>4. QED
          BY <2>4, <3>2, <5>1, <5>2, <5>3
      <4>3. QED
        BY <4>1, <4>2
    <3>4. fixed \ {d} \subseteq step[n + 1]
      BY <2>4, <3>1
    <3>5. QED
      BY <3>3, <3>4
  <2>5. \A n \in Nat : n \in T
    <3> HIDE DEF T
    <3>1. QED
      BY <2>3, <2>4, Induction
  <2>6. \A b \in N : d \in round[c][b] <=> b \notin step[c]
    BY <1>2, <2>5
  <2>7. QED
    BY <2>2, <2>6 DEF Closes, edges
<1>4. Narrow(Everything(N, fixed), from, fixed) = round[c] /\ round[c] \in [N -> SUBSET N]
  BY <1>1, <1>2 DEF Narrows
<1>5. QED
  BY <1>3, <1>4

-----------------------------------------------------------------------------
(* Closures that avoid a block, and closures of closures.                    *)

\* The least set that holds from and goes along all edges but those to d.
LeastPast(past, N, edges, from, d) ==
  /\ from \subseteq past /\ past \subseteq N
  /\ \A x \in past : \A y \in edges[x] : y # d => y \in past
  /\ \A T : from \subseteq T /\ (\A x \in T \cap N : \A y \in edges[x] : y # d => y \in T)
              => past \subseteq T
  /\ d \notin from => d \notin past

LEMMA AvoidIs ==
  ASSUME NEW N, IsFiniteSet(N), NEW edges \in [N -> SUBSET N], NEW from \in SUBSET N, NEW d
  PROVE  LeastPast(Closure(Avoiding(edges, {d}), from), N, edges, from, d)
<1> DEFINE step == Avoiding(edges, {d})
           past == Closure(step, from)
<1>1. step \in [N -> SUBSET N] /\ \A x \in N : step[x] = edges[x] \ {d}
  BY DEF Avoiding
<1> HIDE DEF step
<1>2. /\ from \subseteq past /\ past \subseteq N
      /\ \A x \in past : step[x] \subseteq past
      /\ \A T : from \subseteq T /\ (\A x \in T \cap N : step[x] \subseteq T) => past \subseteq T
  BY <1>1, ClosureIs
<1> HIDE DEF past
<1>3. \A x \in past : \A y \in edges[x] : y # d => y \in past
  BY <1>1, <1>2
<1>4. ASSUME NEW T, from \subseteq T, \A x \in T \cap N : \A y \in edges[x] : y # d => y \in T
      PROVE  past \subseteq T
  <2>1. \A x \in T \cap N : step[x] \subseteq T
    BY <1>1, <1>4
  <2>2. QED
    BY <1>2, <1>4, <2>1
<1>5. ASSUME d \notin from PROVE d \notin past
  <2>1. from \subseteq N \ {d}
    BY <1>5
  <2>2. \A x \in (N \ {d}) \cap N : step[x] \subseteq N \ {d}
    BY <1>1
  <2>3. past \subseteq N \ {d}
    BY <1>2, <2>1, <2>2
  <2>4. QED
    BY <2>3
<1>6. QED
  BY <1>2, <1>3, <1>4, <1>5 DEF past, step, LeastPast

\* What is reached from what is reached is reached.
\* ClosureIs as one predicate, for where its parts are long.
LeastClosed(set, N, edges, from) ==
  /\ from \subseteq set /\ set \subseteq N
  /\ \A x \in set : edges[x] \subseteq set
  /\ \A T : from \subseteq T /\ (\A x \in T \cap N : edges[x] \subseteq T) => set \subseteq T

LEMMA ClosureLeast ==
  ASSUME NEW N, IsFiniteSet(N), NEW edges \in [N -> SUBSET N], NEW from \in SUBSET N
  PROVE  LeastClosed(Closure(edges, from), N, edges, from)
<1> DEFINE set == Closure(edges, from)
<1>1. /\ from \subseteq set /\ set \subseteq N
      /\ \A x \in set : edges[x] \subseteq set
      /\ \A T : from \subseteq T /\ (\A x \in T \cap N : edges[x] \subseteq T) => set \subseteq T
  BY ClosureIs
<1> HIDE DEF set
<1>2. LeastClosed(set, N, edges, from)
  BY <1>1, Zenon DEF LeastClosed
<1>3. QED
  BY <1>2 DEF set

LEMMA ClosureWithin ==
  ASSUME NEW N, IsFiniteSet(N), NEW edges \in [N -> SUBSET N], NEW from \in SUBSET N,
         NEW more \in SUBSET N, more \subseteq Closure(edges, from)
  PROVE  Closure(edges, more) \subseteq Closure(edges, from)
<1> DEFINE T == Closure(edges, from)
<1>1. \A x \in T \cap N : edges[x] \subseteq T
  BY ClosureIs
<1> HIDE DEF T
<1>2. more \subseteq T
  BY DEF T
<1>3. Closure(edges, more) \subseteq T
  BY <1>1, <1>2, ClosureIs
<1>4. QED
  BY <1>3 DEF T

LEMMA AvoidWithin ==
  ASSUME NEW N, IsFiniteSet(N), NEW edges \in [N -> SUBSET N], NEW from \in SUBSET N, NEW d,
         NEW x \in Closure(Avoiding(edges, {d}), from)
  PROVE  Closure(Avoiding(edges, {d}), {x}) \subseteq Closure(Avoiding(edges, {d}), from)
<1> DEFINE step == Avoiding(edges, {d})
<1>1. step \in [N -> SUBSET N]
  BY DEF Avoiding
<1> HIDE DEF step
<1>2. Closure(step, from) \subseteq N
  BY <1>1, ClosureIs
<1>3. {x} \in SUBSET N /\ {x} \subseteq Closure(step, from)
  BY <1>2 DEF step
<1>4. Closure(step, {x}) \subseteq Closure(step, from)
  BY <1>1, <1>3, ClosureWithin
<1>5. QED
  BY <1>4 DEF step

-----------------------------------------------------------------------------
(* Dominators.                                                               *)

\* The blocks that the entry reaches, and their edges.
FlowOK(N, succs) ==
  /\ IsFiniteSet(N) /\ N \subseteq Nat /\ 0 \in N
  /\ succs \in [N -> SUBSET N]
  /\ N = Closure(succs, {0})

LEMMA InvertedIs ==
  ASSUME NEW N, NEW succs \in [N -> SUBSET N]
  PROVE  /\ Inverted(succs) \in [N -> SUBSET N]
         /\ \A p, b \in N : p \in Inverted(succs)[b] <=> b \in succs[p]
         /\ Inverted(Inverted(succs)) = succs
<1> DEFINE preds == Inverted(succs)
<1>1. preds = [b \in N |-> {p \in N : b \in succs[p]}]
  BY DEF Inverted
<1>2. Inverted(preds) = [b \in N |-> {p \in N : b \in preds[p]}]
  BY <1>1 DEF Inverted
<1>3. \A b \in N : {p \in N : b \in preds[p]} = succs[b]
  BY <1>1
<1>4. Inverted(preds) = succs
  <2> HIDE DEF preds
  <2>1. QED
    BY <1>2, <1>3
<1>5. QED
  BY <1>1, <1>4

LEMMA DomIs ==
  ASSUME NEW N, NEW succs, FlowOK(N, succs)
  PROVE  LET dom == Dominators(N, Inverted(succs))
         IN  /\ dom \in [N -> SUBSET N]
             /\ \A b, d \in N : d \in dom[b] <=> b \notin Closure(Avoiding(succs, {d}), {0} \ {d})
<1> DEFINE preds == Inverted(succs)
           dom == Dominators(N, preds)
<1>1. preds \in [N -> SUBSET N] /\ Inverted(preds) = succs
  BY InvertedIs DEF FlowOK
<1> HIDE DEF preds
<1>2. dom = Narrow(Everything(N, {0}), preds, {0})
  <2>1. [b \in N |-> IF b = 0 THEN {0} ELSE N] = Everything(N, {0})
    BY DEF Everything
  <2>2. QED
    BY <2>1 DEF Dominators
<1> HIDE DEF dom
<1>3. IsFiniteSet(N) /\ {0} \in SUBSET N
  BY DEF FlowOK
<1>4. /\ dom \in [N -> SUBSET N]
      /\ \A b, d \in N : d \in dom[b] <=> b \notin Closure(Avoiding(Inverted(preds), {d}), {0} \ {d})
  BY <1>1, <1>2, <1>3, NarrowIs
<1>5. QED
  BY <1>1, <1>4 DEF preds, dom

\* A dominator of a block is that block or dominates all it is entered from; each block
\* dominates itself, and only the entry the entry.
LEMMA DomSteps ==
  ASSUME NEW N, NEW succs, FlowOK(N, succs)
  PROVE  LET dom == Dominators(N, Inverted(succs))
         IN  /\ \A b \in N : b \in dom[b]
             /\ \A d \in N : d \in dom[0] => d = 0
             /\ \A b, d \in N : \A c \in succs[b] : d \in dom[c] /\ c # d => d \in dom[b]
<1> DEFINE dom == Dominators(N, Inverted(succs))
           past(d) == Closure(Avoiding(succs, {d}), {0} \ {d})
<1>1. dom \in [N -> SUBSET N] /\ \A b, d \in N : d \in dom[b] <=> b \notin past(d)
  BY DomIs
<1>2. ASSUME NEW d \in N
      PROVE  /\ {0} \ {d} \subseteq past(d) /\ past(d) \subseteq N
             /\ \A x \in past(d) : \A y \in succs[x] : y # d => y \in past(d)
             /\ d \notin past(d)
  <2>1. IsFiniteSet(N) /\ succs \in [N -> SUBSET N] /\ {0} \ {d} \in SUBSET N /\ d \notin {0} \ {d}
    BY DEF FlowOK
  <2>2. LeastPast(past(d), N, succs, {0} \ {d}, d)
    BY <2>1, AvoidIs
  <2> HIDE DEF past
  <2>3. QED
    BY <2>1, <2>2 DEF LeastPast
<1> HIDE DEF dom, past
<1>3. \A b \in N : b \in dom[b]
  BY <1>1, <1>2
<1>4. \A d \in N : d \in dom[0] => d = 0
  BY <1>1, <1>2 DEF FlowOK
<1>5. ASSUME NEW b \in N, NEW d \in N, NEW c \in succs[b], d \in dom[c], c # d PROVE d \in dom[b]
  BY <1>1, <1>2, <1>5 DEF FlowOK
<1>6. QED
  BY <1>3, <1>4, <1>5 DEF dom

DominatorsAre(N, succs, dom) ==
  \A b \in N : dom[b] = {d \in N : OnEveryPath(succs, d, 0, {b})}

LEMMA DominatorsHold ==
  ASSUME NEW N, NEW succs, FlowOK(N, succs)
  PROVE  DominatorsAre(N, succs, Dominators(N, Inverted(succs)))
<1> DEFINE dom == Dominators(N, Inverted(succs))
<1>1. dom \in [N -> SUBSET N]
      /\ \A b, d \in N : d \in dom[b] <=> b \notin Closure(Avoiding(succs, {d}), {0} \ {d})
  BY DomIs
<1>2. 0 \in N /\ succs \in [N -> SUBSET N] /\ IsFiniteSet(N)
  BY DEF FlowOK
<1> HIDE DEF dom
<1>3. ASSUME NEW b \in N, NEW d \in N PROVE d \in dom[b] <=> OnEveryPath(succs, d, 0, {b})
  <2>1. CASE d = 0
    <3>1. Closure(Avoiding(succs, {0}), {}) \subseteq {}
      <4>1. {} \in SUBSET N
        OBVIOUS
      <4> DEFINE past == Closure(Avoiding(succs, {0}), {})
      <4>2. LeastPast(past, N, succs, {}, 0)
        BY <1>2, <4>1, AvoidIs
      <4> HIDE DEF past
      <4> DEFINE T == {x \in N : FALSE}
      <4>3. {} \subseteq T /\ \A x \in T \cap N : \A y \in succs[x] : y # 0 => y \in T
        OBVIOUS
      <4> HIDE DEF T
      <4>4. past \subseteq T
        BY <4>2, <4>3 DEF LeastPast
      <4>5. QED
        BY <4>4 DEF past, T
    <3>2. {0} \ {d} = {}
      BY <2>1
    <3>3. QED
      BY <1>1, <2>1, <3>1, <3>2 DEF OnEveryPath
  <2>2. CASE d # 0
    <3>1. {0} \ {d} = {0}
      BY <2>2
    <3>2. QED
      BY <1>1, <2>2, <3>1 DEF OnEveryPath
  <2>3. QED
    BY <2>1, <2>2
<1>4. QED
  BY <1>1, <1>3 DEF dom, DominatorsAre

-----------------------------------------------------------------------------
(* Post-dominators, and the block that follows another.                      *)

Exits(N, succs) == {b \in N : succs[b] = {}}

\* A way on from b past p that ends at an exit is one back from an exit past p.
LEMMA WayBack ==
  ASSUME NEW N, IsFiniteSet(N), NEW succs \in [N -> SUBSET N], NEW ends \in SUBSET N,
         NEW b \in N, NEW p \in N, b # p
  PROVE  ends \cap Closure(Avoiding(succs, {p}), {b}) # {}
           <=> b \in Closure(Avoiding(Inverted(succs), {p}), ends \ {p})
<1> DEFINE preds == Inverted(succs)
           on(x) == Closure(Avoiding(succs, {p}), {x})
           back == Closure(Avoiding(preds, {p}), ends \ {p})
<1>1. preds \in [N -> SUBSET N] /\ \A x, y \in N : x \in preds[y] <=> y \in succs[x]
  BY InvertedIs
<1> HIDE DEF preds
<1>2. \A x \in N : LeastPast(on(x), N, succs, {x}, p)
  BY AvoidIs
<1>3. LeastPast(back, N, preds, ends \ {p}, p)
  BY <1>1, AvoidIs
<1>4. \A x \in N : \A y \in on(x) : on(y) \subseteq on(x)
  BY AvoidWithin
<1> HIDE DEF on, back
<1>5. ASSUME b \notin back PROVE ends \cap on(b) = {}
  <2> DEFINE T == {x \in N : x # p /\ x \notin back}
  <2>1. {b} \subseteq T
    BY <1>5
  <2>2. ASSUME NEW x \in T \cap N, NEW y \in succs[x], y # p PROVE y \in T
    <3>1. y \in N /\ x \in preds[y] /\ x # p
      BY <1>1, <2>2
    <3>2. y \notin back
      BY <1>3, <2>2, <3>1 DEF LeastPast
    <3>3. QED
      BY <2>2, <3>1, <3>2
  <2>3. on(b) \subseteq T
    <3> HIDE DEF T
    <3>1. QED
      BY <1>2, <2>1, <2>2 DEF LeastPast
  <2>4. ends \cap T = {}
    BY <1>3 DEF LeastPast
  <2>5. QED
    BY <2>3, <2>4
<1>6. ASSUME b \in back PROVE ends \cap on(b) # {}
  <2> DEFINE T == {x \in N : x # p /\ ends \cap on(x) # {}}
  <2>1. ends \ {p} \subseteq T
    BY <1>2 DEF LeastPast
  <2>2. ASSUME NEW x \in T \cap N, NEW y \in preds[x], y # p PROVE y \in T
    <3>1. y \in N /\ x \in succs[y] /\ x # p
      BY <1>1, <2>2
    <3>2. x \in on(y)
      BY <1>2, <3>1 DEF LeastPast
    <3>3. on(x) \subseteq on(y)
      BY <1>4, <3>1, <3>2
    <3>4. QED
      BY <2>2, <3>1, <3>3
  <2>3. QED
    <3> HIDE DEF T
    <3>1. back \subseteq T
      BY <1>3, <2>1, <2>2 DEF LeastPast
    <3>2. QED
      BY <1>6, <3>1 DEF T
<1>7. QED
  BY <1>5, <1>6 DEF on, back, preds


LEMMA PdomIs ==
  ASSUME NEW N, IsFiniteSet(N), NEW succs \in [N -> SUBSET N]
  PROVE  LET pdom == PostDominators(N, succs)
         IN  /\ pdom \in [N -> SUBSET N]
             /\ \A b, p \in N : p \in pdom[b] <=> OnEveryPath(succs, p, b, Exits(N, succs))
             /\ \A b, p \in N :
                  p \in pdom[b]
                    <=> b \notin Closure(Avoiding(Inverted(succs), {p}), Exits(N, succs) \ {p})
<1> DEFINE ends == Exits(N, succs)
           preds == Inverted(succs)
           pdom == PostDominators(N, succs)
           back(p) == Closure(Avoiding(preds, {p}), ends \ {p})
<1>1. ends \in SUBSET N
  BY DEF Exits
<1>2. pdom = Narrow(Everything(N, ends), succs, ends)
  BY DEF PostDominators, Everything, Exits
<1> HIDE DEF pdom, ends
<1>3. /\ pdom \in [N -> SUBSET N]
      /\ \A b, p \in N : p \in pdom[b] <=> b \notin back(p)
  BY <1>1, <1>2, NarrowIs
<1>4. preds \in [N -> SUBSET N]
  BY InvertedIs
<1>5. ASSUME NEW b \in N, NEW p \in N PROVE p \in pdom[b] <=> OnEveryPath(succs, p, b, ends)
  <2>1. CASE b = p
    <3>1. ends \ {p} \in SUBSET N
      BY <1>1
    <3>2. LeastPast(back(p), N, preds, ends \ {p}, p)
      <4> HIDE DEF preds
      <4>1. QED
        BY <1>4, <3>1, AvoidIs
    <3>3. p \notin back(p)
      BY <3>2 DEF LeastPast
    <3>4. QED
      BY <1>3, <2>1, <3>3 DEF OnEveryPath
  <2>2. CASE b # p
    <3>1. ends \cap Closure(Avoiding(succs, {p}), {b}) # {} <=> b \in back(p)
      BY <1>1, <2>2, WayBack
    <3>2. QED
      BY <1>3, <2>2, <3>1 DEF OnEveryPath
  <2>3. QED
    BY <2>1, <2>2
<1>6. QED
  BY <1>3, <1>5 DEF pdom, ends

\* Of two blocks on every way out of a block that has one, each way out of one
\* passes the other, or the other way round.
LEMMA PdomChain ==
  ASSUME NEW N, IsFiniteSet(N), NEW succs \in [N -> SUBSET N], NEW ends \in SUBSET N,
         NEW b \in N, ends \cap Closure(succs, {b}) # {},
         NEW p \in N \ {b}, NEW q \in N \ {b}, p # q,
         OnEveryPath(succs, p, b, ends), OnEveryPath(succs, q, b, ends)
  PROVE  OnEveryPath(succs, p, q, ends) \/ OnEveryPath(succs, q, p, ends)
<1> DEFINE on(x, d) == Closure(Avoiding(succs, {d}), {x})
<1>1. SUFFICES ASSUME ends \cap on(q, p) # {}, ends \cap on(p, q) # {} PROVE FALSE
  BY DEF OnEveryPath
<1>2. ends \cap on(b, p) = {} /\ ends \cap on(b, q) = {}
  BY DEF OnEveryPath
<1>3. \A x, d \in N : LeastPast(on(x, d), N, succs, {x}, d)
  BY AvoidIs
<1>4. ASSUME NEW x \in N, NEW d \in N, NEW y \in on(x, d) PROVE on(y, d) \subseteq on(x, d)
  <2>1. {x} \in SUBSET N
    OBVIOUS
  <2>2. QED
    BY <2>1, AvoidWithin
<1>5. /\ b \in Closure(succs, {b})
      /\ \A T : {b} \subseteq T /\ (\A x \in T \cap N : succs[x] \subseteq T) => Closure(succs, {b}) \subseteq T
  <2>1. {b} \in SUBSET N
    OBVIOUS
  <2>2. QED
    BY <2>1, ClosureIs
<1> HIDE DEF on
<1> DEFINE T == on(b, p) \cap on(b, q)
<1>6. {b} \subseteq T
  BY <1>3 DEF LeastPast
<1>7. ~(\A x \in T \cap N : succs[x] \subseteq T)
  <2>1. SUFFICES ASSUME \A x \in T \cap N : succs[x] \subseteq T PROVE FALSE
    OBVIOUS
  <2>2. Closure(succs, {b}) \subseteq T
    <3> HIDE DEF T
    <3>1. QED
      BY <1>5, <1>6, <2>1
  <2>3. QED
    BY <1>2, <2>2
<1>8. PICK x \in T \cap N : ~(succs[x] \subseteq T)
  BY <1>7
<1> HIDE DEF T
<1>9. PICK y \in succs[x] : y \notin T
  BY <1>8
<1> USE DEF T
<1>10. y \in N /\ (y # p => y \in on(b, p)) /\ (y # q => y \in on(b, q))
  BY <1>3, <1>8, <1>9 DEF LeastPast
<1>11. CASE y = p
  <2>1. p \in on(b, q)
    BY <1>10, <1>11
  <2>2. on(p, q) \subseteq on(b, q)
    BY <1>4, <2>1
  <2>3. QED
    BY <1>1, <1>2, <2>2
<1>12. CASE y = q
  <2>1. q \in on(b, p)
    BY <1>10, <1>12
  <2>2. on(q, p) \subseteq on(b, p)
    BY <1>4, <2>1
  <2>3. QED
    BY <1>1, <1>2, <2>2
<1>13. QED
  BY <1>9, <1>10, <1>11, <1>12

\* What every way out of a post-dominator passes, every way out of what it
\* post-dominates passes.
LEMMA PdomWithin ==
  ASSUME NEW N, IsFiniteSet(N), NEW succs \in [N -> SUBSET N], NEW p \in N, NEW q \in N,
         q \in PostDominators(N, succs)[p]
  PROVE  PostDominators(N, succs)[q] \subseteq PostDominators(N, succs)[p]
<1> DEFINE ends == Exits(N, succs)
           preds == Inverted(succs)
           pdom == PostDominators(N, succs)
           back(x) == Closure(Avoiding(preds, {x}), ends \ {x})
<1>1. /\ pdom \in [N -> SUBSET N]
      /\ \A b, x \in N : x \in pdom[b] <=> b \notin back(x)
  BY PdomIs
<1>2. preds \in [N -> SUBSET N] /\ ends \in SUBSET N
  BY InvertedIs DEF Exits
<1>3. ASSUME NEW x \in N PROVE LeastPast(back(x), N, preds, ends \ {x}, x)
  <2> HIDE DEF preds, ends
  <2>1. ends \ {x} \in SUBSET N
    BY <1>2
  <2>2. QED
    BY <1>2, <2>1, AvoidIs
<1> HIDE DEF back, pdom, preds, ends
<1>4. SUFFICES ASSUME NEW x \in N, x \in pdom[q], x \notin pdom[p] PROVE FALSE
  BY <1>1 DEF pdom
<1>5. p \in back(x) /\ q \notin back(x) /\ p \notin back(q)
  BY <1>1, <1>4 DEF pdom
<1> DEFINE T == back(x) \cap back(q)
<1>6. ends \ {x} \subseteq T
  BY <1>3, <1>5 DEF LeastPast
<1>7. ASSUME NEW z \in T \cap N, NEW y \in preds[z], y # x PROVE y \in T
  <2>1. y \in back(x)
    BY <1>3, <1>7 DEF LeastPast
  <2>2. y # q
    BY <1>5, <2>1
  <2>3. y \in back(q)
    BY <1>3, <1>7, <2>2 DEF LeastPast
  <2>4. QED
    BY <2>1, <2>3
<1>8. back(x) \subseteq T
  <2> HIDE DEF T
  <2>1. LeastPast(back(x), N, preds, ends \ {x}, x)
    BY <1>3
  <2>2. QED
    BY <1>6, <1>7, <2>1 DEF LeastPast
<1>9. QED
  BY <1>5, <1>8

LEMMA FollowHolds ==
  ASSUME NEW N, IsFiniteSet(N), N \subseteq Nat, NEW succs \in [N -> SUBSET N], NEW b \in N,
         Exits(N, succs) \cap Closure(succs, {b}) # {}
  PROVE  LET exits  == Exits(N, succs)
             strict == {p \in N \ {b} : OnEveryPath(succs, p, b, exits)}
             follow == FollowOf(PostDominators(N, succs), b)
         IN  IF strict = {} THEN follow = None
             ELSE follow \in strict /\ \A p \in strict : OnEveryPath(succs, p, follow, exits)
<1> DEFINE exits == Exits(N, succs)
           pdom == PostDominators(N, succs)
           strict == {p \in N \ {b} : OnEveryPath(succs, p, b, exits)}
           size(p) == Cardinality(pdom[p])
           nearest == {p \in strict : \A q \in strict : size(q) <= size(p)}
<1>1. /\ pdom \in [N -> SUBSET N]
      /\ \A x, p \in N : p \in pdom[x] <=> OnEveryPath(succs, p, x, exits)
  BY PdomIs
<1>2. exits \in SUBSET N
  BY DEF Exits
<1>3. \A p \in N : \A q \in N : q \in pdom[p] => pdom[q] \subseteq pdom[p]
  BY PdomWithin
<1> HIDE DEF pdom, exits
<1>4. strict = pdom[b] \ {b}
  BY <1>1
<1>5. \A p \in N : IsFiniteSet(pdom[p]) /\ size(p) \in Nat /\ size(p) <= Cardinality(N)
  BY <1>1, FS_Subset, FS_CardinalityType
<1>6. FollowOf(pdom, b) = IF strict = {} THEN None ELSE Min(nearest)
  BY <1>4 DEF FollowOf
<1>7. SUFFICES ASSUME strict # {}
               PROVE  Min(nearest) \in strict /\ \A p \in strict : OnEveryPath(succs, p, Min(nearest), exits)
  <2> HIDE DEF strict, nearest
  <2>1. QED
    BY <1>6 DEF pdom, exits, strict
<1>8. Min(nearest) \in nearest
  <2> DEFINE short == {Cardinality(N) - size(p) : p \in strict}
  <2>1. Cardinality(N) \in Nat
    BY FS_CardinalityType
  <2>2. short \in SUBSET Nat /\ short # {}
    BY <1>5, <1>7, <2>1
  <2>3. PICK least \in short : \A y \in short : least <= y
    <3> HIDE DEF short
    <3>1. QED
      BY <2>2, LeastNumber
  <2>4. PICK p \in strict : least = Cardinality(N) - size(p)
    BY <2>3
  <2>5. ASSUME NEW q \in strict PROVE size(q) <= size(p)
    <3>1. Cardinality(N) - size(p) <= Cardinality(N) - size(q)
      BY <2>3, <2>4
    <3>2. size(q) \in Nat /\ size(p) \in Nat
      BY <1>5
    <3>3. QED
      BY <2>1, <3>1, <3>2
  <2>6. p \in nearest
    BY <2>5
  <2>7. nearest \in SUBSET Nat
    OBVIOUS
  <2> HIDE DEF nearest
  <2>8. PICK x \in nearest : \A y \in nearest : x <= y
    BY <2>6, <2>7, LeastNumber
  <2>9. QED
    BY <2>8 DEF Min
<1> DEFINE f == Min(nearest)
<1>9. f \in strict /\ \A q \in strict : size(q) <= size(f)
  BY <1>8
<1> HIDE DEF f, nearest
<1>10. ASSUME NEW p \in strict PROVE OnEveryPath(succs, p, f, exits)
  <2>1. SUFFICES ASSUME ~OnEveryPath(succs, p, f, exits) PROVE FALSE
    OBVIOUS
  <2>2. f \in N \ {b} /\ OnEveryPath(succs, f, b, exits) /\ p \in N \ {b} /\ OnEveryPath(succs, p, b, exits)
    BY <1>9, <1>10
  <2>3. p # f
    BY <2>1 DEF OnEveryPath
  <2>4. OnEveryPath(succs, f, p, exits)
    <3>1. exits \cap Closure(succs, {b}) # {}
      BY DEF exits
    <3>2. QED
      BY <1>2, <2>1, <2>2, <2>3, <3>1, PdomChain
  <2>5. pdom[f] \subseteq pdom[p]
    BY <1>1, <1>3, <2>2, <2>4
  <2>6. p \in pdom[p] /\ p \notin pdom[f]
    BY <1>1, <2>1, <2>2 DEF OnEveryPath
  <2>7. size(p) <= size(f)
    BY <1>9, <1>10
  <2>8. size(f) <= size(p) /\ (size(p) = size(f) => pdom[p] = pdom[f])
    BY <1>5, <2>2, <2>5, FS_Subset
  <2>9. size(p) \in Nat /\ size(f) \in Nat
    BY <1>5, <2>2
  <2>10. QED
    BY <2>6, <2>7, <2>8, <2>9
<1>11. QED
  BY <1>9, <1>10 DEF f

-----------------------------------------------------------------------------
(* Loops.                                                                    *)

LoopIs(N, succs, preds, dom, h) ==
  LET owned  == {b \in N : h \in dom[b]}
      inside == [y \in owned |-> (succs[y] \cap owned) \ {h}]
      back   == {b \in owned : h \in UNION {succs[x] : x \in Closure(inside, {b})}}
      header == \E u \in preds[h] : h \in dom[u]
  IN  /\ header <=> h \in back
      /\ header => LoopBody(preds, dom, h) = back

LEMMA LoopHolds ==
  ASSUME NEW N, NEW succs, FlowOK(N, succs), NEW h \in N
  PROVE  LoopIs(N, succs, Inverted(succs), Dominators(N, Inverted(succs)), h)
<1> DEFINE preds   == Inverted(succs)
           dom     == Dominators(N, preds)
           owned   == {b \in N : h \in dom[b]}
           inside  == [y \in owned |-> (succs[y] \cap owned) \ {h}]
           on(b)   == Closure(inside, {b})
           back    == {b \in owned : h \in UNION {succs[x] : x \in on(b)}}
           header  == \E u \in preds[h] : h \in dom[u]
           latches == {u \in preds[h] : h \in dom[u]}
           coming  == Closure(Avoiding(preds, {h}), latches \ {h})
<1>1. IsFiniteSet(N) /\ succs \in [N -> SUBSET N] /\ 0 \in N
  BY DEF FlowOK
<1>2. preds \in [N -> SUBSET N] /\ \A x, y \in N : x \in preds[y] <=> y \in succs[x]
  BY <1>1, InvertedIs
<1>3. /\ \A b \in N : b \in dom[b]
      /\ h \in dom[0] => h = 0
      /\ \A b \in N : \A c \in succs[b] : h \in dom[c] /\ c # h => h \in dom[b]
  BY DomSteps
<1>4. \A T : {0} \subseteq T /\ (\A x \in T \cap N : succs[x] \subseteq T) => N \subseteq T
  <2>1. {0} \in SUBSET N /\ N = Closure(succs, {0})
    BY DEF FlowOK
  <2>2. QED
    BY <1>1, <2>1, ClosureIs
<1> HIDE DEF preds, dom
<1>5. h \in owned /\ IsFiniteSet(owned) /\ inside \in [owned -> SUBSET owned]
  BY <1>1, <1>3, FS_Subset
<1>6. latches \subseteq owned /\ latches \subseteq N /\ \A x \in N : x \in latches <=> x \in owned /\ h \in succs[x]
  BY <1>2
<1>7. ASSUME NEW b \in owned
      PROVE  /\ b \in on(b) /\ on(b) \subseteq owned
             /\ \A x \in on(b) : inside[x] \subseteq on(b)
             /\ \A T : b \in T /\ (\A x \in T \cap owned : inside[x] \subseteq T) => on(b) \subseteq T
             /\ \A x \in on(b) : on(x) \subseteq on(b)
  <2> HIDE DEF inside, owned
  <2>1. {b} \in SUBSET owned
    OBVIOUS
  <2>2. /\ {b} \subseteq on(b) /\ on(b) \subseteq owned
        /\ \A x \in on(b) : inside[x] \subseteq on(b)
        /\ \A T : {b} \subseteq T /\ (\A x \in T \cap owned : inside[x] \subseteq T) => on(b) \subseteq T
    BY <1>5, <2>1, ClosureIs
  <2>3. ASSUME NEW x \in on(b) PROVE on(x) \subseteq on(b)
    <3>1. {x} \in SUBSET owned /\ {x} \subseteq on(b)
      BY <2>2
    <3>2. QED
      BY <1>5, <2>1, <3>1, ClosureWithin
  <2>4. QED
    BY <2>2, <2>3
<1>8. LeastPast(coming, N, preds, latches \ {h}, h)
  <2> HIDE DEF latches
  <2>1. latches \ {h} \in SUBSET N
    BY <1>6
  <2>2. QED
    BY <1>1, <1>2, <2>1, AvoidIs
<1> HIDE DEF on, coming
<1>9. owned \subseteq on(h)
  <2> DEFINE T == {b \in N : b \in owned => b \in on(h)}
  <2>1. {0} \subseteq T
    BY <1>1, <1>3, <1>5, <1>7
  <2>2. ASSUME NEW x \in T \cap N, NEW c \in succs[x], c \in owned PROVE c \in on(h)
    <3>1. CASE c = h
      BY <1>5, <1>7, <3>1
    <3>2. CASE c # h
      <4>1. x \in owned
        BY <1>3, <2>2, <3>2
      <4>2. x \in on(h) /\ c \in inside[x]
        BY <2>2, <3>2, <4>1
      <4>3. QED
        BY <1>5, <1>7, <4>2
    <3>3. QED
      BY <3>1, <3>2
  <2>3. \A x \in T \cap N : succs[x] \subseteq T
    BY <1>1, <2>2
  <2>4. N \subseteq T
    <3> HIDE DEF T
    <3>1. QED
      BY <1>4, <2>1, <2>3
  <2>5. QED
    BY <2>4
<1>10. header <=> h \in back
  <2>1. ASSUME header PROVE h \in back
    <3>1. PICK u \in N : u \in owned /\ h \in succs[u]
      BY <1>2, <2>1
    <3>2. u \in on(h)
      BY <1>9, <3>1
    <3>3. QED
      BY <1>5, <3>1, <3>2
  <2>2. ASSUME h \in back PROVE header
    <3>1. PICK x \in on(h) : h \in succs[x]
      BY <2>2
    <3>2. x \in owned
      BY <1>5, <1>7
    <3>3. QED
      BY <1>2, <3>1, <3>2
  <2>3. QED
    BY <2>1, <2>2
<1>11. coming \subseteq back
  <2> DEFINE T == back \ {h}
  <2>1. latches \ {h} \subseteq T
    BY <1>6, <1>7
  <2>2. ASSUME NEW b \in T \cap N, NEW p \in preds[b], p # h PROVE p \in T
    <3>1. b \in owned /\ b # h /\ p \in N /\ b \in succs[p]
      BY <1>2, <2>2
    <3>2. p \in owned
      BY <1>3, <3>1
    <3>3. b \in on(p)
      <4>1. b \in inside[p]
        BY <3>1, <3>2
      <4>2. p \in on(p) /\ \A x \in on(p) : inside[x] \subseteq on(p)
        BY <1>7, <3>2
      <4>3. QED
        BY <4>1, <4>2
    <3>4. on(b) \subseteq on(p)
      BY <1>7, <3>2, <3>3
    <3>5. QED
      BY <2>2, <3>2, <3>4
  <2>3. coming \subseteq T
    <3> HIDE DEF T, back, latches
    <3>1. QED
      BY <1>8, <2>1, <2>2 DEF LeastPast
  <2>4. QED
    BY <2>3
<1>12. back \subseteq {h} \union coming
  <2>1. SUFFICES ASSUME NEW b \in back, b # h, b \notin coming PROVE FALSE
    OBVIOUS
  <2> DEFINE T == {x \in owned : x # h /\ x \notin coming}
  <2>2. b \in T
    BY <2>1
  <2>3. ASSUME NEW x \in T \cap owned, NEW y \in inside[x] PROVE y \in T
    <3>1. x \in N /\ y \in owned /\ y # h /\ y \in succs[x] /\ x \in preds[y]
      BY <1>2, <2>3
    <3>2. y \notin coming
      BY <1>8, <2>3, <3>1 DEF LeastPast
    <3>3. QED
      BY <3>1, <3>2
  <2>4. on(b) \subseteq T
    <3>1. b \in owned
      OBVIOUS
    <3> HIDE DEF T, inside, owned, back
    <3>2. QED
      BY <1>7, <2>2, <2>3, <3>1
  <2>5. PICK x \in on(b) : h \in succs[x]
    OBVIOUS
  <2>6. x \in latches \ {h}
    BY <1>6, <2>4, <2>5
  <2>7. QED
    BY <1>8, <2>4, <2>5, <2>6 DEF LeastPast
<1>13. ASSUME header PROVE LoopBody(preds, dom, h) = back
  <2>1. LoopBody(preds, dom, h) = {h} \union coming
    BY DEF LoopBody, coming
  <2>2. h \in back
    BY <1>10, <1>13
  <2> HIDE DEF back
  <2>3. QED
    BY <1>11, <1>12, <2>1, <2>2
<1>14. QED
  BY <1>10, <1>13 DEF preds, dom, on, LoopIs

-----------------------------------------------------------------------------
(* The depth-first search: what one turn of it does.                         *)

Searches(N) == [stack : Seq(N \X Nat), seen : SUBSET N, found : BOOLEAN]

OnPath(s) == {s.stack[k][1] : k \in DOMAIN s.stack}
Done(s)   == s.seen \ OnPath(s)

TopBlock(s) == s.stack[Len(s.stack)][1]
TopIndex(s) == s.stack[Len(s.stack)][2]

\* The successors of the blocks, listed.
Listed(N, succs, graph) ==
  \A u \in N : /\ SuccList(graph, u) \in Seq(N)
               /\ Len(SuccList(graph, u)) <= 2
               /\ succs[u] = {SuccList(graph, u)[i] : i \in 1 .. Len(SuccList(graph, u))}

\* t has the stack of s below the top, ...
Below(s, t) == \A k \in 1 .. Len(s.stack) - 1 : t.stack[k] = s.stack[k]

\* ... and the top is left, or looks at its next successor: one on the path, one
\* that is done, or a new one.
Leaves(s, t, list) ==
  /\ TopIndex(s) > Len(list)
  /\ Len(t.stack) = Len(s.stack) - 1 /\ t.seen = s.seen /\ ~t.found

Looks(s, t, list) ==
  /\ TopIndex(s) \in 1 .. Len(list)
  /\ t.stack[Len(s.stack)] = <<TopBlock(s), TopIndex(s) + 1>>

Retreats(s, t, list, dom) ==
  /\ Looks(s, t, list) /\ list[TopIndex(s)] \in OnPath(s)
  /\ Len(t.stack) = Len(s.stack) /\ t.seen = s.seen
  /\ t.found = (list[TopIndex(s)] \notin dom[TopBlock(s)])

Crosses(s, t, list) ==
  /\ Looks(s, t, list) /\ list[TopIndex(s)] \in Done(s)
  /\ Len(t.stack) = Len(s.stack) /\ t.seen = s.seen /\ ~t.found

Enters(s, t, list) ==
  /\ Looks(s, t, list) /\ list[TopIndex(s)] \notin s.seen \union OnPath(s)
  /\ Len(t.stack) = Len(s.stack) + 1 /\ t.stack[Len(s.stack) + 1] = <<list[TopIndex(s)], 1>>
  /\ t.seen = s.seen \union {list[TopIndex(s)]} /\ ~t.found

Turns(s, t, list, dom) ==
  Below(s, t) /\ (Leaves(s, t, list) \/ Retreats(s, t, list, dom) \/ Crosses(s, t, list) \/ Enters(s, t, list))

LEMMA TurnIs ==
  ASSUME NEW N, NEW succs, NEW graph, Listed(N, succs, graph), NEW dom,
         NEW s \in Searches(N), ~s.found, s.stack # <<>>, TopIndex(s) >= 1
  PROVE  /\ Turn(graph, dom, s) \in Searches(N)
         /\ Turns(s, Turn(graph, dom, s), SuccList(graph, TopBlock(s)), dom)
<1> DEFINE L == Len(s.stack)
           u == s.stack[L][1]
           i == s.stack[L][2]
           list == SuccList(graph, u)
           below == SubSeq(s.stack, 1, L - 1)
           here == Append(below, <<u, i + 1>>)
           t == Turn(graph, dom, s)
<1>1. /\ s = [stack |-> s.stack, seen |-> s.seen, found |-> s.found]
      /\ s.stack \in Seq(N \X Nat) /\ s.seen \in SUBSET N
  BY DEF Searches
<1>2. L \in Nat /\ L >= 1 /\ s.stack[L] \in N \X Nat
  <2>1. L \in Nat /\ L # 0
    BY <1>1
  <2>2. QED
    BY <1>1, <2>1
<1>3. u \in N /\ i \in Nat /\ i >= 1
  BY <1>2 DEF TopIndex
<1>4. list \in Seq(N) /\ Len(list) \in Nat
  BY <1>3 DEF Listed
<1>5. /\ below \in Seq(N \X Nat) /\ Len(below) = L - 1
      /\ \A k \in 1 .. L - 1 : below[k] = s.stack[k]
  <2>1. 1 \in 1 .. L + 1 /\ L - 1 \in 1 - 1 .. L
    BY <1>2
  <2>2. /\ below \in Seq(N \X Nat)
        /\ Len(below) = IF 1 <= L - 1 THEN (L - 1) - 1 + 1 ELSE 0
        /\ \A k \in 1 .. (L - 1) - 1 + 1 : below[k] = s.stack[1 + k - 1]
    BY <1>1, <2>1, SubSeqProperties
  <2>3. QED
    BY <1>2, <2>2
<1> HIDE DEF below
<1>6. /\ here \in Seq(N \X Nat) /\ Len(here) = L
      /\ \A k \in 1 .. L - 1 : here[k] = s.stack[k]
      /\ here[L] = <<u, i + 1>>
  <2>1. <<u, i + 1>> \in N \X Nat
    BY <1>3
  <2> HIDE DEF u, i
  <2>2. /\ here \in Seq(N \X Nat) /\ Len(here) = Len(below) + 1
        /\ \A k \in 1 .. Len(below) : here[k] = below[k]
        /\ here[Len(below) + 1] = <<u, i + 1>>
    BY <1>5, <2>1, AppendProperties
  <2>3. QED
    BY <1>2, <1>5, <2>2
<1> HIDE DEF here
<1>7. \A b : OnStack(here, b) <=> b \in OnPath(s)
  <2>1. DOMAIN here = 1 .. L /\ DOMAIN s.stack = 1 .. L
    BY <1>1, <1>6
  <2>2. \A k \in 1 .. L : here[k][1] = s.stack[k][1]
    BY <1>2, <1>6
  <2>3. QED
    BY <2>1, <2>2 DEF OnStack, OnPath
<1>8. t = IF i > Len(list)            THEN [s EXCEPT !.stack = below]
          ELSE IF OnStack(here, list[i])  THEN [s EXCEPT !.stack = here, !.found = list[i] \notin dom[u]]
          ELSE IF list[i] \in s.seen      THEN [s EXCEPT !.stack = here]
          ELSE [s EXCEPT !.stack = Append(here, <<list[i], 1>>), !.seen = @ \union {list[i]}]
  BY DEF Turn, Last, Front, below, here
<1> HIDE DEF t
<1>9. TopBlock(s) = u /\ TopIndex(s) = i
  BY DEF TopBlock, TopIndex
<1> HIDE DEF u, i, L, list
<1>10. CASE i > Len(list)
  <2>1. t.stack = below /\ t.seen = s.seen /\ ~t.found /\ t \in Searches(N)
    BY <1>1, <1>5, <1>8, <1>10 DEF Searches
  <2>2. Leaves(s, t, list) /\ Below(s, t)
    BY <1>5, <1>9, <1>10, <2>1 DEF Leaves, Below, L
  <2>3. QED
    BY <1>9, <2>1, <2>2 DEF Turns, t, list
<1>11. CASE i <= Len(list)
  <2>1. i \in 1 .. Len(list) /\ list[i] \in N
    BY <1>3, <1>4, <1>11
  <2>2. CASE OnStack(here, list[i])
    <3>1. /\ t.stack = here /\ t.seen = s.seen /\ t.found = (list[i] \notin dom[u]) /\ t \in Searches(N)
      <4>1. t = [s EXCEPT !.stack = here, !.found = list[i] \notin dom[u]]
        BY <1>3, <1>4, <1>8, <1>11, <2>2
      <4>2. t = [stack |-> here, seen |-> s.seen, found |-> list[i] \notin dom[u]]
        BY <1>1, <4>1
      <4>3. QED
        BY <1>1, <1>6, <4>2 DEF Searches
    <3>2. Retreats(s, t, list, dom) /\ Below(s, t)
      BY <1>6, <1>7, <1>9, <2>1, <2>2, <3>1 DEF Retreats, Looks, Below, L
    <3>3. QED
      BY <1>9, <3>1, <3>2 DEF Turns, t, list
  <2>3. CASE ~OnStack(here, list[i]) /\ list[i] \in s.seen
    <3>1. t.stack = here /\ t.seen = s.seen /\ ~t.found /\ t \in Searches(N)
      <4>1. t = [s EXCEPT !.stack = here]
        BY <1>3, <1>4, <1>8, <1>11, <2>3
      <4>2. t = [stack |-> here, seen |-> s.seen, found |-> s.found]
        BY <1>1, <4>1
      <4>3. QED
        BY <1>1, <1>6, <4>2 DEF Searches
    <3>2. Crosses(s, t, list) /\ Below(s, t)
      BY <1>6, <1>7, <1>9, <2>1, <2>3, <3>1 DEF Crosses, Done, Looks, Below, L
    <3>3. QED
      BY <1>9, <3>1, <3>2 DEF Turns, t, list
  <2>4. CASE ~OnStack(here, list[i]) /\ list[i] \notin s.seen
    <3> DEFINE more == Append(here, <<list[i], 1>>)
    <3>1. /\ more \in Seq(N \X Nat) /\ Len(more) = L + 1
          /\ \A k \in 1 .. L : more[k] = here[k]
          /\ more[L + 1] = <<list[i], 1>>
      <4>1. <<list[i], 1>> \in N \X Nat
        BY <2>1
      <4>2. QED
        BY <1>6, <4>1, AppendProperties
    <3>2. /\ t.stack = more /\ t.seen = s.seen \union {list[i]} /\ ~t.found
          /\ t = [stack |-> more, seen |-> s.seen \union {list[i]}, found |-> s.found]
      <4> HIDE DEF more
      <4>1. t = [s EXCEPT !.stack = more, !.seen = @ \union {list[i]}]
        BY <1>3, <1>4, <1>8, <2>1, <2>4 DEF more
      <4>2. QED
        BY <1>1, <4>1
    <3> HIDE DEF more
    <3>3. t \in Searches(N)
      BY <1>1, <2>1, <3>1, <3>2 DEF Searches
    <3>4. \A k \in 1 .. L - 1 : t.stack[k] = s.stack[k]
      BY <1>2, <1>6, <3>1, <3>2
    <3>5. t.stack[L] = <<u, i + 1>>
      <4>1. L \in 1 .. L
        BY <1>2
      <4>2. QED
        BY <1>6, <3>1, <3>2, <4>1
    <3>6. Enters(s, t, list) /\ Below(s, t)
      BY <1>7, <1>9, <2>1, <2>4, <3>1, <3>2, <3>4, <3>5 DEF Enters, Looks, Below, L
    <3>7. QED
      BY <1>9, <3>3, <3>6 DEF Turns, t, list
  <2>5. QED
    BY <2>2, <2>3, <2>4
<1>12. QED
  BY <1>3, <1>4, <1>10, <1>11

-----------------------------------------------------------------------------
(* The depth-first search: what holds of its state after every turn.         *)

Forward(N, succs, dom) == [b \in N |-> succs[b] \ dom[b]]
Cycles(N, forward) == \E b \in N : b \in Closure(forward, forward[b])

\* The stack is a path from the entry without a block twice, each block on it the
\* one that the block below has looked at last.
PathInv(s, graph) ==
  /\ 0 \in s.seen
  /\ \A k \in 1 .. Len(s.stack) :
       /\ s.stack[k][1] \in s.seen
       /\ s.stack[k][2] \in 1 .. Len(SuccList(graph, s.stack[k][1])) + 1
  /\ \A j, k \in 1 .. Len(s.stack) : s.stack[j][1] = s.stack[k][1] => j = k
  /\ Len(s.stack) > 0 => s.stack[1][1] = 0
  /\ \A k \in 1 .. Len(s.stack) - 1 :
       /\ s.stack[k][2] > 1
       /\ s.stack[k + 1][1] = SuccList(graph, s.stack[k][1])[s.stack[k][2] - 1]

\* What a block of the path has looked at is seen, and dominates it, is done or is
\* the next of the path.
TriedInv(s, graph, dom) ==
  \A k \in 1 .. Len(s.stack) : \A j \in 1 .. s.stack[k][2] - 1 :
    LET c == SuccList(graph, s.stack[k][1])[j]
    IN  /\ c \in s.seen
        /\ \/ c \in dom[s.stack[k][1]]
           \/ c \in Done(s)
           \/ k < Len(s.stack) /\ c = s.stack[k + 1][1]

\* What is done leads to what dominates it and to what is done, and is on no cycle
\* of the edges to what is done.
DoneInv(s, N, succs, dom) ==
  \A b \in Done(s) :
    /\ succs[b] \subseteq s.seen
    /\ \A c \in succs[b] : c \in dom[b] \/ c \in Done(s)
    /\ b \notin Closure(Forward(N, succs, dom), Forward(N, succs, dom)[b])

SearchInv(s, N, succs, graph, dom) ==
  IF s.found THEN Cycles(N, Forward(N, succs, dom))
  ELSE PathInv(s, graph) /\ TriedInv(s, graph, dom) /\ DoneInv(s, N, succs, dom)

\* The edges of the path are to no dominator: the path as far as a block avoids the
\* next one.
LEMMA PathForward ==
  ASSUME NEW N, NEW succs, FlowOK(N, succs), NEW graph, Listed(N, succs, graph),
         NEW s \in Searches(N), PathInv(s, graph),
         NEW k \in 1 .. Len(s.stack) - 1
  PROVE  LET dom == Dominators(N, Inverted(succs))
         IN  s.stack[k + 1][1] \in Forward(N, succs, dom)[s.stack[k][1]]
<1> DEFINE dom == Dominators(N, Inverted(succs))
           L == Len(s.stack)
           at(j) == s.stack[j][1]
           d == at(k + 1)
           past == Closure(Avoiding(succs, {d}), {0} \ {d})
<1>1. L \in Nat /\ \A j \in 1 .. L : s.stack[j] \in N \X Nat
  BY DEF Searches
<1>2. \A j \in 1 .. L : at(j) \in N
  BY <1>1
<1>3. ASSUME NEW j \in 1 .. L - 1 PROVE at(j + 1) \in succs[at(j)]
  <2>1. j \in 1 .. L /\ j + 1 \in 1 .. L
    BY <1>1
  <2>2. /\ s.stack[j][2] > 1 /\ s.stack[j][2] \in 1 .. Len(SuccList(graph, at(j))) + 1
        /\ at(j + 1) = SuccList(graph, at(j))[s.stack[j][2] - 1]
    BY <2>1 DEF PathInv
  <2>3. SuccList(graph, at(j)) \in Seq(N) /\ at(j) \in N
    BY <1>2, <2>1 DEF Listed
  <2>4. s.stack[j][2] - 1 \in 1 .. Len(SuccList(graph, at(j)))
    BY <2>2, <2>3
  <2>5. QED
    BY <2>2, <2>3, <2>4 DEF Listed
<1>4. k \in Nat /\ k \in 1 .. L /\ k + 1 \in 1 .. L /\ 1 \in 1 .. L /\ L > 0
  BY <1>1
<1>5. d \in N /\ at(1) = 0 /\ \A j \in 1 .. k : at(j) # d
  BY <1>1, <1>2, <1>4 DEF PathInv
<1>6. {0} \ {d} = {0}
  BY <1>4, <1>5
<1>7. LeastPast(past, N, succs, {0}, d)
  <2>1. {0} \in SUBSET N /\ IsFiniteSet(N) /\ succs \in [N -> SUBSET N]
    BY DEF FlowOK
  <2> HIDE DEF d
  <2>2. QED
    BY <1>6, <2>1, AvoidIs
<1> HIDE DEF past, d
<1>8. \A j \in Nat : j < k => at(j + 1) \in past
  <2> DEFINE T == {j \in Nat : j < k => at(j + 1) \in past}
  <2>1. 0 \in T
    BY <1>5, <1>7 DEF LeastPast
  <2>2. ASSUME NEW j \in Nat, j \in T PROVE j + 1 \in T
    <3>1. SUFFICES ASSUME j + 1 < k PROVE at((j + 1) + 1) \in past
      OBVIOUS
    <3>2. j + 1 \in 1 .. L - 1 /\ (j + 1) + 1 \in 1 .. k /\ at(j + 1) \in past
      BY <1>1, <1>4, <2>2, <3>1
    <3>3. at((j + 1) + 1) \in succs[at(j + 1)] /\ at((j + 1) + 1) # d
      BY <1>3, <1>5, <3>2
    <3>4. QED
      BY <1>7, <3>2, <3>3 DEF LeastPast
  <2>3. \A j \in Nat : j \in T
    <3> HIDE DEF T
    <3>1. QED
      BY <2>1, <2>2, Induction
  <2>4. QED
    BY <2>3
<1>9. at(k) \in past
  <2>1. k - 1 \in Nat /\ k - 1 < k /\ (k - 1) + 1 = k
    BY <1>4
  <2>2. at((k - 1) + 1) \in past
    BY <1>8, <2>1
  <2>3. QED
    BY <2>1, <2>2
<1>10. d \notin dom[at(k)]
  <2>1. \A b, e \in N : e \in dom[b] <=> b \notin Closure(Avoiding(succs, {e}), {0} \ {e})
    BY DomIs
  <2>2. QED
    BY <1>2, <1>4, <1>5, <1>9, <2>1 DEF past
<1>11. d \in succs[at(k)]
  BY <1>3 DEF d
<1>12. QED
  BY <1>2, <1>4, <1>10, <1>11 DEF Forward, d

LEMMA RetreatFinds ==
  ASSUME NEW N, NEW succs, FlowOK(N, succs), NEW graph, Listed(N, succs, graph),
         NEW s \in Searches(N), PathInv(s, graph),
         NEW v \in OnPath(s), v \in succs[TopBlock(s)],
         v \notin Dominators(N, Inverted(succs))[TopBlock(s)]
  PROVE  Cycles(N, Forward(N, succs, Dominators(N, Inverted(succs))))
<1> DEFINE dom == Dominators(N, Inverted(succs))
           forward == Forward(N, succs, dom)
           L == Len(s.stack)
           at(j) == s.stack[j][1]
           u == TopBlock(s)
           ring == Closure(forward, forward[u])
<1>1. L \in Nat /\ DOMAIN s.stack = 1 .. L /\ \A j \in 1 .. L : s.stack[j] \in N \X Nat
  BY DEF Searches
<1>2. PICK m \in 1 .. L : at(m) = v
  BY <1>1 DEF OnPath
<1>3. u = at(L) /\ L \in 1 .. L /\ u \in N /\ v \in N
  BY <1>1, <1>2 DEF TopBlock
<1>4. forward \in [N -> SUBSET N] /\ IsFiniteSet(N)
  BY DEF Forward, FlowOK
<1>5. v \in forward[u]
  BY <1>3 DEF Forward
<1>6. \A j \in 1 .. L - 1 : at(j + 1) \in forward[at(j)]
  BY PathForward
<1> HIDE DEF forward, dom, u
<1>7. /\ forward[u] \subseteq ring /\ ring \subseteq N
      /\ \A x \in ring : forward[x] \subseteq ring
  BY <1>3, <1>4, ClosureIs
<1> HIDE DEF ring
<1>8. \A j \in Nat : j <= L - m => at(m + j) \in ring
  <2> DEFINE T == {j \in Nat : j <= L - m => at(m + j) \in ring}
  <2>1. 0 \in T
    BY <1>2, <1>5, <1>7
  <2>2. ASSUME NEW j \in Nat, j \in T PROVE j + 1 \in T
    <3>1. SUFFICES ASSUME j + 1 <= L - m PROVE at(m + (j + 1)) \in ring
      OBVIOUS
    <3>2. m + j \in 1 .. L - 1 /\ m + (j + 1) = (m + j) + 1 /\ j <= L - m
      BY <1>1, <3>1
    <3>3. at((m + j) + 1) \in forward[at(m + j)]
      BY <1>6, <3>2
    <3>4. QED
      BY <1>7, <2>2, <3>2, <3>3
  <2>3. \A j \in Nat : j \in T
    <3> HIDE DEF T
    <3>1. QED
      BY <2>1, <2>2, Induction
  <2>4. QED
    BY <2>3
<1>9. L - m \in Nat /\ L - m <= L - m /\ m + (L - m) = L
  BY <1>1
<1>10. at(m + (L - m)) \in ring
  BY <1>8, <1>9
<1>11. u \in ring
  BY <1>3, <1>9, <1>10
<1>12. QED
  BY <1>3, <1>11 DEF Cycles, ring, forward, dom

\* What the lemmas on a turn are about.
Turning(N, succs, graph, dom, s, t) ==
  /\ IsFiniteSet(N) /\ succs \in [N -> SUBSET N] /\ Listed(N, succs, graph)
  /\ s \in Searches(N) /\ t \in Searches(N)
  /\ ~s.found /\ Len(s.stack) > 0 /\ Below(s, t)
  /\ PathInv(s, graph) /\ TriedInv(s, graph, dom) /\ DoneInv(s, N, succs, dom)

LEMMA PathBlocks ==
  ASSUME NEW N, NEW s \in Searches(N)
  PROVE  /\ Len(s.stack) \in Nat
         /\ \A k \in 1 .. Len(s.stack) : s.stack[k][1] \in N /\ s.stack[k][2] \in Nat /\ s.stack[k][1] \in OnPath(s)
         /\ \A b \in OnPath(s) : \E k \in 1 .. Len(s.stack) : b = s.stack[k][1]
<1>1. s.stack \in Seq(N \X Nat)
  BY DEF Searches
<1>2. Len(s.stack) \in Nat /\ DOMAIN s.stack = 1 .. Len(s.stack)
      /\ \A k \in 1 .. Len(s.stack) : s.stack[k] \in N \X Nat
  BY <1>1
<1>3. QED
  BY <1>2 DEF OnPath

LEMMA LeavesKeeps ==
  ASSUME NEW N, NEW succs, NEW graph, NEW dom, NEW s, NEW t, Turning(N, succs, graph, dom, s, t),
         Leaves(s, t, SuccList(graph, TopBlock(s)))
  PROVE  SearchInv(t, N, succs, graph, dom)
<1> DEFINE L == Len(s.stack)
           at(k) == s.stack[k][1]
           u == TopBlock(s)
           list == SuccList(graph, u)
           forward == Forward(N, succs, dom)
<1>1. /\ L \in Nat /\ \A k \in 1 .. L : at(k) \in N /\ s.stack[k][2] \in Nat /\ at(k) \in OnPath(s)
      /\ \A b \in OnPath(s) : \E k \in 1 .. L : b = at(k)
  BY PathBlocks DEF Turning
<1>2. L > 0 /\ L \in 1 .. L /\ u = at(L) /\ u \in N /\ u \in s.seen
  BY <1>1 DEF Turning, TopBlock, PathInv
<1>3. /\ Len(t.stack) \in Nat /\ \A k \in 1 .. Len(t.stack) : t.stack[k][1] \in OnPath(t)
      /\ \A b \in OnPath(t) : \E k \in 1 .. Len(t.stack) : b = t.stack[k][1]
  BY PathBlocks DEF Turning
<1>4. Len(t.stack) = L - 1 /\ t.seen = s.seen /\ ~t.found /\ \A k \in 1 .. L - 1 : t.stack[k] = s.stack[k]
  BY DEF Leaves, Turning, Below
<1>5. list \in Seq(N) /\ s.stack[L][2] = Len(list) + 1
      /\ succs[u] = {list[j] : j \in 1 .. Len(list)}
  <2>1. list \in Seq(N) /\ succs[u] = {list[j] : j \in 1 .. Len(list)}
    <3> HIDE DEF u
    <3>1. QED
      BY <1>2 DEF Turning, Listed
  <2>2. s.stack[L][2] \in 1 .. Len(list) + 1
    BY <1>2 DEF Turning, PathInv
  <2>3. s.stack[L][2] > Len(list)
    BY DEF Leaves, TopIndex
  <2> HIDE DEF list, L
  <2>4. Len(list) \in Nat
    BY <2>1
  <2>5. QED
    BY <2>1, <2>2, <2>3, <2>4
<1>6. OnPath(t) = OnPath(s) \ {u}
  <2>1. ASSUME NEW b \in OnPath(t) PROVE b \in OnPath(s) \ {u}
    <3>1. PICK k \in 1 .. L - 1 : b = at(k)
      BY <1>3, <1>4
    <3>2. at(k) # at(L)
      <4>1. k \in 1 .. L /\ k # L
        BY <1>1, <3>1
      <4>2. QED
        BY <1>2, <4>1 DEF Turning, PathInv
    <3>3. QED
      BY <1>1, <1>2, <3>1, <3>2
  <2>2. ASSUME NEW b \in OnPath(s), b # u PROVE b \in OnPath(t)
    <3>1. PICK k \in 1 .. L : b = at(k)
      BY <1>1
    <3>2. k # L
      BY <1>2, <2>2, <3>1
    <3>3. k \in 1 .. L - 1
      BY <1>1, <3>2
    <3>4. t.stack[k][1] = b
      BY <1>4, <3>1, <3>3
    <3>5. QED
      BY <1>3, <1>4, <3>3, <3>4
  <2>3. QED
    BY <2>1, <2>2
<1>7. Done(t) = Done(s) \union {u} /\ u \notin Done(s)
  BY <1>1, <1>2, <1>4, <1>6 DEF Done
<1> HIDE DEF u, list, L
<1>8. PathInv(t, graph)
  <2>1. 0 \in t.seen
    BY <1>4 DEF Turning, PathInv
  <2>2. \A k \in 1 .. L - 1 : k \in 1 .. L
    BY <1>1
  <2>3. \A k \in 1 .. Len(t.stack) : /\ t.stack[k][1] \in t.seen
                                     /\ t.stack[k][2] \in 1 .. Len(SuccList(graph, t.stack[k][1])) + 1
    BY <1>4, <2>2 DEF Turning, PathInv, L
  <2>4. \A j, k \in 1 .. Len(t.stack) : t.stack[j][1] = t.stack[k][1] => j = k
    BY <1>4, <2>2 DEF Turning, PathInv, L
  <2>5. Len(t.stack) > 0 => t.stack[1][1] = 0
    <3>1. SUFFICES ASSUME Len(t.stack) > 0 PROVE t.stack[1][1] = 0
      OBVIOUS
    <3>2. 1 \in 1 .. L - 1
      BY <1>1, <1>4, <3>1
    <3>3. s.stack[1][1] = 0
      BY <1>2 DEF Turning, PathInv, L
    <3>4. QED
      BY <1>4, <3>2, <3>3
  <2>6. \A k \in 1 .. Len(t.stack) - 1 : k \in 1 .. L - 1 /\ k + 1 \in 1 .. L - 1
    BY <1>1, <1>4
  <2>7. \A k \in 1 .. Len(t.stack) - 1 :
          /\ t.stack[k][2] > 1
          /\ t.stack[k + 1][1] = SuccList(graph, t.stack[k][1])[t.stack[k][2] - 1]
    BY <1>4, <2>6 DEF Turning, PathInv, L
  <2>8. QED
    BY <2>1, <2>3, <2>4, <2>5, <2>7 DEF PathInv
<1>9. TriedInv(t, graph, dom)
  <2>1. SUFFICES ASSUME NEW k \in 1 .. L - 1, NEW j \in 1 .. s.stack[k][2] - 1
                 PROVE  LET c == SuccList(graph, at(k))[j]
                        IN  c \in s.seen /\ \/ c \in dom[at(k)]
                                            \/ c \in Done(t)
                                            \/ k < L - 1 /\ c = t.stack[k + 1][1]
    BY <1>4 DEF TriedInv
  <2> DEFINE c == SuccList(graph, at(k))[j]
  <2>2. k \in 1 .. L /\ k + 1 \in 1 .. L
    BY <1>1
  <2>3. /\ c \in s.seen
        /\ c \in dom[at(k)] \/ c \in Done(s) \/ c = at(k + 1)
    BY <2>2 DEF Turning, TriedInv, L
  <2>4. CASE c = at(k + 1) /\ k + 1 = L
    BY <1>2, <1>7, <2>3, <2>4
  <2>5. CASE c = at(k + 1) /\ k + 1 # L
    <3>1. k < L - 1 /\ k + 1 \in 1 .. L - 1
      BY <1>1, <2>2, <2>5
    <3>2. QED
      BY <1>4, <2>3, <2>5, <3>1
  <2>6. QED
    BY <1>7, <2>3, <2>4, <2>5
<1>10. \A c \in succs[u] : c \in s.seen /\ (c \in dom[u] \/ c \in Done(s))
  <2>1. SUFFICES ASSUME NEW j \in 1 .. Len(list)
                 PROVE  list[j] \in s.seen /\ (list[j] \in dom[u] \/ list[j] \in Done(s))
    BY <1>5
  <2>2. j \in 1 .. s.stack[L][2] - 1 /\ list = SuccList(graph, at(L))
    BY <1>2, <1>5 DEF list
  <2>3. /\ list[j] \in s.seen
        /\ list[j] \in dom[at(L)] \/ list[j] \in Done(s) \/ L < L
    BY <1>2, <2>2 DEF Turning, TriedInv, L
  <2>4. QED
    BY <1>1, <1>2, <2>3
<1>11. DoneInv(t, N, succs, dom)
  <2>1. forward \in [N -> SUBSET N] /\ IsFiniteSet(N) /\ forward[u] = succs[u] \ dom[u]
    BY <1>2 DEF Forward, Turning
  <2>2. \A b \in Done(s) : forward[b] \subseteq Done(s)
    BY DEF Turning, DoneInv, Forward, Done, Searches
  <2>3. forward[u] \subseteq Done(s)
    BY <1>10, <2>1
  <2>4. Closure(forward, forward[u]) \subseteq Done(s)
    <3> HIDE DEF forward
    <3>1. forward[u] \in SUBSET N
      BY <1>2, <2>1
    <3>2. \A x \in Done(s) \cap N : forward[x] \subseteq Done(s)
      BY <2>2
    <3>3. QED
      BY <2>1, <2>3, <3>1, <3>2, ClosureIs
  <2>5. u \notin Closure(forward, forward[u])
    BY <1>7, <2>4
  <2>6. SUFFICES ASSUME NEW b \in Done(t)
                 PROVE  /\ succs[b] \subseteq s.seen
                        /\ \A c \in succs[b] : c \in dom[b] \/ c \in Done(t)
                        /\ b \notin Closure(forward, forward[b])
    BY <1>4 DEF DoneInv
  <2>7. CASE b = u
    BY <1>7, <1>10, <2>5, <2>7
  <2>8. CASE b \in Done(s)
    BY <1>7, <2>8 DEF Turning, DoneInv
  <2>9. QED
    BY <1>7, <2>7, <2>8
<1>12. QED
  BY <1>4, <1>8, <1>9, <1>11 DEF SearchInv

LEMMA StaysKeeps ==
  ASSUME NEW N, NEW succs, NEW graph, NEW dom, NEW s, NEW t, Turning(N, succs, graph, dom, s, t),
         LET list == SuccList(graph, TopBlock(s))
         IN  \/ Crosses(s, t, list)
             \/ Retreats(s, t, list, dom) /\ ~t.found
  PROVE  SearchInv(t, N, succs, graph, dom)
<1> DEFINE L == Len(s.stack)
           at(k) == s.stack[k][1]
           u == TopBlock(s)
           i == TopIndex(s)
           list == SuccList(graph, u)
           v == list[i]
<1>1. /\ L \in Nat /\ \A k \in 1 .. L : at(k) \in N /\ s.stack[k][2] \in Nat /\ at(k) \in OnPath(s)
      /\ \A b \in OnPath(s) : \E k \in 1 .. L : b = at(k)
  BY PathBlocks DEF Turning
<1>2. L > 0 /\ L \in 1 .. L /\ u = at(L) /\ u \in N /\ i = s.stack[L][2]
  BY <1>1 DEF Turning, TopBlock, TopIndex
<1>3. /\ \A k \in 1 .. Len(t.stack) : t.stack[k][1] \in OnPath(t)
      /\ \A b \in OnPath(t) : \E k \in 1 .. Len(t.stack) : b = t.stack[k][1]
  BY PathBlocks DEF Turning
<1>4. /\ Len(t.stack) = L /\ t.seen = s.seen /\ ~t.found /\ \A k \in 1 .. L - 1 : t.stack[k] = s.stack[k]
      /\ i \in 1 .. Len(list) /\ t.stack[L] = <<u, i + 1>>
      /\ v \in Done(s) \/ (v \in OnPath(s) /\ v \in dom[u])
  BY DEF Crosses, Retreats, Looks, Turning, Below
<1>5. list \in Seq(N) /\ Len(list) \in Nat
  <2> HIDE DEF u
  <2>1. QED
    BY <1>2 DEF Turning, Listed
<1> HIDE DEF u, i, list, v, L
<1>6. /\ \A k \in 1 .. L : t.stack[k][1] = at(k)
      /\ \A k \in 1 .. L : t.stack[k][2] = IF k = L THEN i + 1 ELSE s.stack[k][2]
  <2>1. ASSUME NEW k \in 1 .. L
        PROVE  t.stack[k][1] = at(k) /\ t.stack[k][2] = IF k = L THEN i + 1 ELSE s.stack[k][2]
    <3>1. CASE k = L
      BY <1>2, <1>4, <3>1
    <3>2. CASE k # L
      <4>1. k \in 1 .. L - 1
        BY <1>1, <3>2
      <4>2. QED
        BY <1>4, <3>2, <4>1
    <3>3. QED
      BY <3>1, <3>2
  <2>2. QED
    BY <2>1
<1>7. OnPath(t) = OnPath(s) /\ Done(t) = Done(s)
  <2>1. OnPath(t) = OnPath(s)
    <3>1. ASSUME NEW b \in OnPath(t) PROVE b \in OnPath(s)
      <4>1. PICK k \in 1 .. L : b = t.stack[k][1]
        BY <1>3, <1>4
      <4>2. QED
        BY <1>1, <1>6, <4>1
    <3>2. ASSUME NEW b \in OnPath(s) PROVE b \in OnPath(t)
      <4>1. PICK k \in 1 .. L : b = at(k)
        BY <1>1
      <4>2. t.stack[k][1] = b /\ k \in 1 .. Len(t.stack)
        BY <1>4, <1>6, <4>1
      <4>3. QED
        BY <1>3, <4>2
    <3>3. QED
      BY <3>1, <3>2
  <2>2. QED
    BY <1>4, <2>1 DEF Done
<1>8. v \in s.seen
  <2>1. OnPath(s) \subseteq s.seen
    BY <1>1 DEF Turning, PathInv, L
  <2>2. QED
    BY <1>4, <2>1 DEF Done
<1>9. PathInv(t, graph)
  <2>1. 0 \in t.seen
    BY <1>4 DEF Turning, PathInv
  <2>2. ASSUME NEW k \in 1 .. L
        PROVE  t.stack[k][1] \in t.seen /\ t.stack[k][2] \in 1 .. Len(SuccList(graph, t.stack[k][1])) + 1
    <3>1. at(k) \in s.seen /\ s.stack[k][2] \in 1 .. Len(SuccList(graph, at(k))) + 1
      BY DEF Turning, PathInv, L
    <3>2. CASE k = L
      <4>1. i + 1 \in 1 .. Len(list) + 1
        BY <1>4, <1>5
      <4>2. SuccList(graph, at(L)) = list
        BY <1>2 DEF list
      <4>3. QED
        BY <1>4, <1>6, <3>1, <3>2, <4>1, <4>2
    <3>3. CASE k # L
      BY <1>4, <1>6, <3>1, <3>3
    <3>4. QED
      BY <3>2, <3>3
  <2>3. \A j, k \in 1 .. L : t.stack[j][1] = t.stack[k][1] => j = k
    BY <1>6 DEF Turning, PathInv, L
  <2>4. t.stack[1][1] = 0
    <3>1. 1 \in 1 .. L /\ at(1) = 0
      BY <1>1, <1>2 DEF Turning, PathInv, L
    <3>2. QED
      BY <1>6, <3>1
  <2>5. ASSUME NEW k \in 1 .. L - 1
        PROVE  /\ t.stack[k][2] > 1
               /\ t.stack[k + 1][1] = SuccList(graph, t.stack[k][1])[t.stack[k][2] - 1]
    <3>1. k \in 1 .. L /\ k + 1 \in 1 .. L /\ k # L
      BY <1>1
    <3>2. s.stack[k][2] > 1 /\ at(k + 1) = SuccList(graph, at(k))[s.stack[k][2] - 1]
      BY DEF Turning, PathInv, L
    <3>3. QED
      BY <1>6, <3>1, <3>2
  <2>6. QED
    BY <1>4, <2>1, <2>2, <2>3, <2>4, <2>5 DEF PathInv
<1>10. TriedInv(t, graph, dom)
  <2>1. SUFFICES ASSUME NEW k \in 1 .. L, NEW j \in 1 .. t.stack[k][2] - 1
                 PROVE  LET c == SuccList(graph, at(k))[j]
                        IN  c \in s.seen /\ \/ c \in dom[at(k)]
                                            \/ c \in Done(s)
                                            \/ k < L /\ c = t.stack[k + 1][1]
    BY <1>4, <1>6, <1>7 DEF TriedInv
  <2>2. CASE k # L
    <3>1. k + 1 \in 1 .. L /\ t.stack[k + 1][1] = at(k + 1) /\ j \in 1 .. s.stack[k][2] - 1
      BY <1>1, <1>6, <2>2
    <3>2. QED
      BY <3>1 DEF Turning, TriedInv, L
  <2>3. CASE k = L
    <3>1. j \in 1 .. i
      BY <1>1, <1>2, <1>6, <2>3
    <3>2. CASE j = i
      <4>1. SuccList(graph, at(k))[j] = v
        BY <1>2, <2>3, <3>2 DEF v, list
      <4>2. QED
        BY <1>2, <1>4, <1>8, <2>3, <4>1
    <3>3. CASE j # i
      <4>1. j \in 1 .. s.stack[L][2] - 1
        BY <1>1, <1>2, <3>1, <3>3
      <4>2. LET c == SuccList(graph, at(L))[j]
            IN  c \in s.seen /\ (c \in dom[at(L)] \/ c \in Done(s) \/ L < L)
        BY <1>2, <4>1 DEF Turning, TriedInv, L
      <4>3. QED
        BY <1>1, <2>3, <4>2
    <3>4. QED
      BY <3>2, <3>3
  <2>4. QED
    BY <2>2, <2>3
<1>11. DoneInv(t, N, succs, dom)
  BY <1>4, <1>7 DEF Turning, DoneInv
<1>12. QED
  BY <1>4, <1>9, <1>10, <1>11 DEF SearchInv

LEMMA EntersKeeps ==
  ASSUME NEW N, NEW succs, NEW graph, NEW dom, NEW s, NEW t, Turning(N, succs, graph, dom, s, t),
         Enters(s, t, SuccList(graph, TopBlock(s)))
  PROVE  SearchInv(t, N, succs, graph, dom)
<1> DEFINE L == Len(s.stack)
           at(k) == s.stack[k][1]
           u == TopBlock(s)
           i == TopIndex(s)
           list == SuccList(graph, u)
           v == list[i]
<1>1. /\ L \in Nat /\ \A k \in 1 .. L : at(k) \in N /\ s.stack[k][2] \in Nat /\ at(k) \in OnPath(s)
      /\ \A b \in OnPath(s) : \E k \in 1 .. L : b = at(k)
  BY PathBlocks DEF Turning
<1>2. L > 0 /\ L \in 1 .. L /\ u = at(L) /\ u \in N /\ i = s.stack[L][2]
  BY <1>1 DEF Turning, TopBlock, TopIndex
<1>3. /\ \A k \in 1 .. Len(t.stack) : t.stack[k][1] \in OnPath(t)
      /\ \A b \in OnPath(t) : \E k \in 1 .. Len(t.stack) : b = t.stack[k][1]
      /\ \A k \in 1 .. Len(t.stack) : t.stack[k][1] \in N
  BY PathBlocks DEF Turning
<1>4. /\ Len(t.stack) = L + 1 /\ t.seen = s.seen \union {v} /\ ~t.found
      /\ \A k \in 1 .. L - 1 : t.stack[k] = s.stack[k]
      /\ i \in 1 .. Len(list) /\ t.stack[L] = <<u, i + 1>> /\ t.stack[L + 1] = <<v, 1>>
      /\ v \notin s.seen \union OnPath(s)
  BY DEF Enters, Looks, Turning, Below
<1>5. list \in Seq(N) /\ Len(list) \in Nat /\ v \in N
  <2>1. list \in Seq(N)
    <3> HIDE DEF u
    <3>1. QED
      BY <1>2 DEF Turning, Listed
  <2> HIDE DEF list, i
  <2>2. QED
    BY <1>4, <2>1
<1> HIDE DEF u, i, list, v, L
<1>6. /\ \A k \in 1 .. L : t.stack[k][1] = at(k)
      /\ \A k \in 1 .. L : t.stack[k][2] = IF k = L THEN i + 1 ELSE s.stack[k][2]
      /\ t.stack[L + 1][1] = v /\ t.stack[L + 1][2] = 1
      /\ \A k \in 1 .. L : at(k) # v
  <2>1. \A k \in 1 .. L : k = L \/ k \in 1 .. L - 1
    BY <1>1
  <2>2. QED
    BY <1>1, <1>2, <1>4, <2>1
<1>7. OnPath(t) = OnPath(s) \union {v} /\ Done(t) = Done(s)
  <2>1. \A k \in 1 .. L + 1 : k = L + 1 \/ k \in 1 .. L
    BY <1>1
  <2>2. L + 1 \in 1 .. L + 1 /\ \A k \in 1 .. L : k \in 1 .. L + 1
    BY <1>1
  <2>3. OnPath(t) = OnPath(s) \union {v}
    <3>1. ASSUME NEW b \in OnPath(t) PROVE b \in OnPath(s) \union {v}
      <4>1. PICK k \in 1 .. L + 1 : b = t.stack[k][1]
        BY <1>3, <1>4
      <4>2. QED
        BY <1>1, <1>6, <2>1, <4>1
    <3>2. ASSUME NEW b \in OnPath(s) PROVE b \in OnPath(t)
      <4>1. PICK k \in 1 .. L : b = at(k)
        BY <1>1
      <4>2. t.stack[k][1] = b /\ k \in 1 .. Len(t.stack)
        BY <1>4, <1>6, <2>2, <4>1
      <4>3. QED
        BY <1>3, <4>2
    <3>3. v \in OnPath(t)
      BY <1>3, <1>4, <1>6, <2>2
    <3>4. QED
      BY <3>1, <3>2, <3>3
  <2>4. QED
    BY <1>4, <2>3 DEF Done
<1>8. \A k \in 1 .. L + 1 : k = L + 1 \/ k \in 1 .. L
  BY <1>1
<1>9. PathInv(t, graph)
  <2>1. 0 \in t.seen
    BY <1>4 DEF Turning, PathInv
  <2>2. ASSUME NEW k \in 1 .. L + 1
        PROVE  t.stack[k][1] \in t.seen /\ t.stack[k][2] \in 1 .. Len(SuccList(graph, t.stack[k][1])) + 1
    <3>1. CASE k = L + 1
      <4>1. Len(SuccList(graph, v)) \in Nat
        BY <1>5 DEF Turning, Listed
      <4>2. 1 \in 1 .. Len(SuccList(graph, v)) + 1
        BY <4>1
      <4>3. QED
        BY <1>4, <1>6, <3>1, <4>2
    <3>2. CASE k = L
      <4>1. i + 1 \in 1 .. Len(list) + 1
        BY <1>4, <1>5
      <4>2. SuccList(graph, at(L)) = list /\ at(L) \in s.seen
        BY <1>2 DEF list, Turning, PathInv, L
      <4>3. QED
        BY <1>2, <1>4, <1>6, <3>2, <4>1, <4>2
    <3>3. CASE k \in 1 .. L /\ k # L
      <4>1. at(k) \in s.seen /\ s.stack[k][2] \in 1 .. Len(SuccList(graph, at(k))) + 1
        BY <3>3 DEF Turning, PathInv, L
      <4>2. QED
        BY <1>4, <1>6, <3>3, <4>1
    <3>4. QED
      BY <1>8, <3>1, <3>2, <3>3
  <2>3. ASSUME NEW j \in 1 .. L + 1, NEW k \in 1 .. L + 1, t.stack[j][1] = t.stack[k][1] PROVE j = k
    <3>1. CASE j = L + 1 /\ k # L + 1
      BY <1>6, <1>8, <2>3, <3>1
    <3>2. CASE j # L + 1 /\ k = L + 1
      BY <1>6, <1>8, <2>3, <3>2
    <3>3. CASE j # L + 1 /\ k # L + 1
      <4>1. j \in 1 .. L /\ k \in 1 .. L
        BY <1>8, <3>3
      <4>2. at(j) = at(k)
        BY <1>6, <2>3, <4>1
      <4>3. QED
        BY <4>1, <4>2 DEF Turning, PathInv, L
    <3>4. QED
      BY <3>1, <3>2, <3>3
  <2>4. t.stack[1][1] = 0
    <3>1. 1 \in 1 .. L /\ at(1) = 0
      BY <1>1, <1>2 DEF Turning, PathInv, L
    <3>2. QED
      BY <1>6, <3>1
  <2>5. ASSUME NEW k \in 1 .. L
        PROVE  /\ t.stack[k][2] > 1
               /\ t.stack[k + 1][1] = SuccList(graph, t.stack[k][1])[t.stack[k][2] - 1]
    <3>1. CASE k = L
      <4>1. i + 1 > 1 /\ (i + 1) - 1 = i
        BY <1>4, <1>5
      <4>2. SuccList(graph, at(L))[i] = v
        BY <1>2 DEF v, list
      <4>3. t.stack[L][2] = i + 1 /\ t.stack[L][1] = at(L) /\ t.stack[L + 1][1] = v
        BY <1>2, <1>6
      <4>4. QED
        BY <3>1, <4>1, <4>2, <4>3
    <3>2. CASE k # L
      <4>1. k \in 1 .. L - 1 /\ k + 1 \in 1 .. L
        BY <1>1, <3>2
      <4>2. s.stack[k][2] > 1 /\ at(k + 1) = SuccList(graph, at(k))[s.stack[k][2] - 1]
        BY <4>1 DEF Turning, PathInv, L
      <4>3. QED
        BY <1>6, <3>2, <4>1, <4>2
    <3>3. QED
      BY <3>1, <3>2
  <2>6. Len(t.stack) - 1 = L
    BY <1>1, <1>4
  <2>7. QED
    BY <1>4, <2>1, <2>2, <2>3, <2>4, <2>5, <2>6 DEF PathInv
<1>10. TriedInv(t, graph, dom)
  <2>1. SUFFICES ASSUME NEW k \in 1 .. L + 1, NEW j \in 1 .. t.stack[k][2] - 1
                 PROVE  LET c == SuccList(graph, t.stack[k][1])[j]
                        IN  c \in t.seen /\ \/ c \in dom[t.stack[k][1]]
                                            \/ c \in Done(s)
                                            \/ k < L + 1 /\ c = t.stack[k + 1][1]
    BY <1>4, <1>7 DEF TriedInv
  <2>2. CASE k \in 1 .. L /\ k # L
    <3>1. k + 1 \in 1 .. L /\ t.stack[k + 1][1] = at(k + 1) /\ j \in 1 .. s.stack[k][2] - 1 /\ k < L + 1
          /\ t.stack[k][1] = at(k)
      BY <1>1, <1>6, <2>2
    <3>2. LET c == SuccList(graph, at(k))[j]
          IN  c \in s.seen /\ (c \in dom[at(k)] \/ c \in Done(s) \/ c = at(k + 1))
      BY <2>2, <3>1 DEF Turning, TriedInv, L
    <3>3. QED
      BY <1>4, <3>1, <3>2
  <2>3. CASE k = L
    <3>1. j \in 1 .. i /\ t.stack[k][1] = at(L) /\ k < L + 1
      BY <1>1, <1>2, <1>6, <2>3
    <3>2. CASE j = i
      <4>1. SuccList(graph, at(L))[j] = v
        BY <1>2, <2>3, <3>2 DEF v, list
      <4>2. QED
        BY <1>4, <1>6, <2>3, <3>1, <4>1
    <3>3. CASE j # i
      <4>1. j \in 1 .. s.stack[L][2] - 1
        BY <1>1, <1>2, <3>1, <3>3
      <4>2. LET c == SuccList(graph, at(L))[j]
            IN  c \in s.seen /\ (c \in dom[at(L)] \/ c \in Done(s) \/ L < L)
        BY <1>2, <4>1 DEF Turning, TriedInv, L
      <4>3. QED
        BY <1>1, <1>4, <3>1, <4>2
    <3>4. QED
      BY <3>2, <3>3
  <2>4. CASE k = L + 1
    BY <1>6, <2>4
  <2>5. QED
    BY <1>8, <2>2, <2>3, <2>4
<1>11. DoneInv(t, N, succs, dom)
  BY <1>4, <1>7 DEF Turning, DoneInv
<1>12. QED
  BY <1>4, <1>9, <1>10, <1>11 DEF SearchInv

LEMMA TurnKeeps ==
  ASSUME NEW N, NEW succs, FlowOK(N, succs), NEW graph, Listed(N, succs, graph),
         NEW s \in Searches(N), SearchInv(s, N, succs, graph, Dominators(N, Inverted(succs)))
  PROVE  LET dom == Dominators(N, Inverted(succs))
             t   == Turn(graph, dom, s)
         IN  /\ t \in Searches(N) /\ SearchInv(t, N, succs, graph, dom)
             /\ s.stack = <<>> \/ s.found => t = s
             /\ s.stack # <<>> /\ ~s.found =>
                  /\ Turns(s, t, SuccList(graph, TopBlock(s)), dom)
                  /\ Turning(N, succs, graph, dom, s, t)
<1> DEFINE dom == Dominators(N, Inverted(succs))
           t == Turn(graph, dom, s)
           list == SuccList(graph, TopBlock(s))
<1>1. CASE s.stack = <<>> \/ s.found
  <2>1. t = s
    BY <1>1 DEF Turn
  <2>2. QED
    BY <1>1, <2>1
<1>2. CASE s.stack # <<>> /\ ~s.found
  <2>1. PathInv(s, graph) /\ TriedInv(s, graph, dom) /\ DoneInv(s, N, succs, dom)
    BY <1>2 DEF SearchInv
  <2>2. /\ Len(s.stack) \in Nat /\ Len(s.stack) > 0 /\ Len(s.stack) \in 1 .. Len(s.stack)
        /\ TopBlock(s) \in N /\ TopBlock(s) \in OnPath(s)
    <3>1. s.stack \in Seq(N \X Nat)
      BY DEF Searches
    <3>2. Len(s.stack) \in Nat /\ Len(s.stack) > 0
      BY <1>2, <3>1
    <3>3. QED
      BY <3>2, PathBlocks DEF TopBlock
  <2>3. TopIndex(s) >= 1
    BY <2>1, <2>2 DEF PathInv, TopIndex
  <2> HIDE DEF dom
  <2>4. t \in Searches(N) /\ Turns(s, t, list, dom)
    BY <1>2, <2>3, TurnIs
  <2> HIDE DEF t
  <2>5. Turning(N, succs, graph, dom, s, t)
    BY <1>2, <2>1, <2>2, <2>4 DEF Turning, Turns, FlowOK
  <2>6. SearchInv(t, N, succs, graph, dom)
    <3>1. CASE Leaves(s, t, list)
      BY <2>5, <3>1, LeavesKeeps
    <3>2. CASE Retreats(s, t, list, dom) /\ ~t.found
      BY <2>5, <3>2, StaysKeeps
    <3>3. CASE Retreats(s, t, list, dom) /\ t.found
      <4>1. list \in Seq(N) /\ succs[TopBlock(s)] = {list[i] : i \in 1 .. Len(list)}
        BY <2>2 DEF Listed
      <4> DEFINE v == list[TopIndex(s)]
      <4>2. v \in OnPath(s) /\ v \in succs[TopBlock(s)] /\ v \notin dom[TopBlock(s)]
        BY <3>3, <4>1 DEF Retreats, Looks
      <4> HIDE DEF v
      <4>3. Cycles(N, Forward(N, succs, dom))
        BY <2>1, <4>2, RetreatFinds DEF dom
      <4>4. QED
        BY <3>3, <4>3 DEF SearchInv
    <3>4. CASE Crosses(s, t, list)
      BY <2>5, <3>4, StaysKeeps
    <3>5. CASE Enters(s, t, list)
      BY <2>5, <3>5, EntersKeeps
    <3>6. QED
      BY <2>4, <3>1, <3>2, <3>3, <3>4, <3>5 DEF Turns
  <2>7. QED
    BY <1>2, <2>4, <2>5, <2>6 DEF t, dom
<1>3. QED
  BY <1>1, <1>2

-----------------------------------------------------------------------------
(* The search ends: every turn works off another pair of a block and an index *)
(* into its successors.                                                      *)

Worked(s, N, graph) ==
  {p \in N \X (1 .. 3) :
     /\ p[1] \in s.seen
     /\ \/ p[1] \notin OnPath(s) /\ p[2] <= Len(SuccList(graph, p[1])) + 1
        \/ \E k \in 1 .. Len(s.stack) : p[1] = s.stack[k][1] /\ p[2] < s.stack[k][2]}

LEMMA TurnWorks ==
  ASSUME NEW N, NEW succs, NEW graph, NEW dom, NEW s, NEW t, Turning(N, succs, graph, dom, s, t),
         Turns(s, t, SuccList(graph, TopBlock(s)), dom)
  PROVE  /\ Worked(s, N, graph) \subseteq Worked(t, N, graph)
         /\ <<TopBlock(s), TopIndex(s)>> \in Worked(t, N, graph) \ Worked(s, N, graph)
<1> DEFINE L == Len(s.stack)
           at(k) == s.stack[k][1]
           u == TopBlock(s)
           i == TopIndex(s)
           list == SuccList(graph, u)
<1>1. /\ L \in Nat /\ \A k \in 1 .. L : at(k) \in N /\ s.stack[k][2] \in Nat /\ at(k) \in OnPath(s)
      /\ \A b \in OnPath(s) : \E k \in 1 .. L : b = at(k)
  BY PathBlocks DEF Turning
<1>2. L > 0 /\ L \in 1 .. L /\ u = at(L) /\ u \in N /\ i = s.stack[L][2] /\ u \in OnPath(s)
  BY <1>1 DEF Turning, TopBlock, TopIndex
<1>3. /\ Len(t.stack) \in Nat /\ \A k \in 1 .. Len(t.stack) : t.stack[k][1] \in OnPath(t)
      /\ \A b \in OnPath(t) : \E k \in 1 .. Len(t.stack) : b = t.stack[k][1]
  BY PathBlocks DEF Turning
<1>4. u \in s.seen /\ i \in 1 .. Len(list) + 1
  BY <1>2 DEF Turning, PathInv
<1>5. Len(list) \in Nat /\ Len(list) <= 2
  <2> HIDE DEF u
  <2>1. list \in Seq(N) /\ Len(list) <= 2
    BY <1>2 DEF Turning, Listed
  <2>2. QED
    BY <2>1
<1>6. <<u, i>> \in N \X (1 .. 3) /\ i \in Nat
  BY <1>2, <1>4, <1>5
<1>7. \A k \in 1 .. L - 1 : k \in 1 .. L /\ k # L /\ t.stack[k] = s.stack[k] /\ at(k) # u
  <2>1. \A k \in 1 .. L - 1 : k \in 1 .. L /\ k # L
    BY <1>1
  <2>2. QED
    BY <1>2, <2>1 DEF Turning, Below, PathInv
<1>8. /\ s.seen \subseteq t.seen
      /\ OnPath(t) \cap s.seen \subseteq OnPath(s)
      /\ \/ Len(t.stack) = L - 1 /\ u \notin OnPath(t) /\ i = Len(list) + 1
         \/ Len(t.stack) >= L /\ t.stack[L] = <<u, i + 1>>
  <2>1. CASE Leaves(s, t, list)
    <3>1. Len(t.stack) = L - 1 /\ t.seen = s.seen /\ i > Len(list)
      BY <2>1 DEF Leaves
    <3>2. i = Len(list) + 1
      BY <1>4, <1>5, <1>6, <3>1
    <3> HIDE DEF u, i, list, L
    <3>3. ASSUME NEW b \in OnPath(t) PROVE b \in OnPath(s) /\ b # u
      <4>1. PICK k \in 1 .. L - 1 : b = t.stack[k][1]
        BY <1>3, <3>1
      <4>2. QED
        BY <1>1, <1>7, <4>1
    <3>4. QED
      BY <3>1, <3>2, <3>3
  <2>2. CASE Looks(s, t, list) /\ Len(t.stack) = L /\ t.seen = s.seen
    <3>1. t.stack[L] = <<u, i + 1>>
      BY <2>2 DEF Looks
    <3> HIDE DEF u, i, list, L
    <3>2. ASSUME NEW b \in OnPath(t) PROVE b \in OnPath(s)
      <4>1. PICK k \in 1 .. L : b = t.stack[k][1]
        BY <1>3, <2>2
      <4>2. CASE k = L
        BY <1>2, <3>1, <4>1, <4>2
      <4>3. CASE k # L
        <5>1. k \in 1 .. L - 1
          BY <1>1, <4>3
        <5>2. QED
          BY <1>1, <1>7, <4>1, <5>1
      <4>4. QED
        BY <4>2, <4>3
    <3>3. QED
      BY <1>1, <2>2, <3>1, <3>2
  <2>3. CASE Enters(s, t, list)
    <3> DEFINE v == list[i]
    <3>1. /\ t.stack[L] = <<u, i + 1>> /\ Len(t.stack) = L + 1 /\ t.stack[L + 1] = <<v, 1>>
          /\ t.seen = s.seen \union {v} /\ v \notin s.seen
      BY <2>3 DEF Enters, Looks
    <3> HIDE DEF u, i, list, L, v
    <3>2. ASSUME NEW b \in OnPath(t), b \in s.seen PROVE b \in OnPath(s)
      <4>1. PICK k \in 1 .. L + 1 : b = t.stack[k][1]
        BY <1>3, <3>1
      <4>2. CASE k = L
        BY <1>2, <3>1, <4>1, <4>2
      <4>3. CASE k = L + 1
        BY <3>1, <3>2, <4>1, <4>3
      <4>4. CASE k # L /\ k # L + 1
        <5>1. k \in 1 .. L - 1
          BY <1>1, <4>4
        <5>2. QED
          BY <1>1, <1>7, <4>1, <5>1
      <4>5. QED
        BY <4>2, <4>3, <4>4
    <3>3. QED
      BY <1>1, <3>1, <3>2
  <2>4. QED
    BY <2>1, <2>2, <2>3 DEF Turns, Retreats, Crosses
<1>9. <<u, i>> \notin Worked(s, N, graph)
  <2>1. \A k \in 1 .. L : u = at(k) => k = L
    BY <1>2 DEF Turning, PathInv
  <2> HIDE DEF u, i
  <2>2. QED
    BY <1>2, <1>6, <2>1 DEF Worked
<1> HIDE DEF u, i, list
<1>10. SuccList(graph, u) = list
  BY DEF list
<1> HIDE DEF L
<1>11. <<u, i>> \in Worked(t, N, graph)
  <2>1. CASE u \notin OnPath(t) /\ i = Len(list) + 1
    BY <1>4, <1>5, <1>6, <1>8, <1>10, <2>1 DEF Worked
  <2>2. CASE Len(t.stack) >= L /\ t.stack[L] = <<u, i + 1>>
    <3>1. L \in 1 .. Len(t.stack) /\ u = t.stack[L][1] /\ i < t.stack[L][2]
      BY <1>2, <1>3, <1>6, <2>2
    <3>2. QED
      BY <1>4, <1>6, <1>8, <3>1 DEF Worked
  <2>3. QED
    BY <1>8, <2>1, <2>2
<1>12. ASSUME NEW p \in Worked(s, N, graph) PROVE p \in Worked(t, N, graph)
  <2>1. p \in N \X (1 .. 3) /\ p[1] \in s.seen /\ p[1] \in t.seen
    BY <1>8, <1>12 DEF Worked
  <2>2. CASE p[1] \notin OnPath(s) /\ p[2] <= Len(SuccList(graph, p[1])) + 1
    <3>1. p[1] \notin OnPath(t)
      BY <1>8, <2>1, <2>2
    <3>2. QED
      BY <2>1, <2>2, <3>1 DEF Worked
  <2>3. ASSUME NEW k \in 1 .. L, p[1] = at(k), p[2] < s.stack[k][2] PROVE p \in Worked(t, N, graph)
    <3>1. CASE k # L
      <4>1. k \in 1 .. L - 1
        BY <1>1, <3>1
      <4>2. t.stack[k] = s.stack[k] /\ k \in 1 .. Len(t.stack)
        BY <1>1, <1>3, <1>7, <1>8, <4>1
      <4>3. QED
        BY <2>1, <2>3, <4>2 DEF Worked
    <3>2. CASE k = L
      <4>1. p[1] = u /\ p[2] < i /\ p[2] \in 1 .. 3
        BY <1>2, <2>1, <2>3, <3>2
      <4>2. CASE u \notin OnPath(t) /\ i = Len(list) + 1
        <5>1. p[2] <= Len(list) + 1
          BY <1>5, <4>1, <4>2
        <5>2. QED
          BY <1>10, <2>1, <4>1, <4>2, <5>1 DEF Worked
      <4>3. CASE Len(t.stack) >= L /\ t.stack[L] = <<u, i + 1>>
        <5>1. L \in 1 .. Len(t.stack) /\ p[1] = t.stack[L][1] /\ p[2] < t.stack[L][2]
          BY <1>2, <1>3, <1>6, <4>1, <4>3
        <5>2. QED
          BY <2>1, <5>1 DEF Worked
      <4>4. QED
        BY <1>8, <4>2, <4>3
    <3>3. QED
      BY <3>1, <3>2
  <2>4. QED
    BY <1>12, <2>2, <2>3 DEF Worked, L
<1>13. QED
  BY <1>9, <1>11, <1>12 DEF u, i

LEMMA IrreducibleHolds ==
  ASSUME NEW N, NEW succs, FlowOK(N, succs), NEW graph, Listed(N, succs, graph),
         IsFiniteSet(Blocks(graph)), N \subseteq Blocks(graph)
  PROVE  LET dom == Dominators(N, Inverted(succs))
         IN  Irreducible(graph, dom) <=> Cycles(N, Forward(N, succs, dom))
<1> DEFINE dom == Dominators(N, Inverted(succs))
           forward == Forward(N, succs, dom)
           S == {s \in Searches(N) : SearchInv(s, N, succs, graph, dom)}
           start == [stack |-> <<<<0, 1>>>>, seen |-> {0}, found |-> FALSE]
           more == [s \in S |-> Turn(graph, dom, s)]
           Eq(g) == g = [n \in Nat |-> IF n = 0 THEN start ELSE Turn(graph, dom, g[n - 1])]
           turn == CHOOSE g : Eq(g)
           turns == 3 * Cardinality(Blocks(graph))
<1>1. /\ IsFiniteSet(N) /\ N \subseteq Nat /\ 0 \in N /\ succs \in [N -> SUBSET N]
      /\ \A T : {0} \subseteq T /\ (\A x \in T \cap N : succs[x] \subseteq T) => N \subseteq T
  <2>1. {0} \in SUBSET N /\ IsFiniteSet(N) /\ N \subseteq Nat /\ succs \in [N -> SUBSET N] /\ N = Closure(succs, {0})
    BY DEF FlowOK
  <2>2. QED
    BY <2>1, ClosureIs
<1>2. start \in S
  <2>1. /\ start.stack = <<<<0, 1>>>> /\ start.seen = {0} /\ ~start.found
        /\ Len(start.stack) = 1 /\ start.stack[1] = <<0, 1>>
    OBVIOUS
  <2>2. start \in Searches(N)
    <3>1. <<0, 1>> \in N \X Nat
      BY <1>1
    <3>2. <<<<0, 1>>>> \in Seq(N \X Nat)
      BY <3>1
    <3>3. QED
      BY <1>1, <3>2 DEF Searches
  <2> HIDE DEF start
  <2>3. OnPath(start) = {0}
    <3>1. DOMAIN start.stack = 1 .. 1
      BY <2>1
    <3>2. QED
      BY <2>1, <3>1 DEF OnPath
  <2>4. PathInv(start, graph)
    <3>1. Len(SuccList(graph, 0)) \in Nat
      BY <1>1 DEF Listed
    <3>2. 1 \in 1 .. Len(SuccList(graph, 0)) + 1
      BY <3>1
    <3>3. QED
      BY <2>1, <3>2 DEF PathInv
  <2>5. TriedInv(start, graph, dom)
    BY <2>1 DEF TriedInv
  <2>6. DoneInv(start, N, succs, dom)
    BY <2>1, <2>3 DEF DoneInv, Done
  <2>7. QED
    BY <2>1, <2>2, <2>4, <2>5, <2>6 DEF SearchInv
<1>3. ASSUME NEW s \in S
      PROVE  /\ Turn(graph, dom, s) \in S
             /\ s.stack = <<>> \/ s.found => Turn(graph, dom, s) = s
             /\ s.stack # <<>> /\ ~s.found =>
                  /\ Turns(s, Turn(graph, dom, s), SuccList(graph, TopBlock(s)), dom)
                  /\ Turning(N, succs, graph, dom, s, Turn(graph, dom, s))
  BY TurnKeeps
<1>4. more \in [S -> S]
  <2> HIDE DEF S
  <2>1. QED
    BY <1>3
<1> HIDE DEF S, start
<1>5. PICK g : Repeats(g, S, start, more)
  BY <1>2, <1>4, Rounds
<1>6. ASSUME NEW n \in Nat, n # 0 PROVE g[n] = Turn(graph, dom, g[n - 1])
  <2>1. n - 1 \in Nat /\ g[n - 1] \in S
    BY <1>5, <1>6 DEF Repeats
  <2>2. g[n] = more[g[n - 1]]
    BY <1>5, <1>6 DEF Repeats
  <2>3. QED
    BY <2>1, <2>2
<1>7. Eq(g)
  BY <1>5, <1>6 DEF Repeats
<1>8. Eq(turn)
  BY <1>7
<1>9. Irreducible(graph, dom) = turn[turns].found
  BY DEF Irreducible, start
<1> HIDE DEF turn, dom
<1>10. ASSUME NEW n \in Nat PROVE turn[n + 1] = Turn(graph, dom, turn[n])
  <2>1. n + 1 \in Nat /\ n + 1 # 0 /\ (n + 1) - 1 = n
    OBVIOUS
  <2>2. turn[n + 1] = Turn(graph, dom, turn[(n + 1) - 1])
    BY <1>8, <2>1
  <2>3. QED
    BY <2>1, <2>2
<1>11. turn[0] = start
  BY <1>8
<1> HIDE DEF Eq
<1>12. \A n \in Nat : turn[n] \in S
  <2> DEFINE T == {n \in Nat : turn[n] \in S}
  <2>1. 0 \in T
    BY <1>2, <1>11
  <2>2. ASSUME NEW n \in Nat, n \in T PROVE n + 1 \in T
    BY <1>3, <1>10, <2>2
  <2>3. \A n \in Nat : n \in T
    <3> HIDE DEF T
    <3>1. QED
      BY <2>1, <2>2, Induction
  <2>4. QED
    BY <2>3
<1>13. /\ \A s : IsFiniteSet(Worked(s, N, graph)) /\ Cardinality(Worked(s, N, graph)) \in Nat
                 /\ Cardinality(Worked(s, N, graph)) <= 3 * Cardinality(N)
       /\ Cardinality(N) \in Nat /\ turns \in Nat /\ 3 * Cardinality(N) <= turns
  <2>1. IsFiniteSet(1 .. 3) /\ Cardinality(1 .. 3) = 3
    <3>1. 1 \in Int /\ 3 \in Int
      OBVIOUS
    <3>2. IsFiniteSet(1 .. 3) /\ Cardinality(1 .. 3) = IF 1 > 3 THEN 0 ELSE 3 - 1 + 1
      BY <3>1, FS_Interval, Zenon
    <3>3. (IF 1 > 3 THEN 0 ELSE 3 - 1 + 1) = 3
      OBVIOUS
    <3>4. QED
      BY <3>2, <3>3
  <2>2. IsFiniteSet(N \X (1 .. 3)) /\ Cardinality(N \X (1 .. 3)) = Cardinality(N) * Cardinality(1 .. 3)
    BY <1>1, <2>1, FS_Product
  <2>3. Cardinality(N) \in Nat /\ Cardinality(Blocks(graph)) \in Nat /\ Cardinality(N) <= Cardinality(Blocks(graph))
    BY <1>1, FS_CardinalityType, FS_Subset
  <2>4. ASSUME NEW s
        PROVE  /\ IsFiniteSet(Worked(s, N, graph)) /\ Cardinality(Worked(s, N, graph)) \in Nat
               /\ Cardinality(Worked(s, N, graph)) <= Cardinality(N \X (1 .. 3))
    <3>1. Worked(s, N, graph) \in SUBSET (N \X (1 .. 3))
      BY DEF Worked
    <3>2. QED
      BY <2>2, <3>1, FS_Subset, FS_CardinalityType
  <2>5. Cardinality(N \X (1 .. 3)) = 3 * Cardinality(N)
    BY <2>1, <2>2, <2>3
  <2>6. QED
    BY <2>3, <2>4, <2>5
<1> DEFINE W(n) == Worked(turn[n], N, graph)
           going(n) == turn[n].stack # <<>> /\ ~turn[n].found
<1>14. ASSUME NEW n \in Nat, going(n + 1)
       PROVE  going(n) /\ Cardinality(W(n + 1)) > Cardinality(W(n))
  <2> DEFINE s == turn[n]
             t == turn[n + 1]
  <2>1. s \in S /\ t = Turn(graph, dom, s)
    BY <1>10, <1>12
  <2>2. going(n)
    BY <1>3, <1>14, <2>1
  <2>3. Turns(s, t, SuccList(graph, TopBlock(s)), dom) /\ Turning(N, succs, graph, dom, s, t)
    BY <1>3, <2>1, <2>2
  <2> HIDE DEF s, t
  <2>4. Worked(s, N, graph) \subseteq Worked(t, N, graph) /\ Worked(s, N, graph) # Worked(t, N, graph)
    BY <2>3, TurnWorks
  <2>5. /\ Cardinality(Worked(s, N, graph)) <= Cardinality(Worked(t, N, graph))
        /\ Cardinality(Worked(s, N, graph)) # Cardinality(Worked(t, N, graph))
    BY <1>13, <2>4, FS_Subset
  <2>6. QED
    BY <1>13, <2>2, <2>5 DEF s, t
<1>15. \A n \in Nat : going(n) => Cardinality(W(n)) >= n
  <2> DEFINE T == {n \in Nat : going(n) => Cardinality(W(n)) >= n}
  <2>1. 0 \in T
    BY <1>13
  <2>2. ASSUME NEW n \in Nat, n \in T PROVE n + 1 \in T
    <3>1. SUFFICES ASSUME going(n + 1) PROVE Cardinality(W(n + 1)) >= n + 1
      OBVIOUS
    <3>2. going(n) /\ Cardinality(W(n + 1)) > Cardinality(W(n))
      BY <1>14, <3>1
    <3>3. Cardinality(W(n)) >= n
      BY <2>2, <3>2
    <3>4. Cardinality(W(n)) \in Nat /\ Cardinality(W(n + 1)) \in Nat
      BY <1>13
    <3> HIDE DEF W, going
    <3>5. QED
      BY <3>2, <3>3, <3>4
  <2>3. \A n \in Nat : n \in T
    <3> HIDE DEF T
    <3>1. QED
      BY <2>1, <2>2, Induction
  <2>4. QED
    BY <2>3
<1> DEFINE end == turn[turns]
<1>16. end.stack = <<>> \/ end.found
  <2>1. SUFFICES ASSUME going(turns) PROVE FALSE
    OBVIOUS
  <2>2. Turns(end, Turn(graph, dom, end), SuccList(graph, TopBlock(end)), dom)
        /\ Turning(N, succs, graph, dom, end, Turn(graph, dom, end))
    BY <1>3, <1>12, <1>13, <2>1
  <2>3. Cardinality(W(turns)) >= turns
    BY <1>13, <1>15, <2>1
  <2> DEFINE t == Turn(graph, dom, end)
  <2> HIDE DEF t, end, turns
  <2>4. Worked(end, N, graph) \subseteq Worked(t, N, graph) /\ Worked(end, N, graph) # Worked(t, N, graph)
    <3>1. Turns(end, t, SuccList(graph, TopBlock(end)), dom) /\ Turning(N, succs, graph, dom, end, t)
      BY <2>2 DEF t
    <3>2. QED
      BY <3>1, TurnWorks
  <2>5. /\ Cardinality(Worked(end, N, graph)) <= Cardinality(Worked(t, N, graph))
        /\ Cardinality(Worked(end, N, graph)) # Cardinality(Worked(t, N, graph))
    BY <1>13, <2>4, FS_Subset
  <2>6. Cardinality(Worked(end, N, graph)) >= turns
    BY <2>3 DEF end
  <2>7. /\ Cardinality(Worked(end, N, graph)) \in Nat /\ Cardinality(Worked(t, N, graph)) \in Nat
        /\ Cardinality(Worked(t, N, graph)) <= 3 * Cardinality(N)
        /\ 3 * Cardinality(N) <= turns /\ turns \in Nat /\ Cardinality(N) \in Nat
    BY <1>13
  <2>8. QED
    BY <2>5, <2>6, <2>7
<1>17. end \in Searches(N) /\ SearchInv(end, N, succs, graph, dom)
  BY <1>12, <1>13 DEF S
<1>18. CASE end.found
  BY <1>9, <1>17, <1>18 DEF SearchInv, dom
<1>19. CASE ~end.found
  <2>1. end.stack = <<>> /\ PathInv(end, graph) /\ DoneInv(end, N, succs, dom)
    BY <1>16, <1>17, <1>19 DEF SearchInv
  <2>2. Done(end) = end.seen
    BY <2>1 DEF Done, OnPath
  <2>3. 0 \in end.seen /\ \A b \in end.seen : succs[b] \subseteq end.seen
    BY <2>1, <2>2 DEF PathInv, DoneInv
  <2>4. N \subseteq end.seen
    <3> HIDE DEF end
    <3>1. {0} \subseteq end.seen /\ \A x \in end.seen \cap N : succs[x] \subseteq end.seen
      BY <2>3
    <3>2. QED
      BY <1>1, <3>1
  <2>5. ~Cycles(N, forward)
    BY <2>1, <2>2, <2>4 DEF Cycles, DoneInv
  <2>6. QED
    BY <1>9, <1>19, <2>5 DEF dom
<1>20. QED
  BY <1>18, <1>19

-----------------------------------------------------------------------------
(* The graph of a function, and the theorem.                                 *)

\* InputsAssumption of one function.
GraphOK(graph) ==
  /\ \E last \in DOMAIN graph : last \in Nat /\ DOMAIN graph = 0 .. last
  /\ \A b \in DOMAIN graph :
       /\ graph[b] \in Seq(DOMAIN graph \union {None})
       /\ Len(graph[b]) <= 2
       /\ IsInjective(graph[b])
       /\ None \in Range(graph[b]) => Len(graph[b]) = 2 /\ graph[b][1] = None

LEMMA SuccListIs ==
  ASSUME NEW graph, GraphOK(graph), NEW b \in DOMAIN graph
  PROVE  /\ SuccList(graph, b) \in Seq(DOMAIN graph)
         /\ Len(SuccList(graph, b)) <= 2
         /\ Range(SuccList(graph, b)) = {SuccList(graph, b)[i] : i \in 1 .. Len(SuccList(graph, b))}
         /\ Range(SuccList(graph, b)) \subseteq DOMAIN graph
<1> DEFINE D == DOMAIN graph
           ends == graph[b]
           list == SuccList(graph, b)
<1>1. ends \in Seq(D \union {None}) /\ Len(ends) \in Nat /\ Len(ends) <= 2 /\ DOMAIN ends = 1 .. Len(ends)
  BY DEF GraphOK
<1>2. list \in Seq(D) /\ Len(list) <= 2
  <2>1. CASE ends # <<>> /\ ends[1] = None
    <3>1. Len(ends) = 2
      <4>1. 1 \in DOMAIN ends
        BY <1>1, <2>1
      <4>2. None \in Range(ends)
        BY <2>1, <4>1 DEF Range
      <4>3. QED
        BY <4>2 DEF GraphOK
    <3>2. ends[2] \in D
      <4>1. 1 \in DOMAIN ends /\ 2 \in DOMAIN ends
        BY <1>1, <3>1
      <4>2. ends[2] # ends[1]
        BY <4>1 DEF GraphOK, IsInjective
      <4>3. QED
        BY <1>1, <2>1, <4>1, <4>2
    <3>3. list = Tail(ends)
      BY <2>1 DEF SuccList
    <3>4. Tail(ends) \in Seq(D \union {None}) /\ Len(Tail(ends)) = 1 /\ Tail(ends)[1] = ends[2]
      <4>1. /\ Tail(ends) \in Seq(D \union {None})
            /\ Len(Tail(ends)) = Len(ends) - 1
            /\ \A i \in 1 .. Len(Tail(ends)) : Tail(ends)[i] = ends[i + 1]
        BY <1>1, <2>1, HeadTailProperties
      <4>2. Len(Tail(ends)) = 1
        BY <3>1, <4>1
      <4>3. 1 \in 1 .. Len(Tail(ends)) /\ 1 + 1 = 2
        BY <4>2
      <4>4. Tail(ends)[1] = ends[1 + 1]
        BY <4>1, <4>3
      <4>5. QED
        BY <4>1, <4>2, <4>3, <4>4
    <3>5. \A i \in 1 .. Len(list) : list[i] \in D
      BY <3>2, <3>3, <3>4
    <3>6. list \in Seq(D \union {None}) /\ Len(list) = 1
      BY <3>3, <3>4
    <3> HIDE DEF list, ends, D
    <3>7. Len(list) \in Nat /\ list = [i \in 1 .. Len(list) |-> list[i]]
      BY <3>6
    <3>8. list \in Seq(D)
      BY <3>5, <3>7
    <3>9. QED
      BY <3>6, <3>8
  <2>2. CASE ~(ends # <<>> /\ ends[1] = None)
    <3>1. list = ends
      BY <2>2 DEF SuccList
    <3>2. None \notin Range(ends)
      <4>1. SUFFICES ASSUME None \in Range(ends) PROVE FALSE
        OBVIOUS
      <4>2. Len(ends) = 2 /\ ends[1] = None
        BY <4>1 DEF GraphOK
      <4>3. ends # <<>>
        BY <4>2
      <4>4. QED
        BY <2>2, <4>2, <4>3
    <3>3. \A i \in 1 .. Len(ends) : ends[i] \in D
      BY <1>1, <3>2 DEF Range
    <3> HIDE DEF list, ends, D
    <3>4. ends = [i \in 1 .. Len(ends) |-> ends[i]]
      BY <1>1
    <3>5. ends \in Seq(D)
      BY <1>1, <3>3, <3>4
    <3>6. QED
      BY <1>1, <3>1, <3>5
  <2>3. QED
    BY <2>1, <2>2
<1> HIDE DEF list, D
<1>3. DOMAIN list = 1 .. Len(list) /\ \A i \in 1 .. Len(list) : list[i] \in D
  BY <1>2
<1>4. QED
  BY <1>2, <1>3 DEF Range, list, D

LEMMA GraphFlow ==
  ASSUME NEW graph, GraphOK(graph)
  PROVE  LET N     == Reachable(graph)
             succs == [b \in N |-> Range(SuccList(graph, b))]
         IN  /\ FlowOK(N, succs) /\ Listed(N, succs, graph)
             /\ N \subseteq Blocks(graph) /\ IsFiniteSet(Blocks(graph))
<1> DEFINE D == DOMAIN graph
           all == SuccsOf(graph)
           N == Reachable(graph)
           succs == [b \in N |-> Range(SuccList(graph, b))]
<1>1. D \subseteq Nat /\ IsFiniteSet(D) /\ 0 \in D
  <2>1. PICK last \in D : last \in Nat /\ D = 0 .. last
    BY DEF GraphOK
  <2>2. 0 \in Int /\ last \in Int
    BY <2>1
  <2>3. IsFiniteSet(0 .. last)
    BY <2>2, FS_Interval
  <2>4. QED
    BY <2>1, <2>3
<1>2. all = [b \in D |-> Range(SuccList(graph, b))]
  BY DEF SuccsOf, Blocks
<1>3. all \in [D -> SUBSET D]
  BY <1>2, SuccListIs
<1>4. N = Closure(all, {0})
  BY DEF Reachable
<1> HIDE DEF all, D, N
<1>5. 0 \in N /\ N \subseteq D /\ \A x \in N : all[x] \subseteq N
  <2>1. {0} \in SUBSET D
    BY <1>1
  <2>2. LeastClosed(N, D, all, {0})
    BY <1>1, <1>3, <1>4, <2>1, ClosureLeast
  <2>3. QED
    BY <2>2 DEF LeastClosed
<1>6. \A x \in N : succs[x] = all[x]
  BY <1>2, <1>5
<1>7. succs \in [N -> SUBSET N] /\ IsFiniteSet(N) /\ {0} \in SUBSET N
  <2>1. IsFiniteSet(N)
    BY <1>1, <1>5, FS_Subset
  <2>2. \A x \in N : Range(SuccList(graph, x)) \subseteq N
    BY <1>5, <1>6
  <2>3. QED
    BY <1>5, <2>1, <2>2
<1> HIDE DEF succs
<1> DEFINE C == Closure(succs, {0})
<1>8. /\ {0} \subseteq C /\ C \subseteq N /\ \A x \in C : succs[x] \subseteq C
  BY <1>7, ClosureIs
<1> HIDE DEF C
<1>9. N \subseteq C
  <2>1. {0} \in SUBSET D
    BY <1>1
  <2>2. \A x \in C \cap D : all[x] \subseteq C
    BY <1>6, <1>8
  <2>3. LeastClosed(N, D, all, {0})
    BY <1>1, <1>3, <1>4, <2>1, ClosureLeast
  <2>4. QED
    BY <1>8, <2>2, <2>3 DEF LeastClosed
<1>10. FlowOK(N, succs)
  BY <1>1, <1>5, <1>7, <1>8, <1>9 DEF FlowOK, C
<1>11. Listed(N, succs, graph)
  <2>1. ASSUME NEW u \in N
        PROVE  /\ SuccList(graph, u) \in Seq(N)
               /\ Len(SuccList(graph, u)) <= 2
               /\ succs[u] = {SuccList(graph, u)[i] : i \in 1 .. Len(SuccList(graph, u))}
    <3> DEFINE list == SuccList(graph, u)
    <3>1. /\ list \in Seq(D) /\ Len(list) <= 2
          /\ Range(list) = {list[i] : i \in 1 .. Len(list)}
      BY <1>5, SuccListIs DEF D
    <3>2. succs[u] = Range(list) /\ succs[u] \subseteq N
      BY <1>7 DEF succs
    <3> HIDE DEF list
    <3>3. Len(list) \in Nat /\ list = [i \in 1 .. Len(list) |-> list[i]]
      BY <3>1
    <3>4. \A i \in 1 .. Len(list) : list[i] \in N
      BY <3>1, <3>2
    <3>5. list \in Seq(N)
      BY <3>3, <3>4
    <3>6. QED
      BY <3>1, <3>2, <3>5 DEF list
  <2>2. QED
    BY <2>1 DEF Listed
<1>12. QED
  BY <1>1, <1>5, <1>10, <1>11 DEF succs, Blocks, D, N

\* The same, of the record that Regions returns.
LEMMA RecordFollow ==
  ASSUME NEW r, FlowOK(r.reachable, r.succs),
         \A b \in r.reachable : r.follow[b] = FollowOf(PostDominators(r.reachable, r.succs), b)
  PROVE  FollowIsNearest(r)
<1> DEFINE N == r.reachable
           succs == r.succs
           exits == Exits(N, succs)
           strict(b) == {p \in N \ {b} : OnEveryPath(succs, p, b, exits)}
           Nearest(b, f) == IF strict(b) = {} THEN f = None
                            ELSE f \in strict(b) /\ \A p \in strict(b) : OnEveryPath(succs, p, f, exits)
<1>1. IsFiniteSet(N) /\ N \subseteq Nat /\ succs \in [N -> SUBSET N]
  BY DEF FlowOK
<1>2. ASSUME NEW b \in N, exits \cap Closure(succs, {b}) # {}
      PROVE  Nearest(b, r.follow[b])
  <2>1. Nearest(b, FollowOf(PostDominators(N, succs), b))
    BY <1>1, <1>2, FollowHolds, Zenon
  <2> HIDE DEF Nearest
  <2>2. QED
    BY <2>1
<1> HIDE DEF Nearest
<1>3. \A b \in N : exits \cap Closure(succs, {b}) # {} => Nearest(b, r.follow[b])
  BY <1>2
<1>4. QED
  BY <1>3, Zenon DEF FollowIsNearest, Nearest, Exits

LEMMA RecordLoops ==
  ASSUME NEW r, FlowOK(r.reachable, r.succs),
         r.preds = Inverted(r.succs),
         r.dom = Dominators(r.reachable, r.preds),
         r.body = [h \in {h \in r.reachable : \E u \in r.preds[h] : h \in r.dom[u]}
                     |-> LoopBody(r.preds, r.dom, h)]
  PROVE  LoopsAreTrue(r)
<1> DEFINE N == r.reachable
           owned(dom, h) == {b \in N : h \in dom[b]}
           back(dom, h) ==
             {b \in owned(dom, h) : h \in UNION {r.succs[x] :
                x \in Closure([y \in owned(dom, h) |-> (r.succs[y] \cap owned(dom, h)) \ {h}], {b})}}
           header(preds, dom, h) == \E u \in preds[h] : h \in dom[u]
<1>1. ASSUME NEW h \in N
      PROVE  /\ header(r.preds, r.dom, h) <=> h \in back(r.dom, h)
             /\ header(r.preds, r.dom, h) => LoopBody(r.preds, r.dom, h) = back(r.dom, h)
  <2>1. LoopIs(N, r.succs, Inverted(r.succs), Dominators(N, Inverted(r.succs)), h)
    BY LoopHolds
  <2>2. LoopIs(N, r.succs, r.preds, r.dom, h)
    BY <2>1
  <2>3. QED
    BY <2>2, Zenon DEF LoopIs
<1> HIDE DEF back
<1>2. \A h \in N : /\ h \in Headers(r) <=> header(r.preds, r.dom, h)
                   /\ h \in Headers(r) => r.body[h] = LoopBody(r.preds, r.dom, h)
  BY DEF Headers
<1> HIDE DEF header
<1>3. \A h \in N : /\ h \in Headers(r) <=> h \in back(r.dom, h)
                   /\ h \in Headers(r) => r.body[h] = back(r.dom, h)
  BY <1>1, <1>2, Zenon
<1>4. QED
  BY <1>3, Zenon DEF LoopsAreTrue, back

RecordOf(graph, r) ==
  /\ r.reachable = Reachable(graph)
  /\ r.succs = [b \in r.reachable |-> Range(SuccList(graph, b))]
  /\ r.preds = Inverted(r.succs)
  /\ r.dom = Dominators(r.reachable, r.preds)
  /\ \A b \in r.reachable : r.follow[b] = FollowOf(PostDominators(r.reachable, r.succs), b)
  /\ r.body = [h \in {h \in r.reachable : \E u \in r.preds[h] : h \in r.dom[u]}
                 |-> LoopBody(r.preds, r.dom, h)]
  /\ r.irreducible = Irreducible(graph, r.dom)

LEMMA RegionsFields ==
  ASSUME NEW graph
  PROVE  RecordOf(graph, Regions(graph))
  BY DEF Regions, RecordOf

LEMMA GraphRegions ==
  ASSUME NEW graph, GraphOK(graph), NEW r, r = Regions(graph)
  PROVE  DominatorsAreTrue(r) /\ FollowIsNearest(r) /\ LoopsAreTrue(r) /\ IrreducibleIsTrue(r)
<1>1. RecordOf(graph, r)
  BY RegionsFields
<1>2. /\ FlowOK(r.reachable, r.succs) /\ Listed(r.reachable, r.succs, graph)
      /\ r.reachable \subseteq Blocks(graph) /\ IsFiniteSet(Blocks(graph))
  <2>1. r.reachable = Reachable(graph) /\ r.succs = [b \in r.reachable |-> Range(SuccList(graph, b))]
    BY <1>1, Zenon DEF RecordOf
  <2>2. LET succs == [b \in Reachable(graph) |-> Range(SuccList(graph, b))]
        IN  /\ FlowOK(Reachable(graph), succs) /\ Listed(Reachable(graph), succs, graph)
            /\ Reachable(graph) \subseteq Blocks(graph) /\ IsFiniteSet(Blocks(graph))
    BY GraphFlow, Zenon
  <2>3. r.succs = [b \in Reachable(graph) |-> Range(SuccList(graph, b))]
    BY <2>1
  <2>4. QED
    BY <2>1, <2>2, <2>3
<1>3. r.preds = Inverted(r.succs) /\ r.dom = Dominators(r.reachable, Inverted(r.succs))
  BY <1>1, Zenon DEF RecordOf
<1>4. DominatorsAreTrue(r)
  <2>1. DominatorsAre(r.reachable, r.succs, r.dom)
    BY <1>2, <1>3, DominatorsHold
  <2>2. QED
    BY <2>1, Zenon DEF DominatorsAreTrue, DominatorsAre
<1>5. FollowIsNearest(r)
  <2>1. \A b \in r.reachable : r.follow[b] = FollowOf(PostDominators(r.reachable, r.succs), b)
    BY <1>1, Zenon DEF RecordOf
  <2>2. QED
    BY <1>2, <2>1, RecordFollow, Zenon
<1>6. LoopsAreTrue(r)
  <2>1. r.body = [h \in {h \in r.reachable : \E u \in r.preds[h] : h \in r.dom[u]}
                    |-> LoopBody(r.preds, r.dom, h)]
        /\ r.dom = Dominators(r.reachable, r.preds)
    BY <1>1, Zenon DEF RecordOf
  <2>2. QED
    BY <1>2, <1>3, <2>1, RecordLoops, Zenon
<1>7. IrreducibleIsTrue(r)
  <2>1. Irreducible(graph, r.dom) <=> Cycles(r.reachable, Forward(r.reachable, r.succs, r.dom))
    <3>1. Irreducible(graph, Dominators(r.reachable, Inverted(r.succs)))
            <=> Cycles(r.reachable, Forward(r.reachable, r.succs, Dominators(r.reachable, Inverted(r.succs))))
      BY <1>2, IrreducibleHolds, Zenon
    <3>2. QED
      BY <1>3, <3>1
  <2>2. r.irreducible = Irreducible(graph, r.dom)
    BY <1>1, Zenon DEF RecordOf
  <2>3. QED
    BY <2>1, <2>2, Zenon DEF IrreducibleIsTrue, Cycles, Forward
<1>8. QED
  BY <1>4, <1>5, <1>6, <1>7

\* Whatever the function, its regions are what the definitions over paths say: the
\* emitters start from a lifted function and none of their steps changes its blocks.
THEOREM RegionsHold ==
  (\E f \in Inputs : Lifted(f)) /\ [][UNCHANGED ir]_ir => []RegionsAreTheDefinitions
<1> DEFINE Inv == \E f \in Inputs : ir = f.ends
<1>1. (\E f \in Inputs : Lifted(f)) => Inv
  BY DEF Lifted
<1>2. Inv /\ [UNCHANGED ir]_ir => Inv'
  OBVIOUS
<1>3. Inv => RegionsAreTheDefinitions
  <2>1. SUFFICES ASSUME NEW f \in Inputs, ir = f.ends PROVE RegionsAreTheDefinitions
    OBVIOUS
  <2>2. GraphOK(ir)
    BY <2>1, InputsAssumption DEF GraphOK
  <2>3. QED
    BY <2>2, GraphRegions DEF RegionsAreTheDefinitions
<1>4. QED
  <2> HIDE DEF Inv
  <2>1. QED
    BY <1>1, <1>2, <1>3, PTL
=============================================================================
