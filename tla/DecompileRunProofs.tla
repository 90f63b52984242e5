------------------------- MODULE DecompileRunProofs -------------------------
(* Theorems about DecompileRun: how a program is read, how its functions are  *)
(* named and how the values they hold are noted in their text, for every      *)
(* input, every file in it and every model an adapter may answer.             *)
EXTENDS DecompileRun, FiniteSetTheorems, SequenceTheorems, WellFoundedInduction, TLAPS

-----------------------------------------------------------------------------
(* Numbers: least elements, and multiples.                                   *)

Less == {p \in Nat \X Nat : p[1] < p[2]}

LEMMA LeastNumber ==
  ASSUME NEW S \in SUBSET Nat, S # {}
  PROVE  \E x \in S : \A y \in S : x <= y
<1>1. Less = OpToRel(<, Nat)
  BY DEF Less, OpToRel
<1>2. IsWellFoundedOn(Less, Nat)
  BY <1>1, NatLessThanWellFounded
<1>3. PICK x \in S : \A y \in S : ~(<<y, x>> \in Less)
  BY <1>2, WFMin
<1>4. \A y \in S : x <= y
  <2> TAKE y \in S
  <2>1. ~(y < x)
    BY <1>3 DEF Less
  <2>2. QED
    BY <2>1
<1>5. QED
  BY <1>4

LEMMA MinOf ==
  ASSUME NEW S \in SUBSET Nat, S # {}
  PROVE  Min(S) \in S /\ \A y \in S : Min(S) <= y
BY LeastNumber DEF Min

LEMMA MaxOf ==
  ASSUME NEW S \in SUBSET Nat, S # {}, NEW n \in Nat, \A y \in S : y <= n
  PROVE  Max(S) \in S /\ \A y \in S : y <= Max(S)
<1> DEFINE B == {b \in Nat : \A y \in S : y <= b}
<1>1. PICK b \in B : \A c \in B : b <= c
  <2>1. n \in B
    OBVIOUS
  <2>2. QED
    BY <2>1, LeastNumber
<1>2. b \in S
  <2>1. SUFFICES ASSUME b \notin S PROVE FALSE
    OBVIOUS
  <2>2. PICK y \in S : TRUE
    OBVIOUS
  <2>3. \A z \in S : z <= b - 1
    BY <2>1
  <2>4. b - 1 \in B
    BY <2>2, <2>3
  <2>5. QED
    BY <1>1, <2>4
<1>3. QED
  BY <1>2 DEF Max

LEMMA MinOfTwo ==
  ASSUME NEW a \in Int, NEW b \in Int
  PROVE  Min({a, b}) = IF a <= b THEN a ELSE b
BY DEF Min

\* Whole words: the k-th ends where k times its size is, and no later than what is cut up.
LEMMA WholeWords ==
  ASSUME NEW n \in Nat, NEW w \in Nat \ {0}
  PROVE  /\ n \div w \in Nat
         /\ (n \div w) * w <= n
         /\ n < (n \div w) * w + w
         /\ \A k \in Nat : k * w + w <= n <=> k + 1 <= n \div w
<1>1. n \div w \in Nat /\ (n \div w) * w <= n /\ n < (n \div w) * w + w
  OBVIOUS
<1>2. ASSUME NEW k \in Nat PROVE k * w + w <= n <=> k + 1 <= n \div w
  <2>1. CASE k + 1 <= n \div w
    <3>1. (k + 1) * w <= (n \div w) * w
      BY <1>1, <2>1
    <3>2. QED
      BY <1>1, <2>1, <3>1
  <2>2. CASE k + 1 > n \div w
    <3>1. k * w >= (n \div w) * w
      BY <1>1, <2>2
    <3>2. QED
      BY <1>1, <2>2, <3>1
  <2>3. QED
    BY <1>1, <2>1, <2>2
<1>3. QED
  BY <1>1, <1>2

LEMMA ListOf ==
  ASSUME NEW s, List(s)
  PROVE  /\ Len(s) \in Nat /\ DOMAIN s = 1 .. Len(s)
         /\ \A k \in DOMAIN s : s[k] \in Range(s)
BY DEF List, Range

-----------------------------------------------------------------------------
(* The loader: what a span it gives is.                                      *)

LEMMA TopIs ==
  /\ Top \in Nat \ {0} /\ None = -1 /\ 0 \in Address
  /\ \A x \in Address : x \in Nat /\ x \in Int /\ x < Top
BY TopAssumption DEF Address, None

LEMMA HeadersOf ==
  ASSUME NEW f, FileOK(f)
  PROVE  /\ \A va : Holding(f, va) \subseteq DOMAIN f.headers /\ Holding(f, va) \subseteq Nat
         /\ \A i \in DOMAIN f.headers :
              /\ f.headers[i].vaddr \in Address /\ f.headers[i].memsz \in Address
              /\ f.headers[i].filesz \in Address /\ f.headers[i].offset \in Address
<1>1. DOMAIN f.headers \subseteq Nat /\ \A i \in DOMAIN f.headers : f.headers[i] \in Range(f.headers)
  BY ListOf DEF FileOK
<1>2. QED
  BY <1>1 DEF FileOK, Holding

LEMMA SymbolOf ==
  ASSUME NEW f, FileOK(f), NEW name, Named(f, name) # {}
  PROVE  /\ Symbol(f, name).value \in Address /\ Symbol(f, name).size \in Address
<1> DEFINE s == Symbols(f)
<1>1. /\ Len(f.dyn) \in Nat /\ DOMAIN f.dyn = 1 .. Len(f.dyn) /\ \A k \in DOMAIN f.dyn : f.dyn[k] \in Range(f.dyn)
      /\ Len(f.sym) \in Nat /\ DOMAIN f.sym = 1 .. Len(f.sym) /\ \A k \in DOMAIN f.sym : f.sym[k] \in Range(f.sym)
  BY ListOf DEF FileOK
<1> DEFINE n == Len(f.dyn) + Len(f.sym)
<1>2. /\ n \in Nat /\ DOMAIN s = 1 .. n
      /\ \A k \in DOMAIN s : s[k] \in Range(f.dyn) \union Range(f.sym)
  <2> DEFINE all == Range(f.dyn) \union Range(f.sym)
             d == f.dyn
             t == f.sym
  <2>1. d \in Seq(all) /\ t \in Seq(all)
    BY DEF FileOK, List
  <2> HIDE DEF all, d, t
  <2>2. d \o t \in Seq(all) /\ Len(d \o t) = Len(d) + Len(t) /\ Len(d) \in Nat /\ Len(t) \in Nat
    BY <2>1
  <2>3. DOMAIN (d \o t) = 1 .. Len(d) + Len(t) /\ \A k \in DOMAIN (d \o t) : (d \o t)[k] \in all
    BY <2>2
  <2>4. Len(d) + Len(t) \in Nat
    BY <2>2
  <2>5. QED
    BY <2>3, <2>4 DEF Symbols, all, d, t
<1>3. Named(f, name) \subseteq DOMAIN s
  BY DEF Named
<1> HIDE DEF s, n
<1>4. Max(Named(f, name)) \in DOMAIN s
  <2>1. Named(f, name) \in SUBSET Nat /\ \A k \in Named(f, name) : k <= n
    BY <1>2, <1>3
  <2>2. QED
    BY <1>2, <1>3, <2>1, MaxOf
<1>5. Symbol(f, name) \in Range(f.dyn) \union Range(f.sym)
  BY <1>2, <1>4 DEF Symbol, s
<1>6. QED
  BY <1>5 DEF FileOK

\* A span that is not refused lies in the file, where the first header that holds its
\* address puts it.
LEMMA SpanIs ==
  ASSUME NEW f, FileOK(f), NEW name, SpanRefusal(f, name) = "ok"
  PROVE  /\ Span(f, name).va \in Address /\ Span(f, name).offset \in Nat /\ Span(f, name).size \in Nat \ {0}
         /\ Span(f, name).offset + Span(f, name).size <= f.len
         /\ \E i \in Holding(f, Span(f, name).va) :
              Span(f, name).offset = f.headers[i].offset + (Span(f, name).va - f.headers[i].vaddr)
<1> DEFINE va == Symbol(f, name).value
           size == Symbol(f, name).size
           at == VaToOffset(f, va)
           i  == Min(Holding(f, va))
<1>1. va \in Address /\ size \in Address
  BY SymbolOf DEF SpanRefusal
<1>2. at # None /\ size # 0 /\ at < f.len /\ at + size <= f.len
  <2>1. Named(f, name) # {} /\ at # None /\ size # 0 /\ ~(at >= f.len \/ at + size > f.len)
    BY DEF SpanRefusal
  <2>2. Holding(f, va) # {}
    BY <2>1 DEF VaToOffset
  <2>3. i \in Holding(f, va)
    BY <2>2, HeadersOf, MinOf
  <2>4. at \in Int
    <3>1. /\ f.headers[i].offset \in Int /\ f.headers[i].vaddr \in Int /\ va \in Int
          /\ Top \in Int
      <4>1. i \in DOMAIN f.headers
        BY <2>3 DEF Holding
      <4> HIDE DEF i
      <4>2. f.headers[i].offset \in Address /\ f.headers[i].vaddr \in Address
        BY <4>1, HeadersOf
      <4>3. QED
        BY <1>1, <4>2, TopIs
    <3>2. at = Saturated(f.headers[i].offset, va - f.headers[i].vaddr)
      BY <2>2 DEF VaToOffset
    <3> HIDE DEF at, i, va
    <3>3. QED
      BY <3>1, <3>2 DEF Saturated
  <2>5. f.len \in Int
    BY TopIs DEF FileOK
  <2> HIDE DEF at, va, size
  <2>6. QED
    BY <1>1, <2>1, <2>4, <2>5, TopIs
<1>3. Holding(f, va) # {} /\ at = Saturated(f.headers[i].offset, va - f.headers[i].vaddr)
  BY <1>2 DEF VaToOffset
<1>4. i \in Holding(f, va)
  BY <1>3, HeadersOf, MinOf
<1>5. f.headers[i].offset \in Address /\ f.headers[i].vaddr \in Address /\ va >= f.headers[i].vaddr
  BY <1>4, HeadersOf DEF Holding
<1>6. f.len \in Address
  BY DEF FileOK
<1> HIDE DEF va, size, i, at
<1>7. at = f.headers[i].offset + (va - f.headers[i].vaddr) /\ at \in Nat
  BY <1>1, <1>2, <1>3, <1>5, <1>6, TopIs DEF Saturated, Address
<1>8. Span(f, name) = [va |-> va, offset |-> at, size |-> size]
  BY DEF Span, va, at, size
<1>9. QED
  BY <1>1, <1>2, <1>4, <1>7, <1>8, TopIs

-----------------------------------------------------------------------------
(* What core recovers.                                                       *)

\* The k-th least is there for each k: the counts are one to one, from a finite set into
\* as many numbers.
LEMMA LeastOf ==
  ASSUME NEW S \in SUBSET Nat, IsFiniteSet(S), NEW k \in 1 .. Cardinality(S)
  PROVE  Least(S, k) \in S /\ Cardinality({t \in S : t <= Least(S, k)}) = k
<1> DEFINE Upto(x) == {t \in S : t <= x}
           n == Cardinality(S)
           f == [x \in S |-> Cardinality(Upto(x))]
<1>1. n \in Nat /\ IsFiniteSet(1 .. n) /\ Cardinality(1 .. n) = n
  <2>1. n \in Nat
    BY FS_CardinalityType
  <2>2. IsFiniteSet(1 .. n) /\ Cardinality(1 .. n) = IF 1 > n THEN 0 ELSE n - 1 + 1
    BY <2>1, FS_Interval
  <2> HIDE DEF n
  <2>3. QED
    BY <2>1, <2>2
<1>2. ASSUME NEW x \in S
      PROVE  IsFiniteSet(Upto(x)) /\ Cardinality(Upto(x)) \in 1 .. n
  <2>1. Upto(x) \in SUBSET S /\ x \in Upto(x)
    OBVIOUS
  <2>2. IsFiniteSet(Upto(x)) /\ Cardinality(Upto(x)) <= n
    BY <2>1, FS_Subset
  <2>3. Cardinality(Upto(x)) \in Nat /\ Cardinality(Upto(x)) # 0
    BY <2>1, <2>2, FS_CardinalityType, FS_EmptySet
  <2>4. QED
    BY <1>1, <2>2, <2>3
<1>3. ASSUME NEW x \in S, NEW y \in S, x < y
      PROVE  Cardinality(Upto(x)) # Cardinality(Upto(y))
  <2>1. Upto(x) \in SUBSET Upto(y) /\ y \in Upto(y) /\ y \notin Upto(x)
    <3>1. x \in Int /\ y \in Int /\ S \subseteq Int
      OBVIOUS
    <3>2. \A t \in S : t <= x => t <= y
      BY <1>3, <3>1
    <3>3. ~(y <= x) /\ y <= y
      BY <1>3, <3>1
    <3>4. y \in Upto(y) /\ y \notin Upto(x)
      BY <3>3
    <3>5. Upto(x) \subseteq Upto(y)
      BY <3>2
    <3>6. QED
      BY <3>4, <3>5
  <2> HIDE DEF Upto
  <2>2. QED
    BY <1>2, <2>1, FS_Subset
<1>4. f \in Injection(S, 1 .. n)
  <2>1. f \in [S -> 1 .. n]
    BY <1>2
  <2>2. ASSUME NEW x \in S, NEW y \in S, f[x] = f[y] PROVE x = y
    BY <1>3, <2>2
  <2>3. QED
    BY <2>1, <2>2 DEF Injection, IsInjective
<1>5. f \in Surjection(S, 1 .. n)
  BY <1>1, <1>4, FS_Injection
<1>6. \E x \in S : Cardinality(Upto(x)) = k
  BY <1>5 DEF Surjection
<1>7. QED
  BY <1>6 DEF Least

\* Where a candidate starts, and where a whole instruction does, it is in the region.
LEMMA StartsInRegion ==
  ASSUME NEW f, NEW region, region.va \in Address, region.size \in Nat \ {0},
         Plus(region.va, region.size) # None
  PROVE  /\ Plus(region.va, region.size) = region.va + region.size
         /\ Chunks(region) \subseteq 0 .. region.size - 1
         /\ Starts(f, region) \subseteq region.va .. region.va + region.size - 1
         /\ Starts(f, region) \in SUBSET Nat /\ IsFiniteSet(Starts(f, region))
<1> DEFINE va == region.va
           size == region.size
<1>1. va \in Nat /\ size \in Nat /\ size > 0 /\ Top \in Nat /\ Word \in Nat /\ Word > 0
  BY TopIs, RecoveryAssumption
<1>2. Plus(va, size) = va + size
  BY <1>1 DEF Plus
<1>3. Chunks(region) \subseteq 0 .. size - 1
  <2>1. ASSUME NEW k \in 0 .. (size \div Word) - 1 PROVE k * Word \in 0 .. size - 1
    <3>1. size \div Word \in Nat /\ (k * Word + Word <= size <=> k + 1 <= size \div Word)
      BY <1>1, <2>1, WholeWords
    <3>2. k \in Nat /\ k + 1 <= size \div Word
      BY <3>1
    <3>3. k * Word \in Nat
      BY <1>1, <3>2
    <3> HIDE DEF size
    <3>4. QED
      BY <1>1, <3>1, <3>2, <3>3
  <2>2. QED
    BY <2>1 DEF Chunks
<1>4. Prologues(f, region) \subseteq va .. va + size - 1
  <2>1. ASSUME NEW o \in Chunks(region) PROVE va + o \in va .. va + size - 1
    BY <1>1, <1>3
  <2>2. QED
    BY <2>1 DEF Prologues
<1>5. {c[2] : c \in {k \in Calls(f, region) : Hits(f, region, k[2]) >= MinCallTargetHits}} \subseteq va .. va + size - 1
  <2>1. \A c \in Calls(f, region) : c[2] \in va .. va + size - 1
    <3> TAKE c \in Calls(f, region)
    <3> DEFINE all == va .. Plus(va, size) - 1
    <3>1. c \in Chunks(region) \X all
      BY DEF Calls
    <3> HIDE DEF all
    <3>2. c[2] \in all
      BY <3>1
    <3>3. QED
      BY <1>1, <1>2, <3>2 DEF all
  <2> HIDE DEF va, size
  <2>2. QED
    BY <2>1
<1>6. Starts(f, region) \subseteq va .. va + size - 1
  BY <1>1, <1>4, <1>5 DEF Starts
<1>7. Starts(f, region) \in SUBSET Nat /\ \A s \in Starts(f, region) : s <= va + size
  BY <1>1, <1>6
<1>8. IsFiniteSet(Starts(f, region))
  <2>1. va + size \in Nat
    BY <1>1
  <2> HIDE DEF va, size
  <2>2. QED
    BY <1>7, <2>1, FS_BoundedSetOfNaturals
<1>9. QED
  BY <1>2, <1>3, <1>6, <1>7, <1>8

\* A candidate starts at a start and ends in the region, before the next.
LEMMA SizeOf ==
  ASSUME NEW f, NEW region, region.va \in Address, region.size \in Nat \ {0},
         Plus(region.va, region.size) # None, NEW start \in Starts(f, region)
  PROVE  LET starts == Starts(f, region)
             size == CandidateSize(region, starts, start)
         IN  /\ size \in Nat \ {0} /\ size <= MaxCandidateSize
             /\ start + size <= region.va + region.size
             /\ \A s \in starts : s > start => start + size <= s
             /\ size = MaxCandidateSize \/ start + size = region.va + region.size
                                        \/ start + size \in starts
<1> DEFINE starts == Starts(f, region)
           after == {s \in starts : s > start}
           bound == IF after = {} THEN region.va + region.size ELSE Min(after)
<1>1. /\ starts \in SUBSET Nat /\ starts \subseteq region.va .. region.va + region.size - 1
      /\ Plus(region.va, region.size) = region.va + region.size
  BY StartsInRegion
<1>2. region.va \in Nat /\ region.size \in Nat /\ MaxCandidateSize \in Nat \ {0} /\ start \in Nat
  BY <1>1, TopIs, RecoveryAssumption
<1>3. /\ bound \in Nat /\ bound > start /\ bound <= region.va + region.size
      /\ \A s \in starts : s > start => bound <= s
      /\ bound = region.va + region.size \/ bound \in starts
  <2>1. CASE after = {}
    BY <1>1, <1>2, <2>1
  <2>2. CASE after # {}
    <3>1. Min(after) \in after /\ \A y \in after : Min(after) <= y
      BY <1>1, <2>2, MinOf
    <3>2. QED
      BY <1>1, <1>2, <2>2, <3>1
  <2>3. QED
    BY <2>1, <2>2
<1>4. CandidateSize(region, starts, start) =
        IF bound - start > MaxCandidateSize THEN MaxCandidateSize ELSE bound - start
  BY <1>1 DEF CandidateSize
<1> HIDE DEF starts, after, bound
<1>5. QED
  BY <1>2, <1>3, <1>4 DEF starts

LEMMA SpansOf ==
  ASSUME NEW f, FileOK(f), LoadRefusal(f) = "ok", NEW name \in Range(RegionNames)
  PROVE  SpanRefusal(f, name) = "ok" /\ Bundle(f).spans[name] = Span(f, name)
<1> DEFINE bad == {i \in DOMAIN RegionNames : SpanRefusal(f, RegionNames[i]) # "ok"}
<1>1. bad \in SUBSET Nat
  BY DEF RegionNames
<1>2. bad = {}
  <2>1. SUFFICES ASSUME bad # {} PROVE FALSE
    OBVIOUS
  <2>2. Min(bad) \in bad
    BY <1>1, <2>1, MinOf
  <2>3. SpanRefusal(f, RegionNames[Min(bad)]) # "ok"
    BY <2>2
  <2>4. LoadRefusal(f) = "machine" \/ LoadRefusal(f) = SpanRefusal(f, RegionNames[Min(bad)])
    BY <2>1 DEF LoadRefusal
  <2>5. QED
    BY <2>3, <2>4
<1>3. \E i \in DOMAIN RegionNames : name = RegionNames[i]
  BY DEF Range
<1>4. SpanRefusal(f, name) = "ok"
  BY <1>2, <1>3
<1>5. QED
  BY <1>4 DEF Bundle, Spans

LEMMA TheRegions ==
  /\ Range(RegionNames) = {"vm_data", "isolate_data", "vm_instructions", "isolate_instructions"}
  /\ \A name \in Range(RegionNames) :
       Executable(name) <=> name \in {"vm_instructions", "isolate_instructions"}
<1>1. DOMAIN RegionNames = 1 .. 4
  BY DEF RegionNames
<1>2. QED
  BY <1>1 DEF Range, RegionNames, Executable

\* The candidates: a list, each of them at a start, with its size.
LEMMA CandidatesOf ==
  ASSUME NEW f, NEW region, region.va \in Address, region.size \in Nat \ {0}
  PROVE  /\ List(Candidates(f, region))
         /\ \A c \in Range(Candidates(f, region)) :
              /\ c.section = region.va /\ Plus(region.va, region.size) # None
              /\ c.start \in Starts(f, region)
              /\ c.size = CandidateSize(region, Starts(f, region), c.start)
<1> DEFINE starts == Starts(f, region)
           n == Cardinality(starts)
           ordered == [k \in 1 .. n |-> Least(starts, k)]
           at(i) == [id |-> i - 1, name |-> Nothing, nameProv |-> Nothing, confidence |-> Nothing,
                     owner |-> None, start |-> ordered[i],
                     size |-> CandidateSize(region, starts, ordered[i]),
                     section |-> region.va, prov |-> "heuristic"]
           made == [i \in 1 .. n |-> at(i)]
<1>1. CASE Plus(region.va, region.size) = None
  <2>1. Candidates(f, region) = <<>>
    BY <1>1 DEF Candidates
  <2>2. QED
    BY <2>1 DEF List, Range
<1>2. CASE Plus(region.va, region.size) # None
  <2>1. starts \in SUBSET Nat /\ IsFiniteSet(starts)
    BY <1>2, StartsInRegion
  <2>2. n \in Nat
    BY <2>1, FS_CardinalityType
  <2>3. \A i \in 1 .. n : ordered[i] \in starts
    BY <2>1, LeastOf
  <2>4. Candidates(f, region) = made
    BY <1>2 DEF Candidates
  <2>5. \A i \in 1 .. n : /\ at(i).section = region.va
                           /\ at(i).start \in starts
                           /\ at(i).size = CandidateSize(region, starts, at(i).start)
    BY <2>3
  <2> HIDE DEF starts, at, n
  <2>6. List(made) /\ Range(made) = {at(i) : i \in 1 .. n}
    BY <2>2 DEF List, Range
  <2>7. QED
    BY <1>2, <2>4, <2>5, <2>6 DEF starts
<1>3. QED
  BY <1>1, <1>2

LEMMA RecoveredOK ==
  ASSUME NEW f, FileOK(f), LoadRefusal(f) = "ok"
  PROVE  ModelOK(RecoveredModel(f, Bundle(f)))
<1> DEFINE region == Bundle(f).spans["isolate_instructions"]
           m == RecoveredModel(f, Bundle(f))
<1>1. /\ region = Span(f, "isolate_instructions")
      /\ SpanRefusal(f, "isolate_instructions") = "ok"
  BY SpansOf, TheRegions
<1>2. region.va \in Address /\ region.size \in Nat \ {0} /\ region.offset + region.size <= f.len
      /\ region.offset \in Nat /\ f.len \in Address
  BY <1>1, SpanIs DEF FileOK
<1>3. region.size \in Address
  BY <1>2, TopIs DEF Address
<1>4. List(m.functions)
  BY <1>2, CandidatesOf DEF RecoveredModel
<1>5. \A c \in Range(m.functions) : c.start \in Address /\ c.size \in Address /\ c.section \in Address
  <2>1. SUFFICES ASSUME NEW c \in Range(Candidates(f, region))
                 PROVE  c.start \in Address /\ c.size \in Address /\ c.section \in Address
    BY DEF RecoveredModel
  <2>2. /\ c.section = region.va /\ Plus(region.va, region.size) # None
        /\ c.start \in Starts(f, region)
        /\ c.size = CandidateSize(region, Starts(f, region), c.start)
    BY <1>2, CandidatesOf
  <2>3. /\ region.va + region.size < Top
        /\ c.start \in Nat /\ c.size \in Nat /\ c.start + c.size <= region.va + region.size
    BY <1>2, <2>2, StartsInRegion, SizeOf, TopIs DEF Plus
  <2> HIDE DEF region
  <2>4. QED
    BY <1>2, <2>2, <2>3, TopIs DEF Address
<1>6. List(m.regions)
  <2>1. m.regions = Observed(Bundle(f).spans)
    BY DEF RecoveredModel
  <2>2. DOMAIN RegionNames = 1 .. 4
    BY DEF RegionNames
  <2>3. QED
    BY <2>1, <2>2 DEF List, Range, Observed
<1>7. /\ m.pool.word = None /\ m.pool.entries_offset = 0
      /\ Range(m.pool.entries) = {} /\ Range(m.classes) = {} /\ List(m.classes)
  BY DEF RecoveredModel, Range, List
<1> HIDE DEF m
<1>8. ModelOK(m)
  BY <1>4, <1>5, <1>6, <1>7, TopIs DEF ModelOK
<1>9. QED
  BY <1>8 DEF m

-----------------------------------------------------------------------------
(* What was read, by where the run is.                                       *)

Passed   == {"select", "decode", "done", "name", "notes"}
Modelled == Passed \union {"validate", "refused"}
Carved   == Modelled \union {"answer"}
Phases   == Carved \union {"open", "load", "failed"}
Ended    == {"done", "name", "notes", "failed"}

FileInv ==
  /\ input \in Inputs /\ phase \in Phases
  /\ phase \in Carved \union {"load"} => FileOK(file)
  /\ phase \in Carved => LoadRefusal(file) = "ok" /\ bundle = Bundle(file)
  /\ phase \in Modelled => \/ by = "adapter" /\ model = Contents(input).adapter
                           \/ by = "core" /\ model = RecoveredModel(file, bundle)
  /\ phase \in Passed => Verdict(model, Host) = "accepted"
  /\ phase = "refused" => Verdict(model, Host) # "accepted"

\* A step of the run is a step of the reading, or leaves what was read alone.
LEMMA RunStep ==
  ASSUME [RunNext]_runVars
  PROVE  \/ ReadNext
         \/ /\ UNCHANGED loadVars
            /\ \/ UNCHANGED phase
               \/ phase = "done" /\ phase' \in {"name", "failed"}
               \/ phase = "name" /\ phase' = "notes"
BY DEF RunNext, runVars, Read, Name, NoMap, Merge, Emit, Annotate, readVars

LEMMA FileStep ==
  ASSUME FileInv, [RunNext]_runVars
  PROVE  FileInv'
<1> USE DEF Phases, Carved, Modelled, Passed
<1>1. CASE Open
  <2>1. UNCHANGED <<input, bundle, by, model>> /\ phase = "open"
    BY <1>1 DEF Open
  <2> DEFINE of == Contents(input)
             at == IF of.archive THEN Libapp(of.entries) ELSE 1
  <2>2. CASE at = None
    BY <1>1, <2>1, <2>2 DEF Open, FileInv
  <2>3. CASE at # None
    <3>1. phase' = "load" /\ file' = of.files[at]
      BY <1>1, <2>3 DEF Open
    <3>2. input \in Inputs
      BY DEF FileInv
    <3>3. at \in DOMAIN of.files
      <4>1. CASE ~of.archive
        BY <3>2, <4>1, ReadAssumption
      <4>2. CASE of.archive
        <5> DEFINE entries == of.entries
                   named(want) == {i \in DOMAIN entries : entries[i].path = want}
                   any == {i \in DOMAIN entries : entries[i].libapp}
                   wanted == {k \in DOMAIN Preferred : named(Preferred[k]) # {}}
        <5>1. DOMAIN entries \subseteq Nat /\ DOMAIN entries \subseteq DOMAIN of.files
          BY <3>2, <4>2, ListOf, ReadAssumption
        <5>2. at = IF wanted # {} THEN Min(named(Preferred[Min(wanted)]))
                   ELSE IF any # {} THEN Min(any) ELSE None
          BY <4>2 DEF Libapp
        <5>3. CASE wanted # {}
          <6>1. wanted \in SUBSET Nat
            BY DEF Preferred
          <6>2. named(Preferred[Min(wanted)]) # {}
            BY <5>3, <6>1, MinOf
          <6>3. at \in named(Preferred[Min(wanted)])
            BY <5>1, <5>2, <5>3, <6>2, MinOf
          <6>4. QED
            BY <5>1, <6>3
        <5>4. CASE wanted = {}
          <6>1. any # {} /\ at = Min(any)
            BY <2>3, <5>2, <5>4
          <6>2. QED
            BY <5>1, <6>1, MinOf
        <5>5. QED
          BY <5>3, <5>4
      <4>3. QED
        BY <4>1, <4>2
    <3>4. FileOK(file')
      BY <3>1, <3>2, <3>3, ReadAssumption DEF Range
    <3>5. QED
      BY <2>1, <3>1, <3>2, <3>4 DEF FileInv
  <2>4. QED
    BY <2>2, <2>3
<1>2. CASE Carve
  BY <1>2 DEF Carve, FileInv
<1>3. CASE Answered
  BY <1>3 DEF Answered, FileInv
<1>4. CASE Validate
  BY <1>4 DEF Validate, FileInv, Host
<1>5. ASSUME UNCHANGED <<input, file, bundle, by, model>>,
             phase' \in Phases, phase' \in Passed => phase \in Passed,
             phase' \in Modelled => phase \in Modelled,
             phase' \in Carved => phase \in Carved,
             phase' \notin {"load", "refused"} \/ UNCHANGED phase
      PROVE  FileInv'
  BY <1>5 DEF FileInv, Host
<1>6. CASE Select \/ Skip \/ StartFunction \/ Decode \/ FinishFunction \/ Done
  <2>1. /\ UNCHANGED <<input, file, bundle, by, model>> /\ phase \in {"select", "decode"}
        /\ phase' \in {"decode", "done", "failed"}
    BY <1>6 DEF Select, Skip, StartFunction, Decode, FinishFunction, Done
  <2>2. QED
    BY <1>5, <2>1
<1>7. CASE /\ UNCHANGED loadVars
           /\ \/ phase = "done" /\ phase' \in {"name", "failed"}
              \/ phase = "name" /\ phase' = "notes"
  BY <1>5, <1>7 DEF loadVars
<1>8. CASE UNCHANGED loadVars /\ UNCHANGED phase
  BY <1>8 DEF FileInv, Host, loadVars
<1>9. CASE ReadNext
  BY <1>1, <1>2, <1>3, <1>4, <1>6, <1>9 DEF ReadNext
<1>10. QED
  BY <1>7, <1>8, <1>9, RunStep

-----------------------------------------------------------------------------
(* What validate accepted.                                                   *)

LEMMA VerdictIs ==
  ASSUME NEW m, NEW host, Verdict(m, host) = "accepted"
  PROVE  /\ RegionsAgree(m) /\ HostFacts(m, host) /\ Canonical(m) /\ ReferencesResolve(m)
         /\ GeometryOK(m) /\ AddressesOK(m)
<1> DEFINE checks == Checks(m, host)
           refusing == {i \in DOMAIN checks : ~checks[i].holds}
<1>1. DOMAIN checks = 1 .. 10 /\ \A i \in 1 .. 10 : checks[i].name # "accepted"
  <2>1. DOMAIN checks = 1 .. 10
    BY DEF Checks
  <2>2. /\ checks[1].name # "accepted" /\ checks[2].name # "accepted" /\ checks[3].name # "accepted"
        /\ checks[4].name # "accepted" /\ checks[5].name # "accepted" /\ checks[6].name # "accepted"
        /\ checks[7].name # "accepted" /\ checks[8].name # "accepted" /\ checks[9].name # "accepted"
        /\ checks[10].name # "accepted"
    BY DEF Checks
  <2> HIDE DEF checks
  <2>3. QED
    BY <2>1, <2>2
<1>2. refusing = {}
  <2>1. SUFFICES ASSUME refusing # {} PROVE FALSE
    OBVIOUS
  <2>2. Min(refusing) \in 1 .. 10
    BY <1>1, <2>1, MinOf
  <2>3. Verdict(m, host) = checks[Min(refusing)].name
    BY <2>1 DEF Verdict
  <2> HIDE DEF checks, refusing
  <2>4. QED
    BY <1>1, <2>2, <2>3
<1>3. \A i \in 1 .. 10 : checks[i].holds
  BY <1>1, <1>2
<1>4. /\ checks[2].holds = RegionsAgree(m) /\ checks[3].holds = HostFacts(m, host)
      /\ checks[6].holds = Canonical(m) /\ checks[7].holds = ReferencesResolve(m)
      /\ checks[9].holds = GeometryOK(m) /\ checks[10].holds = AddressesOK(m)
  BY DEF Checks
<1> HIDE DEF checks
<1>5. QED
  BY <1>3, <1>4

-----------------------------------------------------------------------------
(* Superclass chains.  The walk of check_references is a recursive function;  *)
(* that there is one is shown by what it computes: whether a path of n steps  *)
(* from a class, past the classes seen, ends at one without a superclass.     *)

Leads(sup, ids, seen, c, n) ==
  \E p \in [0 .. n -> (ids \ seen) \ {None}] :
    /\ p[0] = c /\ sup[p[n]] = None
    /\ \A i \in 0 .. n - 1 : p[i + 1] = sup[p[i]]

\* ... in some number of steps.
Finishes(sup, ids, seen, c) == \E n \in Nat : Leads(sup, ids, seen, c, n)

\* A path takes its first class once: the shortest does not come back to it.
LEMMA LeadsStep ==
  ASSUME NEW ids, NEW sup \in [ids \union {None} -> ids \union {None}],
         NEW seen \in SUBSET ids, NEW c \in ids, c # None
  PROVE  Finishes(sup, ids, seen, c) <=>
           /\ c \notin seen
           /\ sup[c] = None \/ Finishes(sup, ids, seen \union {c}, sup[c])
<1>1. ASSUME NEW n \in Nat, Leads(sup, ids, seen, c, n)
      PROVE  /\ c \notin seen
             /\ sup[c] = None \/ \E k \in Nat : Leads(sup, ids, seen \union {c}, sup[c], k)
  <2> DEFINE lengths == {k \in Nat : Leads(sup, ids, seen, c, k)}
  <2>1. PICK k \in lengths : \A l \in lengths : k <= l
    BY <1>1, LeastNumber
  <2>2. PICK p \in [0 .. k -> (ids \ seen) \ {None}] :
          /\ p[0] = c /\ sup[p[k]] = None
          /\ \A i \in 0 .. k - 1 : p[i + 1] = sup[p[i]]
    BY <2>1 DEF Leads
  <2>3. k \in Nat /\ c \notin seen
    BY <2>1, <2>2
  <2>4. CASE k = 0
    BY <2>2, <2>3, <2>4
  <2>5. CASE k # 0
    <3>1. ASSUME NEW i \in 1 .. k, p[i] = c PROVE FALSE
      <4> DEFINE r == [j \in 0 .. k - i |-> p[j + i]]
      <4>1. r \in [0 .. k - i -> (ids \ seen) \ {None}]
        BY <2>2, <2>3
      <4>2. r[0] = c /\ sup[r[k - i]] = None
        BY <2>2, <2>3, <3>1
      <4>3. \A j \in 0 .. (k - i) - 1 : r[j + 1] = sup[r[j]]
        <5> TAKE j \in 0 .. (k - i) - 1
        <5>1. j + i \in 0 .. k - 1 /\ (j + i) + 1 = (j + 1) + i /\ j \in 0 .. k - i /\ j + 1 \in 0 .. k - i
          BY <2>3
        <5>2. p[(j + i) + 1] = sup[p[j + i]]
          BY <2>2, <5>1
        <5>3. QED
          BY <5>1, <5>2
      <4>4. k - i \in Nat
        BY <2>3
      <4>5. k - i \in lengths
        BY <4>1, <4>2, <4>3, <4>4 DEF Leads
      <4> HIDE DEF lengths
      <4>6. QED
        BY <2>1, <2>3, <4>4, <4>5
    <3> DEFINE q == [i \in 0 .. k - 1 |-> p[i + 1]]
    <3>2. q \in [0 .. k - 1 -> (ids \ (seen \union {c})) \ {None}]
      BY <2>2, <2>3, <3>1
    <3>3. q[0] = sup[c] /\ sup[q[k - 1]] = None
      BY <2>2, <2>3, <2>5
    <3>4. \A i \in 0 .. (k - 1) - 1 : q[i + 1] = sup[q[i]]
      BY <2>2, <2>3
    <3>5. k - 1 \in Nat
      BY <2>3, <2>5
    <3> HIDE DEF q
    <3>6. Leads(sup, ids, seen \union {c}, sup[c], k - 1)
      BY <3>2, <3>3, <3>4 DEF Leads
    <3>7. QED
      BY <2>3, <3>5, <3>6
  <2>6. QED
    BY <2>4, <2>5
<1>2. ASSUME c \notin seen, sup[c] = None PROVE \E n \in Nat : Leads(sup, ids, seen, c, n)
  <2> DEFINE p == [i \in 0 .. 0 |-> c]
  <2>1. p \in [0 .. 0 -> (ids \ seen) \ {None}] /\ p[0] = c
    BY <1>2
  <2>2. \A i \in 0 .. 0 - 1 : p[i + 1] = sup[p[i]]
    OBVIOUS
  <2> HIDE DEF p
  <2>3. Leads(sup, ids, seen, c, 0)
    BY <1>2, <2>1, <2>2 DEF Leads
  <2>4. QED
    BY <2>3
<1>3. ASSUME c \notin seen, NEW n \in Nat, Leads(sup, ids, seen \union {c}, sup[c], n)
      PROVE  Leads(sup, ids, seen, c, n + 1)
  <2>1. PICK p \in [0 .. n -> (ids \ (seen \union {c})) \ {None}] :
          /\ p[0] = sup[c] /\ sup[p[n]] = None
          /\ \A i \in 0 .. n - 1 : p[i + 1] = sup[p[i]]
    BY <1>3 DEF Leads
  <2> DEFINE q == [i \in 0 .. n + 1 |-> IF i = 0 THEN c ELSE p[i - 1]]
  <2>2. q \in [0 .. n + 1 -> (ids \ seen) \ {None}]
    BY <1>3, <2>1
  <2>3. q[0] = c /\ sup[q[n + 1]] = None
    BY <2>1
  <2>4. \A i \in 0 .. (n + 1) - 1 : q[i + 1] = sup[q[i]]
    <3> TAKE i \in 0 .. (n + 1) - 1
    <3>1. CASE i = 0
      BY <2>1, <3>1
    <3>2. CASE i # 0
      <4>1. i - 1 \in 0 .. n - 1 /\ (i - 1) + 1 = i /\ (i + 1) - 1 = i
        BY <3>2
      <4>2. p[(i - 1) + 1] = sup[p[i - 1]]
        BY <2>1, <4>1
      <4>3. QED
        BY <3>2, <4>1, <4>2
    <3>3. QED
      BY <3>1, <3>2
  <2>5. QED
    BY <2>2, <2>3, <2>4 DEF Leads
<1>4. ASSUME Finishes(sup, ids, seen, c)
      PROVE  c \notin seen /\ (sup[c] = None \/ Finishes(sup, ids, seen \union {c}, sup[c]))
  BY <1>1, <1>4 DEF Finishes
<1>5. ASSUME c \notin seen, sup[c] = None \/ Finishes(sup, ids, seen \union {c}, sup[c])
      PROVE  Finishes(sup, ids, seen, c)
  <2>1. CASE sup[c] = None
    BY <1>2, <1>5, <2>1 DEF Finishes
  <2>2. CASE sup[c] # None
    <3>1. PICK n \in Nat : Leads(sup, ids, seen \union {c}, sup[c], n)
      BY <1>5, <2>2 DEF Finishes
    <3>2. Leads(sup, ids, seen, c, n + 1) /\ n + 1 \in Nat
      BY <1>3, <1>5, <3>1
    <3>3. QED
      BY <3>2 DEF Finishes
  <2>3. QED
    BY <2>1, <2>2
<1>6. QED
  BY <1>4, <1>5

\* There is a walk as check_references has it, so the one that is meant is one.
LEMMA WalkIs ==
  ASSUME NEW m, NEW id
  PROVE  LET ids == {c.id : c \in Range(m.classes)} \union {c.super : c \in Range(m.classes)}
         IN  \E walk :
               /\ \A seen \in SUBSET ids, c \in ids \union {None} :
                    walk[<<seen, c>>] = (IF c = None THEN FALSE
                                         ELSE c \in seen \/ walk[<<seen \union {c}, SuperOf(m, c)>>])
               /\ Cyclic(m, id) = walk[<<{id}, SuperOf(m, id)>>]
<1> DEFINE ids == {c.id : c \in Range(m.classes)} \union {c.super : c \in Range(m.classes)}
           Places == (SUBSET ids) \X (ids \union {None})
           sup == [c \in ids \union {None} |-> SuperOf(m, c)]
           Ends(seen, c) == c = None \/ Finishes(sup, ids, seen, c)
           found == [at \in Places |-> ~Ends(at[1], at[2])]
           walk == CHOOSE f :
             f = [at \in Places |->
                    IF at[2] = None THEN FALSE
                    ELSE at[2] \in at[1] \/ f[<<at[1] \union {at[2]}, SuperOf(m, at[2])>>]]
<1>1. sup \in [ids \union {None} -> ids \union {None}]
  <2>1. \A c : SuperOf(m, c) \in ids \union {None}
    <3> TAKE c
    <3>1. CASE ClassOf(m, c) = {}
      BY <3>1 DEF SuperOf
    <3>2. CASE ClassOf(m, c) # {}
      <4>1. PICK k \in ClassOf(m, c) : SuperOf(m, c) = k.super
        BY <3>2 DEF SuperOf
      <4>2. k \in Range(m.classes)
        BY DEF ClassOf
      <4>3. QED
        BY <4>1, <4>2
    <3>3. QED
      BY <3>1, <3>2
  <2>2. QED
    BY <2>1
<1>2. ASSUME NEW seen \in SUBSET ids, NEW c \in ids \union {None}, c # None
      PROVE  (~Ends(seen, c)) <=> (c \in seen \/ ~Ends(seen \union {c}, SuperOf(m, c)))
  <2>1. c \in ids /\ sup[c] = SuperOf(m, c)
    BY <1>2
  <2> HIDE DEF ids, sup
  <2>2. Finishes(sup, ids, seen, c) <=>
           /\ c \notin seen
           /\ sup[c] = None \/ Finishes(sup, ids, seen \union {c}, sup[c])
    <3>1. c # None /\ c \in ids /\ seen \in SUBSET ids /\ sup \in [ids \union {None} -> ids \union {None}]
      BY <1>1, <1>2, <2>1
    <3>2. QED
      BY <3>1, LeadsStep
  <2>3. QED
    BY <1>2, <2>1, <2>2
<1>3. \A c \in ids \union {None} : SuperOf(m, c) \in ids \union {None}
  BY <1>1
<1>n. \A seen : Ends(seen, None)
  OBVIOUS
<1> HIDE DEF ids, sup, Ends
<1>4. found = [at \in Places |->
                 IF at[2] = None THEN FALSE
                 ELSE at[2] \in at[1] \/ found[<<at[1] \union {at[2]}, SuperOf(m, at[2])>>]]
  <2>1. ASSUME NEW at \in Places
        PROVE  found[at] = (IF at[2] = None THEN FALSE
                            ELSE at[2] \in at[1] \/ found[<<at[1] \union {at[2]}, SuperOf(m, at[2])>>])
    <3>1. at[1] \in SUBSET ids /\ at[2] \in ids \union {None}
      OBVIOUS
    <3>2. found[at] = (~Ends(at[1], at[2]))
      OBVIOUS
    <3>3. CASE at[2] = None
      <4>1. Ends(at[1], at[2])
        BY <1>n, <3>3, Zenon
      <4>2. QED
        BY <3>2, <3>3, <4>1
    <3>4. CASE at[2] # None
      <4>1. <<at[1] \union {at[2]}, SuperOf(m, at[2])>> \in Places
        BY <1>3, <3>1, <3>4
      <4>2. found[<<at[1] \union {at[2]}, SuperOf(m, at[2])>>] = (~Ends(at[1] \union {at[2]}, SuperOf(m, at[2])))
        BY <4>1
      <4>3. (~Ends(at[1], at[2])) <=> (at[2] \in at[1] \/ ~Ends(at[1] \union {at[2]}, SuperOf(m, at[2])))
        BY <1>2, <3>1, <3>4, Zenon
      <4> HIDE DEF found
      <4>4. QED
        BY <3>2, <3>4, <4>2, <4>3
    <3>5. QED
      BY <3>3, <3>4
  <2>2. QED
    BY <2>1
<1> HIDE DEF found, walk
<1>5. walk = [at \in Places |->
                IF at[2] = None THEN FALSE
                ELSE at[2] \in at[1] \/ walk[<<at[1] \union {at[2]}, SuperOf(m, at[2])>>]]
  BY <1>4 DEF walk
<1>6. \A seen \in SUBSET ids, c \in ids \union {None} :
        walk[<<seen, c>>] = (IF c = None THEN FALSE
                             ELSE c \in seen \/ walk[<<seen \union {c}, SuperOf(m, c)>>])
  BY <1>5
<1>7. Cyclic(m, id) = walk[<<{id}, SuperOf(m, id)>>]
  BY DEF Cyclic, walk, ids
<1>8. QED
  BY <1>6, <1>7 DEF ids

\* Superclass chains end: a set of classes that has the superclass of each would keep the walk
\* from one of them going, and with every step fewer of them are left that it has not seen.
LEMMA ChainsEnd ==
  ASSUME NEW m, ModelOK(m), ReferencesResolve(m),
         NEW S \in SUBSET {c.id : c \in Range(m.classes)}, S # {}
  PROVE  \E c \in S : SuperOf(m, c) \notin S
<1> DEFINE own == {c.id : c \in Range(m.classes)}
           ids == own \union {c.super : c \in Range(m.classes)}
<1>1. SUFFICES ASSUME \A c \in S : SuperOf(m, c) \in S PROVE FALSE
  OBVIOUS
<1>2. PICK first \in S : TRUE
  OBVIOUS
<1>3. PICK walk :
        /\ \A seen \in SUBSET ids, c \in ids \union {None} :
             walk[<<seen, c>>] = (IF c = None THEN FALSE
                                  ELSE c \in seen \/ walk[<<seen \union {c}, SuperOf(m, c)>>])
        /\ Cyclic(m, first) = walk[<<{first}, SuperOf(m, first)>>]
  BY WalkIs
<1>4. ~walk[<<{first}, SuperOf(m, first)>>]
  BY <1>2, <1>3 DEF ReferencesResolve
<1>5. S \subseteq ids /\ None \notin S
  BY TopIs DEF ModelOK
<1>6. IsFiniteSet(S)
  <2> DEFINE f == [i \in 1 .. Len(m.classes) |-> m.classes[i].id]
  <2>1. Len(m.classes) \in Nat /\ DOMAIN m.classes = 1 .. Len(m.classes)
    BY ListOf DEF ModelOK
  <2>2. f \in Surjection(1 .. Len(m.classes), own)
    BY <2>1 DEF Surjection, Range
  <2>3. IsFiniteSet(1 .. Len(m.classes))
    <3>1. 1 \in Int /\ Len(m.classes) \in Int
      BY <2>1
    <3>2. QED
      BY <3>1, FS_Interval, Zenon
  <2>4. IsFiniteSet(own)
    BY <2>2, <2>3, FS_Surjection
  <2>5. QED
    BY <2>4, FS_Subset
<1> HIDE DEF ids, own
<1> DEFINE Left(seen) == Cardinality(S \ seen)
           bad == {n \in Nat : \E seen \in SUBSET ids, c \in S : n = Left(seen) /\ ~walk[<<seen, c>>]}
<1>7. \A seen : IsFiniteSet(S \ seen) /\ Left(seen) \in Nat
  BY <1>6, FS_Difference, FS_CardinalityType
<1>8. bad # {}
  <2>1. {first} \in SUBSET ids /\ SuperOf(m, first) \in S
    BY <1>1, <1>2, <1>5
  <2>2. QED
    BY <1>4, <1>7, <2>1
<1>9. PICK n \in bad : \A k \in bad : n <= k
  BY <1>8, LeastNumber
<1>10. PICK seen \in SUBSET ids, c \in S : n = Left(seen) /\ ~walk[<<seen, c>>]
  BY <1>9
<1>11. /\ c \notin seen
       /\ ~walk[<<seen \union {c}, SuperOf(m, c)>>]
  BY <1>3, <1>5, <1>10
<1>12. Left(seen \union {c}) = Left(seen) - 1
  <2>1. S \ (seen \union {c}) = (S \ seen) \ {c} /\ c \in S \ seen
    BY <1>10, <1>11
  <2>2. Cardinality((S \ seen) \ {c}) = Cardinality(S \ seen) - 1
    BY <1>7, <2>1, FS_RemoveElement
  <2>3. QED
    BY <2>1, <2>2
<1>13. Left(seen \union {c}) \in bad
  <2>1. seen \union {c} \in SUBSET ids /\ SuperOf(m, c) \in S
    BY <1>1, <1>5, <1>10
  <2>2. QED
    BY <1>7, <1>11, <2>1
<1> HIDE DEF Left, bad
<1>14. n \in Nat /\ n = Left(seen)
  BY <1>10 DEF bad
<1>15. QED
  BY <1>9, <1>12, <1>13, <1>14

-----------------------------------------------------------------------------
(* Regions and pool.                                                         *)

\* Keys in order are in order wherever they are.
LEMMA KeysApart ==
  ASSUME NEW n \in Nat, NEW keys \in [1 .. n -> Int], StrictlyAscending(keys),
         NEW i \in 1 .. n, NEW j \in 1 .. n, keys[i] = keys[j]
  PROVE  i = j
<1>1. Len(keys) = n
  OBVIOUS
<1>2. \A k \in 1 .. n - 1 : keys[k] < keys[k + 1]
  BY <1>1 DEF StrictlyAscending
<1> DEFINE bad == {l \in 1 .. n : \E k \in 1 .. n : k < l /\ keys[k] >= keys[l]}
<1>3. bad = {}
  <2>1. SUFFICES ASSUME bad # {} PROVE FALSE
    OBVIOUS
  <2>2. bad \in SUBSET Nat
    OBVIOUS
  <2>3. PICK l \in bad : \A k \in bad : l <= k
    BY <2>1, <2>2, LeastNumber
  <2>4. PICK k \in 1 .. n : k < l /\ keys[k] >= keys[l]
    BY <2>3
  <2>5. l - 1 \in 1 .. n - 1 /\ (l - 1) + 1 = l /\ l - 1 \in 1 .. n
    BY <2>3, <2>4
  <2>6. keys[l - 1] < keys[l]
    BY <1>2, <2>5
  <2>7. k = l - 1 \/ keys[k] < keys[l - 1]
    <3>1. ~(l - 1 \in bad)
      BY <2>3, <2>5
    <3>2. CASE k < l - 1
      BY <2>5, <3>1, <3>2
    <3>3. QED
      BY <2>3, <2>4, <3>2
  <2>8. keys[k] \in Int /\ keys[l - 1] \in Int /\ keys[l] \in Int
    BY <2>3, <2>4, <2>5
  <2> HIDE DEF bad
  <2>9. QED
    BY <2>4, <2>6, <2>7, <2>8
<1>4. ~(i < j) /\ ~(j < i)
  BY <1>3
<1>5. QED
  BY <1>4

\* A region of an accepted model is the one the loader carved under that name.
LEMMA RegionIs ==
  ASSUME NEW m, NEW b, NEW producer, NEW binding, ModelOK(m), RegionsAgree(m),
         HostFacts(m, HostContext(b, producer, binding)), NEW r \in Code(m)
  PROVE  /\ r.name \in Range(RegionNames) /\ Executable(r.name)
         /\ r.va = b.spans[r.name].va /\ r.size = b.spans[r.name].size
<1> DEFINE host == Range(Observed(b.spans))
           n    == Len(m.regions)
           keys == [i \in DOMAIN m.regions |-> Rank(m.regions[i].name)]
<1>1. n \in Nat /\ DOMAIN m.regions = 1 .. n /\ r \in Range(m.regions)
  BY ListOf DEF ModelOK, Code
<1>2. \A h \in host : /\ h.name \in Range(RegionNames)
                      /\ h.size = b.spans[h.name].size
                      /\ Executable(h.name) => h.va = b.spans[h.name].va
  BY DEF Observed, Range
<1>3. /\ \A h \in host : \E s \in Range(m.regions) : s.name = h.name /\ s.size = h.size /\ s.va = h.va
      /\ \A s \in Range(m.regions) : \E h \in host : h.name = s.name
  BY DEF HostFacts, HostContext
<1>4. \A name \in Range(RegionNames) : Rank(name) \in 1 .. 4
  BY DEF Rank, Range, RegionNames
<1>5. keys \in [1 .. n -> Int]
  <2>1. ASSUME NEW i \in 1 .. n PROVE Rank(m.regions[i].name) \in Int
    <3>1. m.regions[i] \in Range(m.regions)
      BY <1>1, <2>1 DEF Range
    <3>2. m.regions[i].name \in Range(RegionNames)
      BY <1>2, <1>3, <3>1
    <3>3. QED
      BY <1>4, <3>2
  <2>2. QED
    BY <1>1, <2>1
<1>6. PICK h \in host : h.name = r.name
  BY <1>1, <1>3
<1>7. PICK s \in Range(m.regions) : s.name = h.name /\ s.size = h.size /\ s.va = h.va
  BY <1>3, <1>6
<1>8. s = r
  <2>1. PICK i \in 1 .. n, j \in 1 .. n : r = m.regions[i] /\ s = m.regions[j]
    BY <1>1, <1>7 DEF Range
  <2>2. keys[i] = keys[j]
    BY <1>1, <1>6, <1>7, <2>1
  <2>3. StrictlyAscending(keys)
    BY DEF RegionsAgree
  <2> HIDE DEF keys, n
  <2>4. n \in Nat /\ i \in 1 .. n /\ j \in 1 .. n
    BY <1>1, <2>1
  <2>5. i = j
    BY <1>5, <2>2, <2>3, <2>4, KeysApart, Zenon
  <2>6. QED
    BY <2>1, <2>5
<1>9. Executable(r.name)
  BY <1>1 DEF RegionsAgree, Code
<1>10. QED
  BY <1>2, <1>6, <1>7, <1>8, <1>9

\* A slot and its displacement are each other's.
LEMMA SlotsAndDisplacements ==
  ASSUME NEW pool, pool.word \in {1, 2, 4, 8}, pool.entries_offset \in Address
  PROVE  /\ \A index \in Nat : DisplacementOf(pool, index) # None =>
                IndexAt(pool, DisplacementOf(pool, index)) = index
         /\ \A d \in Address : IndexAt(pool, d) # None =>
                DisplacementOf(pool, IndexAt(pool, d)) = d
<1>1. Top \in Nat /\ None = -1 /\ pool.entries_offset \in Nat
  BY TopIs
<1>2. ASSUME NEW index \in Nat, DisplacementOf(pool, index) # None
      PROVE  IndexAt(pool, DisplacementOf(pool, index)) = index
  <2>1. DisplacementOf(pool, index) = index * pool.word + pool.entries_offset
    BY <1>1, <1>2 DEF DisplacementOf, Plus
  <2>2. QED
    BY <1>1, <2>1 DEF IndexAt
<1>3. ASSUME NEW d \in Address, IndexAt(pool, d) # None
      PROVE  DisplacementOf(pool, IndexAt(pool, d)) = d
  <2> DEFINE rel == d - pool.entries_offset
  <2>1. d \in Nat /\ d < Top
    BY <1>3, TopIs
  <2>2. rel >= 0 /\ rel % pool.word = 0 /\ IndexAt(pool, d) = rel \div pool.word
    BY <1>1, <1>3, <2>1 DEF IndexAt
  <2>3. (rel \div pool.word) * pool.word = rel
    BY <1>1, <2>1, <2>2
  <2>4. QED
    BY <1>1, <2>1, <2>2, <2>3 DEF DisplacementOf, Plus
<1>4. QED
  BY <1>2, <1>3

LEMMA ModelIsOK ==
  ASSUME FileInv, phase \in Modelled
  PROVE  ModelOK(model)
<1>1. FileOK(file) /\ LoadRefusal(file) = "ok" /\ bundle = Bundle(file) /\ input \in Inputs
  BY DEF FileInv, Carved
<1>2. CASE by = "adapter" /\ model = Contents(input).adapter
  BY <1>1, <1>2, ReadAssumption
<1>3. CASE by = "core" /\ model = RecoveredModel(file, bundle)
  BY <1>1, <1>3, RecoveredOK
<1>4. QED
  BY <1>2, <1>3 DEF FileInv

LEMMA AcceptedModel ==
  ASSUME FileInv, phase \in Passed
  PROVE  /\ ModelOK(model)
         /\ RegionsAgree(model) /\ Canonical(model) /\ ReferencesResolve(model)
         /\ GeometryOK(model) /\ AddressesOK(model)
         /\ \E producer, binding : HostFacts(model, HostContext(bundle, producer, binding))
<1>1. ModelOK(model) /\ Verdict(model, Host) = "accepted"
  BY ModelIsOK DEF Modelled, FileInv
<1>2. \E producer, binding : Host = HostContext(bundle, producer, binding)
  BY DEF Host
<1>3. QED
  BY <1>1, <1>2, VerdictIs

\* The two regions with code lie in the file, at addresses that do not run over.
LEMMA CodeRegion ==
  ASSUME FileInv, phase \in Carved, NEW name \in Range(RegionNames)
  PROVE  LET span == bundle.spans[name]
         IN  /\ span.va \in Address /\ span.offset \in Nat /\ span.size \in Nat \ {0}
             /\ span.offset + span.size <= file.len
             /\ \E i \in Holding(file, span.va) :
                  span.offset = file.headers[i].offset + (span.va - file.headers[i].vaddr)
<1>1. FileOK(file) /\ LoadRefusal(file) = "ok" /\ bundle = Bundle(file)
  BY DEF FileInv
<1>2. QED
  BY <1>1, SpansOf, SpanIs

\* A function of an accepted model lies in the region it declares, as the loader carved it.
LEMMA FunctionIs ==
  ASSUME FileInv, phase \in Passed, NEW f \in Range(model.functions)
  PROVE  /\ f.start \in Address /\ f.size \in Address
         /\ \E name \in Range(RegionNames) :
              /\ Executable(name)
              /\ bundle.spans[name].va = f.section
              /\ f.start >= bundle.spans[name].va
              /\ f.start + f.size <= bundle.spans[name].va + bundle.spans[name].size
<1>1. /\ ModelOK(model) /\ RegionsAgree(model) /\ FunctionAddress(model, f)
      /\ \E producer, binding : HostFacts(model, HostContext(bundle, producer, binding))
  BY AcceptedModel DEF AddressesOK
<1>2. f.start \in Address /\ f.size \in Address
  BY <1>1 DEF ModelOK
<1>3. PICK r \in Code(model) : r.va = f.section /\ ContainsRange(r, f.start, f.size)
  BY <1>1 DEF FunctionAddress
<1>4. /\ r.name \in Range(RegionNames) /\ Executable(r.name)
      /\ r.va = bundle.spans[r.name].va /\ r.size = bundle.spans[r.name].size
  BY <1>1, RegionIs
<1>5. r.va \in Address /\ r.size \in Nat
  <2>1. phase \in Carved
    BY DEF Carved, Modelled
  <2>2. QED
    BY <1>4, <2>1, CodeRegion
<1>6. /\ f.start >= r.va
      /\ Plus(f.start, f.size) # None /\ EndVa(r.va, r.size) # None
      /\ Plus(f.start, f.size) <= EndVa(r.va, r.size)
  BY <1>3 DEF ContainsRange
<1>7. r.va # None
  BY <1>5, TopIs
<1>8. EndVa(r.va, r.size) = r.va + r.size /\ Plus(f.start, f.size) = f.start + f.size
  BY <1>6, <1>7 DEF EndVa, Plus
<1>9. QED
  BY <1>2, <1>3, <1>4, <1>6, <1>8

-----------------------------------------------------------------------------

LEMMA FileStart ==
  ASSUME RunInit
  PROVE  FileInv
BY DEF RunInit, ReadInit, FileInv, Phases, Carved, Modelled, Passed

\* What was read is what the run went on: a bundle is the one of its file, a model the one
\* that was given, and nothing goes on with a model validate did not accept (ProgramRead).
THEOREM FileHolds == RunSpec => []FileInv
<1>1. RunInit => FileInv
  BY FileStart
<1>2. FileInv /\ [RunNext]_runVars => FileInv'
  BY FileStep
<1>3. QED
  BY <1>1, <1>2, PTL DEF RunSpec

LEMMA AcceptedNow ==
  ASSUME FileInv
  PROVE  AcceptedIsSound
<1>1. SUFFICES ASSUME phase \in Passed PROVE AcceptedIsSound
  BY DEF AcceptedIsSound, Accepted, Passed
<1>2. /\ ModelOK(model) /\ ReferencesResolve(model) /\ GeometryOK(model)
  BY <1>1, AcceptedModel
<1>3. \A S \in SUBSET {c.id : c \in Range(model.classes)} :
        S # {} => \E c \in S : SuperOf(model, c) \notin S
  BY <1>2, ChainsEnd
<1>4. ASSUME NEW f \in Range(model.functions), NEW va \in f.start .. f.start + f.size - 1
      PROVE  \E name \in {n \in Range(RegionNames) : Executable(n)} :
               LET r == bundle.spans[name] IN r.va = f.section /\ va >= r.va /\ va < r.va + r.size
  <2>1. f.start \in Address /\ f.size \in Address
    BY <1>1, FunctionIs
  <2>2. PICK name \in Range(RegionNames) :
          /\ Executable(name)
          /\ bundle.spans[name].va = f.section
          /\ f.start >= bundle.spans[name].va
          /\ f.start + f.size <= bundle.spans[name].va + bundle.spans[name].size
    BY <1>1, FunctionIs
  <2>3. bundle.spans[name].va \in Address /\ bundle.spans[name].size \in Nat
    BY <1>1, CodeRegion DEF Carved, Modelled
  <2>4. /\ f.start \in Nat /\ f.size \in Nat /\ bundle.spans[name].va \in Nat
    BY <2>1, <2>3, TopIs
  <2>5. va \in Nat /\ va >= f.start /\ va < f.start + f.size
    BY <1>4, <2>4
  <2>6. va >= bundle.spans[name].va /\ va < bundle.spans[name].va + bundle.spans[name].size
    BY <2>2, <2>3, <2>4, <2>5
  <2>7. QED
    BY <2>2, <2>6
<1>5. ASSUME model.pool.word # None, NEW e \in Range(model.pool.entries)
      PROVE  /\ DisplacementOf(model.pool, e.index) # None
             /\ IndexAt(model.pool, DisplacementOf(model.pool, e.index)) = e.index
  <2>1. /\ model.pool.word \in {1, 2, 4, 8} /\ model.pool.entries_offset \in Address
        /\ e.index \in Nat /\ DisplacementOf(model.pool, e.index) # None
    BY <1>2, <1>5, TopIs DEF GeometryOK, ModelOK
  <2>2. QED
    BY <2>1, SlotsAndDisplacements
<1>6. QED
  BY <1>3, <1>4, <1>5 DEF AcceptedIsSound

\* A model that validate accepted can be followed: chains of superclasses end, the code of a
\* function is in the region it declares, and slots and displacements are each other's.
THEOREM AcceptedHolds == RunSpec => []AcceptedIsSound
<1>1. FileInv => AcceptedIsSound
  BY AcceptedNow
<1>2. QED
  BY <1>1, FileHolds, PTL

-----------------------------------------------------------------------------
(* Decoding: where the decoder is, and what it listed.                       *)

\* The first n instructions of a function, and that there is no other.
Places(i, n) == [k \in 1 .. n |-> At(i, (k - 1) * Word)]
Complete(i, n) ==
  n * Word + Word > Clipped(Fn(i)) \/ file.code[OffsetOf(Fn(i)) + n * Word][1] = "bad"

\* A listing has the first instructions of its function; all of them once it is done.
Listed(i) ==
  /\ ~Outside(Fn(i))
  /\ \E n \in Nat :
       /\ listing[i] = Places(i, n) /\ n * Word <= Clipped(Fn(i))
       /\ i = cursor.fn => cursor.offset = n * Word
       /\ i \notin left => Complete(i, n)

PlaceInv ==
  /\ phase \in {"open", "load", "answer", "validate", "refused", "select"} => listing = <<>>
  /\ phase # "decode" => cursor = NoCursor
  /\ cursor.fn = None => cursor = NoCursor
  /\ phase \in {"decode", "done"} =>
       /\ left \subseteq Chosen
       /\ DOMAIN listing \subseteq (Chosen \ left) \union ({cursor.fn} \ {None})
       /\ \A i \in DOMAIN listing : Listed(i)
       /\ \A i \in Chosen \ left : Outside(Fn(i)) \/ i \in DOMAIN listing
       /\ cursor.fn # None => cursor.fn \in left /\ cursor.fn \in DOMAIN listing
  /\ phase = "done" => left = {}

LEMMA ChosenAre ==
  ASSUME FileInv, phase \in Modelled
  PROVE  Chosen \subseteq DOMAIN model.functions /\ DOMAIN model.functions \subseteq Nat \ {0}
<1>1. DOMAIN model.functions \subseteq Nat \ {0}
  BY ModelIsOK, ListOf DEF ModelOK
<1>2. QED
  BY <1>1 DEF Chosen, Selected, TargetHits, Scoped

\* A function that is not outside starts in the isolate instructions; what is decoded of it
\* ends there and in the file.
LEMMA Inside ==
  ASSUME FileInv, phase \in Passed, NEW i \in DOMAIN model.functions, ~Outside(Fn(i))
  PROVE  /\ Clipped(Fn(i)) \in Nat /\ Clipped(Fn(i)) >= Word /\ Clipped(Fn(i)) <= Fn(i).size
         /\ Fn(i).start \in Nat /\ Fn(i).size \in Nat /\ Isolate.va \in Address /\ Isolate.va \in Nat
         /\ Isolate.size \in Nat /\ Isolate.offset \in Nat
         /\ Fn(i).start >= Isolate.va
         /\ Fn(i).start + Clipped(Fn(i)) <= Isolate.va + Isolate.size
         /\ OffsetOf(Fn(i)) \in Nat /\ OffsetOf(Fn(i)) + Clipped(Fn(i)) <= file.len
         /\ OffsetOf(Fn(i)) = Isolate.offset + (Fn(i).start - Isolate.va)
<1> DEFINE f == Fn(i)
           rest == Isolate.size - (f.start - Isolate.va)
<1>1. Fn(i).start \in Address /\ Fn(i).size \in Address
  <2>1. Fn(i) \in Range(model.functions)
    BY DEF Fn, Range
  <2>2. QED
    BY <2>1, AcceptedModel DEF ModelOK
<1>2. /\ Isolate.va \in Address /\ Isolate.offset \in Nat /\ Isolate.size \in Nat \ {0}
      /\ Isolate.offset + Isolate.size <= file.len
  BY CodeRegion, TheRegions DEF Isolate, Carved, Modelled
<1>3. file.len \in Nat
  <2>1. file.len \in Address
    BY DEF FileInv, Carved, Modelled, FileOK
  <2>2. QED
    BY <2>1, TopIs
<1>4. f.start \in Nat /\ f.size \in Nat /\ Isolate.va \in Nat /\ Word \in Nat \ {0}
  BY <1>1, <1>2, TopIs, RecoveryAssumption
<1>5. /\ ~(f.start < Isolate.va) /\ ~(f.start - Isolate.va >= Isolate.size) /\ ~(Clipped(f) < Word)
  BY DEF Outside
<1> HIDE DEF f
<1>6. rest \in Int
  BY <1>2, <1>4
<1>7. Clipped(f) = IF f.size <= rest THEN f.size ELSE rest
  <2>1. Clipped(f) = Min({f.size, rest})
    BY DEF Clipped
  <2> HIDE DEF rest
  <2>2. QED
    BY <1>4, <1>6, <2>1, MinOfTwo
<1>8. OffsetOf(f) = Isolate.offset + (f.start - Isolate.va)
  BY DEF OffsetOf
<1>9. QED
  BY <1>2, <1>3, <1>4, <1>5, <1>7, <1>8 DEF f

\* The instruction the decoder looks at is one of the file.
LEMMA OpIs ==
  ASSUME FileInv, PlaceInv, phase = "decode", cursor.fn # None, More
  PROVE  OpOK(Op)
<1>1. phase \in Passed /\ phase \in Modelled /\ phase \in Carved
  BY DEF Passed, Modelled, Carved
<1>2. /\ cursor.fn \in DOMAIN model.functions /\ ~Outside(Fn(cursor.fn))
      /\ \E n \in Nat : cursor.offset = n * Word
  BY <1>1, ChosenAre DEF PlaceInv, Listed
<1>3. /\ Clipped(Fn(cursor.fn)) \in Nat /\ OffsetOf(Fn(cursor.fn)) \in Nat
      /\ OffsetOf(Fn(cursor.fn)) + Clipped(Fn(cursor.fn)) <= file.len
  BY <1>1, <1>2, Inside
<1>4. cursor.offset \in Nat /\ Word \in Nat \ {0}
  <2>1. PICK n \in Nat : cursor.offset = n * Word
    BY <1>2
  <2>2. Word \in Nat \ {0}
    BY RecoveryAssumption
  <2>3. QED
    BY <2>1, <2>2
<1>5. cursor.offset + Word <= Clipped(Fn(cursor.fn))
  BY DEF More
<1>6. file.len \in Nat
  BY <1>1, TopIs DEF FileInv, FileOK
<1>7. OffsetOf(Fn(cursor.fn)) + cursor.offset \in 0 .. file.len - 1
  BY <1>3, <1>4, <1>5, <1>6
<1>8. QED
  BY <1>1, <1>7 DEF FileInv, FileOK, Op

\* What the functions and their places are does not change while they are decoded.
LEMMA Still ==
  ASSUME UNCHANGED <<input, file, bundle, model>>
  PROVE  /\ UNCHANGED <<Chosen, Isolate>>
         /\ \A i : Fn(i)' = Fn(i) /\ Outside(Fn(i))' = Outside(Fn(i)) /\ Clipped(Fn(i))' = Clipped(Fn(i))
         /\ \A i, n : Places(i, n)' = Places(i, n) /\ Complete(i, n)' = Complete(i, n)
BY DEF Chosen, Isolate, Fn, Outside, Clipped, Places, Complete, At, OffsetOf

\* A listing that neither grew nor was finished is what it was.
LEMMA ListedStays ==
  ASSUME UNCHANGED <<input, file, bundle, model>>, NEW i, Listed(i),
         listing'[i] = listing[i],
         i \notin left' => i \notin left,
         i = cursor'.fn => i = cursor.fn /\ cursor'.offset = cursor.offset
  PROVE  Listed(i)'
BY Still DEF Listed

LEMMA PlaceStep ==
  ASSUME FileInv, PlaceInv, [RunNext]_runVars
  PROVE  PlaceInv'
<1> DEFINE Earlier == {"open", "load", "answer", "validate", "refused", "select"}
<1>1. CASE Open \/ Carve \/ Answered \/ Validate
  <2>1. /\ UNCHANGED <<left, listing, cursor>> /\ phase \in Earlier
        /\ phase' \in Earlier \union {"failed"}
    BY <1>1 DEF Open, Carve, Answered, Validate
  <2>2. listing = <<>> /\ cursor = NoCursor
    BY <2>1 DEF PlaceInv
  <2>3. QED
    BY <2>1, <2>2 DEF PlaceInv
<1>2. CASE Select
  <2>1. /\ UNCHANGED <<input, file, bundle, model, listing, cursor>> /\ phase = "select"
        /\ phase' = "failed" \/ (phase' = "decode" /\ left' = Chosen)
    BY <1>2 DEF Select
  <2>2. listing = <<>> /\ cursor = NoCursor /\ NoCursor.fn = None
    BY <2>1 DEF PlaceInv, NoCursor
  <2>3. Chosen' = Chosen
    BY <2>1, Still
  <2>4. DOMAIN listing' = {}
    BY <2>1, <2>2
  <2>5. QED
    BY <2>1, <2>2, <2>3, <2>4 DEF PlaceInv
<1> DEFINE Reading == phase = "decode" /\ UNCHANGED <<input, file, bundle, model>>
<1>3. ASSUME Reading
      PROVE  /\ left \subseteq Chosen /\ Chosen \subseteq DOMAIN model.functions
             /\ DOMAIN model.functions \subseteq Nat \ {0}
             /\ DOMAIN listing \subseteq (Chosen \ left) \union ({cursor.fn} \ {None})
             /\ \A i \in DOMAIN listing : Listed(i)
             /\ \A i \in Chosen \ left : Outside(Fn(i)) \/ i \in DOMAIN listing
             /\ cursor.fn # None => cursor.fn \in left /\ cursor.fn \in DOMAIN listing
             /\ Chosen' = Chosen /\ \A i : Outside(Fn(i))' = Outside(Fn(i))
  BY <1>3, ChosenAre, Still DEF PlaceInv, Modelled, Passed
<1>4. NoCursor.fn = None /\ None \notin Nat
  BY DEF NoCursor, None
<1>5. CASE Skip
  <2>1. PICK i \in left : Outside(Fn(i)) /\ left' = left \ {i}
    BY <1>5 DEF Skip
  <2>2. /\ Reading /\ phase' = "decode" /\ cursor.fn = None
        /\ UNCHANGED <<phase, listing, cursor>>
    BY <1>5 DEF Skip
  <2>3. cursor = NoCursor
    BY <2>2 DEF PlaceInv
  <2>4. ASSUME NEW k \in DOMAIN listing PROVE Listed(k)'
    <3>1. k # i /\ Listed(k)
      BY <1>3, <2>1, <2>2
    <3>2. QED
      BY <2>1, <2>2, <3>1, ListedStays
  <2>5. QED
    BY <1>3, <2>1, <2>2, <2>3, <2>4 DEF PlaceInv
<1>6. CASE StartFunction
  <2>1. PICK i \in left : /\ ~Outside(Fn(i))
                          /\ cursor' = [NoCursor EXCEPT !.fn = i, !.offset = 0]
                          /\ listing' = [k \in DOMAIN listing \union {i} |-> IF k = i THEN <<>> ELSE listing[k]]
    BY <1>6 DEF StartFunction
  <2>2. /\ Reading /\ phase' = "decode" /\ cursor.fn = None
        /\ UNCHANGED <<phase, left>>
    BY <1>6 DEF StartFunction
  <2>3. cursor'.fn = i /\ cursor'.offset = 0 /\ i # None /\ i \notin DOMAIN listing
    BY <1>3, <1>4, <2>1, <2>2 DEF NoCursor
  <2>4. /\ DOMAIN listing' = DOMAIN listing \union {i} /\ listing'[i] = <<>>
        /\ \A k \in DOMAIN listing : listing'[k] = listing[k]
    BY <2>1, <2>3
  <2>5. ASSUME NEW k \in DOMAIN listing PROVE Listed(k)'
    <3>1. Listed(k) /\ k # i
      BY <1>3, <2>2, <2>3
    <3>2. QED
      BY <2>2, <2>3, <2>4, <3>1, ListedStays
  <2>6. Listed(i)'
    <3>1. Places(i, 0) = <<>>
      BY DEF Places
    <3>2. 0 * Word = 0 /\ Clipped(Fn(i)) >= 0 /\ Clipped(Fn(i)) \in Nat
      <4>1. Clipped(Fn(i)) \in Nat
        BY <1>3, <2>1, <2>2, Inside DEF Passed
      <4>2. QED
        BY <4>1, RecoveryAssumption
    <3>3. Places(i, 0)' = <<>> /\ Clipped(Fn(i))' = Clipped(Fn(i)) /\ ~Outside(Fn(i))'
      BY <2>1, <2>2, <3>1, Still
    <3>4. i \in left'
      BY <2>2
    <3>5. QED
      BY <2>3, <2>4, <3>2, <3>3, <3>4 DEF Listed
  <2>7. QED
    BY <1>3, <2>1, <2>2, <2>3, <2>4, <2>5, <2>6 DEF PlaceInv
<1>7. CASE Decode
  <2> PICK i : i = cursor.fn
    OBVIOUS
  <2>1. /\ Reading /\ phase' = "decode" /\ i # None /\ More
        /\ UNCHANGED <<phase, left>>
        /\ listing' = [listing EXCEPT ![i] = Append(@, At(i, cursor.offset))]
    BY <1>7 DEF Decode
  <2>2. cursor'.fn = i /\ cursor'.offset = cursor.offset + Word
    BY <1>7 DEF Decode
  <2>3. i \in left /\ i \in DOMAIN listing /\ Listed(i) /\ DOMAIN listing' = DOMAIN listing
    BY <1>3, <2>1
  <2>4. ASSUME NEW k \in DOMAIN listing, k # i PROVE Listed(k)'
    <3>1. Listed(k) /\ listing'[k] = listing[k]
      BY <1>3, <2>1, <2>4
    <3>2. QED
      BY <2>1, <2>2, <2>4, <3>1, ListedStays
  <2>5. Listed(i)'
    <3>1. PICK n \in Nat : listing[i] = Places(i, n) /\ cursor.offset = n * Word
      BY <2>3 DEF Listed
    <3>2. listing'[i] = Append(Places(i, n), At(i, n * Word))
      BY <2>1, <2>3, <3>1
    <3>3. Append(Places(i, n), At(i, n * Word)) = Places(i, n + 1)
      <4> DEFINE at(k) == At(i, (k - 1) * Word)
                 shorter == [k \in 1 .. n |-> at(k)]
                 longer == [k \in 1 .. n + 1 |-> at(k)]
      <4>1. At(i, n * Word) = at(n + 1)
        BY <3>1
      <4>2. Append(shorter, at(n + 1)) = longer
        <5> HIDE DEF at
        <5>1. Len(shorter) = n
          BY <3>1
        <5>2. QED
          BY <3>1, <5>1
      <4>3. QED
        BY <4>1, <4>2 DEF Places
    <3>4. (n + 1) * Word = n * Word + Word
      BY <3>1, RecoveryAssumption
    <3>5. (n + 1) * Word <= Clipped(Fn(i))
      BY <2>1, <3>1, <3>4 DEF More
    <3>6. /\ Places(i, n + 1)' = Places(i, n + 1) /\ Clipped(Fn(i))' = Clipped(Fn(i))
          /\ Outside(Fn(i))' = Outside(Fn(i))
      BY <2>1, Still
    <3>7. ~Outside(Fn(i)) /\ i \in left'
      BY <2>1, <2>3 DEF Listed
    <3>8. QED
      BY <2>2, <3>1, <3>2, <3>3, <3>4, <3>5, <3>6, <3>7 DEF Listed
  <2>6. \A k \in DOMAIN listing' : Listed(k)'
    BY <2>3, <2>4, <2>5
  <2>7. cursor.fn = i
    OBVIOUS
  <2>8. QED
    BY <1>3, <2>1, <2>2, <2>3, <2>6, <2>7 DEF PlaceInv
<1>8. CASE FinishFunction
  <2> PICK i : i = cursor.fn
    OBVIOUS
  <2>1. /\ Reading /\ phase' = "decode" /\ i # None /\ ~More
        /\ UNCHANGED phase
        /\ listing' = [listing EXCEPT ![i] = IF @ = <<>> THEN RawWords(i) ELSE @]
        /\ left' = left \ {i} /\ cursor' = NoCursor
    BY <1>8 DEF FinishFunction
  <2>2. i \in left /\ i \in DOMAIN listing /\ Listed(i) /\ DOMAIN listing' = DOMAIN listing
    BY <1>3, <2>1
  <2>3. ASSUME NEW k \in DOMAIN listing, k # i PROVE Listed(k)'
    <3>1. Listed(k) /\ listing'[k] = listing[k] /\ k \in Nat
      BY <1>3, <2>1, <2>2, <2>3
    <3>2. k # cursor'.fn
      BY <1>4, <2>1, <3>1
    <3>3. QED
      BY <2>1, <2>3, <3>1, <3>2, ListedStays
  <2>4. \E n \in Nat : listing'[i] = Places(i, n) /\ n * Word <= Clipped(Fn(i)) /\ Complete(i, n)
    <3>1. PICK n \in Nat : /\ listing[i] = Places(i, n) /\ cursor.offset = n * Word
                           /\ n * Word <= Clipped(Fn(i))
      BY <2>2 DEF Listed
    <3>2. CASE listing[i] = <<>>
      <4> DEFINE all == Clipped(Fn(i)) \div Word
      <4>1. Clipped(Fn(i)) \in Nat /\ Word \in Nat \ {0}
        BY <1>3, <2>1, <2>2, Inside, RecoveryAssumption DEF Passed, Listed
      <4>2. /\ all \in Nat /\ all * Word <= Clipped(Fn(i))
            /\ all * Word + Word > Clipped(Fn(i))
        BY <4>1, WholeWords
      <4>3. listing'[i] = Places(i, all)
        BY <2>1, <2>2, <3>2 DEF RawWords, Places
      <4> HIDE DEF all
      <4>4. QED
        BY <4>2, <4>3 DEF Complete
    <3>3. CASE listing[i] # <<>>
      <4>1. listing'[i] = Places(i, n)
        BY <2>1, <2>2, <3>1, <3>3
      <4>2. Complete(i, n)
        <5>1. cursor.offset + Word > Clipped(Fn(i)) \/ Op[1] = "bad"
          <6>1. Clipped(Fn(i)) \in Nat /\ Word \in Nat /\ cursor.offset \in Nat
            BY <1>3, <2>1, <2>2, <3>1, Inside, RecoveryAssumption DEF Passed, Listed
          <6>2. ~(cursor.offset + Word <= Clipped(Fn(cursor.fn))) \/ Op[1] = "bad"
            BY <2>1 DEF More
          <6>3. QED
            BY <6>1, <6>2
        <5>2. QED
          BY <3>1, <5>1 DEF Complete, Op
      <4>3. QED
        BY <3>1, <4>1, <4>2
    <3>4. QED
      BY <3>2, <3>3
  <2>5. Listed(i)'
    <3>1. ~Outside(Fn(i)) /\ i # None
      BY <2>1, <2>2 DEF Listed
    <3>2. \A n : Places(i, n)' = Places(i, n) /\ Complete(i, n)' = Complete(i, n)
      BY <2>1, Still
    <3>3. Clipped(Fn(i))' = Clipped(Fn(i)) /\ Outside(Fn(i))' = Outside(Fn(i))
      BY <2>1, Still
    <3>4. i # cursor'.fn
      BY <1>4, <2>1, <3>1
    <3>5. QED
      BY <2>4, <3>1, <3>2, <3>3, <3>4 DEF Listed
  <2>6. \A k \in DOMAIN listing' : Listed(k)'
    BY <2>2, <2>3, <2>5
  <2>7. /\ left' \subseteq Chosen
        /\ DOMAIN listing' \subseteq Chosen \ left'
        /\ \A k \in Chosen \ left' : Outside(Fn(k)) \/ k \in DOMAIN listing'
    BY <1>3, <2>1, <2>2
  <2>8. QED
    BY <1>3, <1>4, <2>1, <2>6, <2>7 DEF PlaceInv
<1>9. CASE Done
  <2>1. /\ Reading /\ phase' = "done" /\ left = {} /\ UNCHANGED <<left, listing, cursor>>
    BY <1>9 DEF Done
  <2>2. cursor = NoCursor
    BY <1>3, <2>1 DEF PlaceInv
  <2>3. \A k \in DOMAIN listing : Listed(k)'
    BY <1>3, <2>1, ListedStays
  <2>4. QED
    BY <1>3, <1>4, <2>1, <2>2, <2>3 DEF PlaceInv
<1>10. CASE UNCHANGED loadVars /\ UNCHANGED phase
  <2>1. UNCHANGED <<input, file, bundle, model, left, listing, cursor, phase>>
    BY <1>10 DEF loadVars
  <2>2. \A k : Listed(k)' = Listed(k)
    BY <2>1, Still DEF Listed
  <2>3. \A k : Chosen' = Chosen /\ Outside(Fn(k))' = Outside(Fn(k))
    BY <2>1, Still
  <2>4. QED
    BY <2>1, <2>2, <2>3 DEF PlaceInv
<1>11. CASE /\ UNCHANGED loadVars
            /\ \/ phase = "done" /\ phase' \in {"name", "failed"}
               \/ phase = "name" /\ phase' = "notes"
  <2>1. UNCHANGED cursor /\ phase' \in {"name", "failed", "notes"} /\ phase # "decode"
    BY <1>11 DEF loadVars
  <2>2. QED
    BY <2>1 DEF PlaceInv
<1>12. CASE ReadNext
  BY <1>1, <1>2, <1>5, <1>6, <1>7, <1>8, <1>9, <1>12 DEF ReadNext
<1>13. QED
  BY <1>10, <1>11, <1>12, RunStep

LEMMA PlaceStart ==
  ASSUME RunInit
  PROVE  PlaceInv
BY DEF RunInit, ReadInit, PlaceInv, NoCursor

\* Where headers that share an address agree, and the one that holds the isolate instructions
\* has them in the file, an address of theirs is mapped from where the loader reads it.
LEMMA IsolateIsMapped ==
  ASSUME FileInv, phase \in Passed, WellFormed,
         NEW va \in Nat, va >= Isolate.va, va < Isolate.va + Isolate.size
  PROVE  Mapped(va, Isolate.offset + (va - Isolate.va))
<1>1. phase \in Carved /\ FileOK(file)
  BY DEF FileInv, Carved, Modelled
<1>2. /\ Isolate.va \in Address /\ Isolate.offset \in Nat /\ Isolate.size \in Nat \ {0}
      /\ \E i \in Holding(file, Isolate.va) :
           Isolate.offset = file.headers[i].offset + (Isolate.va - file.headers[i].vaddr)
  BY <1>1, CodeRegion, TheRegions DEF Isolate
<1>3. PICK i \in Holding(file, Isolate.va) :
        Isolate.offset = file.headers[i].offset + (Isolate.va - file.headers[i].vaddr)
  BY <1>2
<1>4. PICK j \in DOMAIN file.headers :
        /\ Isolate.va >= file.headers[j].vaddr
        /\ Isolate.va + Isolate.size <= file.headers[j].vaddr + file.headers[j].filesz
  BY TheRegions DEF WellFormed, Isolate
<1>5. /\ i \in DOMAIN file.headers
      /\ Isolate.va < Saturated(file.headers[i].vaddr, file.headers[i].memsz)
  BY <1>3 DEF Holding
<1>6. /\ file.headers[i].vaddr \in Nat /\ file.headers[i].memsz \in Nat /\ file.headers[i].offset \in Nat
      /\ file.headers[j].vaddr \in Nat /\ file.headers[j].memsz \in Nat /\ file.headers[j].offset \in Nat
      /\ file.headers[j].filesz \in Nat
      /\ Isolate.va \in Nat /\ Top \in Nat
  BY <1>1, <1>2, <1>4, <1>5, HeadersOf, TopIs
<1>7. file.headers[j].filesz <= file.headers[j].memsz
  BY <1>4 DEF WellFormed
<1>8. Isolate.va < Saturated(file.headers[j].vaddr, file.headers[j].memsz)
  BY <1>2, <1>4, <1>5, <1>6, <1>7 DEF Saturated
<1>9. j \in Holding(file, Isolate.va)
  BY <1>4, <1>8 DEF Holding
<1>10. file.headers[i].offset - file.headers[i].vaddr = file.headers[j].offset - file.headers[j].vaddr
  BY <1>2, <1>3, <1>9 DEF WellFormed, Address
<1>11. /\ va >= file.headers[j].vaddr /\ va < file.headers[j].vaddr + file.headers[j].filesz
       /\ Isolate.offset + (va - Isolate.va) = file.headers[j].offset + (va - file.headers[j].vaddr)
  BY <1>2, <1>3, <1>4, <1>6, <1>10
<1>12. QED
  BY <1>4, <1>11 DEF Mapped

LEMMA CodeNow ==
  ASSUME FileInv, PlaceInv
  PROVE  CodeIsTheImage
<1>1. SUFFICES ASSUME Accepted, WellFormed PROVE CodeIsTheImage
  BY DEF CodeIsTheImage
<1>2. phase \in Passed /\ phase \in Modelled /\ phase \in Carved
  BY <1>1 DEF Accepted, Passed, Modelled, Carved
<1>3. \A i \in DOMAIN listing : Listed(i) /\ i \in DOMAIN model.functions
  <2>1. CASE phase = "select"
    BY <2>1 DEF PlaceInv
  <2>2. CASE phase \in {"decode", "done"}
    BY <1>2, <2>2, ChosenAre DEF PlaceInv
  <2>3. QED
    BY <1>1, <2>1, <2>2 DEF Accepted
<1>4. ASSUME NEW i \in DOMAIN listing, NEW k \in DOMAIN listing[i]
      PROVE  /\ Mapped(listing[i][k].va, listing[i][k].offset)
             /\ listing[i][k].va = Fn(i).start + (k - 1) * Word
  <2>1. PICK n \in Nat : listing[i] = Places(i, n) /\ n * Word <= Clipped(Fn(i))
    BY <1>3 DEF Listed
  <2>2. k \in 1 .. n /\ listing[i][k] = At(i, (k - 1) * Word)
    BY <1>4, <2>1 DEF Places
  <2>3. /\ listing[i][k].va = Fn(i).start + (k - 1) * Word
        /\ listing[i][k].offset = OffsetOf(Fn(i)) + (k - 1) * Word
    BY <2>2 DEF At
  <2>4. /\ Clipped(Fn(i)) \in Nat
        /\ Fn(i).start \in Nat /\ Isolate.va \in Nat /\ Isolate.size \in Nat /\ Isolate.offset \in Nat
        /\ Fn(i).start >= Isolate.va
        /\ Fn(i).start + Clipped(Fn(i)) <= Isolate.va + Isolate.size
        /\ OffsetOf(Fn(i)) = Isolate.offset + (Fn(i).start - Isolate.va)
    BY <1>2, <1>3, Inside DEF Listed
  <2>5. (k - 1) * Word \in Nat /\ (k - 1) * Word < n * Word
    <3>1. Word \in Nat \ {0} /\ k - 1 \in Nat /\ k - 1 < n
      BY <2>2, RecoveryAssumption
    <3>2. (k - 1) * Word + Word <= n * Word
      <4>1. ((k - 1) + 1) * Word <= n * Word
        BY <3>1
      <4>2. ((k - 1) + 1) * Word = (k - 1) * Word + Word
        BY <3>1
      <4>3. QED
        BY <4>1, <4>2
    <3>3. QED
      BY <3>1, <3>2
  <2> DEFINE o == (k - 1) * Word
             va == Fn(i).start + o
  <2> HIDE DEF o
  <2>6. o \in Nat /\ o < Clipped(Fn(i))
    <3>1. o \in Nat /\ o < n * Word /\ n * Word \in Nat
      BY <2>5, RecoveryAssumption DEF o
    <3>2. QED
      BY <2>1, <2>4, <3>1
  <2>7. /\ va \in Nat /\ va >= Isolate.va /\ va < Isolate.va + Isolate.size
        /\ Isolate.offset + (va - Isolate.va) = OffsetOf(Fn(i)) + o
    BY <2>4, <2>6
  <2>8. Mapped(va, Isolate.offset + (va - Isolate.va))
    BY <1>1, <1>2, <2>7, IsolateIsMapped
  <2>9. QED
    BY <2>3, <2>7, <2>8 DEF o
<1>5. ASSUME NEW i \in Chosen, phase = "done", Fn(i).section = Isolate.va, Fn(i).size >= Word
      PROVE  /\ i \in DOMAIN listing
             /\ \/ Len(listing[i]) = Fn(i).size \div Word
                \/ file.code[OffsetOf(Fn(i)) + Len(listing[i]) * Word][1] = "bad"
  <2>1. i \in DOMAIN model.functions /\ Fn(i) \in Range(model.functions)
    BY <1>2, <1>5, ChosenAre DEF Fn, Range
  <2>2. /\ Fn(i).start \in Nat /\ Fn(i).size \in Nat
        /\ Isolate.va \in Nat /\ Isolate.size \in Nat /\ Word \in Nat \ {0}
    BY <1>2, <2>1, FunctionIs, CodeRegion, TheRegions, TopIs, RecoveryAssumption DEF Isolate
  <2>3. /\ Fn(i).start >= Isolate.va
        /\ Fn(i).start + Fn(i).size <= Isolate.va + Isolate.size
    <3>1. PICK name \in Range(RegionNames) :
            /\ Executable(name)
            /\ bundle.spans[name].va = Fn(i).section
            /\ Fn(i).start >= bundle.spans[name].va
            /\ Fn(i).start + Fn(i).size <= bundle.spans[name].va + bundle.spans[name].size
      BY <1>2, <2>1, FunctionIs
    <3>2. name = "isolate_instructions"
      BY <1>1, <1>5, <3>1, TheRegions DEF WellFormed, Isolate
    <3>3. QED
      BY <3>1, <3>2 DEF Isolate
  <2>4. Clipped(Fn(i)) = Fn(i).size
    <3> DEFINE rest == Isolate.size - (Fn(i).start - Isolate.va)
    <3>1. rest \in Int /\ Fn(i).size <= rest /\ Fn(i).size \in Int
      BY <2>2, <2>3
    <3>2. Clipped(Fn(i)) = Min({Fn(i).size, rest})
      BY DEF Clipped
    <3> HIDE DEF rest
    <3>3. QED
      BY <3>1, <3>2, MinOfTwo
  <2>5. ~Outside(Fn(i))
    BY <1>5, <2>2, <2>3, <2>4 DEF Outside
  <2>6. i \in DOMAIN listing /\ i \notin left /\ Listed(i)
    BY <1>3, <1>5, <2>5 DEF PlaceInv
  <2>7. PICK n \in Nat : /\ listing[i] = Places(i, n) /\ n * Word <= Clipped(Fn(i))
                         /\ Complete(i, n)
    BY <2>6 DEF Listed
  <2>8. Len(listing[i]) = n
    BY <2>7 DEF Places
  <2>9. CASE n * Word + Word > Fn(i).size
    <3> DEFINE size == Fn(i).size
               all == size \div Word
    <3>1. /\ size \in Nat /\ n * Word <= size /\ ~(n * Word + Word <= size)
      BY <2>2, <2>4, <2>7, <2>9
    <3>2. all \in Nat /\ (n * Word + Word <= size <=> n + 1 <= all)
      BY <2>2, <3>1, WholeWords
    <3>3. n <= all
      <4>1. CASE n = 0
        BY <3>2, <4>1
      <4>2. CASE n # 0
        <5>1. n - 1 \in Nat /\ (n - 1) * Word + Word = n * Word
          BY <2>2, <4>2
        <5>2. (n - 1) * Word + Word <= size <=> (n - 1) + 1 <= all
          BY <2>2, <3>1, <5>1, WholeWords
        <5> HIDE DEF all, size
        <5>3. QED
          BY <3>1, <5>1, <5>2
      <4>3. QED
        BY <4>1, <4>2
    <3>4. n = all
      BY <3>1, <3>2, <3>3
    <3>5. QED
      BY <2>6, <2>8, <3>4
  <2>10. CASE ~(n * Word + Word > Fn(i).size)
    BY <2>4, <2>6, <2>7, <2>8, <2>10 DEF Complete
  <2>11. QED
    BY <2>9, <2>10
<1>6. QED
  BY <1>4, <1>5 DEF CodeIsTheImage

\* Every instruction that is listed is where the image has it (decode_function): no function is
\* listed at an address its code does not run at, or short of its end.
THEOREM CodeHolds == RunSpec => []CodeIsTheImage
<1>1. RunInit => FileInv /\ PlaceInv
  BY FileStart, PlaceStart
<1>2. FileInv /\ PlaceInv /\ [RunNext]_runVars => FileInv' /\ PlaceInv'
  BY FileStep, PlaceStep
<1>3. FileInv /\ PlaceInv => CodeIsTheImage
  BY CodeNow
<1>4. QED
  BY <1>1, <1>2, <1>3, PTL DEF RunSpec

-----------------------------------------------------------------------------
(* The resolver against the machine.                                         *)

\* What was seen of the registers since the bases were forgotten is enough for a base that is
\* held to be what its register holds.
Bases == [Regs -> Nat \union {None}]
Held(bases, regs, seen) == seen => \A r \in Regs : bases[r] # None => regs[r] = bases[r]

BaseInv ==
  /\ cursor.bases \in Bases /\ cursor.regs \in Bases
  /\ Held(cursor.bases, cursor.regs, cursor.seen)
  /\ cursor.fn = None => note = NoNote
  /\ SlotIsRead

\* One instruction keeps it so.
LEMMA BasesStep ==
  ASSUME NEW bases \in Bases, NEW regs \in Bases, NEW seen, Held(bases, regs, seen),
         NEW op, OpOK(op)
  PROVE  /\ BasesAfter(bases, op) \in Bases /\ RegistersAfter(regs, op) \in Bases
         /\ Held(BasesAfter(bases, op), RegistersAfter(regs, op), Resets(op) \/ (seen /\ ~Unseen(op)))
<1> DEFINE after == BasesAfter(bases, op)
           now == RegistersAfter(regs, op)
<1>1. NoBases \in Bases /\ \A r \in Regs : NoBases[r] = None
  BY DEF NoBases, Bases
<1>2. CASE Resets(op)
  <2>1. after = NoBases /\ now = NoBases
    BY <1>2 DEF BasesAfter, RegistersAfter, Resets
  <2>2. QED
    BY <1>1, <2>1 DEF Held
<1>3. CASE op[1] = "page"
  <2>1. ~Resets(op) /\ op[2] \in Regs /\ op[3] \in Nat
    BY <1>3, TopIs DEF Resets, OpOK
  <2>2. after = [bases EXCEPT ![op[2]] = op[3]] /\ now = [regs EXCEPT ![op[2]] = op[3]]
    BY <1>3, <2>1 DEF BasesAfter, RegistersAfter
  <2>3. QED
    BY <1>3, <2>1, <2>2 DEF Held, Bases, Unseen
<1>4. CASE ~Resets(op) /\ op[1] # "page"
  <2>1. after = [r \in Regs |-> IF r \in Dropped(op) THEN None ELSE bases[r]]
    BY <1>4 DEF BasesAfter
  <2>2. after \in Bases
    BY <2>1 DEF Bases
  <2>3. CASE op[1] = "br"
    <3>1. now = NoBases
      BY <2>3 DEF RegistersAfter
    <3>2. QED
      BY <1>1, <1>4, <2>2, <2>3, <3>1 DEF Held, Unseen
  <2>4. CASE op[1] \in {"ldr", "alu", "mov", "movk"}
    <3>1. now = [regs EXCEPT ![op[2]] = None] /\ op[2] \in Dropped(op)
      BY <1>4, <2>4 DEF RegistersAfter, Dropped
    <3>2. QED
      BY <1>4, <2>1, <2>2, <3>1 DEF Held, Bases
  <2>5. CASE op[1] = "ldp"
    <3>1. now = [regs EXCEPT ![op[2]] = None, ![op[3]] = None]
      BY <1>4, <2>5 DEF RegistersAfter
    <3>2. now \in Bases
      BY <3>1 DEF Bases
    <3>3. op[2] \in Dropped(op) /\ op[3] \in Dropped(op)
      BY <2>5 DEF Dropped
    <3>4. QED
      BY <1>4, <2>1, <2>2, <3>1, <3>2, <3>3 DEF Held, Bases
  <2>6. CASE op[1] \in {"next", "nexts", "put"}
    <3>1. now \in Bases
      <4>1. CASE op[1] = "next"
        BY <1>4, <4>1 DEF RegistersAfter, Bases
      <4>2. CASE op[1] = "nexts"
        BY <1>4, <4>2 DEF RegistersAfter, Bases
      <4>3. CASE op[1] = "put"
        BY <1>4, <4>3 DEF RegistersAfter, Bases
      <4>4. QED
        BY <2>6, <4>1, <4>2, <4>3
    <3>2. QED
      BY <1>4, <2>2, <2>6, <3>1 DEF Held, Unseen
  <2>7. CASE op[1] \notin {"br", "ldr", "alu", "mov", "movk", "ldp", "next", "nexts", "put"}
    <3>1. now = regs
      BY <1>4, <2>7 DEF RegistersAfter
    <3>2. QED
      BY <1>4, <2>1, <2>2, <3>1 DEF Held, Bases
  <2>8. QED
    BY <2>3, <2>4, <2>5, <2>6, <2>7
<1>5. QED
  BY <1>2, <1>3, <1>4

\* A displacement a load is said to read is the one it reads, and its slot stands there.
LEMMA NoteIsTrue ==
  ASSUME NEW bases \in Bases, NEW regs \in Bases, NEW seen, Held(bases, regs, seen), seen,
         NEW op, OpOK(op), Displacement(bases, op) # None,
         NEW pool, pool.word # None => pool.word \in {1, 2, 4, 8}, pool.entries_offset \in Address
  PROVE  LET said == Displacement(bases, op)
         IN  /\ said = Reads(regs, op)
             /\ Slot(pool, said) # None => DisplacementOf(pool, Slot(pool, said)) = Reads(regs, op)
<1> DEFINE said == Displacement(bases, op)
<1>1. op[1] = "ldr" /\ op[3] \in Regs \union {PP} /\ op[4] \in IF op[3] = PP THEN Address ELSE Nat
  BY DEF Displacement, OpOK
<1>2. said \in Address /\ said = Reads(regs, op)
  <2>1. CASE op[3] = PP
    BY <1>1, <2>1 DEF Displacement, Reads
  <2>2. CASE op[3] # PP
    <3>1. op[3] \in Regs /\ op[4] \in Nat /\ bases[op[3]] # None /\ said = Plus(bases[op[3]], op[4])
      BY <1>1, <2>2 DEF Displacement
    <3>2. bases[op[3]] \in Nat /\ regs[op[3]] = bases[op[3]]
      BY <3>1 DEF Held, Bases
    <3>3. said = Reads(regs, op)
      BY <2>2, <3>1, <3>2 DEF Reads
    <3>4. said = bases[op[3]] + op[4] /\ said < Top
      BY <3>1 DEF Plus
    <3>5. QED
      BY <3>1, <3>2, <3>3, <3>4, TopIs DEF Address
  <2>3. QED
    BY <2>1, <2>2
<1> HIDE DEF said
<1>3. ASSUME Slot(pool, said) # None PROVE DisplacementOf(pool, Slot(pool, said)) = said
  <2>1. pool.word # None /\ Slot(pool, said) = IndexAt(pool, said)
    BY <1>3 DEF Slot
  <2>2. QED
    BY <1>2, <1>3, <2>1, SlotsAndDisplacements
<1>4. QED
  BY <1>2, <1>3 DEF said

LEMMA BaseStep ==
  ASSUME FileInv, PlaceInv, BaseInv, [RunNext]_runVars
  PROVE  BaseInv'
<1>1. NoBases \in Bases /\ \A r \in Regs : NoBases[r] = None
  BY DEF NoBases, Bases
<1>2. /\ NoCursor.bases = NoBases /\ NoCursor.regs = NoBases /\ NoCursor.fn = None
      /\ NoNote.said = None
  BY DEF NoCursor, NoNote
<1>3. ASSUME cursor'.bases = NoBases, cursor'.regs = NoBases, note' = NoNote
      PROVE  BaseInv'
  BY <1>1, <1>2, <1>3 DEF BaseInv, Held, SlotIsRead
<1>4. CASE Open \/ Carve \/ Answered \/ Validate \/ Select
  <2>1. UNCHANGED <<cursor, note>> /\ phase # "decode"
    BY <1>4 DEF Open, Carve, Answered, Validate, Select
  <2>2. QED
    BY <1>2, <1>3, <2>1 DEF PlaceInv, BaseInv
<1>5. CASE Skip
  BY <1>5 DEF Skip, BaseInv, SlotIsRead
<1>6. CASE StartFunction
  <2>1. cursor'.bases = NoBases /\ cursor'.regs = NoBases
    BY <1>2, <1>6 DEF StartFunction, NoCursor
  <2>2. UNCHANGED <<phase, model, note>> /\ cursor.fn = None
    BY <1>6 DEF StartFunction
  <2>3. QED
    BY <1>1, <2>1, <2>2 DEF BaseInv, Held, SlotIsRead
<1>7. CASE Decode
  <2>1. /\ phase = "decode" /\ cursor.fn # None /\ More /\ UNCHANGED <<phase, model>>
    BY <1>7 DEF Decode
  <2>2. PICK op : op = Op
    OBVIOUS
  <2>3. OpOK(op)
    BY <2>1, <2>2, OpIs
  <2>4. /\ cursor'.bases = BasesAfter(cursor.bases, op)
        /\ cursor'.regs = RegistersAfter(cursor.regs, op)
        /\ cursor'.seen = (Resets(op) \/ (cursor.seen /\ ~Unseen(op)))
    BY <1>7, <2>2 DEF Decode
  <2>5. /\ cursor'.bases \in Bases /\ cursor'.regs \in Bases
        /\ Held(cursor'.bases, cursor'.regs, cursor'.seen)
    BY <2>3, <2>4, BasesStep DEF BaseInv
  <2>6. SlotIsRead'
    <3>1. SUFFICES ASSUME note'.said # None, note'.seen PROVE SlotIsRead'
      BY DEF SlotIsRead
    <3>2. /\ Displacement(cursor.bases, op) # None
          /\ note' = [said |-> Displacement(cursor.bases, op),
                      slot |-> Slot(model.pool, Displacement(cursor.bases, op)),
                      reads |-> Reads(cursor.regs, op), seen |-> cursor.seen]
      BY <1>2, <1>7, <2>2, <3>1 DEF Decode
    <3>3. /\ model.pool.word # None => model.pool.word \in {1, 2, 4, 8}
          /\ model.pool.entries_offset \in Address
      BY <2>1, AcceptedModel DEF Passed, GeometryOK, ModelOK
    <3>4. QED
      BY <2>1, <2>3, <3>1, <3>2, <3>3, NoteIsTrue DEF BaseInv, SlotIsRead
  <2>7. cursor'.fn = cursor.fn
    BY <1>7 DEF Decode
  <2>8. QED
    BY <2>1, <2>5, <2>6, <2>7 DEF BaseInv
<1>8. CASE FinishFunction
  BY <1>2, <1>3, <1>8 DEF FinishFunction
<1>9. CASE Done
  <2>1. UNCHANGED <<cursor, note, model>> /\ left = {}
    BY <1>9 DEF Done
  <2>2. cursor = NoCursor
    BY <1>9, <2>1 DEF Done, PlaceInv
  <2>3. QED
    BY <2>1, <2>2 DEF BaseInv, SlotIsRead
<1>10. CASE UNCHANGED loadVars /\ UNCHANGED phase
  BY <1>10 DEF BaseInv, SlotIsRead, loadVars
<1>11. CASE /\ UNCHANGED loadVars
            /\ \/ phase = "done" /\ phase' \in {"name", "failed"}
               \/ phase = "name" /\ phase' = "notes"
  BY <1>11 DEF BaseInv, SlotIsRead, loadVars
<1>12. CASE ReadNext
  BY <1>4, <1>5, <1>6, <1>7, <1>8, <1>9, <1>12 DEF ReadNext
<1>13. QED
  BY <1>10, <1>11, <1>12, RunStep

LEMMA BaseStart ==
  ASSUME RunInit
  PROVE  BaseInv
BY DEF RunInit, ReadInit, BaseInv, Bases, Held, SlotIsRead, NoCursor, NoNote, NoBases

\* What the resolver says a load reads is what it reads (PoolRefResolver, annotation_for), as
\* long as it saw all that changed the bases since it forgot them.
THEOREM SlotHolds == RunSpec => []SlotIsRead
<1>1. RunInit => FileInv /\ PlaceInv /\ BaseInv
  BY FileStart, PlaceStart, BaseStart
<1>2. FileInv /\ PlaceInv /\ BaseInv /\ [RunNext]_runVars => FileInv' /\ PlaceInv' /\ BaseInv'
  BY FileStep, PlaceStep, BaseStep
<1>3. BaseInv => SlotIsRead
  BY DEF BaseInv
<1>4. QED
  BY <1>1, <1>2, <1>3, PTL DEF RunSpec

-----------------------------------------------------------------------------
(* What core recovers is accepted.                                           *)

LEMMA LeastIs ==
  ASSUME NEW S \in SUBSET Nat, IsFiniteSet(S), NEW s \in S
  PROVE  \E k \in 1 .. Cardinality(S) : Least(S, k) = s
<1> DEFINE Upto(x) == {t \in S : t <= x}
           k == Cardinality(Upto(s))
<1>1. \A x \in S : IsFiniteSet(Upto(x)) /\ Upto(x) \in SUBSET S /\ x \in Upto(x)
                   /\ Cardinality(Upto(x)) <= Cardinality(S)
  BY FS_Subset
<1>2. k \in 1 .. Cardinality(S)
  <2>1. k \in Nat /\ Cardinality(S) \in Nat /\ k <= Cardinality(S)
    BY <1>1, FS_CardinalityType
  <2>2. k # 0
    BY <1>1, FS_EmptySet
  <2> HIDE DEF k
  <2>3. QED
    BY <2>1, <2>2
<1>3. Least(S, k) \in S /\ Cardinality(Upto(Least(S, k))) = k
  BY <1>2, LeastOf
<1> DEFINE l == Least(S, k)
<1>4. Upto(l) \subseteq Upto(s) \/ Upto(s) \subseteq Upto(l)
  <2>1. \A x, y \in S : x <= y => Upto(x) \subseteq Upto(y)
    <3> TAKE x, y \in S
    <3>1. \A t \in S : t <= x /\ x <= y => t <= y
      OBVIOUS
    <3>2. QED
      BY <3>1
  <2>2. \A x, y \in S : x <= y \/ y <= x
    OBVIOUS
  <2>3. l \in S /\ s \in S
    BY <1>3
  <2> HIDE DEF l, Upto
  <2>4. QED
    BY <2>1, <2>2, <2>3
<1> HIDE DEF l, k, Upto
<1>5. Upto(l) = Upto(s)
  <2>1. l \in S /\ Cardinality(Upto(l)) = Cardinality(Upto(s))
    BY <1>3 DEF l, k
  <2>2. QED
    BY <1>1, <1>4, <2>1, FS_Subset
<1>6. l <= s /\ s <= l
  <2>1. l \in Upto(s) /\ s \in Upto(l)
    BY <1>1, <1>3, <1>5 DEF l
  <2>2. QED
    BY <2>1 DEF Upto
<1>7. l \in Nat /\ s \in Nat
  BY <1>3 DEF l
<1>8. l = s
  BY <1>6, <1>7
<1>9. QED
  BY <1>2, <1>8 DEF l

\* The candidates again: one for each start, with dense ids and nothing but an address.
LEMMA CandidatesAre ==
  ASSUME NEW f, NEW region, region.va \in Address, region.size \in Nat \ {0},
         Plus(region.va, region.size) # None
  PROVE  LET all == Candidates(f, region)
         IN  /\ Len(all) \in Nat /\ DOMAIN all = 1 .. Len(all)
             /\ \A i \in DOMAIN all :
                  all[i].id = i - 1 /\ all[i].name = Nothing /\ all[i].owner = None
             /\ \A s \in Starts(f, region) : \E i \in DOMAIN all : all[i].start = s
             /\ \A i, j \in DOMAIN all : all[i].start = all[j].start => i = j
<1> DEFINE starts == Starts(f, region)
           n == Cardinality(starts)
           ordered == [k \in 1 .. n |-> Least(starts, k)]
           made == [i \in 1 .. n |->
                     [id |-> i - 1, name |-> Nothing, nameProv |-> Nothing, confidence |-> Nothing,
                      owner |-> None, start |-> ordered[i],
                      size |-> CandidateSize(region, starts, ordered[i]),
                      section |-> region.va, prov |-> "heuristic"]]
           all == Candidates(f, region)
<1>1. starts \in SUBSET Nat /\ IsFiniteSet(starts) /\ n \in Nat
  <2>1. starts \in SUBSET Nat /\ IsFiniteSet(starts)
    BY StartsInRegion
  <2>2. QED
    BY <2>1, FS_CardinalityType
<1>2. all = made
  BY DEF Candidates
<1>3. \A s \in starts : \E k \in 1 .. n : ordered[k] = s
  BY <1>1, LeastIs
<1>4. \A i \in 1 .. n : Cardinality({t \in starts : t <= ordered[i]}) = i
  BY <1>1, LeastOf
<1>5. \A i, j \in 1 .. n : ordered[i] = ordered[j] => i = j
  <2> TAKE i, j \in 1 .. n
  <2>1. Cardinality({t \in starts : t <= ordered[i]}) = i /\ Cardinality({t \in starts : t <= ordered[j]}) = j
    BY <1>4
  <2> HIDE DEF ordered
  <2>2. QED
    BY <2>1
<1> HIDE DEF starts, n, all
<1>6. Len(all) = n /\ DOMAIN all = 1 .. n
  BY <1>1, <1>2
<1>7. \A i \in 1 .. n : /\ all[i].id = i - 1 /\ all[i].name = Nothing /\ all[i].owner = None
                        /\ all[i].start = ordered[i]
  BY <1>2
<1> HIDE DEF ordered
<1>8. /\ \A s \in starts : \E i \in DOMAIN all : all[i].start = s
      /\ \A i, j \in DOMAIN all : all[i].start = all[j].start => i = j
  BY <1>3, <1>5, <1>6, <1>7
<1>9. Len(all) \in Nat /\ DOMAIN all = 1 .. Len(all)
  BY <1>1, <1>6
<1>10. QED
  BY <1>6, <1>7, <1>8, <1>9 DEF starts, all

LEMMA AllHold ==
  ASSUME NEW m, NEW host,
         m.version = Version, RegionsAgree(m), HostFacts(m, host), StringsReal(m),
         ConfidenceReal(m), Canonical(m), ReferencesResolve(m), CapabilitiesAgree(m),
         GeometryOK(m), AddressesOK(m)
  PROVE  Verdict(m, host) = "accepted"
<1> DEFINE checks == Checks(m, host)
<1>1. DOMAIN checks = 1 .. 10
  BY DEF Checks
<1>2. /\ checks[1].holds /\ checks[2].holds /\ checks[3].holds /\ checks[4].holds
      /\ checks[5].holds /\ checks[6].holds /\ checks[7].holds /\ checks[8].holds
      /\ checks[9].holds /\ checks[10].holds
  BY DEF Checks
<1> HIDE DEF checks
<1>3. \A i \in DOMAIN checks : checks[i].holds
  BY <1>1, <1>2
<1>4. {i \in DOMAIN checks : ~checks[i].holds} = {}
  BY <1>3
<1>5. QED
  BY <1>4 DEF Verdict, checks

LEMMA RecoveredAccepted ==
  ASSUME NEW f, FileOK(f), LoadRefusal(f) = "ok",
         \A name \in Range(RegionNames) :
           Executable(name) => Bundle(f).spans[name].va + Bundle(f).spans[name].size < Top
  PROVE  Verdict(RecoveredModel(f, Bundle(f)), HostContext(Bundle(f), "core", Nothing)) = "accepted"
<1> DEFINE b == Bundle(f)
           carved == b.spans
           region == carved["isolate_instructions"]
           m == RecoveredModel(f, b)
           host == HostContext(b, "core", Nothing)
           regions == Observed(carved)
           functions == Candidates(f, region)
<1>1. \A name \in Range(RegionNames) :
        carved[name].va \in Address /\ carved[name].size \in Nat \ {0}
  BY SpansOf, SpanIs
<1>2. /\ region.va \in Address /\ region.size \in Nat \ {0} /\ Plus(region.va, region.size) # None
      /\ region.va + region.size < Top /\ region.va \in Nat
  <2>1. region.va \in Address /\ region.size \in Nat \ {0} /\ region.va + region.size < Top
    BY <1>1, TheRegions
  <2>2. region.va \in Nat
    BY <2>1, TopIs
  <2>3. Plus(region.va, region.size) = region.va + region.size
    BY <2>1 DEF Plus
  <2> HIDE DEF region
  <2>4. QED
    BY <2>1, <2>2, <2>3, TopIs
<1>3. /\ m.version = Version /\ m.producer = "core" /\ m.identity = b.identity /\ m.binding = Nothing
      /\ m.regions = regions /\ m.libraries = <<>> /\ m.classes = <<>> /\ m.functions = functions
      /\ m.pool = [space |-> "ordinal", word |-> None, entries_offset |-> 0, entries |-> <<>>]
      /\ m.caps = [d \in Domains |-> IF d = "functions" /\ functions # <<>> THEN "partial" ELSE "unavailable"]
      /\ m.explained = Domains
  BY DEF RecoveredModel
<1>4. /\ host.identity = b.identity /\ host.producer = "core" /\ host.binding = Nothing
      /\ host.regions = regions
  BY DEF HostContext
<1>5. /\ Len(functions) \in Nat /\ DOMAIN functions = 1 .. Len(functions)
      /\ \A i \in DOMAIN functions :
           functions[i].id = i - 1 /\ functions[i].name = Nothing /\ functions[i].owner = None
  BY <1>2, CandidatesAre
<1>6. \A c \in Range(functions) : c.name = Nothing /\ c.owner = None
  BY <1>5 DEF Range
<1>7. Range(<<>>) = {} /\ Len(<<>>) = 0 /\ DOMAIN <<>> = {}
  BY DEF Range
<1>8. DOMAIN regions = 1 .. 4 /\ Len(RegionNames) = 4 /\ DOMAIN RegionNames = 1 .. 4
  BY DEF Observed, RegionNames
<1>9. \A r \in Range(regions) :
        /\ r.name \in Range(RegionNames)
        /\ r.executable = Executable(r.name)
        /\ r.size = carved[r.name].size
        /\ r.va = IF Executable(r.name) THEN carved[r.name].va ELSE None
  BY <1>8 DEF Observed, Range
<1>10. \A name \in Range(RegionNames) : \E r \in Range(regions) : r.name = name
  <2>1. \A i \in 1 .. 4 : regions[i] \in Range(regions) /\ regions[i].name = RegionNames[i]
    BY <1>8 DEF Observed, Range
  <2>2. \A name \in Range(RegionNames) : \E i \in 1 .. 4 : name = RegionNames[i]
    BY <1>8 DEF Range
  <2> HIDE DEF regions
  <2>3. QED
    BY <2>1, <2>2
<1> HIDE DEF regions, functions, m, host, carved, region
<1>11. RegionsAgree(m)
  <2>1. ASSUME NEW r \in Range(regions)
        PROVE  /\ r.executable = Executable(r.name)
               /\ r.executable = (r.va # None)
               /\ r.executable => EndVa(r.va, r.size) # None
    <3>1. CASE Executable(r.name)
      <4>1. /\ r.va = carved[r.name].va /\ r.va \in Nat /\ r.size \in Nat /\ r.va + r.size < Top
            /\ r.va # None
        <5>1. r.name \in Range(RegionNames) /\ r.va = carved[r.name].va /\ r.size = carved[r.name].size
          BY <1>9, <2>1, <3>1
        <5>2. carved[r.name].va + carved[r.name].size < Top
          BY <3>1, <5>1 DEF carved
        <5>3. QED
          BY <1>1, <5>1, <5>2, TopIs
      <4>2. EndVa(r.va, r.size) = r.va + r.size
        BY <4>1 DEF EndVa, Plus
      <4>3. EndVa(r.va, r.size) # None
        BY <4>1, <4>2, TopIs
      <4>4. r.executable = Executable(r.name) /\ Executable(r.name) = TRUE /\ (r.va # None) = TRUE
        BY <1>9, <3>1, <4>1 DEF Executable
      <4>5. QED
        BY <4>3, <4>4
    <3>2. CASE ~Executable(r.name)
      <4>1. r.va = None /\ r.executable = Executable(r.name) /\ Executable(r.name) = FALSE
        BY <1>9, <3>2 DEF Executable
      <4>2. QED
        BY <4>1
    <3>3. QED
      BY <3>1, <3>2
  <2>2. StrictlyAscending([i \in DOMAIN m.regions |-> Rank(m.regions[i].name)])
    <3> DEFINE keys == [i \in DOMAIN m.regions |-> Rank(m.regions[i].name)]
    <3>1. \A i \in 1 .. 4 : Rank(RegionNames[i]) = i
      BY DEF Rank, RegionNames
    <3>2. \A i \in 1 .. 4 : m.regions[i].name = RegionNames[i]
      BY <1>3, <1>8 DEF regions, Observed
    <3>3. keys = [i \in 1 .. 4 |-> i]
      BY <1>3, <1>8, <3>1, <3>2
    <3>4. Len(keys) = 4
      BY <3>3
    <3>5. \A i \in 1 .. Len(keys) - 1 : keys[i] < keys[i + 1]
      <4> HIDE DEF keys
      <4>1. QED
        BY <3>3, <3>4
    <3>6. QED
      BY <3>5 DEF StrictlyAscending
  <2>3. QED
    BY <1>3, <2>1, <2>2 DEF RegionsAgree
<1>12. HostFacts(m, host)
  BY <1>3, <1>4 DEF HostFacts
<1>13. StringsReal(m) /\ ConfidenceReal(m)
  <2>1. Range(m.libraries) = {} /\ Range(m.classes) = {} /\ Range(m.pool.entries) = {}
    BY <1>3, <1>7
  <2>2. QED
    BY <1>3, <1>6, <2>1, PlaceholdersAssumption DEF StringsReal, ConfidenceReal
<1>14. Canonical(m)
  <2>1. StrictlyAscending(Ids(<<>>)) /\ StrictlyAscending([i \in DOMAIN <<>> |-> <<>>[i].index])
    BY DEF StrictlyAscending, Ids
  <2>2. StrictlyAscending(Ids(functions))
    <3>1. PICK n \in Nat : n = Len(functions)
      BY <1>5
    <3>2. Ids(functions) = [i \in 1 .. n |-> i - 1]
      BY <1>5, <3>1 DEF Ids
    <3>3. Len(Ids(functions)) = n
      BY <3>1, <3>2
    <3>4. QED
      BY <3>1, <3>2, <3>3 DEF StrictlyAscending
  <2>3. QED
    BY <1>3, <2>1, <2>2 DEF Canonical
<1>15. ReferencesResolve(m)
  BY <1>3, <1>6, <1>7 DEF ReferencesResolve
<1>16. CapabilitiesAgree(m)
  <2>1. /\ m.caps["libraries"] = "unavailable" /\ m.caps["classes"] = "unavailable"
        /\ m.caps["class_relationships"] = "unavailable" /\ m.caps["function_names"] = "unavailable"
        /\ m.caps["object_pool"] = "unavailable" /\ m.caps["pool_index_space"] = "unavailable"
        /\ m.caps["functions"] = IF functions # <<>> THEN "partial" ELSE "unavailable"
    BY <1>3 DEF Domains
  <2>2. Range(m.libraries) = {} /\ Range(m.classes) = {} /\ Range(m.pool.entries) = {}
    BY <1>3, <1>7
  <2>3. {g \in Range(m.functions) : g.name # Nothing} = {}
    BY <1>3, <1>6
  <2>4. m.caps["functions"] = "unavailable" => Range(m.functions) = {}
    BY <1>3, <1>7, <2>1
  <2>5. m.caps["functions"] # "complete"
    BY <2>1
  <2>6. (m.pool.space = "hardware") = FALSE /\ (m.pool.word # None) = FALSE
    BY <1>3
  <2>7. \A d \in Domains : d \in m.explained
    BY <1>3
  <2>8. QED
    BY <2>1, <2>2, <2>3, <2>4, <2>5, <2>6, <2>7 DEF CapabilitiesAgree, Claim, Guesses
<1>17. GeometryOK(m)
  BY <1>3 DEF GeometryOK
<1>18. AddressesOK(m)
  <2>1. PICK r \in Range(regions) : r.name = "isolate_instructions"
    BY <1>10, TheRegions
  <2>2. r \in Code(m) /\ r.va = region.va /\ r.size = region.size
    BY <1>3, <1>9, <2>1 DEF Code, Executable, region
  <2>3. ASSUME NEW c \in Range(functions) PROVE FunctionAddress(m, c)
    <3>1. /\ c.section = region.va
          /\ c.start \in Starts(f, region)
          /\ c.size = CandidateSize(region, Starts(f, region), c.start)
      BY <1>2, <2>3, CandidatesOf DEF functions
    <3>2. /\ c.start \in Nat /\ c.start >= region.va /\ Plus(region.va, region.size) = region.va + region.size
      BY <1>2, <3>1, StartsInRegion
    <3>3. c.size \in Nat \ {0} /\ c.start + c.size <= region.va + region.size
      BY <1>2, <3>1, SizeOf
    <3>4. c.start # None /\ region.va # None
      BY <1>2, <3>2, TopIs
    <3>5. /\ Plus(c.start, c.size) = c.start + c.size /\ Plus(c.start, c.size) # None
      BY <1>2, <3>2, <3>3, TopIs DEF Plus
    <3>6. EndVa(c.start, c.size) # None /\ EndVa(r.va, r.size) = region.va + region.size
          /\ EndVa(r.va, r.size) # None
      BY <1>2, <2>2, <3>2, <3>4, <3>5 DEF EndVa
    <3>7. ContainsRange(r, c.start, c.size)
      BY <2>2, <3>2, <3>3, <3>5, <3>6 DEF ContainsRange
    <3>8. QED
      BY <2>2, <3>1, <3>3, <3>6, <3>7 DEF FunctionAddress
  <2>4. QED
    BY <1>3, <1>7, <2>3 DEF AddressesOK
<1>19. Verdict(m, host) = "accepted"
  BY <1>3, <1>11, <1>12, <1>13, <1>14, <1>15, <1>16, <1>17, <1>18, AllHold
<1>20. QED
  BY <1>19 DEF m, host

\* Starts are whole instructions apart.
OnWord(region, va) == \E q \in Nat : va = region.va + q * Word

LEMMA StartsAligned ==
  ASSUME NEW f, NEW region, region.va \in Address, region.size \in Nat \ {0},
         Plus(region.va, region.size) # None
  PROVE  /\ region.va \in Starts(f, region)
         /\ \A s \in Starts(f, region) : OnWord(region, s)
<1>1. region.va \in Nat /\ Word \in Nat \ {0}
  BY TopIs, RecoveryAssumption
<1>2. \A o \in Chunks(region) : OnWord(region, region.va + o)
  <2> TAKE o \in Chunks(region)
  <2>1. PICK k \in 0 .. (region.size \div Word) - 1 : o = k * Word
    BY DEF Chunks
  <2>2. k \in Nat
    BY <1>1, <2>1
  <2>3. QED
    BY <2>1, <2>2 DEF OnWord
<1>3. \A s \in Prologues(f, region) : OnWord(region, s)
  BY <1>2 DEF Prologues
<1>4. OnWord(region, region.va)
  BY <1>1 DEF OnWord
<1>5. \A c \in Calls(f, region) : OnWord(region, c[2])
  <2> TAKE c \in Calls(f, region)
  <2>1. InRegion(region, c[2]) /\ c[2] \in Int
    <3> DEFINE all == region.va .. Plus(region.va, region.size) - 1
    <3>1. c \in Chunks(region) \X all /\ InRegion(region, c[2])
      BY DEF Calls
    <3> HIDE DEF all
    <3>2. c[2] \in all
      BY <3>1
    <3>3. Plus(region.va, region.size) = region.va + region.size
      BY StartsInRegion
    <3>4. QED
      BY <1>1, <3>1, <3>2, <3>3 DEF all
  <2>2. c[2] >= region.va /\ (c[2] - region.va) % Word = 0
    BY <2>1 DEF InRegion
  <2> DEFINE d == c[2] - region.va
  <2>3. d \in Nat /\ d % Word = 0
    BY <1>1, <2>1, <2>2
  <2> HIDE DEF d
  <2>4. d \div Word \in Nat /\ d = (d \div Word) * Word
    BY <1>1, <2>3
  <2>5. c[2] = region.va + (d \div Word) * Word
    BY <1>1, <2>1, <2>4 DEF d
  <2>6. QED
    BY <2>4, <2>5 DEF OnWord
<1>6. \A s \in Starts(f, region) :
        \/ s \in Prologues(f, region)
        \/ s = region.va
        \/ \E c \in Calls(f, region) : s = c[2]
  BY DEF Starts
<1>7. region.va \in Starts(f, region)
  BY DEF Starts
<1>8. QED
  BY <1>3, <1>4, <1>5, <1>6, <1>7

\* What is aligned and comes after an instruction comes after all of it.
LEMMA WordApart ==
  ASSUME NEW va \in Nat, NEW k \in Nat, NEW q \in Nat, va + q * Word > va + k * Word
  PROVE  va + q * Word >= va + k * Word + Word
<1>1. Word \in Nat \ {0}
  BY RecoveryAssumption
<1>2. k * Word \in Nat /\ q * Word \in Nat
  BY <1>1
<1>3. q >= k + 1
  <2>1. SUFFICES ASSUME q <= k PROVE FALSE
    OBVIOUS
  <2>2. q * Word <= k * Word
    BY <1>1, <2>1
  <2>3. QED
    BY <1>2, <2>2
<1>4. q * Word >= (k + 1) * Word /\ (k + 1) * Word = k * Word + Word
  BY <1>1, <1>3
<1>5. QED
  BY <1>1, <1>2, <1>4

\* The candidates around one instruction of the region.
LEMMA Around ==
  ASSUME NEW f, NEW region, region.va \in Address, region.size \in Nat \ {0},
         Plus(region.va, region.size) # None, NEW c \in Chunks(region),
         NEW s \in Starts(f, region)
  PROVE  LET va  == region.va + c
             end == s + CandidateSize(region, Starts(f, region), s)
         IN  /\ va \in Nat /\ s \in Nat /\ end \in Nat /\ Word \in Nat \ {0}
             /\ va + Word <= region.va + region.size
             /\ s > va => s >= va + Word
             /\ end > va => end >= va + Word
<1> DEFINE va   == region.va + c
           size == CandidateSize(region, Starts(f, region), s)
           end  == s + size
<1>1. region.va \in Nat /\ Word \in Nat \ {0} /\ region.size \in Nat \ {0}
  BY TopIs, RecoveryAssumption
<1>2. PICK k \in Nat : c = k * Word /\ k * Word + Word <= region.size
  <2>1. PICK k \in 0 .. (region.size \div Word) - 1 : c = k * Word
    BY DEF Chunks
  <2>2. region.size \div Word \in Nat
    BY <1>1, WholeWords
  <2>3. k \in Nat /\ k + 1 <= region.size \div Word
    BY <2>1, <2>2
  <2>4. k * Word + Word <= region.size
    BY <1>1, <2>3, WholeWords
  <2>5. QED
    BY <2>1, <2>3, <2>4
<1>3. /\ s \in Nat /\ size \in Nat /\ \A t \in Starts(f, region) : t \in Nat
      /\ size = MaxCandidateSize \/ end = region.va + region.size \/ end \in Starts(f, region)
  BY SizeOf, StartsInRegion
<1>4. \A t : OnWord(region, t) /\ t > va => t >= va + Word
  <2> TAKE t
  <2>1. SUFFICES ASSUME OnWord(region, t), t > va PROVE t >= va + Word
    OBVIOUS
  <2>2. PICK q \in Nat : t = region.va + q * Word
    BY <2>1 DEF OnWord
  <2>3. region.va + q * Word > region.va + k * Word
    BY <1>2, <2>1, <2>2
  <2>4. region.va + q * Word >= region.va + k * Word + Word
    BY <1>1, <2>3, WordApart
  <2>5. QED
    BY <1>2, <2>2, <2>4
<1>5. \A t \in Starts(f, region) : OnWord(region, t)
  BY StartsAligned
<1>6. c \in Nat /\ va \in Nat
  BY <1>1, <1>2
<1>7. va + Word <= region.va + region.size
  <2>1. c + Word <= region.size
    BY <1>2
  <2>2. QED
    BY <1>1, <1>6, <2>1
<1>8. end > va => end >= va + Word
  <2>1. CASE size = MaxCandidateSize
    <3>1. PICK q \in Nat : s = region.va + q * Word
      BY <1>5 DEF OnWord
    <3>2. PICK w \in Nat : MaxCandidateSize = w * Word
      <4>1. MaxCandidateSize \in Nat /\ MaxCandidateSize % Word = 0
        BY RecoveryAssumption
      <4>2. MaxCandidateSize = (MaxCandidateSize \div Word) * Word /\ MaxCandidateSize \div Word \in Nat
        BY <1>1, <4>1
      <4>3. QED
        BY <4>2
    <3>3. (q + w) * Word = q * Word + w * Word /\ q * Word \in Nat /\ w * Word \in Nat
      BY <1>1
    <3>4. end = region.va + (q + w) * Word
      BY <1>1, <2>1, <3>1, <3>2, <3>3
    <3>5. OnWord(region, end)
      BY <3>4 DEF OnWord
    <3> HIDE DEF end, va
    <3>6. QED
      BY <1>4, <3>5
  <2>2. CASE end = region.va + region.size
    BY <1>7, <2>2
  <2>3. CASE end \in Starts(f, region)
    <3> HIDE DEF end, va
    <3>1. QED
      BY <1>4, <1>5, <2>3
  <2> HIDE DEF end, va, size
  <2>4. QED
    BY <1>3, <2>1, <2>2, <2>3
<1>9. s > va => s >= va + Word
  BY <1>4, <1>5
<1> HIDE DEF size
<1>10. end \in Nat
  BY <1>3
<1> HIDE DEF end, va
<1>11. QED
  BY <1>1, <1>3, <1>6, <1>7, <1>8, <1>9, <1>10 DEF end, va, size

LEMMA RecoveryNow ==
  ASSUME FileInv
  PROVE  RecoveryIsSound
<1>1. SUFFICES ASSUME by = "core", Accepted \/ phase = "refused"
               PROVE  RecoveryIsSound
  BY DEF RecoveryIsSound
<1>2. phase \in Modelled /\ phase \in Carved
  BY <1>1 DEF Accepted, Passed, Modelled, Carved
<1>3. /\ FileOK(file) /\ LoadRefusal(file) = "ok" /\ bundle = Bundle(file)
      /\ model = RecoveredModel(file, bundle)
  BY <1>1, <1>2 DEF FileInv
<1>4. Host = HostContext(bundle, "core", Nothing)
  BY <1>1 DEF Host
<1>5. /\ Isolate.va \in Address /\ Isolate.size \in Nat \ {0} /\ Isolate.va \in Nat /\ Top \in Nat
  BY <1>2, CodeRegion, TheRegions, TopIs DEF Isolate
<1>6. ASSUME phase = "refused"
      PROVE  \E name \in Range(RegionNames) :
               Executable(name) /\ bundle.spans[name].va + bundle.spans[name].size >= Top
  <2>1. Verdict(model, Host) # "accepted"
    BY <1>6 DEF FileInv
  <2>2. PICK name \in Range(RegionNames) :
          Executable(name) /\ ~(bundle.spans[name].va + bundle.spans[name].size < Top)
    BY <1>3, <1>4, <2>1, RecoveredAccepted
  <2>3. bundle.spans[name].va \in Nat /\ bundle.spans[name].size \in Nat
    BY <1>2, CodeRegion, TopIs
  <2>4. QED
    BY <1>5, <2>2, <2>3
<1>7. ASSUME phase # "refused", NEW c \in Chunks(Isolate)
      PROVE  LET va == Isolate.va + c
             IN  /\ Holders(va) = Holders(va + Word - 1) /\ Cardinality(Holders(va)) <= 1
                 /\ Holders(va) = {} =>
                      \E f \in Range(model.functions) : f.size = MaxCandidateSize /\ f.start + f.size <= va
                 /\ Instruction(file, Isolate, c)[1] = "prologue" =>
                      \E f \in Range(model.functions) : f.start = va
  <2> DEFINE va == Isolate.va + c
             starts == Starts(file, Isolate)
             all == model.functions
  <2>1. Plus(Isolate.va, Isolate.size) # None
    <3>1. RegionsAgree(model)
      BY <1>1, <1>7, AcceptedModel DEF Accepted, Passed
    <3>2. PICK r \in Range(model.regions) :
            /\ r.executable = TRUE /\ r.va = Isolate.va /\ r.size = Isolate.size
      <4>1. model.regions = Observed(bundle.spans)
        BY <1>3 DEF RecoveredModel
      <4>2. model.regions[4] \in Range(model.regions)
        BY <4>1 DEF Range, Observed, RegionNames
      <4>3. /\ model.regions[4].executable = TRUE /\ model.regions[4].va = Isolate.va
            /\ model.regions[4].size = Isolate.size
        <5>1. DOMAIN RegionNames = 1 .. 4 /\ RegionNames[4] = "isolate_instructions"
          BY DEF RegionNames
        <5>2. Executable("isolate_instructions") = TRUE
          BY DEF Executable
        <5>3. QED
          BY <4>1, <5>1, <5>2 DEF Observed, Isolate
      <4>4. QED
        BY <4>2, <4>3
    <3>3. EndVa(r.va, r.size) # None
      BY <3>1, <3>2 DEF RegionsAgree
    <3>4. r.va # None
      BY <1>5, <3>2, TopIs
    <3>5. QED
      BY <3>2, <3>3, <3>4 DEF EndVa
  <2>2. all = Candidates(file, Isolate)
    BY <1>3 DEF RecoveredModel, Isolate
  <2>3. /\ Len(all) \in Nat /\ DOMAIN all = 1 .. Len(all)
        /\ \A s \in starts : \E i \in DOMAIN all : all[i].start = s
        /\ \A i, j \in DOMAIN all : all[i].start = all[j].start => i = j
    BY <1>5, <2>1, <2>2, CandidatesAre
  <2>4. \A i \in DOMAIN all : /\ all[i].start \in starts
                              /\ all[i].size = CandidateSize(Isolate, starts, all[i].start)
    BY <1>5, <2>2, CandidatesOf DEF Range
  <2> HIDE DEF all, starts
  <2>5. \A s \in starts :
          LET size == CandidateSize(Isolate, starts, s)
          IN  /\ s \in Nat /\ size \in Nat /\ s + size \in Nat
              /\ s > va => s >= va + Word
              /\ s + size > va => s + size >= va + Word
              /\ \A t \in starts : t > s => s + size <= t
              /\ size = MaxCandidateSize \/ s + size = Isolate.va + Isolate.size \/ s + size \in starts
    BY <1>5, <2>1, Around, SizeOf DEF starts
  <2>6. va \in Nat /\ Word \in Nat \ {0} /\ va + Word <= Isolate.va + Isolate.size
        /\ Isolate.va \in starts /\ Isolate.va <= va
    <3>1. Isolate.va \in starts
      BY <1>5, <2>1, StartsAligned DEF starts
    <3>2. va \in Nat /\ Word \in Nat \ {0} /\ va + Word <= Isolate.va + Isolate.size
      BY <1>5, <2>1, <3>1, Around DEF starts
    <3>3. c \in 0 .. Isolate.size - 1
      BY <1>5, <2>1, StartsInRegion
    <3>4. QED
      BY <1>5, <3>1, <3>2, <3>3
  <2> DEFINE End(i) == all[i].start + all[i].size
  <2>7. \A i \in DOMAIN all :
          /\ all[i].start \in Nat /\ End(i) \in Nat /\ all[i].start \in starts
          /\ all[i].start > va => all[i].start >= va + Word
          /\ End(i) > va => End(i) >= va + Word
          /\ \A t \in starts : t > all[i].start => End(i) <= t
          /\ all[i].size = MaxCandidateSize \/ End(i) = Isolate.va + Isolate.size \/ End(i) \in starts
    BY <2>4, <2>5
  <2>8. \A at : Holders(at) = {i \in DOMAIN all : at >= all[i].start /\ at < End(i)}
    BY DEF Holders, Fn, all
  <2> HIDE DEF va, End
  <2>9. Holders(va) = Holders(va + Word - 1)
    <3>1. \A i \in DOMAIN all : va >= all[i].start <=> va + Word - 1 >= all[i].start
      BY <2>6, <2>7
    <3>2. \A i \in DOMAIN all : va < End(i) <=> va + Word - 1 < End(i)
      BY <2>6, <2>7
    <3>3. QED
      BY <2>8, <3>1, <3>2
  <2>10. Cardinality(Holders(va)) <= 1
    <3>1. \A i, j \in Holders(va) : i = j
      <4> TAKE i, j \in Holders(va)
      <4>1. i \in DOMAIN all /\ j \in DOMAIN all /\ va >= all[i].start /\ va < End(i)
            /\ va >= all[j].start /\ va < End(j)
        BY <2>8
      <4>2. ~(all[i].start < all[j].start)
        BY <2>6, <2>7, <4>1
      <4>3. ~(all[j].start < all[i].start)
        BY <2>6, <2>7, <4>1
      <4>4. all[i].start = all[j].start
        BY <2>7, <4>1, <4>2, <4>3
      <4>5. QED
        BY <2>3, <4>1, <4>4
    <3>2. CASE Holders(va) = {}
      <4>1. Cardinality(Holders(va)) = 0
        BY <3>2, FS_EmptySet
      <4>2. QED
        BY <4>1
    <3>3. CASE Holders(va) # {}
      <4>1. PICK i : Holders(va) = {i}
        BY <3>1, <3>3
      <4>2. Cardinality(Holders(va)) = 1
        BY <4>1, FS_Singleton
      <4>3. QED
        BY <4>2
    <3>4. QED
      BY <3>2, <3>3
  <2>11. ASSUME Holders(va) = {}
         PROVE  \E f \in Range(model.functions) : f.size = MaxCandidateSize /\ f.start + f.size <= va
    <3> DEFINE upto == {t \in starts : t <= va}
    <3>1. upto \in SUBSET Nat /\ upto # {}
      BY <2>5, <2>6
    <3>2. PICK s \in upto : \A t \in upto : t <= s
      BY <2>6, <3>1, MaxOf
    <3>3. PICK i \in DOMAIN all : all[i].start = s
      BY <2>3, <3>2
    <3>4. End(i) <= va
      BY <2>6, <2>7, <2>8, <2>11, <3>2, <3>3
    <3>5. all[i].size # 0 /\ all[i].size \in Nat
      BY <1>5, <2>1, <2>4, <3>3, SizeOf DEF starts
    <3>6. End(i) > s
      BY <2>7, <3>3, <3>5 DEF End
    <3>7. End(i) \notin starts
      BY <2>7, <3>2, <3>3, <3>4, <3>6
    <3>8. End(i) # Isolate.va + Isolate.size
      BY <1>5, <2>6, <2>7, <3>3, <3>4
    <3>9. all[i].size = MaxCandidateSize
      BY <2>7, <3>3, <3>7, <3>8
    <3>10. QED
      BY <3>3, <3>4, <3>9 DEF Range, all, End
  <2>12. ASSUME Instruction(file, Isolate, c)[1] = "prologue"
         PROVE  \E f \in Range(model.functions) : f.start = va
    <3>1. va \in starts
      BY <2>12 DEF va, starts, Starts, Prologues
    <3>2. QED
      BY <2>3, <3>1 DEF Range, all
  <2>13. QED
    BY <2>9, <2>10, <2>11, <2>12 DEF va
<1>8. QED
  BY <1>6, <1>7 DEF RecoveryIsSound

\* What core makes itself (recover_code_candidates, core_recovered_model) is refused only where
\* a region with code runs off the address space, and its candidates cut no instruction.
THEOREM RecoveryHolds == RunSpec => []RecoveryIsSound
<1>1. FileInv => RecoveryIsSound
  BY RecoveryNow
<1>2. QED
  BY <1>1, FileHolds, PTL

-----------------------------------------------------------------------------
(* The names functions are called by.                                        *)

\* What the sources say, the model's own names being 0.
Own == ModelNames(model, Chosen, Of.request)
OwnQuality == ModelQuality(model, Chosen, Of.request)
NamedBy(k) == IF k = 0 THEN DOMAIN Own ELSE {a \in DOMAIN sources[k].names : sources[k].names[a] # <<>>}
NameBy(k, a) == IF k = 0 THEN Own[a] ELSE sources[k].names[a]
RatedBy(k, a) == IF k = 0 THEN OwnQuality[a] ELSE sources[k].quality

\* An address has the best of what the sources so far name it, the first of those.
HoldsBest(va, n) ==
  \E k \in 0 .. n :
    /\ va \in NamedBy(k) /\ names[va] = NameBy(k, va) /\ quality[va] = RatedBy(k, va)
    /\ \A j \in 0 .. n :
         va \in NamedBy(j) => RatedBy(j, va) <= quality[va] /\ (RatedBy(j, va) = quality[va] => k <= j)

BestSoFar(n) ==
  /\ \A va : va \in DOMAIN names <=> \E k \in 0 .. n : va \in NamedBy(k)
  /\ \A va \in DOMAIN names : va \in DOMAIN quality /\ quality[va] \in Nat /\ HoldsBest(va, n)
  /\ \A va \in DOMAIN quality \ DOMAIN names : quality[va] = Placeholder

\* The sources in their order.
SourcesAre ==
  /\ Of.externals \in Seq(Range(Of.externals))
  /\ DOMAIN sources = 1 .. Len(sources) /\ Len(sources) = Len(Of.externals) + 2
  /\ sources[1].quality = Heuristic
  /\ \A k \in 1 .. Len(Of.externals) : sources[k + 1] = Source(Texts(Given(Of, Of.externals[k])), External)
  /\ sources[Len(sources)] = Source(naming.names, Exact)

NameInv ==
  phase = "name" =>
    /\ naming = StubNaming(Listings, Of.sdk.claimed, Compressed)
    /\ SourcesAre
    /\ merged \in 0 .. Len(sources)
    /\ BestSoFar(merged)

LEMMA StartingAt ==
  ASSUME FileInv, phase \in Modelled, NEW va, Starting(model, Chosen, va) # {}
  PROVE  Max(Starting(model, Chosen, va)) \in Starting(model, Chosen, va)
<1> DEFINE S == Starting(model, Chosen, va)
           n == Len(model.functions)
<1>1. n \in Nat /\ DOMAIN model.functions = 1 .. n
  BY ModelIsOK, ListOf DEF ModelOK, List
<1>2. S \in SUBSET (1 .. n)
  BY <1>1, ChosenAre DEF Starting
<1> HIDE DEF S, n
<1>3. S \in SUBSET Nat /\ \A y \in S : y <= n
  BY <1>1, <1>2
<1>4. QED
  BY <1>1, <1>3, MaxOf DEF S

LEMMA OwnIs ==
  ASSUME FileInv, phase \in Modelled
  PROVE  /\ \A va \in DOMAIN Own : va \in DOMAIN OwnQuality
         /\ \A va \in DOMAIN OwnQuality : OwnQuality[va] \in 0 .. 3
         /\ \A va \in DOMAIN OwnQuality \ DOMAIN Own : OwnQuality[va] = Placeholder
<1> DEFINE C == Chosen
           request == Of.request
           last(va) == Max(Starting(model, C, va))
<1>1. DOMAIN Own = {model.functions[i].start : i \in Naming(model, C)}
  BY DEF Own, ModelNames
<1>2. /\ DOMAIN OwnQuality = {model.functions[i].start : i \in C}
      /\ \A va \in DOMAIN OwnQuality :
           OwnQuality[va] = IF last(va) \notin Naming(model, C) THEN Placeholder
                            ELSE Resolved(model, model.functions[last(va)], request).quality
  BY DEF OwnQuality, ModelQuality
<1>3. Naming(model, C) \subseteq C
  BY DEF Naming
<1>4. \A i : Resolved(model, model.functions[i], request).quality \in 1 .. 3
  BY DEF Resolved, QualityOf, Exact, External, Heuristic
<1>5. \A va \in DOMAIN OwnQuality : OwnQuality[va] \in 0 .. 3
  <2> TAKE va \in DOMAIN OwnQuality
  <2>1. OwnQuality[va] = Placeholder \/ OwnQuality[va] = Resolved(model, model.functions[last(va)], request).quality
    BY <1>2
  <2>2. QED
    BY <1>4, <2>1 DEF Placeholder
<1>6. ASSUME NEW va \in DOMAIN OwnQuality, va \notin DOMAIN Own
      PROVE  OwnQuality[va] = Placeholder
  <2>1. Starting(model, C, va) # {}
    BY <1>2 DEF Starting
  <2>2. last(va) \in Starting(model, C, va)
    BY <2>1, StartingAt
  <2>3. last(va) \notin Naming(model, C)
    BY <1>1, <1>6, <2>2 DEF Starting
  <2>4. QED
    BY <1>2, <2>3
<1>7. QED
  BY <1>1, <1>2, <1>3, <1>5, <1>6

LEMMA QualityIs ==
  ASSUME SourcesAre, NEW k \in 1 .. Len(sources)
  PROVE  sources[k].quality \in 1 .. 3
<1> DEFINE n == Len(Of.externals)
           N == Len(sources)
<1>1. n \in Nat /\ N = n + 2 /\ k \in 1 .. N
  BY DEF SourcesAre
<1>2. CASE k = 1
  BY <1>2 DEF SourcesAre, Heuristic
<1>3. CASE k = N
  BY <1>3 DEF SourcesAre, Source, Exact
<1>4. CASE k # 1 /\ k # N
  <2>1. k - 1 \in 1 .. n /\ (k - 1) + 1 = k
    <3> HIDE DEF n, N
    <3>1. QED
      BY <1>1, <1>4
  <2>2. sources[(k - 1) + 1] = Source(Texts(Given(Of, Of.externals[k - 1])), External)
    BY <2>1 DEF SourcesAre
  <2>3. QED
    BY <2>1, <2>2 DEF Source, External
<1>5. QED
  BY <1>2, <1>3, <1>4

LEMMA RatedIs ==
  ASSUME FileInv, phase \in Modelled, SourcesAre, NEW j \in 0 .. Len(sources), NEW va \in NamedBy(j)
  PROVE  RatedBy(j, va) \in 0 .. 3
<1>1. CASE j = 0
  BY <1>1, OwnIs DEF NamedBy, RatedBy
<1>2. CASE j # 0
  <2>1. j \in 1 .. Len(sources)
    BY <1>2 DEF SourcesAre
  <2>2. QED
    BY <1>2, <2>1, QualityIs DEF RatedBy
<1>3. QED
  BY <1>1, <1>2

\* What the sources say stays while they are merged.
LEMMA SaidStays ==
  ASSUME UNCHANGED <<input, model, sources>>
  PROVE  \A k, a : NamedBy(k)' = NamedBy(k) /\ NameBy(k, a)' = NameBy(k, a) /\ RatedBy(k, a)' = RatedBy(k, a)
BY DEF NamedBy, NameBy, RatedBy, Own, OwnQuality, Chosen, Of

LEMMA MergeStep ==
  ASSUME FileInv, NameInv, phase = "name", MergeNames, UNCHANGED <<input, model>>
  PROVE  merged' \in 0 .. Len(sources) /\ BestSoFar(merged)'
<1> DEFINE k == merged + 1
           s == sources[k]
           R == Replaces(s)
<1>1. /\ merged \in 0 .. Len(sources) /\ Len(sources) \in Nat /\ BestSoFar(merged) /\ merged < Len(sources)
      /\ merged' = k /\ k \in 1 .. Len(sources) /\ sources' = sources
  <2>1. SourcesAre /\ merged \in 0 .. Len(sources) /\ BestSoFar(merged)
    BY DEF NameInv
  <2>2. Len(sources) \in Nat
    BY <2>1 DEF SourcesAre
  <2>3. merged < Len(sources) /\ merged' = k /\ sources' = sources
    BY DEF MergeNames
  <2>4. QED
    BY <2>1, <2>2, <2>3
<1>2. /\ names' = Over([va \in R |-> s.names[va]], names)
      /\ quality' = Over([va \in R |-> s.quality], quality)
  BY DEF MergeNames
<1>3. /\ DOMAIN names' = R \union DOMAIN names
      /\ DOMAIN quality' = R \union DOMAIN quality
      /\ \A va \in R : names'[va] = s.names[va] /\ quality'[va] = s.quality
      /\ \A va \in DOMAIN names \ R : names'[va] = names[va]
      /\ \A va \in DOMAIN quality \ R : quality'[va] = quality[va]
  <2> HIDE DEF R, s
  <2>1. QED
    BY <1>2 DEF Over
<1>4. s.quality \in 1 .. 3
  BY <1>1, QualityIs DEF NameInv
<1>5. /\ \A va : va \in NamedBy(k) <=> va \in DOMAIN s.names /\ s.names[va] # <<>>
      /\ \A va : NameBy(k, va) = s.names[va] /\ RatedBy(k, va) = s.quality
  BY <1>1 DEF NamedBy, NameBy, RatedBy
<1>6. \A va : va \in R <=> va \in NamedBy(k) /\ (va \notin DOMAIN names \/ s.quality > quality[va])
  BY <1>5 DEF Replaces
<1>7. 0 .. k = 0 .. merged \union {k} /\ \A j \in 0 .. merged : j < k /\ j \in 0 .. k
  BY <1>1
<1>8. /\ \A va : va \in DOMAIN names <=> \E j \in 0 .. merged : va \in NamedBy(j)
      /\ \A va \in DOMAIN names : va \in DOMAIN quality /\ quality[va] \in Nat /\ HoldsBest(va, merged)
      /\ \A va \in DOMAIN quality \ DOMAIN names : quality[va] = Placeholder
  BY <1>1 DEF BestSoFar
<1> HIDE DEF k, s, R
<1> DEFINE Finest(va) ==
      \E i \in 0 .. k :
        /\ va \in NamedBy(i) /\ names'[va] = NameBy(i, va) /\ quality'[va] = RatedBy(i, va)
        /\ \A j \in 0 .. k :
             va \in NamedBy(j) => RatedBy(j, va) <= quality'[va] /\ (RatedBy(j, va) = quality'[va] => i <= j)
<1>9. ASSUME NEW va \in R
      PROVE  Finest(va)
  <2>1. va \in NamedBy(k) /\ names'[va] = NameBy(k, va) /\ quality'[va] = RatedBy(k, va) /\ RatedBy(k, va) = s.quality
    BY <1>3, <1>5, <1>6
  <2>2. ASSUME NEW j \in 0 .. merged, va \in NamedBy(j)
        PROVE  RatedBy(j, va) < s.quality
    <3>1. va \in DOMAIN names /\ s.quality > quality[va] /\ quality[va] \in Nat /\ HoldsBest(va, merged)
      BY <1>6, <1>8, <2>2
    <3>2. RatedBy(j, va) <= quality[va]
      BY <2>2, <3>1 DEF HoldsBest
    <3>3. RatedBy(j, va) \in 0 .. 3
      <4>1. j \in 0 .. Len(sources) /\ phase \in Modelled /\ SourcesAre
        BY <1>1 DEF Modelled, Passed, NameInv
      <4>2. QED
        BY <2>2, <4>1, RatedIs
    <3>4. QED
      BY <1>4, <3>1, <3>2, <3>3
  <2>3. \A j \in 0 .. k : va \in NamedBy(j) =>
          RatedBy(j, va) <= quality'[va] /\ (RatedBy(j, va) = quality'[va] => k <= j)
    <3> TAKE j \in 0 .. k
    <3>1. CASE j = k
      BY <1>1, <1>4, <2>1, <3>1
    <3>2. CASE j \in 0 .. merged
      <4>1. va \in NamedBy(j) => RatedBy(j, va) < s.quality /\ RatedBy(j, va) \in 0 .. 3
        <5>1. j \in 0 .. Len(sources) /\ phase \in Modelled /\ SourcesAre
          BY <1>1, <3>2 DEF Modelled, Passed, NameInv
        <5>2. QED
          BY <2>2, <3>2, <5>1, RatedIs
      <4>2. QED
        BY <1>4, <2>1, <4>1
    <3>3. QED
      BY <1>7, <3>1, <3>2
  <2>4. k \in 0 .. k
    BY <1>1
  <2>5. QED
    BY <2>1, <2>3, <2>4
<1>10. ASSUME NEW va \in DOMAIN names, va \notin R
       PROVE  Finest(va)
  <2>1. HoldsBest(va, merged) /\ names'[va] = names[va] /\ quality'[va] = quality[va] /\ quality[va] \in Nat
    BY <1>3, <1>8, <1>10
  <2>2. PICK i \in 0 .. merged :
          /\ va \in NamedBy(i) /\ names[va] = NameBy(i, va) /\ quality[va] = RatedBy(i, va)
          /\ \A j \in 0 .. merged :
               va \in NamedBy(j) => RatedBy(j, va) <= quality[va] /\ (RatedBy(j, va) = quality[va] => i <= j)
    BY <2>1 DEF HoldsBest
  <2>3. va \in NamedBy(k) => s.quality <= quality[va]
    BY <1>4, <1>6, <1>10, <2>1
  <2>4. i <= k /\ i \in 0 .. k
    BY <1>7, <2>2
  <2>5. \A j \in 0 .. k : va \in NamedBy(j) =>
          RatedBy(j, va) <= quality[va] /\ (RatedBy(j, va) = quality[va] => i <= j)
    BY <1>5, <1>7, <2>2, <2>3, <2>4
  <2>6. QED
    BY <2>1, <2>2, <2>4, <2>5
<1>11. \A va : va \in DOMAIN names' <=> \E j \in 0 .. k : va \in NamedBy(j)
  BY <1>3, <1>6, <1>7, <1>8
<1>12. \A va \in DOMAIN names' : va \in DOMAIN quality' /\ quality'[va] \in Nat /\ Finest(va)
  <2> TAKE va \in DOMAIN names'
  <2>1. CASE va \in R
    BY <1>3, <1>4, <1>9, <2>1
  <2>2. CASE va \in DOMAIN names /\ va \notin R
    BY <1>3, <1>8, <1>10, <2>2
  <2>3. QED
    BY <1>3, <2>1, <2>2
<1>13. \A va \in DOMAIN quality' \ DOMAIN names' : quality'[va] = Placeholder
  BY <1>3, <1>8
<1>14. \A i, a : NamedBy(i)' = NamedBy(i) /\ NameBy(i, a)' = NameBy(i, a) /\ RatedBy(i, a)' = RatedBy(i, a)
  BY <1>1, SaidStays
<1>15. \A va : HoldsBest(va, merged)' <=> Finest(va)
  BY <1>1, <1>14 DEF HoldsBest
<1>16. BestSoFar(merged)' <=>
         /\ \A va : va \in DOMAIN names' <=> \E j \in 0 .. merged' : va \in NamedBy(j)'
         /\ \A va \in DOMAIN names' : va \in DOMAIN quality' /\ quality'[va] \in Nat /\ HoldsBest(va, merged)'
         /\ \A va \in DOMAIN quality' \ DOMAIN names' : quality'[va] = Placeholder
  BY DEF BestSoFar
<1> HIDE DEF Finest
<1>17. BestSoFar(merged)'
  BY <1>1, <1>11, <1>12, <1>13, <1>14, <1>15, <1>16
<1>18. QED
  BY <1>1, <1>17

\* Three lists one after the other, of which the first and the last have one element.
IsBetween(list, n, g, a, b) ==
  /\ DOMAIN list = 1 .. Len(list) /\ Len(list) = n + 2
  /\ list[1] = a /\ list[Len(list)] = b
  /\ \A k \in 1 .. n : list[k + 1] = g[k]

LEMMA Between ==
  ASSUME NEW n \in Nat, NEW g, g = [k \in 1 .. n |-> g[k]], NEW a, NEW b
  PROVE  IsBetween(<<a>> \o g \o <<b>>, n, g, a, b)
<1> DEFINE S == {g[k] : k \in 1 .. n} \union {a, b}
<1>1. <<a>> \in Seq(S) /\ <<b>> \in Seq(S) /\ Len(<<a>>) = 1 /\ Len(<<b>>) = 1
  OBVIOUS
<1>2. g \in Seq(S) /\ Len(g) = n
  <2>1. g \in [1 .. n -> S]
    OBVIOUS
  <2>2. QED
    BY <2>1
<1> HIDE DEF S
<1> DEFINE u == <<a>> \o g
           t == u \o <<b>>
<1>3. /\ u \in Seq(S) /\ Len(u) = n + 1
      /\ \A i \in 1 .. n + 1 : u[i] = IF i <= 1 THEN a ELSE g[i - 1]
  BY <1>1, <1>2, ConcatProperties
<1>4. /\ t \in Seq(S) /\ Len(t) = n + 2
      /\ \A i \in 1 .. n + 2 : t[i] = IF i <= n + 1 THEN u[i] ELSE <<b>>[i - (n + 1)]
  <2>1. u \in Seq(S) /\ Len(u) = n + 1
    BY <1>3
  <2> HIDE DEF u
  <2>2. Len(t) = (n + 1) + 1 /\ t \in Seq(S)
    BY <1>1, <2>1, ConcatProperties
  <2>3. QED
    BY <1>1, <2>1, <2>2, ConcatProperties
<1> HIDE DEF t, u
<1>5. t[1] = a /\ t[n + 2] = b
  <2>1. 1 \in 1 .. n + 2 /\ 1 \in 1 .. n + 1 /\ 1 <= n + 1
    OBVIOUS
  <2>2. t[1] = a
    <3>1. t[1] = u[1]
      BY <1>4, <2>1
    <3>2. u[1] = IF 1 <= 1 THEN a ELSE g[1 - 1]
      BY <1>3, <2>1, Zenon
    <3>3. QED
      BY <3>1, <3>2
  <2>3. n + 2 \in 1 .. n + 2 /\ ~(n + 2 <= n + 1) /\ n + 2 - (n + 1) = 1
    OBVIOUS
  <2>4. t[n + 2] = <<b>>[1]
    BY <1>4, <2>3
  <2>5. QED
    BY <2>2, <2>4
<1>6. \A k \in 1 .. n : t[k + 1] = g[k]
  <2> TAKE k \in 1 .. n
  <2>1. k + 1 \in 1 .. n + 1 /\ k + 1 \in 1 .. n + 2 /\ ~(k + 1 <= 1) /\ (k + 1) - 1 = k /\ k + 1 <= n + 1
    OBVIOUS
  <2>2. QED
    BY <1>3, <1>4, <2>1
<1>7. t = <<a>> \o g \o <<b>>
  BY DEF t, u
<1>8. DOMAIN t = 1 .. Len(t)
  BY <1>4
<1>9. IsBetween(t, n, g, a, b)
  BY <1>4, <1>5, <1>6, <1>8 DEF IsBetween
<1>10. QED
  BY <1>7, <1>9

LEMMA NamedStart ==
  ASSUME FileInv, Name
  PROVE  NameInv'
<1> DEFINE ext == Of.externals
           given == [k \in DOMAIN ext |-> Source(Texts(Given(Of, ext[k])), External)]
           n == Len(ext)
<1>1. /\ phase = "done" /\ UNCHANGED loadVars
      /\ naming' = StubNaming(Listings, Of.sdk.claimed, Compressed)
      /\ NameModel(model, Chosen, Of.hints, Of.request, given, naming'.names)
  BY DEF Name
<1>2. PICK pool : sources' = <<Source(pool, Heuristic)>> \o given \o <<Source(naming'.names, Exact)>>
  BY <1>1 DEF NameModel
<1>3. names' = Own /\ quality' = OwnQuality /\ merged' = 0
  BY <1>1 DEF NameModel, Own, OwnQuality
<1>4. ext \in Seq(Range(ext)) /\ n \in Nat /\ DOMAIN ext = 1 .. n
  <2>1. input \in Inputs
    BY DEF FileInv
  <2>2. ext \in Seq(Range(ext))
    BY <2>1, ExternalsAssumption DEF Of, List
  <2> HIDE DEF ext
  <2>3. QED
    BY <2>2
<1>5. UNCHANGED <<Of, Listings, Compressed, Chosen>>
  BY <1>1 DEF loadVars, Of, Listings, Compressed, Chosen, Fn
<1>6. /\ DOMAIN sources' = 1 .. Len(sources') /\ Len(sources') = n + 2
      /\ sources'[1] = Source(pool, Heuristic) /\ sources'[Len(sources')] = Source(naming'.names, Exact)
      /\ \A k \in 1 .. n : sources'[k + 1] = given[k]
  <2>1. given = [k \in 1 .. n |-> given[k]]
    BY <1>4
  <2> DEFINE a == Source(pool, Heuristic)
             b == Source(naming'.names, Exact)
  <2>2. sources' = <<a>> \o given \o <<b>>
    BY <1>2
  <2> HIDE DEF given, n, a, b
  <2>3. /\ DOMAIN sources' = 1 .. Len(sources') /\ Len(sources') = n + 2
        /\ sources'[1] = a /\ sources'[Len(sources')] = b
        /\ \A k \in 1 .. n : sources'[k + 1] = given[k]
    <3>1. IsBetween(sources', n, given, a, b)
      BY <1>4, <2>1, <2>2, Between
    <3>2. QED
      BY <3>1 DEF IsBetween
  <2>4. QED
    BY <2>3 DEF a, b
<1>7. SourcesAre'
  <2>1. sources'[1].quality = Heuristic
    BY <1>6 DEF Source
  <2>2. \A k \in 1 .. n : sources'[k + 1] = Source(Texts(Given(Of, ext[k])), External)
    BY <1>4, <1>6
  <2>3. Of' = Of
    BY <1>5
  <2>4. SourcesAre' <=>
          /\ ext \in Seq(Range(ext))
          /\ DOMAIN sources' = 1 .. Len(sources') /\ Len(sources') = n + 2
          /\ sources'[1].quality = Heuristic
          /\ \A k \in 1 .. n : sources'[k + 1] = Source(Texts(Given(Of, ext[k])), External)
          /\ sources'[Len(sources')] = Source(naming'.names, Exact)
    BY <2>3 DEF SourcesAre
  <2>5. QED
    BY <1>4, <1>6, <2>1, <2>2, <2>4
<1>8. Own' = Own /\ OwnQuality' = OwnQuality
  BY <1>1, <1>5 DEF loadVars, Own, OwnQuality
<1>9. BestSoFar(merged)'
  <2> DEFINE offered(va) == va \in DOMAIN Own
  <2>1. phase \in Modelled
    BY <1>1 DEF Modelled, Passed
  <2>2. /\ \A va \in DOMAIN Own : va \in DOMAIN OwnQuality
        /\ \A va \in DOMAIN OwnQuality : OwnQuality[va] \in 0 .. 3
        /\ \A va \in DOMAIN OwnQuality \ DOMAIN Own : OwnQuality[va] = Placeholder
    BY <2>1, OwnIs
  <2>3. /\ \A va : va \in NamedBy(0)' <=> va \in DOMAIN Own
        /\ \A va : NameBy(0, va)' = Own[va] /\ RatedBy(0, va)' = OwnQuality[va]
    BY <1>8 DEF NamedBy, NameBy, RatedBy
  <2>4. 0 .. merged' = {0}
    BY <1>3
  <2>5. \A va \in DOMAIN names' : HoldsBest(va, merged)'
    BY <1>3, <2>2, <2>3, <2>4 DEF HoldsBest
  <2>6. \A va : va \in DOMAIN names' <=> \E k \in 0 .. merged' : va \in NamedBy(k)'
    BY <1>3, <2>3, <2>4
  <2>7. \A va \in DOMAIN names' : va \in DOMAIN quality' /\ quality'[va] \in Nat
    BY <1>3, <2>2
  <2>8. \A va \in DOMAIN quality' \ DOMAIN names' : quality'[va] = Placeholder
    BY <1>3, <2>2
  <2>9. QED
    BY <2>5, <2>6, <2>7, <2>8 DEF BestSoFar
<1>10. merged' \in 0 .. Len(sources')
  BY <1>3, <1>4, <1>6
<1>11. naming' = StubNaming(Listings', Of'.sdk.claimed, Compressed')
  BY <1>1, <1>5
<1>12. QED
  BY <1>7, <1>9, <1>10, <1>11 DEF NameInv

LEMMA NameStep ==
  ASSUME FileInv, NameInv, [RunNext]_runVars
  PROVE  NameInv'
<1>1. CASE Read
  <2>1. phase' # "name"
    BY <1>1 DEF Read, ReadNext, Open, Carve, Answered, Validate, Select, Skip, StartFunction, Decode,
                FinishFunction, Done
  <2>2. QED
    BY <2>1 DEF NameInv
<1>2. CASE Name
  BY <1>2, NamedStart
<1>3. CASE NoMap \/ Emit
  BY <1>3 DEF NoMap, Emit, NameInv
<1>4. CASE Merge
  <2>1. phase = "name" /\ MergeNames /\ UNCHANGED <<phase, loadVars, naming>>
    BY <1>4 DEF Merge, readVars
  <2>2. sources' = sources /\ UNCHANGED <<input, model>>
    BY <2>1 DEF MergeNames, loadVars
  <2>3. merged' \in 0 .. Len(sources) /\ BestSoFar(merged)'
    BY <2>1, <2>2, MergeStep
  <2>4. UNCHANGED <<Of, Listings, Compressed>>
    BY <2>1 DEF loadVars, Of, Listings, Compressed, Fn
  <2>5. naming' = StubNaming(Listings', Of'.sdk.claimed, Compressed') /\ SourcesAre'
    BY <2>1, <2>2, <2>4 DEF NameInv, SourcesAre
  <2>6. QED
    BY <2>2, <2>3, <2>5 DEF NameInv
<1>5. CASE Annotate
  BY <1>5 DEF Annotate, readVars, NameInv
<1>6. CASE UNCHANGED runVars
  <2>1. UNCHANGED <<phase, loadVars, names, quality, sources, merged, naming>>
    BY <1>6 DEF runVars, readVars, nameVars
  <2>2. UNCHANGED <<Of, Listings, Compressed, input, model>>
    BY <2>1 DEF loadVars, Of, Listings, Compressed, Fn
  <2>3. \A k, a : NamedBy(k)' = NamedBy(k) /\ NameBy(k, a)' = NameBy(k, a) /\ RatedBy(k, a)' = RatedBy(k, a)
    BY <2>1, <2>2, SaidStays
  <2>4. BestSoFar(merged)' <=> BestSoFar(merged)
    <3>1. \A va : HoldsBest(va, merged)' <=> HoldsBest(va, merged)
      BY <2>1, <2>3 DEF HoldsBest
    <3>2. QED
      BY <2>1, <2>3, <3>1 DEF BestSoFar
  <2>5. SourcesAre' <=> SourcesAre
    BY <2>1, <2>2 DEF SourcesAre
  <2>6. QED
    BY <2>1, <2>2, <2>4, <2>5 DEF NameInv
<1>7. QED
  BY <1>1, <1>2, <1>3, <1>4, <1>5, <1>6 DEF RunNext

LEMMA NameStart ==
  ASSUME RunInit
  PROVE  NameInv
BY DEF RunInit, ReadInit, NameInv

LEMMA OfferedIs ==
  ASSUME NEW va \in DOMAIN names
  PROVE  /\ DOMAIN NamesOffered[va] = {j \in 0 .. Len(sources) : va \in NamedBy(j)}
         /\ \A k \in DOMAIN NamesOffered[va] :
              NamesOffered[va][k] = [name |-> NameBy(k, va), quality |-> RatedBy(k, va)]
BY DEF NamesOffered, NamedBy, NameBy, RatedBy, Own, OwnQuality

\* A stub's name is composed, so that normalizing leaves it alone.
LEMMA StubNameIs ==
  ASSUME NEW code, NEW version, NEW compressed, NEW va \in DOMAIN NamesGiven(code, version, compressed)
  PROVE  \E a, b : NamesGiven(code, version, compressed)[va] = <<a, b>>
<1> DEFINE table == Tables[version]
           explained == Explained(code, table)
           found == Over(explained, AllocationNames(code))
<1>1. \A x \in DOMAIN explained : \E a, b : explained[x] = <<a, b>>
  BY DEF Explained, StubName
<1>2. /\ DOMAIN AllocationNames(code) = Allocating(code)
      /\ \A x \in Allocating(code) : \E a, b : AllocationNames(code)[x] = <<a, b>>
  BY DEF AllocationNames
<1>3. /\ DOMAIN found = DOMAIN explained \union Allocating(code)
      /\ \A x \in DOMAIN found : found[x] = IF x \in DOMAIN explained THEN explained[x] ELSE AllocationNames(code)[x]
  BY <1>2 DEF Over
<1>4. \A x \in DOMAIN found : \E a, b : found[x] = <<a, b>>
  BY <1>1, <1>2, <1>3
<1>5. \/ NamesGiven(code, version, compressed) = found
      \/ NamesGiven(code, version, compressed) = [x \in Allocating(code) |-> found[x]]
      \/ NamesGiven(code, version, compressed) = AllocationNames(code)
  BY DEF NamesGiven
<1> HIDE DEF found
<1>6. QED
  BY <1>2, <1>3, <1>4, <1>5

\* What is rated exact.
LEMMA ExactIs ==
  ASSUME FileInv, NameInv, AllNamed, Apart, NEW va \in DOMAIN quality, quality[va] = Exact
  PROVE  \/ \E i \in Chosen : Fn(i).start = va /\ names[va] = <<Fn(i).name>> /\ Fn(i).nameProv = "exact"
         \/ va \in DOMAIN naming.names /\ names[va] = naming.names[va]
<1> DEFINE N == Len(sources)
<1>1. SourcesAre /\ BestSoFar(N) /\ naming = StubNaming(Listings, Of.sdk.claimed, Compressed) /\ phase \in Modelled
  BY DEF NameInv, AllNamed, AllMerged, Modelled, Passed
<1>2. va \in DOMAIN names
  BY <1>1 DEF BestSoFar, Placeholder, Exact
<1>3. PICK k \in 0 .. N : va \in NamedBy(k) /\ names[va] = NameBy(k, va) /\ quality[va] = RatedBy(k, va)
  BY <1>1, <1>2 DEF BestSoFar, HoldsBest
<1>4. CASE k = 0
  <2> DEFINE C == Chosen
             S == Starting(model, C, va)
             last == Max(S)
             named == Naming(model, C)
             f == model.functions[last]
  <2>1. va \in DOMAIN Own /\ va \in DOMAIN OwnQuality /\ names[va] = Own[va] /\ OwnQuality[va] = Exact
    BY <1>1, <1>3, <1>4, OwnIs DEF NamedBy, NameBy, RatedBy
  <2>2. Own[va] = Resolved(model, model.functions[Max(S \cap named)], Of.request).name
    BY <2>1 DEF Own, ModelNames
  <2>3. OwnQuality[va] = IF last \notin named THEN Placeholder ELSE Resolved(model, f, Of.request).quality
    BY <2>1 DEF OwnQuality, ModelQuality
  <2>4. last \in S
    <3>1. S # {}
      BY <2>1 DEF OwnQuality, ModelQuality, Starting
    <3>2. QED
      BY <1>1, <3>1, StartingAt
  <2>5. last \in named /\ Resolved(model, f, Of.request).quality = Exact
    BY <2>1, <2>3 DEF Placeholder, Exact
  <2>6. last \in Chosen /\ Fn(last).start = va /\ f = Fn(last)
    BY <2>4 DEF Starting, Fn
  <2>7. S \cap named = S
    <3>1. \A i \in S : i \in Chosen /\ Fn(i).start = va
      BY DEF Starting, Fn
    <3>2. \A i \in S : i = last
      BY <2>6, <3>1 DEF Apart
    <3>3. QED
      BY <2>5, <3>2
  <2>8. Own[va] = Resolved(model, f, Of.request).name
    BY <2>2, <2>7
  <2>9. Resolved(model, f, Of.request).name = <<f.name>> /\ f.nameProv = "exact"
    BY <2>5 DEF Resolved, QualityOf, Exact, External, Heuristic
  <2>10. QED
    BY <2>1, <2>6, <2>8, <2>9
<1>5. CASE k # 0
  <2>1. k \in 1 .. N /\ N \in Nat /\ N = Len(Of.externals) + 2 /\ Len(Of.externals) \in Nat
    BY <1>1, <1>5 DEF SourcesAre
  <2>2. sources[k].quality = Exact
    BY <1>3, <1>5 DEF RatedBy
  <2>3. k = N
    <3>1. CASE k = 1
      BY <1>1, <2>2, <3>1 DEF SourcesAre, Heuristic, Exact
    <3>2. CASE k # 1 /\ k # N
      <4> DEFINE n == Len(Of.externals)
      <4>1. k - 1 \in 1 .. n /\ (k - 1) + 1 = k
        <5> HIDE DEF n, N
        <5>1. N = n + 2 /\ n \in Nat /\ k \in 1 .. N
          BY <2>1 DEF n, N
        <5>2. QED
          BY <3>2, <5>1
      <4>2. sources[(k - 1) + 1] = Source(Texts(Given(Of, Of.externals[k - 1])), External)
        BY <1>1, <4>1 DEF SourcesAre
      <4>3. sources[k].quality = External
        BY <4>1, <4>2 DEF Source
      <4>4. QED
        BY <2>2, <4>3 DEF External, Exact
    <3>3. QED
      BY <3>1, <3>2
  <2>4. sources[k] = Source(naming.names, Exact)
    BY <1>1, <2>3 DEF SourcesAre
  <2>5. va \in DOMAIN naming.names /\ names[va] = Normalized(naming.names[va])
    BY <1>3, <1>5, <2>4 DEF NamedBy, NameBy, Source
  <2>6. naming.names = NamesGiven(Listings, Of.sdk.claimed, Compressed)
    BY <1>1 DEF StubNaming
  <2>7. PICK a, b : naming.names[va] = <<a, b>>
    BY <2>5, <2>6, StubNameIs
  <2>8. QED
    BY <2>5, <2>7 DEF Normalized
<1>6. QED
  BY <1>4, <1>5

LEMMA NamesNow ==
  ASSUME FileInv, NameInv
  PROVE  NamesAreBest
<1> SUFFICES ASSUME AllNamed, Apart PROVE NamesAreBest
  BY DEF NamesAreBest
<1> DEFINE offered == NamesOffered
<1>1. BestSoFar(Len(sources))
  BY DEF NameInv, AllNamed, AllMerged
<1>2. ASSUME NEW va \in DOMAIN names
      PROVE  \E k \in DOMAIN offered[va] :
               /\ offered[va][k] = [name |-> names[va], quality |-> quality[va]]
               /\ \A j \in DOMAIN offered[va] : /\ offered[va][j].quality <= quality[va]
                                              /\ offered[va][j].quality = quality[va] => k <= j
  <2>1. PICK k \in 0 .. Len(sources) :
          /\ va \in NamedBy(k) /\ names[va] = NameBy(k, va) /\ quality[va] = RatedBy(k, va)
          /\ \A j \in 0 .. Len(sources) :
               va \in NamedBy(j) => RatedBy(j, va) <= quality[va] /\ (RatedBy(j, va) = quality[va] => k <= j)
    BY <1>1 DEF BestSoFar, HoldsBest
  <2>2. /\ DOMAIN offered[va] = {j \in 0 .. Len(sources) : va \in NamedBy(j)}
        /\ \A j \in DOMAIN offered[va] : offered[va][j] = [name |-> NameBy(j, va), quality |-> RatedBy(j, va)]
    BY OfferedIs
  <2> HIDE DEF offered
  <2>3. \A j \in DOMAIN offered[va] : j \in 0 .. Len(sources) /\ va \in NamedBy(j) /\ offered[va][j].quality = RatedBy(j, va)
    <3> DEFINE D == DOMAIN offered[va]
    <3>1. \A j \in D : offered[va][j] = [name |-> NameBy(j, va), quality |-> RatedBy(j, va)]
      BY <2>2
    <3>2. \A j \in D : j \in 0 .. Len(sources) /\ va \in NamedBy(j)
      BY <2>2
    <3> HIDE DEF D
    <3>3. \A j \in D : offered[va][j].quality = RatedBy(j, va)
      <4> TAKE j \in D
      <4> DEFINE e == offered[va][j]
      <4>1. e = [name |-> NameBy(j, va), quality |-> RatedBy(j, va)]
        BY <3>1
      <4> HIDE DEF e
      <4>2. e.quality = RatedBy(j, va)
        BY <4>1
      <4>3. QED
        BY <4>2 DEF e
    <3>4. QED
      BY <3>2, <3>3 DEF D
  <2>4. k \in DOMAIN offered[va] /\ offered[va][k] = [name |-> names[va], quality |-> quality[va]]
    BY <2>1, <2>2
  <2>5. \A j \in DOMAIN offered[va] : /\ offered[va][j].quality <= quality[va]
                                     /\ offered[va][j].quality = quality[va] => k <= j
    BY <2>1, <2>3
  <2>6. QED
    BY <2>4, <2>5
<1>3. \A va \in DOMAIN quality : quality[va] = Exact =>
        \/ \E i \in Chosen : Fn(i).start = va /\ names[va] = <<Fn(i).name>> /\ Fn(i).nameProv = "exact"
        \/ va \in DOMAIN naming.names /\ names[va] = naming.names[va]
  BY ExactIs
<1> HIDE DEF offered
<1>4. QED
  BY <1>2, <1>3 DEF NamesAreBest, offered

\* An address is called by the best name it was offered (merge_symbol_name): a better one is
\* never given up for a worse, and nothing passes for exact that nobody says exactly.
THEOREM NamesHold == RunSpec => []NamesAreBest
<1>1. RunInit => FileInv /\ NameInv
  BY FileStart, NameStart
<1>2. FileInv /\ NameInv /\ [RunNext]_runVars => FileInv' /\ NameInv'
  BY FileStep, NameStep
<1>3. FileInv /\ NameInv => NamesAreBest
  BY NamesNow
<1>4. QED
  BY <1>1, <1>2, <1>3, PTL DEF RunSpec

-----------------------------------------------------------------------------
(* Where a name from outside stands.                                         *)

LEMMA LongestOf ==
  ASSUME NEW n \in Nat, NEW w \in [1 .. n -> Nat], NEW I \in SUBSET (1 .. n), I # {}
  PROVE  \E i \in I : \A k \in I : w[k] <= w[i]
<1> DEFINE Longest(m, i) == i \in I /\ i <= m /\ \A k \in I : k <= m => w[k] <= w[i]
           T == {m \in Nat : (\E k \in I : k <= m) /\ ~ \E i \in I : Longest(m, i)}
<1>1. \A k \in I : k \in Nat /\ 1 <= k /\ k <= n /\ w[k] \in Nat
  OBVIOUS
<1>2. SUFFICES ASSUME n \in T PROVE FALSE
  <2>1. \E k \in I : k <= n
    BY <1>1
  <2>2. PICK i \in I : Longest(n, i)
    BY <1>2, <2>1
  <2>3. QED
    BY <1>1, <2>2
<1>3. PICK m \in T : \A k \in T : m <= k
  BY <1>2, LeastNumber
<1>4. m \in Nat /\ (\E k \in I : k <= m) /\ \A i \in I : ~Longest(m, i)
  BY <1>3
<1>5. m # 0
  BY <1>1, <1>4
<1>6. m - 1 \in Nat /\ m - 1 \notin T
  <2>1. m - 1 \in Nat /\ ~(m <= m - 1)
    BY <1>4, <1>5
  <2> HIDE DEF T
  <2>2. QED
    BY <1>3, <2>1
<1>7. \A k \in I : k <= m <=> k <= m - 1 \/ k = m
  <2> TAKE k \in I
  <2>1. k \in Nat /\ m \in Nat
    BY <1>1, <1>4
  <2> HIDE DEF T, Longest
  <2>2. QED
    BY <2>1
<1>8. CASE \E k \in I : k <= m - 1
  <2>1. PICK i \in I : Longest(m - 1, i)
    BY <1>6, <1>8
  <2>2. i <= m /\ w[i] \in Nat /\ \A k \in I : k <= m - 1 => w[k] <= w[i]
    BY <1>1, <1>7, <2>1
  <2>3. CASE m \notin I \/ w[m] <= w[i]
    <3>1. Longest(m, i)
      BY <1>7, <2>2, <2>3
    <3>2. QED
      BY <1>4, <3>1
  <2>4. CASE m \in I /\ ~(w[m] <= w[i])
    <3>1. \A k \in I : k <= m => w[k] <= w[m]
      <4> SUFFICES ASSUME NEW k \in I, k <= m PROVE w[k] <= w[m]
        OBVIOUS
      <4>1. w[k] \in Nat /\ w[m] \in Nat
        BY <1>1, <2>4
      <4>2. k = m \/ w[k] <= w[i]
        BY <1>7, <2>2
      <4> HIDE DEF T, Longest
      <4>3. QED
        BY <2>2, <2>4, <4>1, <4>2
    <3>2. Longest(m, m)
      BY <1>4, <2>4, <3>1
    <3>3. QED
      BY <1>4, <2>4, <3>2
  <2>5. QED
    BY <2>3, <2>4
<1>9. CASE ~ \E k \in I : k <= m - 1
  <2>1. m \in I /\ \A k \in I : k <= m => k = m
    BY <1>4, <1>7, <1>9
  <2>2. Longest(m, m)
    BY <1>1, <1>4, <2>1
  <2>3. QED
    BY <1>4, <2>1, <2>2
<1>10. QED
  BY <1>8, <1>9

\* What a file says of an address is the name of a symbol there.
LEMMA ElfSymbolIs ==
  ASSUME NEW elf, SymbolsOK(elf)
  PROVE  /\ DOMAIN ElfSymbols(elf) = {s.va : s \in Usable(elf)}
         /\ \A s \in Usable(elf) : s.va \in Address
         /\ \A va \in DOMAIN ElfSymbols(elf) :
              \E s \in Usable(elf) : s.va = va /\ ElfSymbols(elf)[va] = s.name
<1> DEFINE all == BothTables(elf)
           n == Len(all)
           w == [i \in 1 .. n |-> NameLength[all[i].name]]
           R == Range(elf.sym) \union Range(elf.dyn)
<1>1. /\ elf.sym \in Seq(Range(elf.sym)) /\ elf.dyn \in Seq(Range(elf.dyn))
      /\ \A s \in R : s.va \in Address /\ NameLength[s.name] \in Nat
  BY DEF SymbolsOK, List
<1>2. all \in Seq(R) /\ n \in Nat /\ DOMAIN all = 1 .. n
  <2> DEFINE x == elf.sym
             y == elf.dyn
  <2>1. x \in Seq(R) /\ y \in Seq(R)
    BY <1>1
  <2>2. all = x \o y
    BY DEF BothTables
  <2> HIDE DEF R, x, y, all
  <2>3. all \in Seq(R)
    BY <2>1, <2>2, ConcatProperties
  <2>4. QED
    BY <2>3
<1> HIDE DEF R
<1>3. \A i \in 1 .. n : all[i] \in R
  BY <1>2
<1>4. w \in [1 .. n -> Nat]
  BY <1>1, <1>3
<1>5. UsableAt(elf) \subseteq 1 .. n /\ Usable(elf) = {all[i] : i \in UsableAt(elf)}
  BY <1>2 DEF UsableAt, Usable
<1>6. \A s \in Usable(elf) : s.va \in Address
  BY <1>1, <1>3, <1>5
<1>7. ASSUME NEW va \in {s.va : s \in Usable(elf)}
      PROVE  \E s \in Usable(elf) : s.va = va /\ ElfSymbols(elf)[va] = s.name
  <2> DEFINE there == {i \in UsableAt(elf) : all[i].va = va}
             longest == {i \in there : \A k \in there : NameLength[all[k].name] <= NameLength[all[i].name]}
  <2>1. there \in SUBSET (1 .. n) /\ there # {}
    BY <1>5
  <2>2. PICK i \in there : \A k \in there : w[k] <= w[i]
    <3> HIDE DEF there, w, n
    <3>1. QED
      BY <1>2, <1>4, <2>1, LongestOf
  <2>3. i \in longest
    BY <2>1, <2>2
  <2>4. longest \in SUBSET Nat /\ longest # {}
    BY <2>1, <2>3
  <2>5. Min(longest) \in longest
    <3> HIDE DEF longest
    <3>1. QED
      BY <2>4, MinOf
  <2>6. ElfSymbols(elf)[va] = all[Min(longest)].name
    BY DEF ElfSymbols
  <2>7. Min(longest) \in UsableAt(elf) /\ all[Min(longest)].va = va
    BY <2>5
  <2> HIDE DEF longest
  <2>8. QED
    BY <1>5, <2>6, <2>7
<1>8. DOMAIN ElfSymbols(elf) = {s.va : s \in Usable(elf)}
  BY DEF ElfSymbols
<1>9. QED
  BY <1>6, <1>7, <1>8

\* A branch of a section goes to an address.
LEMMA CallsAre ==
  ASSUME NEW elf, SectionsOK(elf), NEW branches, NEW c \in DirectCalls(ExecSections(elf), branches)
  PROVE  c.to \in Nat
<1>1. PICK s \in ExecSections(elf) : \E k \in {i \in Decoded(s) : s.code[i][1] = "bl" \/ (branches /\ s.code[i][1] = "b")} :
        c.to = SpelledTarget(s.addr + (k - 1) * Word, s.code[k])
  BY DEF DirectCalls
<1>2. PICK k \in Decoded(s) : s.code[k][1] \in {"bl", "b"} /\ c.to = SpelledTarget(s.addr + (k - 1) * Word, s.code[k])
  BY <1>1
<1>3. /\ s.addr \in Address /\ s.code \in Seq(Range(s.code))
      /\ \A j \in DOMAIN s.code : s.code[j][1] \in {"bl", "b"} => s.code[j][2] \in Int
  BY DEF ExecSections, SectionsOK
<1> DEFINE n == Len(s.code)
           bad == {j \in DOMAIN s.code : s.code[j][1] = "bad"}
<1>4. n \in Nat /\ DOMAIN s.code = 1 .. n
  BY <1>3
<1>5. k \in 1 .. n
  <2>1. k \in 1 .. (IF bad = {} THEN n ELSE Min(bad) - 1)
    BY DEF Decoded
  <2>2. bad \in SUBSET (1 .. n) /\ bad \in SUBSET Nat
    BY <1>4
  <2> HIDE DEF bad
  <2>3. CASE bad = {}
    BY <2>1, <2>3
  <2>4. CASE bad # {}
    <3>1. Min(bad) \in bad
      BY <2>2, <2>4, MinOf
    <3>2. Min(bad) \in 1 .. n
      BY <2>2, <3>1
    <3> HIDE DEF n
    <3>3. QED
      BY <1>4, <2>1, <2>4, <3>2
  <2>5. QED
    BY <2>3, <2>4
<1>6. s.code[k][2] \in Int /\ s.addr \in Int /\ k - 1 \in Int /\ Word \in Int /\ Top \in Nat \ {0}
  <2>1. k \in DOMAIN s.code /\ k \in Int
    BY <1>4, <1>5
  <2>2. QED
    BY <1>2, <1>3, <2>1, TopIs, RecoveryAssumption
<1> DEFINE from == s.addr + (k - 1) * Word
           by2 == s.code[k][2] * Word
<1>7. from \in Int /\ by2 \in Int
  BY <1>6
<1>8. c.to = (from + by2) % Top
  BY <1>2 DEF SpelledTarget
<1> HIDE DEF from, by2
<1>9. QED
  BY <1>6, <1>7, <1>8

\* The file a source's symbols are of.
SymbolFile(x) == IF x.kind = "elf" THEN x.elf ELSE x.pair.unstripped

\* The name is that of a symbol at the address, or of the nearest below where a map may say it.
IsOf(x, nearest, va, name) ==
  \E s \in Usable(SymbolFile(x)) :
    /\ name = s.name
    /\ \/ s.va = va
       \/ /\ x.kind = "map" /\ nearest /\ s.va < va /\ va - s.va <= x.pair.reach
          /\ \A other \in {t.va : t \in Usable(SymbolFile(x))} : other <= s.va \/ other > va

LEMMA ResolvedIs ==
  ASSUME NEW symbols, DOMAIN symbols \subseteq Nat, NEW va \in Nat, NEW reach \in Nat,
         Resolve(symbols, va, reach).kind # "unresolved"
  PROVE  \E a \in DOMAIN symbols :
           /\ Resolve(symbols, va, reach).name = symbols[a]
           /\ \/ Resolve(symbols, va, reach).kind = "exact" /\ a = va
              \/ /\ Resolve(symbols, va, reach).kind = "nearest" /\ a < va /\ va - a <= reach
                 /\ \A b \in DOMAIN symbols : b <= a \/ b > va
<1> DEFINE below == {s \in DOMAIN symbols : s <= va}
<1>1. CASE va \in DOMAIN symbols
  BY <1>1 DEF Resolve
<1>2. CASE va \notin DOMAIN symbols
  <2>1. /\ below # {} /\ ~(va - Max(below) > reach)
        /\ Resolve(symbols, va, reach) = [kind |-> "nearest", name |-> symbols[Max(below)]]
    BY <1>2 DEF Resolve
  <2>2. below \in SUBSET Nat /\ \A y \in below : y <= va
    OBVIOUS
  <2>3. Max(below) \in below /\ \A y \in below : y <= Max(below)
    <3> HIDE DEF below
    <3>1. QED
      BY <2>1, <2>2, MaxOf
  <2> DEFINE a == Max(below)
  <2>4. a \in DOMAIN symbols /\ a \in Nat /\ a <= va /\ a # va /\ ~(va - a > reach)
    BY <1>2, <2>1, <2>3
  <2>5. \A b \in DOMAIN symbols : b <= a \/ b > va
    <3> TAKE b \in DOMAIN symbols
    <3>1. b \in Nat /\ (b <= va => b <= a)
      BY <2>3
    <3> HIDE DEF a
    <3>2. QED
      BY <3>1
  <2>6. Resolve(symbols, va, reach).kind = "nearest" /\ Resolve(symbols, va, reach).name = symbols[a]
    BY <2>1
  <2> HIDE DEF a
  <2>7. a < va /\ va - a <= reach
    BY <2>4
  <2>8. QED
    BY <2>4, <2>5, <2>6, <2>7
<1>3. QED
  BY <1>1, <1>2

LEMMA GivenIs ==
  ASSUME NEW of, NEW x, ExternalOK(x), NEW va \in DOMAIN Given(of, x)
  PROVE  IsOf(x, of.request.nearest, va, Given(of, x)[va])
<1> DEFINE elf == SymbolFile(x)
           symbols == ElfSymbols(elf)
<1>1. SymbolsOK(elf)
  BY DEF ExternalOK, SymbolFile
<1>2. /\ DOMAIN symbols = {s.va : s \in Usable(elf)}
      /\ \A s \in Usable(elf) : s.va \in Address
      /\ \A a \in DOMAIN symbols : \E s \in Usable(elf) : s.va = a /\ symbols[a] = s.name
  BY <1>1, ElfSymbolIs
<1>3. CASE x.kind = "elf"
  <2>1. Given(of, x) = symbols
    BY <1>3 DEF Given, SymbolFile
  <2>2. QED
    BY <1>2, <2>1 DEF IsOf
<1>4. CASE x.kind # "elf"
  <2> DEFINE p == x.pair
             calls == DirectCalls(ExecSections(p.stripped), p.branches)
             summary == Summary(p)
             r == Resolve(symbols, va, p.reach)
  <2>1. Given(of, x) = Taken(summary, of.request.nearest) /\ x.kind = "map" /\ elf = p.unstripped
    BY <1>4 DEF Given, SymbolFile, ExternalOK
  <2>2. SectionsOK(p.stripped) /\ p.reach \in Nat
    BY <2>1 DEF ExternalOK
  <2>3. /\ va \in DOMAIN summary
        /\ summary[va].found.kind = "exact" \/ (of.request.nearest /\ summary[va].found.kind = "nearest")
        /\ Given(of, x)[va] = summary[va].found.name
    <3> HIDE DEF summary
    <3>1. QED
      BY <2>1 DEF Taken
  <2>4. va \in {c.to : c \in calls} /\ summary[va].found = r
    BY <2>1, <2>3 DEF Summary
  <2>5. va \in Nat
    <3>1. PICK c \in calls : c.to = va
      BY <2>4
    <3>2. QED
      BY <2>2, <3>1, CallsAre
  <2>6. DOMAIN symbols \subseteq Nat
    BY <1>2 DEF Address
  <2>7. PICK a \in DOMAIN symbols :
           /\ r.name = symbols[a]
           /\ \/ r.kind = "exact" /\ a = va
              \/ /\ r.kind = "nearest" /\ a < va /\ va - a <= p.reach
                 /\ \A b \in DOMAIN symbols : b <= a \/ b > va
    <3>1. r.kind # "unresolved"
      BY <2>3, <2>4
    <3> HIDE DEF symbols
    <3>2. QED
      BY <2>2, <2>5, <2>6, <3>1, ResolvedIs
  <2>8. PICK s \in Usable(elf) : s.va = a /\ symbols[a] = s.name
    BY <1>2
  <2>9. Given(of, x)[va] = s.name
    BY <2>3, <2>4, <2>7, <2>8
  <2>10. r.kind = "nearest" => of.request.nearest
    BY <2>3, <2>4
  <2> HIDE DEF r, summary, calls, symbols
  <2>11. QED
    BY <1>2, <2>1, <2>7, <2>8, <2>9, <2>10 DEF IsOf
<1>5. QED
  BY <1>3, <1>4

\* What neither the model nor the pool nor a stub names is named by one of the files or maps.
LEMMA OutsideNow ==
  ASSUME FileInv, NameInv
  PROVE  OutsideNamesAreSymbols
<1> SUFFICES ASSUME AllNamed, NEW va \in DOMAIN names, quality[va] = External, FromOutside(NamesOffered[va])
             PROVE  \E k \in DOMAIN Of.externals :
                      \E s \in Usable(SymbolFile(Of.externals[k])) :
                        /\ names[va] = Normalized(<<s.name>>)
                        /\ \/ s.va = va
                           \/ /\ Of.externals[k].kind = "map" /\ Of.request.nearest /\ s.va < va
                              /\ va - s.va <= Of.externals[k].pair.reach
                              /\ \A other \in {t.va : t \in Usable(SymbolFile(Of.externals[k]))} : other <= s.va \/ other > va
  BY DEF OutsideNamesAreSymbols, SymbolFile
<1> DEFINE N == Len(sources)
           n == Len(Of.externals)
<1>1. SourcesAre /\ BestSoFar(N)
  BY DEF NameInv, AllNamed, AllMerged
<1>2. PICK k \in 0 .. N : va \in NamedBy(k) /\ names[va] = NameBy(k, va)
  BY <1>1 DEF BestSoFar, HoldsBest
<1>3. k \in DOMAIN NamesOffered[va]
  BY <1>2, OfferedIs
<1>4. k \notin {0, 1, N}
  BY <1>3 DEF FromOutside
<1>5. Of.externals \in Seq(Range(Of.externals)) /\ N = n + 2
  BY <1>1 DEF SourcesAre
<1>6. n \in Nat /\ DOMAIN Of.externals = 1 .. n /\ k \in 0 .. N
  BY <1>5
<1>7. k - 1 \in 1 .. n /\ (k - 1) + 1 = k
  <2>1. N = n + 2
    BY <1>5
  <2> HIDE DEF n, N
  <2>2. QED
    BY <1>4, <1>6, <2>1
<1> DEFINE x == Of.externals[k - 1]
           given == Given(Of, x)
<1>8. sources[k] = Source(Texts(given), External)
  <2>1. sources[(k - 1) + 1] = Source(Texts(given), External)
    BY <1>1, <1>7 DEF SourcesAre
  <2>2. QED
    BY <1>7, <2>1
<1>9. va \in DOMAIN given /\ names[va] = Normalized(<<given[va]>>)
  <2> HIDE DEF given
  <2>1. /\ va \in DOMAIN sources[k].names /\ names[va] = sources[k].names[va]
    BY <1>2, <1>4 DEF NamedBy, NameBy
  <2>2. sources[k].names = [a \in DOMAIN Texts(given) |-> Normalized(Texts(given)[a])]
    BY <1>8 DEF Source
  <2>3. DOMAIN Texts(given) = DOMAIN given /\ \A a \in DOMAIN given : Texts(given)[a] = <<given[a]>>
    BY DEF Texts
  <2>4. QED
    BY <2>1, <2>2, <2>3
<1>10. ExternalOK(x)
  <2>1. input \in Inputs
    BY DEF FileInv
  <2>2. x \in Range(Of.externals)
    BY <1>6, <1>7 DEF Range
  <2>3. QED
    BY <2>1, <2>2, ExternalsAssumption DEF Of
<1>11. IsOf(x, Of.request.nearest, va, given[va])
  BY <1>9, <1>10, GivenIs
<1>12. PICK s \in Usable(SymbolFile(x)) :
         /\ given[va] = s.name
         /\ \/ s.va = va
            \/ /\ x.kind = "map" /\ Of.request.nearest /\ s.va < va /\ va - s.va <= x.pair.reach
               /\ \A other \in {t.va : t \in Usable(SymbolFile(x))} : other <= s.va \/ other > va
  BY <1>11 DEF IsOf
<1>13. k - 1 \in DOMAIN Of.externals
  BY <1>6, <1>7
<1> HIDE DEF given
<1>14. QED
  BY <1>9, <1>12, <1>13

\* A name that only a file or a map gives is a symbol's that stands there, or the nearest below
\* where a map may say it (elf.rs, analysis.rs, load_symbol_target_symbols).
THEOREM OutsideHolds == RunSpec => []OutsideNamesAreSymbols
<1>1. RunInit => FileInv /\ NameInv
  BY FileStart, NameStart
<1>2. FileInv /\ NameInv /\ [RunNext]_runVars => FileInv' /\ NameInv'
  BY FileStep, NameStep
<1>3. FileInv /\ NameInv => OutsideNamesAreSymbols
  BY OutsideNow
<1>4. QED
  BY <1>1, <1>2, <1>3, PTL DEF RunSpec

-----------------------------------------------------------------------------
(* The stubs told by the slot they load.                                     *)

Families == {"lateInitializationError", "nullError", "nullArgError", "nullCastError", "rangeError", "writeError",
             "fieldAccessError"}

\* What a stub's family says of it, in whatever table it stands.
ByFamily(s) ==
  LET family == s.name[1]
  IN  /\ s.returns = IF family \in Families THEN FALSE ELSE TRUE
      /\ s.writes = IF family \in {"allocateMint", "invokeDartCode"} THEN TRUE ELSE FALSE
      /\ s.preserves = IF family \in {"slowTypeTest", "invokeDartCode"} THEN FALSE ELSE TRUE

LEMMA StubIs ==
  ASSUME NEW family, NEW fpu, NEW returns, NEW writes, NEW preserves,
         returns = IF family \in Families THEN FALSE ELSE TRUE,
         writes = IF family \in {"allocateMint", "invokeDartCode"} THEN TRUE ELSE FALSE,
         preserves = IF family \in {"slowTypeTest", "invokeDartCode"} THEN FALSE ELSE TRUE
  PROVE  ByFamily(Stub(<<family, fpu>>, returns, writes, preserves))
<1> DEFINE s == Stub(<<family, fpu>>, returns, writes, preserves)
<1>1. s = [name |-> <<family, fpu>>, returns |-> returns, writes |-> writes, preserves |-> preserves]
  BY DEF Stub
<1> HIDE DEF s
<1>2. s.name = <<family, fpu>> /\ s.returns = returns /\ s.writes = writes /\ s.preserves = preserves
  BY <1>1
<1>3. s.name[1] = family
  BY <1>2
<1>4. ByFamily(s)
  BY <1>2, <1>3 DEF ByFamily
<1>5. QED
  BY <1>4 DEF s

LEMMA RaisingIs ==
  ASSUME NEW families, NEW n \in Nat, Len(families) = n, \A k \in 1 .. n : families[k] \in Families,
         NEW first \in Nat, NEW o \in RaisingSlots(first, families)
  PROVE  ByFamily(Raising(first, families, o))
<1>1. PICK k \in 0 .. 2 * n - 1 : o = first + 8 * k
  BY DEF RaisingSlots
<1> DEFINE at == (o - first) \div 16 + 1
           fpu == IF (o - first) % 16 = 0 THEN "without" ELSE "with"
<1>2. at \in 1 .. n
  <2>1. o - first = 8 * k /\ k \in Nat /\ k < 2 * n
    BY <1>1
  <2>2. (8 * k) \div 16 \in 0 .. n - 1
    BY <2>1
  <2>3. QED
    BY <2>1, <2>2
<1> HIDE DEF at, fpu
<1>3. Raising(first, families, o) = Stub(<<families[at], fpu>>, FALSE, FALSE, TRUE)
  BY DEF Raising, at, fpu
<1>4. families[at] \in Families
  BY <1>2
<1>5. QED
  BY <1>3, <1>4, StubIs DEF Families

LEMMA TablesAre ==
  ASSUME NEW v \in DOMAIN Tables, NEW o \in DOMAIN Tables[v]
  PROVE  ByFamily(Tables[v][o])
<1>1. \A f \in {"with", "without"} : ByFamily(Mint(f)) /\ ByFamily(Overflow(f))
  BY StubIs DEF Mint, Overflow, Families
<1>2. ByFamily(SlowTypeTest) /\ ByFamily(Stub(<<"invokeDartCode", "">>, TRUE, TRUE, FALSE))
  BY StubIs DEF SlowTypeTest, Families
<1>3. CASE v = "3.5"
  <2>1. Tables[v] = Slots35
    BY <1>3 DEF Tables
  <2>2. Len(Slot35Names) = 6 /\ \A k \in 1 .. 6 : Slot35Names[k] \in Families
    BY DEF Slot35Names, Families
  <2>3. o \in RaisingSlots(\hC8, Slot35Names) => ByFamily(Raising(\hC8, Slot35Names, o))
    <3>1. \hC8 \in Nat /\ 6 \in Nat
      OBVIOUS
    <3>2. QED
      BY <2>2, <3>1, RaisingIs
  <2>4. \/ Slots35[o] \in {Mint("with"), Mint("without"), Overflow("with"), Overflow("without"), SlowTypeTest}
        \/ o \in RaisingSlots(\hC8, Slot35Names) /\ Slots35[o] = Raising(\hC8, Slot35Names, o)
    BY <2>1 DEF Slots35
  <2>5. QED
    BY <1>1, <1>2, <2>1, <2>3, <2>4
<1>4. CASE v = "3.12"
  <2>1. Tables[v] = Slots312
    BY <1>4 DEF Tables
  <2>2. Len(Slot312Names) = 7 /\ \A k \in 1 .. 7 : Slot312Names[k] \in Families
    BY DEF Slot312Names, Slot35Names, Families
  <2>3. o \in RaisingSlots(\hE8, Slot312Names) => ByFamily(Raising(\hE8, Slot312Names, o))
    <3>1. \hE8 \in Nat /\ 7 \in Nat
      OBVIOUS
    <3>2. QED
      BY <2>2, <3>1, RaisingIs
  <2>4. \/ Slots312[o] \in {Mint("with"), Mint("without"), Overflow("with"), Overflow("without"), SlowTypeTest,
                            Stub(<<"invokeDartCode", "">>, TRUE, TRUE, FALSE)}
        \/ o \in RaisingSlots(\hE8, Slot312Names) /\ Slots312[o] = Raising(\hE8, Slot312Names, o)
    <3> DEFINE known == RaisingSlots(\hE8, Slot312Names) \union {\hD0, \h158, \h160, \h190, \h198, \h1D8}
    <3>1. o \in known
      <4>1. DOMAIN Slots312 = known
        BY Zenon DEF Slots312
      <4> HIDE DEF known
      <4>2. QED
        BY <2>1, <4>1
    <3>2. Slots312[o] = CASE o = \hD0 -> Stub(<<"invokeDartCode", "">>, TRUE, TRUE, FALSE)
                          [] o = \h158 -> Mint("with") [] o = \h160 -> Mint("without")
                          [] o = \h190 -> Overflow("without") [] o = \h198 -> Overflow("with")
                          [] o = \h1D8 -> SlowTypeTest
                          [] OTHER -> Raising(\hE8, Slot312Names, o)
      BY <3>1 DEF Slots312
    <3> DEFINE x == Slots312[o]
               raised == Raising(\hE8, Slot312Names, o)
               dart == Stub(<<"invokeDartCode", "">>, TRUE, TRUE, FALSE)
    <3>3. CASE o \in {\hD0, \h158, \h160, \h190, \h198, \h1D8}
      <4>1. CASE o = \hD0
        BY <3>2, <4>1
      <4>2. CASE o = \h158
        BY <3>2, <4>2
      <4>3. CASE o = \h160
        BY <3>2, <4>3
      <4>4. CASE o = \h190
        BY <3>2, <4>4
      <4>5. CASE o = \h198
        BY <3>2, <4>5
      <4>6. CASE o = \h1D8
        BY <3>2, <4>6
      <4>7. QED
        BY <3>3, <4>1, <4>2, <4>3, <4>4, <4>5, <4>6
    <3>4. CASE o \notin {\hD0, \h158, \h160, \h190, \h198, \h1D8}
      <4>1. x = raised
        BY <3>2, <3>4
      <4>2. QED
        BY <3>1, <3>4, <4>1
    <3>5. QED
      BY <3>3, <3>4
  <2>5. QED
    BY <1>1, <1>2, <2>1, <2>3, <2>4
<1>5. QED
  BY <1>3, <1>4 DEF Tables

\* Code that can be read.
CodeOK(code) ==
  /\ IsFiniteSet(DOMAIN code)
  /\ \A va \in DOMAIN code : \E n \in Nat : DOMAIN code[va] = 1 .. n

LoadsOf(ops) == {k \in DOMAIN ops : ops[k][1] = "ldr" /\ ops[k][3] = THR /\ ops[k][4] \in Slots}

LEMMA HitIs ==
  ASSUME NEW ops, NEW n \in Nat, DOMAIN ops = 1 .. n, NEW v \in DOMAIN Tables, Hit(ops, Tables[v]) # 0
  PROVE  /\ Hit(ops, Tables[v]) \in LoadsOf(ops)
         /\ Hit(ops, Tables[v]) <= PrologueWindow
         /\ ops[Hit(ops, Tables[v])][4] \in DOMAIN Tables[v]
<1> DEFINE hits == {k \in DOMAIN ops : k <= PrologueWindow /\ ops[k][1] = "ldr" /\ ops[k][3] = THR
                                        /\ ops[k][4] \in DOMAIN Tables[v]}
<1>1. hits # {} /\ Hit(ops, Tables[v]) = Min(hits)
  BY DEF Hit
<1>2. hits \in SUBSET Nat
  OBVIOUS
<1>3. Min(hits) \in hits
  <2> HIDE DEF hits
  <2>1. QED
    BY <1>1, <1>2, MinOf
<1>4. DOMAIN Tables[v] \subseteq Slots
  BY DEF Slots
<1>5. QED
  BY <1>1, <1>3, <1>4 DEF LoadsOf

LEMMA PairCard ==
  ASSUME NEW x, NEW y, x # y
  PROVE  Cardinality({x, y}) = 2
<1>1. IsFiniteSet({y}) /\ Cardinality({y}) = 1
  BY FS_Singleton
<1>2. x \notin {y}
  OBVIOUS
<1>3. Cardinality({y} \union {x}) = Cardinality({y}) + 1
  BY <1>1, <1>2, FS_AddElement
<1>4. {y} \union {x} = {x, y}
  OBVIOUS
<1>5. Cardinality({x, y}) = Cardinality({y}) + 1
  BY <1>3, <1>4
<1>6. QED
  BY <1>1, <1>5

\* Where only stubs load slots, each one, a table that sees one sees what the true one does.
LEMMA SameHit ==
  ASSUME NEW ops, NEW n \in Nat, DOMAIN ops = 1 .. n, Cardinality(LoadsOf(ops)) <= 1,
         NEW v \in DOMAIN Tables, NEW w \in DOMAIN Tables,
         \A k \in LoadsOf(ops) : ops[k][4] \in DOMAIN Tables[w],
         Hit(ops, Tables[v]) # 0
  PROVE  Hit(ops, Tables[w]) = Hit(ops, Tables[v])
<1> DEFINE h == Hit(ops, Tables[v])
           hits == {k \in DOMAIN ops : k <= PrologueWindow /\ ops[k][1] = "ldr" /\ ops[k][3] = THR
                                        /\ ops[k][4] \in DOMAIN Tables[w]}
<1>1. h \in LoadsOf(ops) /\ h <= PrologueWindow
  BY HitIs
<1>2. \A k \in LoadsOf(ops) : k = h
  <2>1. IsFiniteSet(LoadsOf(ops))
    <3>1. IsFiniteSet(1 .. n)
      BY FS_Interval
    <3>2. LoadsOf(ops) \subseteq 1 .. n
      BY DEF LoadsOf
    <3>3. QED
      BY <3>1, <3>2, FS_Subset
  <2>2. SUFFICES ASSUME NEW k \in LoadsOf(ops), k # h PROVE FALSE
    OBVIOUS
  <2>3. Cardinality({k, h}) = 2 /\ {k, h} \subseteq LoadsOf(ops)
    <3> HIDE DEF h
    <3>1. Cardinality({k, h}) = 2
      BY <2>2, PairCard
    <3>2. QED
      BY <1>1, <3>1
  <2>4. Cardinality({k, h}) <= Cardinality(LoadsOf(ops)) /\ Cardinality(LoadsOf(ops)) \in Nat
    BY <2>1, <2>3, FS_Subset, FS_CardinalityType
  <2>5. QED
    BY <2>3, <2>4
<1>3. hits \subseteq LoadsOf(ops)
  <2>1. DOMAIN Tables[w] \subseteq Slots
    BY DEF Slots
  <2>2. QED
    BY <2>1 DEF LoadsOf
<1>4. h \in hits
  BY <1>1 DEF LoadsOf
<1>5. hits = {h}
  BY <1>2, <1>3, <1>4
<1>6. h \in Nat
  BY <1>1 DEF LoadsOf
<1>7. Min({h}) = h
  <2> HIDE DEF h
  <2>1. Min({h}) \in {h}
    BY <1>6, MinOf
  <2>2. QED
    BY <2>1
<1>8. QED
  BY <1>5, <1>7 DEF Hit

\* A function loads one slot at most, one of the table its code is of, and allocates nothing if it does.
Lonely(ops, w) ==
  /\ \E n \in Nat : DOMAIN ops = 1 .. n
  /\ Cardinality(LoadsOf(ops)) <= 1
  /\ LoadsOf(ops) # {} => AllocatedClass(ops) = 0
  /\ \A k \in LoadsOf(ops) : ops[k][4] \in DOMAIN Tables[w]

ToldBy(ops, v) == IsStub(ops, Tables[v]) \/ IsThunk(ops, Tables[v])

LEMMA ToldAlike ==
  ASSUME NEW ops, NEW v \in DOMAIN Tables, NEW w \in DOMAIN Tables, Lonely(ops, w), Hit(ops, Tables[v]) # 0
  PROVE  /\ Hit(ops, Tables[w]) = Hit(ops, Tables[v])
         /\ IsStub(ops, Tables[w]) <=> IsStub(ops, Tables[v])
         /\ IsThunk(ops, Tables[w]) <=> IsThunk(ops, Tables[v])
         /\ AllocatedClass(ops) = 0
<1>1. PICK n \in Nat : DOMAIN ops = 1 .. n
  BY DEF Lonely
<1>2. Hit(ops, Tables[w]) = Hit(ops, Tables[v])
  BY <1>1, SameHit DEF Lonely
<1>3. Hit(ops, Tables[v]) \in LoadsOf(ops)
  BY <1>1, HitIs
<1>4. AllocatedClass(ops) = 0
  BY <1>3 DEF Lonely
<1>5. QED
  BY <1>2, <1>4 DEF IsStub, IsThunk

\* What is told by one name is the same stub.
LEMMA NamedAlike ==
  ASSUME NEW ops, NEW v \in DOMAIN Tables, NEW w \in DOMAIN Tables, Lonely(ops, w), ToldBy(ops, v),
         StubName(ops, Tables[w]) = StubName(ops, Tables[v])
  PROVE  /\ SlotHit(ops, Tables[w]).returns = SlotHit(ops, Tables[v]).returns
         /\ SlotHit(ops, Tables[w]).writes = SlotHit(ops, Tables[v]).writes
         /\ SlotHit(ops, Tables[w]).preserves = SlotHit(ops, Tables[v]).preserves
<1>1. Hit(ops, Tables[v]) # 0
  BY DEF ToldBy, IsStub, IsThunk
<1>2. /\ Hit(ops, Tables[w]) = Hit(ops, Tables[v])
      /\ IsStub(ops, Tables[w]) <=> IsStub(ops, Tables[v])
  BY <1>1, ToldAlike
<1> DEFINE a == SlotHit(ops, Tables[v])
           b == SlotHit(ops, Tables[w])
<1>3. a.name = b.name
  <2>1. CASE IsStub(ops, Tables[v])
    <3>1. <<"stub", b.name>> = <<"stub", a.name>>
      BY <1>2, <2>1 DEF StubName
    <3> HIDE DEF a, b
    <3>2. QED
      BY <3>1
  <2>2. CASE ~IsStub(ops, Tables[v])
    <3>1. <<"thunk", b.name>> = <<"thunk", a.name>>
      BY <1>2, <2>2 DEF StubName
    <3> HIDE DEF a, b
    <3>2. QED
      BY <3>1
  <2>3. QED
    BY <2>1, <2>2
<1>4. PICK n \in Nat : DOMAIN ops = 1 .. n
  BY DEF Lonely
<1> DEFINE o == ops[Hit(ops, Tables[v])][4]
<1>5. o \in DOMAIN Tables[v] /\ o \in DOMAIN Tables[w]
  BY <1>1, <1>2, <1>4, HitIs
<1>6. a = Tables[v][o] /\ b = Tables[w][o]
  BY <1>2 DEF SlotHit
<1>7. ByFamily(a) /\ ByFamily(b)
  BY <1>5, <1>6, TablesAre
<1> HIDE DEF a, b
<1>8. a.returns = b.returns /\ a.writes = b.writes /\ a.preserves = b.preserves
  BY <1>3, <1>7 DEF ByFamily
<1>9. QED
  BY <1>8 DEF a, b

\* The table that explains the code best names what the true one does.
LEMMA BestIsTrue ==
  ASSUME NEW code, CodeOK(code), NEW v \in DOMAIN Tables, NEW w \in DOMAIN Tables,
         \A va \in DOMAIN code : Lonely(code[va], w), Best(code, Tables[v])
  PROVE  Explained(code, Tables[w]) = Explained(code, Tables[v])
<1> DEFINE E(t) == Explained(code, t)
           V == DOMAIN E(Tables[v])
           W == DOMAIN E(Tables[w])
<1>1. \/ Cardinality(W) < Cardinality(V)
      \/ E(Tables[w]) = E(Tables[v])
  BY DEF Best
<1>2. /\ V = {va \in DOMAIN code : ToldBy(code[va], v)}
      /\ W = {va \in DOMAIN code : ToldBy(code[va], w)}
  BY DEF Explained, ToldBy
<1>3. V \subseteq W
  <2>1. ASSUME NEW va \in V PROVE va \in W
    <3>1. va \in DOMAIN code /\ ToldBy(code[va], v)
      BY <1>2
    <3>2. Hit(code[va], Tables[v]) # 0
      BY <3>1 DEF ToldBy, IsStub, IsThunk
    <3>3. Lonely(code[va], w)
      BY <3>1
    <3>4. ToldBy(code[va], w)
      BY <3>1, <3>2, <3>3, ToldAlike DEF ToldBy
    <3>5. QED
      BY <1>2, <3>1, <3>4
  <2>2. QED
    BY <2>1
<1>4. IsFiniteSet(W)
  BY <1>2, FS_Subset DEF CodeOK
<1> HIDE DEF V, W
<1>5. Cardinality(V) <= Cardinality(W) /\ Cardinality(V) \in Nat /\ Cardinality(W) \in Nat
  BY <1>3, <1>4, FS_Subset, FS_CardinalityType
<1>6. QED
  BY <1>1, <1>5

\* A name is an allocation's, or that of the true table.
LEMMA GivenByStub ==
  ASSUME NEW code, CodeOK(code), NEW version, NEW compressed, NEW w \in DOMAIN Tables,
         \A va \in DOMAIN code : Lonely(code[va], w),
         NEW va \in DOMAIN NamesGiven(code, version, compressed)
  PROVE  \/ NamesGiven(code, version, compressed)[va][1] = "allocate"
         \/ /\ Status(code, version, compressed) = "named" /\ version \in DOMAIN Tables
            /\ va \in DOMAIN code /\ ToldBy(code[va], version)
            /\ NamesGiven(code, version, compressed)[va] = StubName(code[va], Tables[version])
<1> DEFINE table == Tables[version]
           explained == Explained(code, table)
           found == Over(explained, AllocationNames(code))
           given == NamesGiven(code, version, compressed)
           status == Status(code, version, compressed)
<1>1. /\ DOMAIN AllocationNames(code) = Allocating(code)
      /\ \A x \in Allocating(code) : AllocationNames(code)[x][1] = "allocate"
  BY DEF AllocationNames
<1>2. /\ DOMAIN explained = {x \in DOMAIN code : ToldBy(code[x], version)}
      /\ \A x \in DOMAIN explained : explained[x] = StubName(code[x], table)
  BY DEF Explained, ToldBy
<1>3. /\ DOMAIN found = DOMAIN explained \union Allocating(code)
      /\ \A x \in DOMAIN found : found[x] = IF x \in DOMAIN explained THEN explained[x] ELSE AllocationNames(code)[x]
  <2> HIDE DEF explained
  <2>1. QED
    BY <1>1 DEF Over
<1>4. status \in {"named", "table_disagreement"} => version \in DOMAIN Tables
  BY DEF Status, Known
<1>5. CASE status = "named"
  <2>1. given = found
    BY <1>5 DEF NamesGiven
  <2> HIDE DEF found, explained, table, status
  <2>2. QED
    BY <1>1, <1>2, <1>3, <1>4, <1>5, <2>1 DEF table, status
<1>6. CASE status = "table_disagreement"
  <2>1. given = [x \in Allocating(code) |-> found[x]]
    BY <1>6 DEF NamesGiven
  <2>2. va \in Allocating(code) /\ given[va] = found[va]
    <3> HIDE DEF found
    <3>1. QED
      BY <2>1
  <2>3. va \in DOMAIN code /\ AllocatedClass(code[va]) # 0
    BY <2>2 DEF Allocating
  <2>4. va \notin DOMAIN explained
    <3>1. SUFFICES ASSUME va \in DOMAIN explained PROVE FALSE
      OBVIOUS
    <3>2. Hit(code[va], table) # 0
      BY <1>2, <3>1 DEF ToldBy, IsStub, IsThunk
    <3>3. Lonely(code[va], w)
      BY <2>3
    <3>4. AllocatedClass(code[va]) = 0
      BY <1>4, <1>6, <3>2, <3>3, ToldAlike
    <3>5. QED
      BY <2>3, <3>4
  <2>5. found[va] = AllocationNames(code)[va]
    <3> HIDE DEF found, explained
    <3>1. QED
      BY <1>3, <2>2, <2>4
  <2>6. QED
    BY <1>1, <2>2, <2>5
<1>7. CASE status \notin {"named", "table_disagreement"}
  <2>1. given = AllocationNames(code)
    BY <1>7 DEF NamesGiven
  <2>2. QED
    BY <1>1, <2>1
<1>8. QED
  BY <1>5, <1>6, <1>7

CodeInv == phase = "name" => CodeOK(Listings)

LEMMA CodeRead ==
  ASSUME FileInv, PlaceInv, phase = "done"
  PROVE  CodeOK(Listings)
<1> DEFINE D == DOMAIN listing
           n == Len(model.functions)
           code == Listings
<1>1. D \subseteq DOMAIN model.functions /\ \A i \in D : \E m \in Nat : DOMAIN listing[i] = 1 .. m
  <2>1. phase \in Modelled
    BY DEF Modelled, Passed
  <2>2. Chosen \subseteq DOMAIN model.functions
    BY <2>1, ChosenAre
  <2>3. /\ left = {} /\ (cursor.fn # None => cursor.fn \in left)
        /\ D \subseteq (Chosen \ left) \union ({cursor.fn} \ {None})
        /\ \A i \in D : Listed(i)
    BY DEF PlaceInv
  <2>4. ASSUME NEW i \in D PROVE \E m \in Nat : DOMAIN listing[i] = 1 .. m
    <3>1. PICK m \in Nat : listing[i] = Places(i, m)
      BY <2>3 DEF Listed
    <3>2. QED
      BY <3>1 DEF Places
  <2>5. QED
    BY <2>2, <2>3, <2>4
<1>2. IsFiniteSet(D)
  <2>1. n \in Nat /\ DOMAIN model.functions = 1 .. n
    BY ModelIsOK, ListOf DEF ModelOK, List, Modelled, Passed
  <2>2. IsFiniteSet(1 .. n)
    <3> HIDE DEF n
    <3>1. QED
      BY <2>1, FS_Interval
  <2>3. QED
    BY <1>1, <2>1, <2>2, FS_Subset
<1>3. DOMAIN code = {Fn(i).start : i \in D}
  BY DEF Listings
<1>4. IsFiniteSet(DOMAIN code)
  <2> DEFINE start == [i \in D |-> Fn(i).start]
             S == DOMAIN code
  <2>1. start \in Surjection(D, S)
    BY <1>3 DEF Surjection
  <2> HIDE DEF D, S, start
  <2>2. IsFiniteSet(S)
    BY <1>2, <2>1, FS_Surjection
  <2>3. QED
    BY <2>2 DEF S
<1>5. ASSUME NEW va \in DOMAIN code
      PROVE  \E m \in Nat : DOMAIN code[va] = 1 .. m
  <2> DEFINE i == CHOOSE k \in D : Fn(k).start = va
  <2>1. i \in D
    BY <1>3
  <2>2. DOMAIN code[va] = DOMAIN listing[i]
    BY DEF Listings
  <2> HIDE DEF i
  <2>3. QED
    BY <1>1, <2>1, <2>2
<1>6. QED
  BY <1>4, <1>5 DEF CodeOK

LEMMA CodeStep ==
  ASSUME FileInv, PlaceInv, CodeInv, [RunNext]_runVars
  PROVE  CodeInv'
<1>1. SUFFICES ASSUME phase' = "name" PROVE CodeInv'
  BY DEF CodeInv
<1>2. phase \in {"done", "name"} /\ UNCHANGED loadVars
  <2>1. CASE Read
    <3>1. phase' # "name"
      BY <2>1 DEF Read, ReadNext, Open, Carve, Answered, Validate, Select, Skip, StartFunction,
                  Decode, FinishFunction, Done
    <3>2. QED
      BY <1>1, <3>1
  <2>2. CASE Name \/ Merge
    BY <2>2 DEF Name, Merge, readVars
  <2>3. CASE NoMap \/ Emit \/ Annotate
    BY <1>1, <2>3 DEF NoMap, Emit, Annotate, NotesNext, readVars
  <2>4. CASE UNCHANGED runVars
    BY <1>1, <2>4 DEF runVars, readVars
  <2>5. QED
    BY <2>1, <2>2, <2>3, <2>4 DEF RunNext
<1>3. Listings' = Listings
  BY <1>2 DEF loadVars, Listings, Fn
<1>4. CodeOK(Listings)
  BY <1>2, CodeRead DEF CodeInv
<1>5. QED
  BY <1>3, <1>4 DEF CodeInv

\* What a run takes for a stub is one, and does what the slot it loads does.
LEMMA StubsNow ==
  ASSUME NameInv, CodeInv
  PROVE  StubsAreNamedRight
<1> SUFFICES ASSUME phase = "name", StubsOnly PROVE StubsAreNamedRight
  BY DEF StubsAreNamedRight
<1> DEFINE code == Listings
           v == Of.sdk.claimed
           w == Of.sdk.true
           compressed == Compressed
<1>1. CodeOK(code) /\ naming = StubNaming(code, v, compressed)
  BY DEF CodeInv, NameInv
<1>2. w \in DOMAIN Tables
  BY DEF StubsOnly
<1>3. \A va \in DOMAIN code : Lonely(code[va], w)
  <2> TAKE va \in DOMAIN code
  <2> DEFINE ops == code[va]
  <2>1. {k \in DOMAIN ops : LoadsSlot(<<ops[k]>>)} = LoadsOf(ops)
    BY DEF LoadsSlot, LoadsOf
  <2>2. LoadsOf(ops) # {} => LoadsSlot(ops)
    BY DEF LoadsSlot, LoadsOf
  <2>3. /\ Cardinality({k \in DOMAIN ops : LoadsSlot(<<ops[k]>>)}) <= 1
        /\ LoadsSlot(ops) => AllocatedClass(ops) = 0
        /\ \A k \in {k \in DOMAIN ops : LoadsSlot(<<ops[k]>>)} : ops[k][4] \in DOMAIN Tables[w]
    BY DEF StubsOnly, TrueTable
  <2>4. \E n \in Nat : DOMAIN ops = 1 .. n
    BY <1>1 DEF CodeOK
  <2> HIDE DEF ops
  <2>5. Lonely(ops, w)
    BY <2>1, <2>2, <2>3, <2>4 DEF Lonely
  <2>6. QED
    BY <2>5 DEF ops
<1> HIDE DEF code, v, w, compressed
<1> DEFINE status == Status(code, v, compressed)
           given == NamesGiven(code, v, compressed)
<1>4. /\ naming.names = given
      /\ naming.nonReturning = NonReturning(code, v, compressed)
      /\ naming.effects = Effects(code, v, compressed)
  BY <1>1 DEF StubNaming
<1>5. ASSUME NEW va \in DOMAIN given
      PROVE  \/ given[va][1] = "allocate"
             \/ status = "named" /\ v \in DOMAIN Tables /\ va \in DOMAIN code /\ ToldBy(code[va], v)
                /\ given[va] = StubName(code[va], Tables[v])
  BY <1>1, <1>2, <1>3, GivenByStub
<1>6. ASSUME NEW va \in DOMAIN code, status = "named", ToldBy(code[va], v)
      PROVE  /\ v \in DOMAIN Tables /\ Hit(code[va], Tables[v]) # 0 /\ Lonely(code[va], w)
             /\ StubName(code[va], Tables[w]) = StubName(code[va], Tables[v])
  <2>1. v \in DOMAIN Tables /\ Best(code, Tables[v])
    BY <1>6 DEF Status, Known
  <2>2. Explained(code, Tables[w]) = Explained(code, Tables[v])
    BY <1>1, <1>2, <1>3, <2>1, BestIsTrue
  <2>3. va \in DOMAIN Explained(code, Tables[v]) /\ Explained(code, Tables[v])[va] = StubName(code[va], Tables[v])
    BY <1>6 DEF Explained, ToldBy
  <2>4. Explained(code, Tables[w])[va] = StubName(code[va], Tables[w])
    <3>1. va \in DOMAIN Explained(code, Tables[w])
      BY <2>2, <2>3
    <3>2. QED
      BY <3>1 DEF Explained
  <2>5. Hit(code[va], Tables[v]) # 0
    BY <1>6 DEF ToldBy, IsStub, IsThunk
  <2>6. QED
    BY <1>3, <2>1, <2>2, <2>3, <2>4, <2>5
<1>7. ASSUME NEW va \in DOMAIN given
      PROVE  given[va][1] = "allocate" \/ given[va] = StubName(code[va], Tables[w])
  BY <1>5, <1>6
<1>8. ASSUME NEW va \in NonReturning(code, v, compressed)
      PROVE  IsStub(code[va], Tables[w]) /\ ~SlotHit(code[va], Tables[w]).returns
  <2>1. va \in DOMAIN code /\ status = "named" /\ IsStub(code[va], Tables[v]) /\ ~SlotHit(code[va], Tables[v]).returns
    BY DEF NonReturning
  <2>2. ToldBy(code[va], v)
    BY <2>1 DEF ToldBy
  <2>3. SlotHit(code[va], Tables[w]).returns = SlotHit(code[va], Tables[v]).returns
    BY <1>2, <1>6, <2>1, <2>2, NamedAlike
  <2>4. IsStub(code[va], Tables[w])
    BY <1>2, <1>6, <2>1, <2>2, ToldAlike
  <2>5. QED
    BY <2>1, <2>3, <2>4
<1> DEFINE effects == Effects(code, v, compressed)
           slot(va) == SlotHit(code[va], Tables[w])
<1>9. ASSUME NEW va \in DOMAIN effects, given[va][1] # "allocate"
      PROVE  effects[va].writes = slot(va).writes /\ effects[va].preserves = slot(va).preserves
  <2>1. va \in DOMAIN given
    BY DEF Effects
  <2>2. status = "named" /\ v \in DOMAIN Tables /\ va \in DOMAIN code /\ ToldBy(code[va], v)
    BY <1>5, <1>9, <2>1
  <2> DEFINE s == SlotHit(code[va], Tables[v])
  <2>3. effects[va] = [writes |-> s.writes, preserves |-> s.preserves]
    BY <1>6, <2>1, <2>2 DEF Effects
  <2>4. s.writes = slot(va).writes /\ s.preserves = slot(va).preserves
    BY <1>2, <1>6, <2>2, NamedAlike
  <2> HIDE DEF effects, slot, s
  <2>5. QED
    BY <2>3, <2>4
<1>10. DOMAIN effects = DOMAIN given
  BY DEF Effects
<1> HIDE DEF given, effects, slot
<1>11. /\ \A va \in DOMAIN naming.names :
            naming.names[va][1] = "allocate" \/ naming.names[va] = StubName(code[va], Tables[w])
       /\ \A va \in naming.nonReturning : IsStub(code[va], Tables[w]) /\ ~SlotHit(code[va], Tables[w]).returns
       /\ \A va \in DOMAIN naming.effects :
            \/ naming.names[va][1] = "allocate"
            \/ [f \in {"writes", "preserves"} |-> naming.effects[va][f]]
               = [f \in {"writes", "preserves"} |-> slot(va)[f]]
  <2>1. ASSUME NEW va \in DOMAIN effects, given[va][1] # "allocate"
        PROVE  [f \in {"writes", "preserves"} |-> effects[va][f]] = [f \in {"writes", "preserves"} |-> slot(va)[f]]
    BY <1>9, <2>1
  <2>2. QED
    BY <1>4, <1>7, <1>8, <2>1 DEF effects, given
<1>12. QED
  BY <1>11 DEF StubsAreNamedRight, TrueTable, code, w, slot

\* Code whose slots only stubs load is named by the table of its own SDK or not at all, however
\* the version it claims was read (is_best_scoring).
THEOREM StubsHold == RunSpec => []StubsAreNamedRight
<1>1. RunInit => FileInv /\ PlaceInv /\ NameInv /\ CodeInv
  BY FileStart, PlaceStart, NameStart DEF RunInit, ReadInit, CodeInv
<1>2. FileInv /\ PlaceInv /\ NameInv /\ CodeInv /\ [RunNext]_runVars => FileInv' /\ PlaceInv' /\ NameInv' /\ CodeInv'
  BY FileStep, PlaceStep, NameStep, CodeStep
<1>3. NameInv /\ CodeInv => StubsAreNamedRight
  BY StubsNow
<1>4. QED
  BY <1>1, <1>2, <1>3, PTL DEF RunSpec

-----------------------------------------------------------------------------
(* Induction over numbers, and functions given by their next value.          *)

LEMMA Induction ==
  ASSUME NEW T, 0 \in T, \A n \in Nat : n \in T => n + 1 \in T
  PROVE  \A n \in Nat : n \in T
<1> DEFINE S == {n \in Nat : n \notin T}
<1>1. SUFFICES ASSUME S # {} PROVE FALSE
  OBVIOUS
<1>2. PICK m \in S : \A y \in S : m <= y
  BY <1>1, LeastNumber
<1>3. m \in Nat /\ m # 0
  OBVIOUS
<1>4. m - 1 \in Nat /\ m - 1 \notin S
  BY <1>2, <1>3
<1>5. (m - 1) + 1 \in T
  BY <1>4
<1>6. (m - 1) + 1 = m
  BY <1>3
<1>7. QED
  BY <1>5, <1>6

\* A function that starts with base and goes on by the n-th function of step.
Follows(h, S, base, step) ==
  h \in [Nat -> S] /\ h[0] = base /\ \A n \in Nat : h[n + 1] = step[n + 1][h[n]]

LEMMA Recursion ==
  ASSUME NEW S, NEW base \in S, NEW step \in [Nat -> [S -> S]]
  PROVE  \E h : Follows(h, S, base, step)
<1> DEFINE Begun(n) == {h \in [0 .. n -> S] : /\ h[0] = base
                                              /\ \A k \in 0 .. n : k # n => h[k + 1] = step[k + 1][h[k]]}
           T == {n \in Nat : Begun(n) # {}}
<1>1. 0 \in T
  <2>1. [k \in 0 .. 0 |-> base] \in Begun(0)
    OBVIOUS
  <2>2. QED
    BY <2>1
<1>2. ASSUME NEW n \in Nat, n \in T PROVE n + 1 \in T
  <2>1. PICK h \in Begun(n) : TRUE
    BY <1>2
  <2> DEFINE g == [k \in 0 .. n + 1 |-> IF k <= n THEN h[k] ELSE step[n + 1][h[n]]]
  <2>2. h[n] \in S /\ step[n + 1] \in [S -> S]
    BY <2>1
  <2>3. g \in [0 .. n + 1 -> S]
    <3>1. \A k \in 0 .. n + 1 : k <= n => k \in 0 .. n
      OBVIOUS
    <3>2. QED
      BY <2>1, <2>2, <3>1
  <2>4. g[0] = base
    BY <2>1
  <2>5. ASSUME NEW k \in 0 .. n + 1, k # n + 1 PROVE g[k + 1] = step[k + 1][g[k]]
    <3>1. k \in 0 .. n /\ g[k] = h[k]
      BY <2>5
    <3>2. CASE k = n
      BY <3>1, <3>2
    <3>3. CASE k # n
      BY <2>1, <3>1, <3>3
    <3>4. QED
      BY <3>2, <3>3
  <2>6. g \in Begun(n + 1)
    BY <2>3, <2>4, <2>5
  <2> HIDE DEF Begun, g
  <2>7. QED
    BY <2>6
<1>3. \A n \in Nat : n \in T
  <2> HIDE DEF T
  <2>1. QED
    BY <1>1, <1>2, Induction
<1>4. ASSUME NEW n \in Nat, NEW m \in Nat, n <= m, NEW g \in Begun(n), NEW h \in Begun(m)
      PROVE  \A k \in 0 .. n : g[k] = h[k]
  <2> DEFINE A == {k \in Nat : k <= n => g[k] = h[k]}
  <2>1. 0 \in A
    OBVIOUS
  <2>2. ASSUME NEW k \in Nat, k \in A PROVE k + 1 \in A
    <3>1. SUFFICES ASSUME k + 1 <= n PROVE g[k + 1] = h[k + 1]
      OBVIOUS
    <3>2. k \in 0 .. n /\ k # n /\ k \in 0 .. m /\ k # m
      BY <1>4, <3>1
    <3>3. g[k] = h[k]
      BY <2>2, <3>2
    <3>4. QED
      BY <3>2, <3>3
  <2>3. \A k \in Nat : k \in A
    <3> HIDE DEF A
    <3>1. QED
      BY <2>1, <2>2, Induction
  <2>4. QED
    BY <2>3
<1> DEFINE of(n) == CHOOSE h \in Begun(n) : TRUE
           f == [n \in Nat |-> of(n)[n]]
<1>5. \A n \in Nat : of(n) \in Begun(n)
  BY <1>3
<1> HIDE DEF of
<1>6. f \in [Nat -> S]
  <2>1. \A n \in Nat : of(n)[n] \in S
    BY <1>5
  <2>2. QED
    BY <2>1
<1>7. f[0] = base
  BY <1>5
<1>8. ASSUME NEW n \in Nat PROVE f[n + 1] = step[n + 1][f[n]]
  <2>1. of(n + 1) \in Begun(n + 1) /\ of(n) \in Begun(n)
    BY <1>5
  <2>2. of(n)[n] = of(n + 1)[n]
    <3> HIDE DEF Begun
    <3>1. \A k \in 0 .. n : of(n)[k] = of(n + 1)[k]
      BY <1>4, <2>1
    <3>2. QED
      BY <3>1
  <2>3. of(n + 1)[n + 1] = step[n + 1][of(n + 1)[n]]
    BY <2>1
  <2>4. QED
    BY <2>2, <2>3
<1>9. Follows(f, S, base, step)
  BY <1>6, <1>7, <1>8 DEF Follows
<1>10. QED
  BY <1>9

\* The same of a function on the first numbers.
FollowsTo(N, h, S, base, step) ==
  h \in [0 .. N -> S] /\ h[0] = base /\ \A n \in 1 .. N : h[n] = step[n][h[n - 1]]

LEMMA RecursionTo ==
  ASSUME NEW N \in Nat, NEW S, NEW base \in S, NEW step \in [1 .. N -> [S -> S]]
  PROVE  \E h : FollowsTo(N, h, S, base, step)
<1> DEFINE go == [n \in Nat |-> IF n \in 1 .. N THEN step[n] ELSE [x \in S |-> x]]
<1>1. go \in [Nat -> [S -> S]]
  <2>1. [x \in S |-> x] \in [S -> S]
    OBVIOUS
  <2>2. QED
    BY <2>1
<1>2. PICK g : Follows(g, S, base, go)
  <2> HIDE DEF go
  <2>1. QED
    BY <1>1, Recursion
<1> DEFINE h == [n \in 0 .. N |-> g[n]]
<1>3. h \in [0 .. N -> S]
  BY <1>2 DEF Follows
<1>4. h[0] = base
  BY <1>2 DEF Follows
<1>5. ASSUME NEW n \in 1 .. N PROVE h[n] = step[n][h[n - 1]]
  <2>1. n - 1 \in Nat /\ (n - 1) + 1 = n /\ n - 1 \in 0 .. N /\ n \in 0 .. N /\ n \in Nat
    OBVIOUS
  <2>2. g[(n - 1) + 1] = go[(n - 1) + 1][g[n - 1]]
    BY <1>2, <2>1 DEF Follows
  <2>3. go[n] = step[n]
    BY <2>1
  <2> HIDE DEF go
  <2>4. g[n] = step[n][g[n - 1]]
    BY <2>1, <2>2, <2>3
  <2>5. h[n] = g[n] /\ h[n - 1] = g[n - 1]
    BY <2>1
  <2>6. QED
    BY <2>4, <2>5
<1> HIDE DEF h
<1>6. FollowsTo(N, h, S, base, step)
  BY <1>3, <1>4, <1>5 DEF FollowsTo
<1>7. QED
  BY <1>6

-----------------------------------------------------------------------------
(* The alignment of a rendered body with the finished one.                   *)

LEMMA BodyIs ==
  ASSUME BodyOK(body)
  PROVE  /\ Len(body.rendered) \in Nat /\ DOMAIN body.rendered = 1 .. Len(body.rendered)
         /\ Len(body.finished) \in Nat /\ DOMAIN body.finished = 1 .. Len(body.finished)
         /\ \A l \in DOMAIN body.rendered : body.rendered[l] \in DOMAIN ReadsOf
         /\ \A r \in DOMAIN body.finished : /\ body.finished[r].code \in DOMAIN ReadsOf
                                           /\ body.finished[r].from \in 0 .. Len(body.rendered)
<1>1. List(body.rendered) /\ List(body.finished)
  BY DEF BodyOK
<1>2. /\ \A l \in DOMAIN body.rendered : body.rendered[l] \in Range(body.rendered)
      /\ \A r \in DOMAIN body.finished : body.finished[r] \in Range(body.finished)
  BY <1>1, ListOf
<1>3. QED
  BY <1>1, <1>2, ListOf DEF BodyOK

Like(l, r) == body.rendered[l] = body.finished[r].code

\* Lines that are left are in their order.
LEMMA InOrder ==
  ASSUME BodyOK(body),
         NEW l \in DOMAIN body.rendered, NEW r \in DOMAIN body.finished, Survived(l, r),
         NEW k \in DOMAIN body.rendered, NEW q \in DOMAIN body.finished, Survived(k, q)
  PROVE  (l < k <=> r < q) /\ (l = k <=> r = q)
<1>1. /\ l \in Nat \ {0} /\ k \in Nat \ {0} /\ r \in Nat /\ q \in Nat
      /\ body.finished[r].from = l /\ body.finished[q].from = k
  BY BodyIs DEF Survived
<1>2. r < q => l < k
  BY <1>1 DEF BodyOK
<1>3. q < r => k < l
  BY <1>1 DEF BodyOK
<1>4. QED
  BY <1>1, <1>2, <1>3

\* Lines that are alike are both left, if what changed looks like nothing else.
LEMMA AlikeAreLeft ==
  ASSUME BodyOK(body), ChangesAreUnlike,
         NEW l \in DOMAIN body.rendered, NEW r \in DOMAIN body.finished, Like(l, r)
  PROVE  /\ \E q \in DOMAIN body.finished : Survived(l, q)
         /\ \E k \in DOMAIN body.rendered : Survived(k, r)
<1>1. l \notin Gone
  BY DEF ChangesAreUnlike, Like
<1>2. PICK q \in DOMAIN body.finished : Survived(l, q)
  BY <1>1 DEF Gone
<1>3. ASSUME r \in Fresh PROVE FALSE
  <2>1. body.finished[q].code = body.finished[r].code
    BY <1>2 DEF Survived, Like
  <2>2. q = r
    BY <1>3, <2>1 DEF ChangesAreUnlike
  <2>3. QED
    BY <1>2, <1>3, <2>2 DEF Fresh
<1>4. QED
  BY <1>2, <1>3 DEF Fresh

LEMMA ResyncIs ==
  ASSUME BodyOK(body), NEW l \in DOMAIN body.rendered, NEW r \in DOMAIN body.finished, ~Like(l, r)
  PROVE  \/ /\ Resync(l, r) = <<l + 1, r>>
            /\ \A s, t \in Nat : /\ s + t < Window /\ l + s \in DOMAIN body.rendered
                                 /\ r + t \in DOMAIN body.finished
                                 => ~Like(l + s, r + t)
         \/ \E s, t \in Nat :
              /\ Resync(l, r) = <<l + s, r + t>>
              /\ s + t >= 1 /\ s + t < Window
              /\ l + s \in DOMAIN body.rendered /\ r + t \in DOMAIN body.finished
              /\ Like(l + s, r + t)
              /\ \A i, j \in Nat : /\ i + j < s + t /\ l + i \in DOMAIN body.rendered
                                   /\ r + j \in DOMAIN body.finished
                                   => ~Like(l + i, r + j)
<1> DEFINE found == {f \in (1 .. Window - 1) \X (0 .. Window - 1) :
                  /\ f[2] <= f[1]
                  /\ l + f[2] <= Len(body.rendered) /\ r + f[1] - f[2] <= Len(body.finished)
                  /\ body.rendered[l + f[2]] = body.finished[r + f[1] - f[2]].code}
           Ds == {f[1] : f \in found}
           least == Min(Ds)
           Ss == {f[2] : f \in {g \in found : g[1] = least}}
           skip == Min(Ss)
<1>1. Resync(l, r) = IF found = {} THEN <<l + 1, r>> ELSE <<l + skip, r + least - skip>>
  BY DEF Resync
<1>2. Window \in Nat /\ l \in Nat \ {0} /\ r \in Nat \ {0}
  BY NotesAssumption, BodyIs
<1>3. ASSUME NEW s \in Nat, NEW t \in Nat, s + t < Window, l + s \in DOMAIN body.rendered,
             r + t \in DOMAIN body.finished, Like(l + s, r + t)
      PROVE  <<s + t, s>> \in found
  <2>1. s + t # 0
    <3>1. SUFFICES ASSUME s + t = 0 PROVE FALSE
      OBVIOUS
    <3>2. s = 0 /\ t = 0
      BY <3>1
    <3>3. QED
      BY <1>2, <1>3, <3>2
  <2>2. <<s + t, s>> \in (1 .. Window - 1) \X (0 .. Window - 1)
    BY <1>2, <1>3, <2>1
  <2>3. r + (s + t) - s = r + t /\ l + s <= Len(body.rendered) /\ r + t <= Len(body.finished)
    BY <1>2, <1>3, BodyIs
  <2>4. QED
    BY <1>3, <2>2, <2>3 DEF Like
<1>4. ASSUME NEW f \in found
      PROVE  /\ f[2] \in Nat /\ f[1] - f[2] \in Nat /\ f[1] >= 1 /\ f[1] < Window /\ f[1] \in Nat
             /\ l + f[2] \in DOMAIN body.rendered /\ r + (f[1] - f[2]) \in DOMAIN body.finished
             /\ Like(l + f[2], r + (f[1] - f[2]))
  <2>1. PICK d \in 1 .. Window - 1, s \in 0 .. Window - 1 : f = <<d, s>>
    OBVIOUS
  <2>2. f[1] = d /\ f[2] = s
    BY <2>1
  <2>3. /\ s <= d /\ l + s <= Len(body.rendered) /\ r + d - s <= Len(body.finished)
        /\ body.rendered[l + s] = body.finished[r + d - s].code
    BY <2>2
  <2>4. r + d - s = r + (d - s)
    BY <1>2
  <2>5. /\ s \in Nat /\ d - s \in Nat /\ d >= 1 /\ d < Window /\ d \in Nat
        /\ l + s \in DOMAIN body.rendered /\ r + (d - s) \in DOMAIN body.finished
    <3>1. s \in Nat /\ d \in Nat /\ d >= 1 /\ d < Window /\ d - s \in Nat
      BY <1>2, <2>3
    <3>2. l + s \in Nat /\ l + s >= 1 /\ r + (d - s) \in Nat /\ r + (d - s) >= 1
      <4>1. \A m \in Nat \ {0}, n \in Nat : m + n \in Nat /\ m + n >= 1
        OBVIOUS
      <4>2. l \in Nat \ {0} /\ r \in Nat \ {0} /\ s \in Nat /\ d - s \in Nat
        BY <1>2, <3>1
      <4> HIDE DEF found
      <4>3. QED
        BY ONLY <4>1, <4>2
    <3>5. r + (d - s) <= Len(body.finished) /\ l + s <= Len(body.rendered)
      BY <2>3, <2>4
    <3>3. l + s \in DOMAIN body.rendered /\ r + (d - s) \in DOMAIN body.finished
      <4> DEFINE a == l + s
                 b == r + (d - s)
      <4>1. a \in Nat /\ a >= 1 /\ a <= Len(body.rendered) /\ b \in Nat /\ b >= 1 /\ b <= Len(body.finished)
        BY <3>2, <3>5
      <4> HIDE DEF a, b
      <4>2. a \in DOMAIN body.rendered /\ b \in DOMAIN body.finished
        BY <4>1, BodyIs
      <4>3. QED
        BY <4>2 DEF a, b
    <3>4. QED
      BY <3>1, <3>3
  <2>6. Like(l + s, r + (d - s))
    BY <2>3, <2>4 DEF Like
  <2> HIDE DEF found
  <2>7. QED
    BY <2>2, <2>5, <2>6
<1>5. CASE found = {}
  <2> HIDE DEF found
  <2>1. QED
    BY <1>1, <1>3, <1>5
<1>6. CASE found # {}
  <2>1. Ds \in SUBSET Nat /\ Ds # {}
    BY <1>4, <1>6
  <2>2. least \in Ds /\ \A y \in Ds : least <= y
    <3> HIDE DEF Ds
    <3>1. QED
      BY <2>1, MinOf
  <2>3. Ss \in SUBSET Nat /\ Ss # {}
    <3> HIDE DEF least, found
    <3>1. QED
      BY <1>4, <2>2
  <2>4. skip \in Ss
    <3> HIDE DEF Ss
    <3>1. QED
      BY <2>3, MinOf
  <2>5. PICK f \in found : f[1] = least /\ f[2] = skip
    BY <2>4
  <2> HIDE DEF skip, least, Ss
  <2> DEFINE t == least - skip
  <2>6. /\ skip \in Nat /\ t \in Nat /\ least \in Nat /\ least >= 1 /\ least < Window
        /\ l + skip \in DOMAIN body.rendered /\ r + t \in DOMAIN body.finished /\ Like(l + skip, r + t)
    BY <1>4, <2>5
  <2>7. r + least - skip = r + t /\ skip + t = least
    BY <1>2, <2>6
  <2>8. ASSUME NEW i \in Nat, NEW j \in Nat, i + j < least, l + i \in DOMAIN body.rendered,
               r + j \in DOMAIN body.finished, Like(l + i, r + j)
        PROVE  FALSE
    <3>1. <<i + j, i>> \in found
      <4> HIDE DEF found
      <4>1. QED
        BY <1>2, <1>3, <2>6, <2>8
    <3>2. <<i + j, i>>[1] = i + j
      OBVIOUS
    <3>3. i + j \in Ds
      BY <3>1, <3>2
    <3> HIDE DEF Ds
    <3>4. least <= i + j
      BY <2>2, <3>3
    <3>5. QED
      BY <2>6, <2>8, <3>4
  <2> HIDE DEF found, Ds, t
  <2>9. Resync(l, r) = <<l + skip, r + t>>
    BY <1>1, <1>6, <2>7
  <2>10. QED
    BY <2>6, <2>7, <2>8, <2>9
<1>7. QED
  BY <1>5, <1>6

Walks == [left : 1 .. Len(body.rendered) + 1, right : 1 .. Len(body.finished) + 1,
          to : [DOMAIN body.rendered -> 0 .. Len(body.finished)]]
AtEnd(w) == w.left > Len(body.rendered) \/ w.right > Len(body.finished)

LEMMA WalkedIs ==
  ASSUME BodyOK(body), NEW w \in Walks
  PROVE  /\ Walked(w) \in Walks
         /\ AtEnd(w) => Walked(w) = w
         /\ ~AtEnd(w) => Walked(w).left + Walked(w).right >= w.left + w.right + 1
<1>1. CASE AtEnd(w)
  <2>1. Walked(w) = w
    BY <1>1 DEF AtEnd, Walked
  <2>2. QED
    BY <1>1, <2>1
<1>2. CASE ~AtEnd(w)
  <2>1. w.left \in DOMAIN body.rendered /\ w.right \in DOMAIN body.finished
    BY <1>2, BodyIs DEF AtEnd, Walks
  <2>2. CASE Like(w.left, w.right)
    <3>1. Walked(w) = [left |-> w.left + 1, right |-> w.right + 1, to |-> [w.to EXCEPT ![w.left] = w.right]]
      BY <1>2, <2>2 DEF AtEnd, Walked, Like
    <3>2. [w.to EXCEPT ![w.left] = w.right] \in [DOMAIN body.rendered -> 0 .. Len(body.finished)]
      BY <2>1, BodyIs DEF Walks
    <3>3. w.left + 1 \in 1 .. Len(body.rendered) + 1 /\ w.right + 1 \in 1 .. Len(body.finished) + 1
      BY <2>1, BodyIs
    <3>4. Walked(w).left + Walked(w).right >= w.left + w.right + 1
      <4>1. w.left \in Nat /\ w.right \in Nat
        BY <2>1, BodyIs
      <4>2. QED
        BY <3>1, <4>1
    <3>5. QED
      BY <1>2, <3>1, <3>2, <3>3, <3>4 DEF Walks
  <2>3. CASE ~Like(w.left, w.right)
    <3>1. Walked(w) = [left |-> Resync(w.left, w.right)[1], right |-> Resync(w.left, w.right)[2], to |-> w.to]
      BY <1>2, <2>3 DEF AtEnd, Walked, Like
    <3>2. \E s, t \in Nat : /\ Resync(w.left, w.right) = <<w.left + s, w.right + t>> /\ s + t >= 1
                            /\ w.left + s <= Len(body.rendered) + 1 /\ w.right + t <= Len(body.finished) + 1
      <4>1. CASE Resync(w.left, w.right) = <<w.left + 1, w.right>>
        <5>1. w.right + 0 = w.right
          BY <2>1, BodyIs
        <5>2. w.left + 1 <= Len(body.rendered) + 1 /\ w.right + 0 <= Len(body.finished) + 1 /\ 1 + 0 >= 1
          BY <2>1, BodyIs
        <5>3. Resync(w.left, w.right) = <<w.left + 1, w.right + 0>>
          BY <4>1, <5>1
        <5>4. 1 \in Nat /\ 0 \in Nat
          OBVIOUS
        <5>5. QED
          BY <5>2, <5>3, <5>4
      <4>2. CASE \E s, t \in Nat :
                   /\ Resync(w.left, w.right) = <<w.left + s, w.right + t>>
                   /\ s + t >= 1 /\ w.left + s \in DOMAIN body.rendered /\ w.right + t \in DOMAIN body.finished
        BY <4>2, BodyIs
      <4>3. QED
        BY <2>1, <2>3, <4>1, <4>2, ResyncIs
    <3>3. PICK s, t \in Nat : /\ Resync(w.left, w.right) = <<w.left + s, w.right + t>> /\ s + t >= 1
                              /\ w.left + s <= Len(body.rendered) + 1 /\ w.right + t <= Len(body.finished) + 1
      BY <3>2
    <3>4. Walked(w) = [left |-> w.left + s, right |-> w.right + t, to |-> w.to]
      BY <3>1, <3>3
    <3>8. w.left \in Nat \ {0} /\ w.right \in Nat \ {0}
      BY <2>1, BodyIs
    <3>5. w.left + s \in 1 .. Len(body.rendered) + 1 /\ w.right + t \in 1 .. Len(body.finished) + 1
      BY <3>3, <3>8, BodyIs
    <3>6. w.left + s + (w.right + t) >= w.left + w.right + 1
      BY <3>3, <3>8
    <3>7. QED
      BY <1>2, <3>4, <3>5, <3>6 DEF Walks
  <2>4. QED
    BY <2>2, <2>3
<1>3. QED
  BY <1>1, <1>2

\* The walk is at corresponding lines of both bodies and has found all that are left so far, or it
\* will find no more: the next lines came from nowhere.
InStep(w) ==
  /\ \A l \in DOMAIN body.rendered, r \in DOMAIN body.finished : Survived(l, r) => (l < w.left <=> r < w.right)
  /\ \A l \in DOMAIN body.rendered : l < w.left /\ l \notin Gone => w.to[l] # 0
Astray(w) == \A r \in w.right .. w.right + Window - 1 : r \in Fresh
Tells(w) == \A l \in DOMAIN body.rendered : w.to[l] # 0 => Survived(l, w.to[l])
Well(w) == Tells(w) /\ (InStep(w) \/ Astray(w))

LEMMA StepTogether ==
  ASSUME BodyOK(body), ChangesAreUnlike, NEW w \in Walks, Tells(w), InStep(w), ~AtEnd(w), Like(w.left, w.right)
  PROVE  Well(Walked(w))
<1> DEFINE L == w.left
           R == w.right
           to == [w.to EXCEPT ![L] = R]
           v == [left |-> L + 1, right |-> R + 1, to |-> to]
<1>1. L \in DOMAIN body.rendered /\ R \in DOMAIN body.finished /\ w.to \in [DOMAIN body.rendered -> 0 .. Len(body.finished)]
  BY BodyIs DEF AtEnd, Walks
<1>2. Walked(w) = v
  BY DEF AtEnd, Walked, Like
<1>3. \A l \in DOMAIN body.rendered : l \in Nat
  BY BodyIs
<1>4. \A r \in DOMAIN body.finished : r \in Nat
  BY BodyIs
<1>5. PICK p \in DOMAIN body.finished : Survived(L, p)
  BY <1>1, AlikeAreLeft
<1>6. PICK k \in DOMAIN body.rendered : Survived(k, R)
  BY <1>1, AlikeAreLeft
<1>7. Survived(L, R)
  <2>1. ~(L < L) /\ ~(R < R)
    BY <1>1, <1>3, <1>4
  <2>2. ~(p < R) /\ ~(k < L)
    BY <1>1, <1>5, <1>6, <2>1 DEF InStep
  <2>3. (k < L <=> R < p) /\ (k = L <=> R = p)
    BY <1>1, <1>5, <1>6, InOrder
  <2>4. p = R
    BY <1>1, <1>3, <1>4, <2>2, <2>3
  <2>5. QED
    BY <1>5, <2>4
<1>8. Tells(v)
  <2>1. ASSUME NEW l \in DOMAIN body.rendered, to[l] # 0 PROVE Survived(l, to[l])
    <3>1. CASE l = L
      BY <1>1, <1>7, <3>1
    <3>2. CASE l # L
      BY <1>1, <2>1, <3>2 DEF Tells
    <3>3. QED
      BY <3>1, <3>2
  <2>2. QED
    BY <2>1 DEF Tells
<1>9. InStep(v)
  <2>1. ASSUME NEW l \in DOMAIN body.rendered, NEW r \in DOMAIN body.finished, Survived(l, r)
        PROVE  l < L + 1 <=> r < R + 1
    <3>1. (l < L <=> r < R) /\ (l = L <=> r = R)
      BY <1>1, <1>7, <2>1, InOrder
    <3>2. QED
      BY <1>1, <1>3, <1>4, <3>1
  <2>2. ASSUME NEW l \in DOMAIN body.rendered, l < L + 1, l \notin Gone PROVE to[l] # 0
    <3>1. CASE l = L
      <4>1. to[l] = R
        BY <1>1, <3>1
      <4>2. R # 0
        BY <1>1, BodyIs
      <4>3. QED
        BY <4>1, <4>2
    <3>2. CASE l # L
      <4>1. l < L /\ to[l] = w.to[l]
        BY <1>1, <1>3, <2>2, <3>2
      <4>2. QED
        BY <2>2, <4>1 DEF InStep
    <3>3. QED
      BY <3>1, <3>2
  <2> HIDE DEF to, L, R
  <2>3. QED
    BY <2>1, <2>2 DEF InStep
<1>10. QED
  BY <1>2, <1>8, <1>9 DEF Well

LEMMA StepApart ==
  ASSUME BodyOK(body), ChangesAreUnlike, NEW w \in Walks, Tells(w), InStep(w), ~AtEnd(w), ~Like(w.left, w.right)
  PROVE  Well(Walked(w))
<1> DEFINE L == w.left
           R == w.right
           on == Resync(L, R)
           v == [left |-> on[1], right |-> on[2], to |-> w.to]
<1>1. L \in DOMAIN body.rendered /\ R \in DOMAIN body.finished
  BY BodyIs DEF AtEnd, Walks
<1>2. Walked(w) = v
  BY DEF AtEnd, Walked, Like
<1>3. \A l \in DOMAIN body.rendered : l \in Nat \ {0} /\ (l >= L => l - L \in Nat /\ L + (l - L) = l)
  BY <1>1, BodyIs
<1>4. \A r \in DOMAIN body.finished : r \in Nat \ {0} /\ (r >= R => r - R \in Nat /\ R + (r - R) = r)
  BY <1>1, BodyIs
<1>5. ASSUME NEW l \in DOMAIN body.rendered, NEW r \in DOMAIN body.finished, Survived(l, r)
      PROVE  Like(l, r) /\ (l >= L <=> r >= R)
  <2>1. l < L <=> r < R
    BY <1>5 DEF InStep
  <2>2. l \in Nat /\ r \in Nat /\ L \in Nat /\ R \in Nat
    BY <1>1, <1>3, <1>4
  <2>3. QED
    BY <1>5, <2>1, <2>2 DEF Survived, Like
<1>6. Tells(v)
  BY DEF Tells
<1>7. CASE /\ on = <<L + 1, R>>
           /\ \A s, t \in Nat : /\ s + t < Window /\ L + s \in DOMAIN body.rendered
                                /\ R + t \in DOMAIN body.finished
                                => ~Like(L + s, R + t)
  <2>1. v.left = L + 1 /\ v.right = R /\ v.to = w.to
    BY <1>7
  <2> HIDE DEF v
  <2>2. CASE L \in Gone
    <3>1. ASSUME NEW l \in DOMAIN body.rendered, NEW r \in DOMAIN body.finished, Survived(l, r)
          PROVE  l < L + 1 <=> r < R
      <4>1. l # L
        BY <2>2, <3>1 DEF Gone
      <4>2. l < L <=> r < R
        BY <3>1 DEF InStep
      <4>3. QED
        BY <1>1, <1>3, <1>4, <4>1, <4>2
    <3>2. ASSUME NEW l \in DOMAIN body.rendered, l < L + 1, l \notin Gone PROVE w.to[l] # 0
      <4>1. l < L
        BY <1>1, <1>3, <2>2, <3>2
      <4>2. QED
        BY <3>2, <4>1 DEF InStep
    <3> HIDE DEF L, R
    <3>3. InStep(v)
      BY <2>1, <3>1, <3>2 DEF InStep
    <3>4. QED
      BY <1>2, <1>6, <3>3 DEF Well
  <2>3. CASE L \notin Gone
    <3>1. PICK p \in DOMAIN body.finished : Survived(L, p)
      BY <1>1, <2>3 DEF Gone
    <3>2. Like(L, p) /\ p >= R
      BY <1>1, <1>3, <1>5, <3>1
    <3>3. p - R >= Window
      <4>1. SUFFICES ASSUME p - R < Window PROVE FALSE
        BY <1>1, <1>4, NotesAssumption
      <4>2. p - R \in Nat /\ R + (p - R) = p /\ L + 0 = L /\ 0 + (p - R) = p - R /\ 0 \in Nat
        BY <1>1, <1>3, <1>4, <3>2
      <4>3. ~Like(L + 0, R + (p - R))
        BY <1>1, <1>7, <4>1, <4>2
      <4>4. QED
        BY <3>2, <4>2, <4>3
    <3>4. ASSUME NEW r \in R .. R + Window - 1 PROVE r \in Fresh
      <4>1. Window \in Nat /\ R \in Nat \ {0} /\ p \in Nat /\ r \in Int /\ R <= r /\ r < R + Window
        BY <1>1, <1>4, NotesAssumption
      <4>2. r \in DOMAIN body.finished /\ r < p
        BY <3>3, <4>1, BodyIs
      <4>3. ASSUME NEW l \in DOMAIN body.rendered, Survived(l, r) PROVE FALSE
        <5>1. l < L
          BY <1>1, <3>1, <4>2, <4>3, InOrder
        <5>2. r < R
          BY <4>2, <4>3, <5>1 DEF InStep
        <5>3. QED
          BY <4>1, <5>2
      <4>4. QED
        BY <4>2, <4>3 DEF Fresh
    <3> HIDE DEF L, R
    <3>5. Astray(v)
      BY <2>1, <3>4 DEF Astray
    <3>6. QED
      BY <1>2, <1>6, <3>5 DEF Well
  <2>4. QED
    BY <2>2, <2>3
<1>8. ASSUME NEW s \in Nat, NEW t \in Nat,
             on = <<L + s, R + t>>, s + t >= 1,
             L + s \in DOMAIN body.rendered, R + t \in DOMAIN body.finished,
             Like(L + s, R + t),
             \A i, j \in Nat : /\ i + j < s + t /\ L + i \in DOMAIN body.rendered
                               /\ R + j \in DOMAIN body.finished
                               => ~Like(L + i, R + j)
      PROVE  Well(Walked(w))
  <2>1. v.left = L + s /\ v.right = R + t /\ v.to = w.to
    BY <1>8
  <2> HIDE DEF v
  <2> DEFINE near(l, r) == l >= L /\ r >= R /\ (l - L) + (r - R) < s + t
  <2>2. ASSUME NEW l \in DOMAIN body.rendered, NEW r \in DOMAIN body.finished, near(l, r) PROVE ~Like(l, r)
    <3>1. l - L \in Nat /\ r - R \in Nat /\ L + (l - L) = l /\ R + (r - R) = r
      BY <1>3, <1>4, <2>2
    <3> HIDE DEF L, R
    <3>2. QED
      BY <1>8, <2>2, <3>1
  <2>3. PICK p \in DOMAIN body.finished : Survived(L + s, p)
    BY <1>8, AlikeAreLeft
  <2>4. PICK k \in DOMAIN body.rendered : Survived(k, R + t)
    BY <1>8, AlikeAreLeft
  <2>5. L \in Nat /\ R \in Nat
    BY <1>1, <1>3, <1>4
  <2> HIDE DEF L, R
  <2>6. k \in Nat /\ p \in Nat
    BY <1>3, <1>4
  <2>7. p >= R /\ k >= L
    BY <1>5, <1>8, <2>3, <2>4, <2>5, <2>6
  <2>8. k >= L + s
    <3>1. SUFFICES ASSUME k < L + s PROVE FALSE
      BY <2>5, <2>6
    <3>2. near(k, R + t)
      BY <2>5, <2>6, <2>7, <3>1
    <3>3. Like(k, R + t)
      BY <1>5, <1>8, <2>4
    <3>4. QED
      BY <1>8, <2>2, <3>2, <3>3
  <2>9. p >= R + t
    <3>1. SUFFICES ASSUME p < R + t PROVE FALSE
      BY <2>5, <2>6
    <3>2. near(L + s, p)
      BY <2>5, <2>6, <2>7, <3>1
    <3>3. Like(L + s, p)
      BY <1>5, <1>8, <2>3
    <3>4. QED
      BY <1>8, <2>2, <3>2, <3>3
  <2>10. (L + s < k <=> p < R + t) /\ (L + s = k <=> p = R + t)
    BY <1>8, <2>3, <2>4, InOrder
  <2>11. Survived(L + s, R + t)
    <3>1. p = R + t
      BY <2>5, <2>6, <2>8, <2>9, <2>10
    <3>2. QED
      BY <2>3, <3>1
  <2>12. ASSUME NEW l \in DOMAIN body.rendered, NEW r \in DOMAIN body.finished, Survived(l, r)
         PROVE  l < L + s <=> r < R + t
    BY <1>8, <2>11, <2>12, InOrder
  <2>13. ASSUME NEW l \in DOMAIN body.rendered, l < L + s, l \notin Gone PROVE w.to[l] # 0
    <3>1. CASE l < L
      BY <2>13, <3>1 DEF InStep, L
    <3>2. CASE l >= L
      <4>1. PICK r \in DOMAIN body.finished : Survived(l, r)
        BY <2>13 DEF Gone
      <4>2. Like(l, r) /\ r >= R /\ r < R + t
        BY <1>5, <2>12, <2>13, <3>2, <4>1
      <4>3. near(l, r)
        BY <1>3, <1>4, <2>5, <2>13, <3>2, <4>2
      <4>4. QED
        BY <2>2, <4>2, <4>3
    <3>3. QED
      BY <1>3, <2>5, <3>1, <3>2
  <2>14. InStep(v)
    BY <2>1, <2>12, <2>13 DEF InStep
  <2>15. QED
    BY <1>2, <1>6, <2>14 DEF Well
<1>9. QED
  <2> HIDE DEF L, R, v
  <2>1. ~Like(L, R)
    BY DEF L, R
  <2>2. QED
    BY <1>1, <1>7, <1>8, <2>1, ResyncIs

\* A walk that has gone astray finds nothing more.
LEMMA StepAstray ==
  ASSUME BodyOK(body), ChangesAreUnlike, NEW w \in Walks, Tells(w), Astray(w), ~AtEnd(w)
  PROVE  Well(Walked(w))
<1> DEFINE L == w.left
           R == w.right
           v == [left |-> L + 1, right |-> R, to |-> w.to]
<1>1. L \in DOMAIN body.rendered /\ R \in DOMAIN body.finished
  BY BodyIs DEF AtEnd, Walks
<1>2. L \in Nat /\ R \in Nat /\ Window \in Nat \ {0}
  BY <1>1, BodyIs, NotesAssumption
<1>3. ASSUME NEW s \in Nat, NEW t \in Nat, s + t < Window,
             L + s \in DOMAIN body.rendered, R + t \in DOMAIN body.finished
      PROVE  ~Like(L + s, R + t)
  <2>1. R + t \in R .. R + Window - 1
    BY <1>2, <1>3
  <2>2. R + t \in Fresh
    BY <2>1 DEF Astray
  <2> HIDE DEF L, R
  <2>3. QED
    BY <1>3, <2>2, AlikeAreLeft DEF Fresh
<1>4. ~Like(L, R)
  <2>1. L + 0 = L /\ R + 0 = R /\ 0 + 0 < Window /\ 0 \in Nat
    BY <1>2
  <2> HIDE DEF L, R
  <2>2. QED
    BY <1>1, <1>3, <2>1
<1>5. Resync(L, R) = <<L + 1, R>>
  <2> HIDE DEF L, R
  <2>1. QED
    BY <1>1, <1>3, <1>4, ResyncIs
<1>6. Walked(w) = v
  BY <1>4, <1>5 DEF AtEnd, Walked, Like
<1>7. Tells(v)
  BY DEF Tells
<1>8. Astray(v)
  BY DEF Astray
<1>9. QED
  BY <1>6, <1>7, <1>8 DEF Well

LEMMA StepWell ==
  ASSUME BodyOK(body), ChangesAreUnlike, NEW w \in Walks, Well(w)
  PROVE  Well(Walked(w))
<1>1. CASE AtEnd(w)
  BY <1>1, WalkedIs
<1>2. CASE ~AtEnd(w)
  BY <1>2, StepTogether, StepApart, StepAstray DEF Well
<1>3. QED
  BY <1>1, <1>2

Turns(n) == n = Len(body.rendered) + Len(body.finished)

\* Where a walk has come to after some turns.
WalkBy(walk, turns) ==
  /\ walk[0] = [left |-> 1, right |-> 1, to |-> [l \in DOMAIN body.rendered |-> 0]]
  /\ \A n \in 0 .. turns - 1 : walk[n + 1] = Walked(walk[n])

LEMMA WalkSteps ==
  ASSUME BodyOK(body)
  PROVE  \E walk, turns : /\ turns \in Nat /\ Turns(turns)
                          /\ WalkBy(walk, turns) /\ Aligned = walk[turns].to
<1> DEFINE start == [left |-> 1, right |-> 1, to |-> [l \in DOMAIN body.rendered |-> 0]]
           turns == Len(body.rendered) + Len(body.finished)
           Eq(g) == g = [n \in 0 .. turns |-> IF n = 0 THEN start ELSE Walked(g[n - 1])]
           walk == CHOOSE g : Eq(g)
<1>1. start \in Walks
  BY BodyIs DEF Walks
<1>2. turns \in Nat
  <2>1. Len(body.rendered) \in Nat /\ Len(body.finished) \in Nat
    BY BodyIs
  <2>2. \A a, b \in Nat : a + b \in Nat
    OBVIOUS
  <2>3. QED
    BY <2>1, <2>2, Zenon
<1>3. Aligned = walk[turns].to
  BY DEF Aligned
<1> HIDE DEF turns, start
<1> DEFINE step == [n \in 1 .. turns |-> [w \in Walks |-> Walked(w)]]
<1>4. step \in [1 .. turns -> [Walks -> Walks]]
  BY WalkedIs
<1>5. PICK g : FollowsTo(turns, g, Walks, start, step)
  <2> HIDE DEF step
  <2>1. QED
    BY <1>1, <1>2, <1>4, RecursionTo
<1>6. Eq(g)
  <2>1. ASSUME NEW n \in 0 .. turns PROVE g[n] = IF n = 0 THEN start ELSE Walked(g[n - 1])
    <3>1. CASE n # 0
      <4>1. n \in 1 .. turns /\ n - 1 \in 0 .. turns
        BY <1>2, <3>1
      <4>2. QED
        BY <1>5, <3>1, <4>1 DEF FollowsTo
    <3>2. QED
      BY <1>5, <3>1 DEF FollowsTo
  <2>2. QED
    BY <1>5, <2>1 DEF FollowsTo
<1>7. Eq(walk)
  BY <1>6
<1> HIDE DEF walk
<1>8. walk[0] = start
  BY <1>2, <1>7
<1>9. ASSUME NEW n \in 0 .. turns - 1 PROVE walk[n + 1] = Walked(walk[n])
  <2>1. n + 1 \in 0 .. turns /\ n + 1 # 0 /\ (n + 1) - 1 = n
    BY <1>2
  <2>2. walk[n + 1] = Walked(walk[(n + 1) - 1])
    BY <1>7, <2>1
  <2>3. QED
    BY <2>1, <2>2
<1>10. WalkBy(walk, turns)
  BY <1>8, <1>9 DEF WalkBy, start
<1>11. Turns(turns)
  BY DEF turns, Turns
<1>12. QED
  BY <1>2, <1>3, <1>10, <1>11

\* A walk over two bodies is at an end after as many turns as they have lines.
LEMMA WalkEnds ==
  ASSUME BodyOK(body), NEW walk, NEW N \in Nat, Turns(N), WalkBy(walk, N)
  PROVE  /\ \A n \in 0 .. N : walk[n] \in Walks
         /\ AtEnd(walk[N])
<1> DEFINE T == {n \in Nat : n <= N => walk[n] \in Walks /\ (AtEnd(walk[n]) \/ walk[n].left + walk[n].right >= n + 2)}
<1>1. 0 \in T
  <2>1. walk[0] = [left |-> 1, right |-> 1, to |-> [l \in DOMAIN body.rendered |-> 0]]
    BY DEF WalkBy
  <2>2. Len(body.rendered) \in Nat /\ Len(body.finished) \in Nat
    BY BodyIs
  <2>3. walk[0] \in Walks
    BY <2>1, <2>2 DEF Walks
  <2>4. QED
    BY <2>1, <2>3
<1>2. ASSUME NEW n \in Nat, n \in T PROVE n + 1 \in T
  <2>5. SUFFICES ASSUME n + 1 <= N
                 PROVE  walk[n + 1] \in Walks /\ (AtEnd(walk[n + 1]) \/ walk[n + 1].left + walk[n + 1].right >= (n + 1) + 2)
    OBVIOUS
  <2>6. n \in 0 .. N - 1 /\ n <= N
    BY <2>5
  <2>1. walk[n] \in Walks /\ walk[n + 1] = Walked(walk[n]) /\ walk[n + 1] \in Walks
    BY <1>2, <2>6, WalkedIs DEF WalkBy
  <2>2. CASE AtEnd(walk[n])
    BY <2>1, <2>2, WalkedIs
  <2>3. CASE ~AtEnd(walk[n])
    <3>1. walk[n + 1].left + walk[n + 1].right >= walk[n].left + walk[n].right + 1
      BY <2>1, <2>3, WalkedIs
    <3>2. /\ walk[n + 1].left \in Nat /\ walk[n + 1].right \in Nat
          /\ walk[n].left \in Nat /\ walk[n].right \in Nat
      BY <2>1 DEF Walks
    <3>3. walk[n].left + walk[n].right >= n + 2
      BY <1>2, <2>3, <2>6
    <3>4. walk[n + 1].left + walk[n + 1].right >= (n + 1) + 2
      BY <3>1, <3>2, <3>3
    <3>5. QED
      BY <2>1, <3>4
  <2>4. QED
    BY <2>2, <2>3
<1>3. \A n \in Nat : n \in T
  <2> HIDE DEF T
  <2>1. QED
    BY <1>1, <1>2, Induction
<1>4. AtEnd(walk[N])
  <2>7. Len(body.rendered) \in Nat /\ Len(body.finished) \in Nat
    BY BodyIs
  <2>2. walk[N] \in Walks /\ (AtEnd(walk[N]) \/ walk[N].left + walk[N].right >= N + 2)
    BY <1>3
  <2> DEFINE w == walk[N]
  <2> HIDE DEF w
  <2>3. w \in Walks /\ (AtEnd(w) \/ w.left + w.right >= N + 2)
    BY <2>2 DEF w
  <2>4. w.left \in Nat /\ w.right \in Nat
    BY <2>3 DEF Walks
  <2>5. AtEnd(w)
    <3>1. SUFFICES ASSUME ~AtEnd(w) PROVE FALSE
      OBVIOUS
    <3>2. w.left <= Len(body.rendered) /\ w.right <= Len(body.finished)
      BY <2>4, <2>7, <3>1 DEF AtEnd
    <3>3. w.left + w.right >= N + 2
      BY <2>3, <3>1
    <3>4. \A a, b, l, r \in Nat : l <= a /\ r <= b => ~(l + r >= a + b + 2)
      OBVIOUS
    <3>5. QED
      BY <2>4, <2>7, <3>2, <3>3, <3>4, Zenon DEF Turns
  <2>6. QED
    BY <2>5 DEF w
<1>5. QED
  BY <1>3, <1>4

LEMMA AlignedIs ==
  ASSUME BodyOK(body)
  PROVE  /\ Aligned \in [DOMAIN body.rendered -> 0 .. Len(body.finished)]
         /\ ChangesAreUnlike =>
              /\ \A l \in DOMAIN body.rendered : Aligned[l] # 0 => Survived(l, Aligned[l])
              /\ Cardinality(Gone) + Cardinality(Fresh) < Window =>
                   \A l \in DOMAIN body.rendered \ Gone : Aligned[l] # 0
<1>1. PICK walk, N : /\ N \in Nat /\ Turns(N)
                     /\ WalkBy(walk, N) /\ Aligned = walk[N].to
  BY WalkSteps
<1> DEFINE w == walk[N]
<1>2. N \in 0 .. N
  BY <1>1
<1>3. w \in Walks /\ AtEnd(w)
  BY <1>1, <1>2, WalkEnds
<1>4. ASSUME ChangesAreUnlike PROVE Well(w)
  <2> DEFINE T == {n \in Nat : n <= N => Well(walk[n])}
  <2>1. 0 \in T
    <3>6. walk[0] = [left |-> 1, right |-> 1, to |-> [l \in DOMAIN body.rendered |-> 0]]
      BY <1>1 DEF WalkBy
    <3>7. (\A l \in DOMAIN body.rendered : l \in Nat \ {0}) /\ (\A r \in DOMAIN body.finished : r \in Nat \ {0})
      BY BodyIs
    <3>1. \A l \in DOMAIN body.rendered : walk[0].to[l] = 0 /\ l \in Nat \ {0} /\ walk[0].left = 1
      BY <3>6, <3>7
    <3>2. \A r \in DOMAIN body.finished : r \in Nat \ {0} /\ walk[0].right = 1
      BY <3>6, <3>7
    <3>3. Tells(walk[0])
      BY <3>1 DEF Tells
    <3>4. InStep(walk[0])
      BY <3>1, <3>2 DEF InStep
    <3>5. QED
      BY <3>3, <3>4 DEF Well
  <2>2. ASSUME NEW n \in Nat, n \in T PROVE n + 1 \in T
    <3>1. SUFFICES ASSUME n + 1 <= N PROVE Well(walk[n + 1])
      OBVIOUS
    <3>2. n \in 0 .. N - 1 /\ n \in 0 .. N /\ n <= N
      BY <1>1, <3>1
    <3>3. walk[n] \in Walks /\ walk[n + 1] = Walked(walk[n])
      BY <1>1, <3>2, WalkEnds DEF WalkBy
    <3>4. QED
      BY <1>4, <2>2, <3>2, <3>3, StepWell
  <2>3. \A n \in Nat : n \in T
    <3> HIDE DEF T
    <3>1. QED
      BY <2>1, <2>2, Induction
  <2>4. N \in Nat /\ N <= N
    BY <1>1
  <2>5. QED
    BY <2>3, <2>4
<1> HIDE DEF w
<1>5. ASSUME ChangesAreUnlike, Cardinality(Gone) + Cardinality(Fresh) < Window PROVE ~Astray(w)
  <2>1. SUFFICES ASSUME Astray(w) PROVE FALSE
    OBVIOUS
  <2> DEFINE ahead == w.right .. w.right + Window - 1
  <2>2. w.right \in Nat /\ Window \in Nat \ {0}
    BY <1>3, NotesAssumption DEF Walks
  <2>3. ahead \subseteq Fresh
    BY <2>1 DEF Astray
  <2>4. IsFiniteSet(Fresh) /\ IsFiniteSet(Gone)
    <3>1. Fresh \in SUBSET DOMAIN body.finished /\ Gone \in SUBSET DOMAIN body.rendered
      BY DEF Fresh, Gone
    <3>2. IsFiniteSet(1 .. Len(body.finished)) /\ IsFiniteSet(1 .. Len(body.rendered))
      BY BodyIs, FS_Interval
    <3>3. QED
      BY <3>1, <3>2, FS_Subset, BodyIs
  <2>5. IsFiniteSet(ahead) /\ Cardinality(ahead) = Window
    <3> DEFINE b == w.right + Window - 1
    <3>1. b \in Int /\ w.right \in Int /\ ~(w.right > b) /\ b - w.right + 1 = Window
      BY <2>2
    <3> HIDE DEF b
    <3>2. IsFiniteSet(w.right .. b) /\ Cardinality(w.right .. b) = b - w.right + 1
      BY <3>1, FS_Interval
    <3>3. QED
      BY <3>1, <3>2 DEF b
  <2>6. Cardinality(ahead) <= Cardinality(Fresh)
    BY <2>3, <2>4, FS_Subset
  <2>7. Cardinality(Gone) \in Nat /\ Cardinality(Fresh) \in Nat
    BY <2>4, FS_CardinalityType
  <2>8. QED
    BY <1>5, <2>2, <2>5, <2>6, <2>7
<1>6. ASSUME ChangesAreUnlike, InStep(w), NEW l \in DOMAIN body.rendered \ Gone PROVE w.to[l] # 0
  <2>1. l < w.left
    <3>1. PICK r \in DOMAIN body.finished : Survived(l, r)
      BY <1>6 DEF Gone
    <3>2. l < w.left <=> r < w.right
      BY <1>6, <3>1 DEF InStep
    <3>3. l <= Len(body.rendered) /\ r <= Len(body.finished) /\ l \in Nat /\ r \in Nat
      BY BodyIs
    <3>4. QED
      BY <1>3, <3>2, <3>3, BodyIs DEF AtEnd, Walks
  <2>2. QED
    BY <1>6, <2>1 DEF InStep
<1>7. Aligned = w.to
  BY <1>1 DEF w
<1>8. QED
  BY <1>3, <1>4, <1>5, <1>6, <1>7 DEF Well, Tells, Walks

\* Whatever was rewritten, a walk pairs lines that agree and never crosses an earlier pair.
Forward(w) ==
  /\ \A l \in DOMAIN body.rendered : w.to[l] # 0 => l < w.left /\ w.to[l] < w.right /\ Like(l, w.to[l])
  /\ \A l, k \in DOMAIN body.rendered : l < k /\ w.to[l] # 0 /\ w.to[k] # 0 => w.to[l] < w.to[k]

LEMMA StepForward ==
  ASSUME BodyOK(body), NEW w \in Walks, Forward(w)
  PROVE  Forward(Walked(w))
<1>1. CASE AtEnd(w)
  BY <1>1, WalkedIs
<1>2. CASE ~AtEnd(w)
  <2> DEFINE L == w.left
             R == w.right
  <2>1. /\ L \in DOMAIN body.rendered /\ R \in DOMAIN body.finished
        /\ w.to \in [DOMAIN body.rendered -> 0 .. Len(body.finished)]
    BY <1>2, BodyIs DEF AtEnd, Walks
  <2>2. /\ \A l \in DOMAIN body.rendered : l \in Nat /\ w.to[l] \in Nat
        /\ L \in Nat /\ R \in Nat \ {0}
    BY <2>1, BodyIs
  <2>3. CASE Like(L, R)
    <3> DEFINE to == [w.to EXCEPT ![L] = R]
               v == [left |-> L + 1, right |-> R + 1, to |-> to]
    <3>1. Walked(w) = v
      BY <1>2, <2>3 DEF AtEnd, Walked, Like
    <3>2. to[L] = R /\ \A l \in DOMAIN body.rendered : l # L => to[l] = w.to[l]
      BY <2>1
    <3> HIDE DEF to
    <3>3. ASSUME NEW l \in DOMAIN body.rendered, to[l] # 0
          PROVE  l < L + 1 /\ to[l] < R + 1 /\ Like(l, to[l])
      <4>1. CASE l = L
        BY <2>2, <2>3, <3>2, <4>1
      <4>2. CASE l # L
        <5>1. to[l] = w.to[l]
          BY <3>2, <4>2
        <5>2. l < L /\ w.to[l] < R /\ Like(l, w.to[l])
          BY <3>3, <5>1 DEF Forward
        <5>3. QED
          BY <2>2, <5>1, <5>2
      <4>3. QED
        BY <4>1, <4>2
    <3>4. ASSUME NEW l \in DOMAIN body.rendered, NEW k \in DOMAIN body.rendered, l < k, to[l] # 0, to[k] # 0
          PROVE  to[l] < to[k]
      <4>1. l # L
        <5>1. SUFFICES ASSUME l = L PROVE FALSE
          OBVIOUS
        <5>2. k # L
          BY <2>2, <3>4, <5>1
        <5>3. k < L
          BY <3>2, <3>4, <5>2 DEF Forward
        <5>4. QED
          BY <2>2, <3>4, <5>1, <5>3
      <4>2. to[l] = w.to[l] /\ w.to[l] < R
        BY <3>2, <3>4, <4>1 DEF Forward
      <4>3. CASE k = L
        BY <3>2, <4>2, <4>3
      <4>4. CASE k # L
        <5>1. to[k] = w.to[k]
          BY <3>2, <4>4
        <5>2. QED
          BY <3>4, <4>2, <5>1 DEF Forward
      <4>5. QED
        BY <4>3, <4>4
    <3>5. v.left = L + 1 /\ v.right = R + 1 /\ v.to = to
      OBVIOUS
    <3> HIDE DEF v, L, R
    <3>6. Forward(v)
      BY <3>3, <3>4, <3>5 DEF Forward
    <3>7. QED
      BY <3>1, <3>6
  <2>4. CASE ~Like(L, R)
    <3> DEFINE v == [left |-> Resync(L, R)[1], right |-> Resync(L, R)[2], to |-> w.to]
    <3>1. Walked(w) = v
      BY <1>2, <2>4 DEF AtEnd, Walked, Like
    <3>2. Resync(L, R) = <<L + 1, R>> \/ \E s, t \in Nat : Resync(L, R) = <<L + s, R + t>>
      <4> HIDE DEF L, R
      <4>1. QED
        BY <2>1, <2>4, ResyncIs
    <3>3. v.left \in Nat /\ v.right \in Nat /\ v.left >= L /\ v.right >= R /\ v.to = w.to
      <4>1. CASE Resync(L, R) = <<L + 1, R>>
        BY <2>2, <4>1
      <4>2. CASE \E s, t \in Nat : Resync(L, R) = <<L + s, R + t>>
        BY <2>2, <4>2
      <4>3. QED
        BY <3>2, <4>1, <4>2
    <3> HIDE DEF v
    <3>4. ASSUME NEW l \in DOMAIN body.rendered, w.to[l] # 0
          PROVE  l < v.left /\ w.to[l] < v.right /\ Like(l, w.to[l])
      <4>1. l < L /\ w.to[l] < R /\ Like(l, w.to[l])
        BY <3>4 DEF Forward
      <4>2. QED
        BY <2>2, <3>3, <4>1
    <3>5. Forward(v)
      BY <3>3, <3>4 DEF Forward
    <3>6. QED
      BY <3>1, <3>5
  <2>5. QED
    BY <2>3, <2>4
<1>3. QED
  BY <1>1, <1>2

LEMMA PairsAre ==
  ASSUME BodyOK(body)
  PROVE  /\ \A l \in DOMAIN body.rendered : Aligned[l] # 0 => Like(l, Aligned[l])
         /\ \A l, k \in DOMAIN body.rendered :
              l < k /\ Aligned[l] # 0 /\ Aligned[k] # 0 => Aligned[l] < Aligned[k]
<1>1. PICK walk, N : /\ N \in Nat /\ Turns(N)
                     /\ WalkBy(walk, N) /\ Aligned = walk[N].to
  BY WalkSteps
<1> DEFINE T == {n \in Nat : n <= N => Forward(walk[n])}
<1>2. 0 \in T
  <2>1. walk[0] = [left |-> 1, right |-> 1, to |-> [l \in DOMAIN body.rendered |-> 0]]
    BY <1>1 DEF WalkBy
  <2>2. Forward(walk[0])
    BY <2>1 DEF Forward
  <2>3. QED
    BY <2>2
<1>3. ASSUME NEW n \in Nat, n \in T PROVE n + 1 \in T
  <2>1. SUFFICES ASSUME n + 1 <= N PROVE Forward(walk[n + 1])
    OBVIOUS
  <2>2. n \in 0 .. N - 1 /\ n \in 0 .. N /\ n <= N
    BY <1>1, <2>1
  <2>3. walk[n] \in Walks /\ walk[n + 1] = Walked(walk[n])
    BY <1>1, <2>2, WalkEnds DEF WalkBy
  <2>4. QED
    BY <1>3, <2>2, <2>3, StepForward
<1>4. \A n \in Nat : n \in T
  <2> HIDE DEF T
  <2>1. QED
    BY <1>2, <1>3, Induction
<1>5. Forward(walk[N])
  BY <1>1, <1>4
<1>6. QED
  BY <1>1, <1>5 DEF Forward

-----------------------------------------------------------------------------
(* Annotations and rows, and how wide a line is.                             *)

Spots == {k[1] : k \in DOMAIN body.candidates} \union {c.va : c \in Range(body.calls)}
Registers == {k[2] : k \in DOMAIN body.candidates} \union {c.reg : c \in Range(body.calls)}
Whys == Range(Gate) \union {"annotation", "line", "coordinate_already_claimed", "no_line_carries_register"}
Drops == [kind : {"omission", "rejection"}, stream : StreamKinds, site : Spots, reg : Registers, why : Whys]

ReadsAt(line) == Len(ReadsOf[body.finished[line].code])
JoinNotes ==
  {s \in {JoinSpan(k[1], k[2], l, at) : k \in DOMAIN body.candidates, l \in DOMAIN body.finished, at \in Nat} :
     <<s.site, s.reg>> \in DOMAIN body.candidates /\ s.at \in 1 .. ReadsAt(s.line)}
CallNotes == {s \in {CallSpan(c) : c \in Range(body.calls)} : s.at # 0}
Notes == JoinNotes \union CallNotes

LEMMA ReadsAre ==
  ASSUME NEW code \in DOMAIN ReadsOf
  PROVE  /\ Len(ReadsOf[code]) \in Nat /\ DOMAIN ReadsOf[code] = 1 .. Len(ReadsOf[code])
         /\ \A k \in DOMAIN ReadsOf[code] : ReadsOf[code][k] \in Range(ReadsOf[code])
BY NotesAssumption DEF Range

LEMMA LineReads ==
  ASSUME BodyOK(body), NEW l \in DOMAIN body.finished
  PROVE  /\ body.finished[l].code \in DOMAIN ReadsOf /\ ReadsAt(l) \in Nat
         /\ DOMAIN ReadsOf[body.finished[l].code] = 1 .. ReadsAt(l)
BY BodyIs, ReadsAre DEF ReadsAt

\* The kind of site is told by the literal.
KindOf(literal) ==
  IF literal = "value before this call" THEN "call" ELSE IF literal = "loop-entry value" THEN "loop" ELSE "join"

LEMMA JoinNoteIs ==
  ASSUME BodyOK(body), NEW s \in JoinNotes
  PROVE  /\ s.line \in DOMAIN body.finished /\ s.at \in 1 .. ReadsAt(s.line)
         /\ s.stream = SiteOf(s.site) /\ s.stream \in {"join", "loop"} /\ s.stream = KindOf(s.text.literal)
         /\ s.text.values \in Seq(DOMAIN Gate)
         /\ s.site \in Spots /\ s.reg \in Registers /\ <<s.site, s.reg>> \in DOMAIN body.candidates
<1>1. PICK k \in DOMAIN body.candidates, l \in DOMAIN body.finished, at \in Nat : s = JoinSpan(k[1], k[2], l, at)
  BY DEF JoinNotes
<1>2. /\ <<s.site, s.reg>> \in DOMAIN body.candidates /\ s.at \in 1 .. ReadsAt(s.line)
  BY DEF JoinNotes
<1>3. /\ s.line = l /\ s.at = at /\ s.site = k[1] /\ s.reg = k[2] /\ s.stream = SiteOf(k[1])
      /\ s.text.values = body.candidates[<<k[1], k[2]>>].values
      /\ s.text.literal = IF k[1] \in body.loops THEN "loop-entry value"
                          ELSE IF body.candidates[<<k[1], k[2]>>].complete THEN "exhaustive" ELSE "non-exhaustive"
  BY <1>1 DEF JoinSpan, Text
<1>4. s.text.values \in Seq(DOMAIN Gate)
  BY <1>2, <1>3 DEF BodyOK
<1>5. s.site \in Spots /\ s.reg \in Registers
  BY <1>3 DEF Spots, Registers
<1>6. s.stream \in {"join", "loop"} /\ s.stream = KindOf(s.text.literal)
  <2>1. CASE k[1] \in body.loops
    BY <1>3, <2>1 DEF SiteOf, KindOf
  <2>2. CASE k[1] \notin body.loops
    <3>1. s.text.literal \in {"exhaustive", "non-exhaustive"} /\ s.stream = "join"
      BY <1>3, <2>2 DEF SiteOf
    <3>2. QED
      BY <3>1 DEF KindOf
  <2>3. QED
    BY <2>1, <2>2
<1>7. QED
  BY <1>2, <1>3, <1>4, <1>5, <1>6

LEMMA CallNoteIs ==
  ASSUME BodyOK(body), NEW s \in CallNotes
  PROVE  /\ s.line \in DOMAIN body.finished /\ s.at \in 1 .. ReadsAt(s.line)
         /\ s.stream = "call" /\ s.stream = KindOf(s.text.literal)
         /\ s.text.values \in Seq(DOMAIN Gate)
         /\ s.site \in Spots /\ s.reg \in Registers
         /\ s.anchor \in DOMAIN body.rendered /\ s.line = Aligned[s.anchor] /\ s.line # 0
<1>1. PICK c \in Range(body.calls) : s = CallSpan(c) /\ s.at # 0
  BY DEF CallNotes
<1> DEFINE line == Aligned[c.line]
           reads == ReadsOf[body.finished[line].code]
           I == {i \in 1 .. Len(reads) : reads[i] = c.reg}
           at == IF line = 0 THEN 0 ELSE IF I # {} THEN Min(I) ELSE 0
<1>2. s = [line |-> line, at |-> at, text |-> Text("value before this call", <<c.value>>),
           stream |-> "call", site |-> c.va, reg |-> c.reg, anchor |-> c.line]
  BY <1>1 DEF CallSpan, SelectInSeq
<1> HIDE DEF reads
<1> DEFINE first == IF I # {} THEN Min(I) ELSE 0
<1>13. at # 0 /\ at = IF line = 0 THEN 0 ELSE first
  <2>1. at = IF line = 0 THEN 0 ELSE first
    OBVIOUS
  <2> HIDE DEF at
  <2>2. s.at = at
    BY <1>2
  <2>3. QED
    BY <1>1, <2>1, <2>2
<1> HIDE DEF first, line
<1>14. line # 0 /\ first # 0 /\ at = first
  BY <1>13
<1> USE DEF first
<1>3. c.line \in DOMAIN body.rendered /\ c.value \in DOMAIN Gate
  BY DEF BodyOK
<1>4. line \in DOMAIN body.finished
  <2>1. line \in 0 .. Len(body.finished)
    BY <1>3, AlignedIs DEF line
  <2>2. line # 0
    BY <1>14
  <2>3. QED
    BY <2>1, <2>2, BodyIs
<1>5. at \in 1 .. ReadsAt(line)
  <2> HIDE DEF I, at
  <2>1. I # {} /\ at = Min(I)
    BY <1>14
  <2>2. I \in SUBSET Nat /\ I \subseteq 1 .. ReadsAt(line)
    BY DEF ReadsAt, I, reads
  <2>3. Min(I) \in I
    BY <2>1, <2>2, MinOf
  <2>4. QED
    BY <2>1, <2>2, <2>3
<1>6. /\ s.line = line /\ s.at = at /\ s.stream = "call" /\ s.text.literal = "value before this call"
      /\ s.text.values = <<c.value>> /\ s.site = c.va /\ s.reg = c.reg /\ s.anchor = c.line
  BY <1>2 DEF Text
<1>7. s.site \in Spots /\ s.reg \in Registers
  BY <1>6 DEF Spots, Registers
<1>8. s.stream = KindOf(s.text.literal)
  BY <1>6 DEF KindOf
<1>9. s.text.values \in Seq(DOMAIN Gate)
  <2>1. <<c.value>> \in Seq(DOMAIN Gate)
    BY <1>3
  <2>2. QED
    BY <1>6, <2>1
<1>10. line # 0
  BY <1>4, BodyIs
<1> HIDE DEF line, at
<1>11. QED
  BY <1>3, <1>4, <1>5, <1>6, <1>7, <1>8, <1>9, <1>10 DEF line

LEMMA NoteTells ==
  ASSUME BodyOK(body), NEW s \in Notes
  PROVE  /\ s.line \in DOMAIN body.finished /\ s.line \in Nat /\ s.at \in 1 .. ReadsAt(s.line) /\ s.at \in Nat
         /\ s.stream \in StreamKinds /\ s.stream = KindOf(s.text.literal)
         /\ s.text.values \in Seq(DOMAIN Gate)
         /\ s.site \in Spots /\ s.reg \in Registers
         /\ s.stream = "call" <=> s \in CallNotes
         /\ s.stream # "call" <=> s \in JoinNotes
<1>1. s.line \in DOMAIN body.finished => s.line \in Nat /\ ReadsAt(s.line) \in Nat
  BY BodyIs, LineReads
<1>2. CASE s \in JoinNotes
  <2>1. s.stream \in {"join", "loop"} /\ s.stream # "call"
    BY <1>2, JoinNoteIs
  <2>2. s \notin CallNotes
    BY <2>1, CallNoteIs
  <2>3. s.line \in DOMAIN body.finished /\ s.at \in 1 .. ReadsAt(s.line)
    BY <1>2, JoinNoteIs
  <2>4. s.at \in Nat
    BY <1>1, <2>3
  <2>5. s.stream \in StreamKinds
    BY <2>1 DEF StreamKinds
  <2>6. /\ s.stream = KindOf(s.text.literal) /\ s.text.values \in Seq(DOMAIN Gate)
        /\ s.site \in Spots /\ s.reg \in Registers
    BY <1>2, JoinNoteIs
  <2>7. QED
    BY <1>1, <1>2, <2>1, <2>2, <2>3, <2>4, <2>5, <2>6
<1>3. CASE s \in CallNotes
  <2>1. s.stream = "call"
    BY <1>3, CallNoteIs
  <2>2. s \notin JoinNotes
    BY <2>1, JoinNoteIs
  <2>3. s.line \in DOMAIN body.finished /\ s.at \in 1 .. ReadsAt(s.line)
    BY <1>3, CallNoteIs
  <2>4. s.at \in Nat
    BY <1>1, <2>3
  <2>5. s.stream \in StreamKinds
    BY <2>1 DEF StreamKinds
  <2>6. /\ s.stream = KindOf(s.text.literal) /\ s.text.values \in Seq(DOMAIN Gate)
        /\ s.site \in Spots /\ s.reg \in Registers
    BY <1>3, CallNoteIs
  <2>7. QED
    BY <1>1, <1>3, <2>1, <2>2, <2>3, <2>4, <2>5, <2>6
<1>4. QED
  BY <1>2, <1>3 DEF Notes

LEMMA SpanWidthIs ==
  ASSUME NEW text, text.values \in Seq(DOMAIN Gate)
  PROVE  SpanWidth(text) \in Nat
<1> DEFINE N == Len(text.values)
           Eq(g) == g = [n \in 0 .. N |-> IF n = 0 THEN 1 ELSE g[n - 1] + Width[text.values[n]]]
           sum == CHOOSE g : Eq(g)
           step == [n \in 1 .. N |-> [x \in Nat |-> x + Width[text.values[n]]]]
<1>1. SpanWidth(text) = sum[N]
  BY DEF SpanWidth
<1>2. N \in Nat /\ \A n \in 1 .. N : Width[text.values[n]] \in Nat
  BY NotesAssumption
<1> HIDE DEF N
<1>3. step \in [1 .. N -> [Nat -> Nat]] /\ 1 \in Nat
  BY <1>2
<1>4. PICK g : FollowsTo(N, g, Nat, 1, step)
  <2> HIDE DEF step
  <2>1. QED
    BY <1>2, <1>3, RecursionTo
<1>5. Eq(g)
  <2>1. ASSUME NEW n \in 0 .. N PROVE g[n] = IF n = 0 THEN 1 ELSE g[n - 1] + Width[text.values[n]]
    <3>1. CASE n # 0
      <4>1. n \in 1 .. N /\ n - 1 \in 0 .. N
        BY <1>2, <3>1
      <4>2. g[n] = step[n][g[n - 1]] /\ g[n - 1] \in Nat
        BY <1>4, <4>1 DEF FollowsTo
      <4>3. QED
        BY <3>1, <4>1, <4>2
    <3>2. QED
      BY <1>4, <3>1 DEF FollowsTo
  <2>2. QED
    BY <1>4, <2>1 DEF FollowsTo
<1>6. Eq(sum)
  BY <1>5
<1> HIDE DEF sum
<1> DEFINE T == {n \in Nat : n <= N => sum[n] \in Nat}
<1>7. 0 \in T
  BY <1>2, <1>6
<1>8. ASSUME NEW n \in Nat, n \in T PROVE n + 1 \in T
  <2>1. SUFFICES ASSUME n + 1 <= N PROVE sum[n + 1] \in Nat
    OBVIOUS
  <2>2. n + 1 \in 0 .. N /\ n + 1 \in 1 .. N /\ n + 1 # 0 /\ (n + 1) - 1 = n /\ n <= N
    BY <1>2, <2>1
  <2>3. sum[n + 1] = sum[(n + 1) - 1] + Width[text.values[n + 1]]
    BY <1>6, <2>2
  <2>4. QED
    BY <1>2, <1>8, <2>2, <2>3
<1>9. \A n \in Nat : n \in T
  <2> HIDE DEF T
  <2>1. QED
    BY <1>7, <1>8, Induction
<1>10. QED
  BY <1>1, <1>2, <1>9

LEMMA WidthAtIs ==
  ASSUME BodyOK(body), NEW set \in SUBSET Notes, NEW line, NEW at
  PROVE  WidthAt(set, line, at) \in Nat
<1> DEFINE there == {s \in set : s.line = line /\ s.at = at}
<1>1. CASE there = {}
  BY <1>1 DEF WidthAt
<1>2. CASE there # {}
  <2>1. (CHOOSE s \in there : TRUE) \in Notes
    BY <1>2
  <2>2. SpanWidth((CHOOSE s \in there : TRUE).text) \in Nat
    BY <2>1, NoteTells, SpanWidthIs
  <2>3. QED
    BY <1>2, <2>2 DEF WidthAt
<1>3. QED
  BY <1>1, <1>2

WidthBy(set, line, sum) ==
  /\ sum[0] = 0
  /\ \A n \in 0 .. ReadsAt(line) - 1 : sum[n + 1] = sum[n] + WidthAt(set, line, n + 1)
  /\ \A n \in 0 .. ReadsAt(line) : sum[n] \in Nat

LEMMA WidthSteps ==
  ASSUME BodyOK(body), NEW set \in SUBSET Notes, NEW line \in DOMAIN body.finished
  PROVE  \E sum : WidthBy(set, line, sum) /\ WidthOn(set, line) = sum[ReadsAt(line)]
<1> DEFINE N == ReadsAt(line)
           Eq(g) == g = [n \in 0 .. N |-> IF n = 0 THEN 0 ELSE g[n - 1] + WidthAt(set, line, n)]
           sum == CHOOSE g : Eq(g)
           step == [n \in 1 .. N |-> [x \in Nat |-> x + WidthAt(set, line, n)]]
<1>1. WidthOn(set, line) = sum[N]
  BY DEF WidthOn, ReadsAt
<1>2. N \in Nat /\ \A n : WidthAt(set, line, n) \in Nat
  BY LineReads, WidthAtIs
<1> HIDE DEF N
<1>3. step \in [1 .. N -> [Nat -> Nat]] /\ 0 \in Nat
  BY <1>2
<1>4. PICK g : FollowsTo(N, g, Nat, 0, step)
  <2> HIDE DEF step
  <2>1. QED
    BY <1>2, <1>3, RecursionTo
<1>5. Eq(g)
  <2>1. ASSUME NEW n \in 0 .. N PROVE g[n] = IF n = 0 THEN 0 ELSE g[n - 1] + WidthAt(set, line, n)
    <3>1. CASE n # 0
      <4>1. n \in 1 .. N /\ n - 1 \in 0 .. N
        BY <1>2, <3>1
      <4>2. g[n] = step[n][g[n - 1]] /\ g[n - 1] \in Nat
        BY <1>4, <4>1 DEF FollowsTo
      <4>3. QED
        BY <3>1, <4>1, <4>2
    <3>2. QED
      BY <1>4, <3>1 DEF FollowsTo
  <2>2. QED
    BY <1>4, <2>1 DEF FollowsTo
<1>6. Eq(sum)
  BY <1>5
<1> HIDE DEF sum
<1>7. sum[0] = 0
  BY <1>2, <1>6
<1>8. ASSUME NEW n \in 0 .. N - 1 PROVE sum[n + 1] = sum[n] + WidthAt(set, line, n + 1)
  <2>1. n + 1 \in 0 .. N /\ n + 1 # 0 /\ (n + 1) - 1 = n
    BY <1>2
  <2>2. sum[n + 1] = sum[(n + 1) - 1] + WidthAt(set, line, n + 1)
    BY <1>6, <2>1
  <2>3. QED
    BY <2>1, <2>2
<1> DEFINE T == {n \in Nat : n <= N => sum[n] \in Nat}
<1>9. \A n \in Nat : n \in T
  <2>1. 0 \in T
    BY <1>7
  <2>2. ASSUME NEW n \in Nat, n \in T PROVE n + 1 \in T
    <3>1. SUFFICES ASSUME n + 1 <= N PROVE sum[n + 1] \in Nat
      OBVIOUS
    <3>2. n \in 0 .. N - 1 /\ sum[n] \in Nat
      BY <1>2, <2>2, <3>1
    <3>3. QED
      BY <1>2, <1>8, <3>2
  <2> HIDE DEF T
  <2>3. QED
    BY <2>1, <2>2, Induction
<1>10. \A n \in 0 .. N : sum[n] \in Nat
  BY <1>2, <1>9
<1>11. WidthBy(set, line, sum)
  BY <1>7, <1>8, <1>10 DEF WidthBy, N
<1>12. QED
  BY <1>1, <1>11 DEF N

Lone(set) == \A s, t \in set : Place(s) = Place(t) => s = t

\* What stands on a line is as wide as two parts of it together.
LEMMA WidthOfTwo ==
  ASSUME BodyOK(body), NEW A \in SUBSET Notes, NEW B \in SUBSET Notes, Lone(A \union B), A \cap B = {},
         NEW line \in DOMAIN body.finished
  PROVE  /\ WidthOn(A, line) \in Nat /\ WidthOn(B, line) \in Nat
         /\ WidthOn(A \union B, line) = WidthOn(A, line) + WidthOn(B, line)
<1> DEFINE N == ReadsAt(line)
           C == A \union B
<1>1. N \in Nat
  BY LineReads
<1>2. \A at : /\ WidthAt(A, line, at) \in Nat /\ WidthAt(B, line, at) \in Nat
              /\ WidthAt(C, line, at) = WidthAt(A, line, at) + WidthAt(B, line, at)
  <2> TAKE at
  <2> DEFINE in(set) == {s \in set : s.line = line /\ s.at = at}
             of(there) == IF there = {} THEN 0 ELSE SpanWidth((CHOOSE s \in there : TRUE).text)
  <2>1. WidthAt(A, line, at) = of(in(A)) /\ WidthAt(B, line, at) = of(in(B)) /\ WidthAt(C, line, at) = of(in(C))
    BY DEF WidthAt
  <2>8. of({}) = 0
    OBVIOUS
  <2>2. WidthAt(A, line, at) \in Nat /\ WidthAt(B, line, at) \in Nat
    BY WidthAtIs
  <2>3. \A s, t \in in(C) : s = t
    BY DEF Lone, Place
  <2>4. in(C) = in(A) \union in(B) /\ in(A) \cap in(B) = {}
    OBVIOUS
  <2>5. CASE in(A) = {}
    <3>1. in(C) = in(B)
      BY <2>4, <2>5
    <3> HIDE DEF in, of
    <3>2. of(in(C)) = of(in(B)) /\ of(in(A)) = 0
      BY <2>5, <2>8, <3>1
    <3>3. QED
      BY <2>1, <2>2, <3>2
  <2>6. CASE in(A) # {}
    <3> HIDE DEF in, of
    <3>1. in(B) = {}
      BY <2>3, <2>4, <2>6
    <3>2. in(C) = in(A)
      BY <2>4, <3>1
    <3>3. of(in(C)) = of(in(A)) /\ of(in(B)) = 0
      BY <2>8, <3>1, <3>2
    <3>4. QED
      BY <2>1, <2>2, <3>3
  <2>7. QED
    BY <2>5, <2>6
<1>3. A \in SUBSET Notes /\ B \in SUBSET Notes /\ C \in SUBSET Notes
  OBVIOUS
<1> HIDE DEF C
<1>4. PICK a : WidthBy(A, line, a) /\ WidthOn(A, line) = a[N]
  BY <1>3, WidthSteps
<1>5. PICK b : WidthBy(B, line, b) /\ WidthOn(B, line) = b[N]
  BY <1>3, WidthSteps
<1>6. PICK c : WidthBy(C, line, c) /\ WidthOn(C, line) = c[N]
  BY <1>3, WidthSteps
<1> HIDE DEF N
<1> DEFINE T == {n \in Nat : n <= N => c[n] = a[n] + b[n]}
<1>7. 0 \in T
  <2>1. a[0] = 0 /\ b[0] = 0 /\ c[0] = 0
    BY <1>4, <1>5, <1>6 DEF WidthBy
  <2>2. QED
    BY <2>1
<1>8. ASSUME NEW n \in Nat, n \in T PROVE n + 1 \in T
  <2>1. SUFFICES ASSUME n + 1 <= N PROVE c[n + 1] = a[n + 1] + b[n + 1]
    OBVIOUS
  <2>2. n \in 0 .. N - 1 /\ n \in 0 .. N /\ c[n] = a[n] + b[n]
    BY <1>1, <1>8, <2>1
  <2>3. /\ a[n + 1] = a[n] + WidthAt(A, line, n + 1) /\ b[n + 1] = b[n] + WidthAt(B, line, n + 1)
        /\ c[n + 1] = c[n] + WidthAt(C, line, n + 1) /\ a[n] \in Nat /\ b[n] \in Nat
    BY <1>4, <1>5, <1>6, <2>2 DEF WidthBy, N
  <2>4. /\ WidthAt(A, line, n + 1) \in Nat /\ WidthAt(B, line, n + 1) \in Nat
        /\ WidthAt(C, line, n + 1) = WidthAt(A, line, n + 1) + WidthAt(B, line, n + 1)
    BY <1>2
  <2>5. QED
    BY <2>2, <2>3, <2>4
<1>9. \A n \in Nat : n \in T
  <2> HIDE DEF T
  <2>1. QED
    BY <1>7, <1>8, Induction
<1>10. c[N] = a[N] + b[N]
  BY <1>1, <1>9
<1>11. a[N] \in Nat /\ b[N] \in Nat
  BY <1>1, <1>4, <1>5 DEF WidthBy, N
<1>12. QED
  BY <1>4, <1>5, <1>6, <1>10, <1>11 DEF C

\* A note is as wide on its line as its text, and takes no room on others.
LEMMA WidthOfOne ==
  ASSUME BodyOK(body), NEW s \in Notes, NEW line \in DOMAIN body.finished
  PROVE  WidthOn({s}, line) = IF s.line = line THEN SpanWidth(s.text) ELSE 0
<1> DEFINE N == ReadsAt(line)
           w(n) == IF s.line = line /\ s.at = n THEN SpanWidth(s.text) ELSE 0
           upto(n) == IF s.line = line /\ s.at <= n THEN SpanWidth(s.text) ELSE 0
<1>1. N \in Nat /\ s.at \in 1 .. ReadsAt(s.line) /\ s.at \in Nat /\ SpanWidth(s.text) \in Nat
  BY LineReads, NoteTells, SpanWidthIs
<1>2. ASSUME NEW n PROVE WidthAt({s}, line, n) = w(n)
  <2> DEFINE there == {t \in {s} : t.line = line /\ t.at = n}
  <2>1. CASE s.line = line /\ s.at = n
    <3>1. there = {s}
      BY <2>1
    <3>2. (CHOOSE t \in there : TRUE) = s
      BY <3>1
    <3>3. WidthAt({s}, line, n) = SpanWidth(s.text)
      BY <3>1, <3>2 DEF WidthAt
    <3>4. QED
      BY <2>1, <3>3
  <2>2. CASE ~(s.line = line /\ s.at = n)
    <3>1. there = {}
      BY <2>2
    <3>2. QED
      BY <2>2, <3>1 DEF WidthAt
  <2>3. QED
    BY <2>1, <2>2
<1>3. PICK sum : WidthBy({s}, line, sum) /\ WidthOn({s}, line) = sum[N]
  BY WidthSteps
<1> DEFINE T == {n \in Nat : n <= N => sum[n] = upto(n)}
<1>4. 0 \in T
  BY <1>1, <1>3 DEF WidthBy
<1>5. ASSUME NEW n \in Nat, n \in T PROVE n + 1 \in T
  <2>1. SUFFICES ASSUME n + 1 <= N PROVE sum[n + 1] = upto(n + 1)
    OBVIOUS
  <2>2. n \in 0 .. ReadsAt(line) - 1 /\ sum[n] = upto(n)
    BY <1>1, <1>5, <2>1
  <2>3. sum[n + 1] = sum[n] + w(n + 1)
    BY <1>2, <1>3, <2>2 DEF WidthBy
  <2>4. upto(n) + w(n + 1) = upto(n + 1)
    BY <1>1
  <2>5. QED
    BY <2>2, <2>3, <2>4
<1>6. \A n \in Nat : n \in T
  <2> HIDE DEF T
  <2>1. QED
    BY <1>4, <1>5, Induction
<1>7. sum[N] = upto(N)
  BY <1>1, <1>6
<1>8. s.line = line => s.at <= N
  BY <1>1
<1>9. QED
  BY <1>3, <1>7, <1>8

-----------------------------------------------------------------------------
(* Planning: what a step does to a plan.                                     *)

Plans == [inserts : Seq(Notes), rows : [StreamKinds -> Seq(Drops)]]
Standing(plan) == spans \union Range(plan.inserts)
Roomy(set) == \A s \in set : Width[body.finished[s.line].code] + WidthOn(set, s.line) <= MaxLine
Sound(plan) ==
  /\ plan \in Plans /\ spans \in SUBSET Notes /\ spans \cap Range(plan.inserts) = {}
  /\ Lone(Standing(plan)) /\ Roomy(Standing(plan))

\* Nothing that is planned or written down is taken back.
Grows(p, q) ==
  /\ Range(p.inserts) \subseteq Range(q.inserts)
  /\ \A stream \in StreamKinds :
       /\ Len(p.rows[stream]) <= Len(q.rows[stream])
       /\ \A k \in 1 .. Len(p.rows[stream]) : q.rows[stream][k] = p.rows[stream][k]

\* The site's register has one more annotation, or one more row.
Answers(p, q, site, reg) ==
  \/ \E s \in Range(q.inserts) \ Range(p.inserts) : s.stream # "call" /\ s.site = site /\ s.reg = reg
  \/ \E stream \in {"join", "loop"} : \E k \in Len(p.rows[stream]) + 1 .. Len(q.rows[stream]) :
       q.rows[stream][k].site = site /\ q.rows[stream][k].reg = reg

LEMMA PlanIs ==
  ASSUME NEW p \in Plans
  PROVE  /\ p.inserts \in Seq(Notes) /\ Range(p.inserts) \in SUBSET Notes
         /\ \A stream \in StreamKinds : p.rows[stream] \in Seq(Drops) /\ Len(p.rows[stream]) \in Nat
BY DEF Plans, Range

LEMMA GrowsOn ==
  ASSUME NEW p \in Plans, NEW q \in Plans, NEW r \in Plans, Grows(p, q), Grows(q, r)
  PROVE  /\ Grows(p, r)
         /\ \A site, reg : Answers(p, q, site, reg) \/ Answers(q, r, site, reg) => Answers(p, r, site, reg)
<1>1. /\ \A stream \in StreamKinds : /\ Len(p.rows[stream]) \in Nat /\ Len(q.rows[stream]) \in Nat
                                     /\ Len(r.rows[stream]) \in Nat
      /\ {"join", "loop"} \subseteq StreamKinds
  BY PlanIs DEF StreamKinds
<1>2. Grows(p, r)
  <2>1. ASSUME NEW stream \in StreamKinds
        PROVE  /\ Len(p.rows[stream]) <= Len(r.rows[stream])
               /\ \A k \in 1 .. Len(p.rows[stream]) : r.rows[stream][k] = p.rows[stream][k]
    BY <1>1 DEF Grows
  <2>2. QED
    BY <2>1 DEF Grows
<1>3. ASSUME NEW site, NEW reg, Answers(p, q, site, reg) PROVE Answers(p, r, site, reg)
  <2>1. CASE \E s \in Range(q.inserts) \ Range(p.inserts) : s.stream # "call" /\ s.site = site /\ s.reg = reg
    BY <2>1 DEF Grows, Answers
  <2>2. ASSUME NEW stream \in {"join", "loop"}, NEW k \in Len(p.rows[stream]) + 1 .. Len(q.rows[stream]),
               q.rows[stream][k].site = site /\ q.rows[stream][k].reg = reg
        PROVE  Answers(p, r, site, reg)
    <3>1. stream \in StreamKinds
      BY <1>1
    <3>2. k \in 1 .. Len(q.rows[stream])
      BY <1>1, <3>1
    <3>3. r.rows[stream][k] = q.rows[stream][k] /\ Len(q.rows[stream]) <= Len(r.rows[stream])
      BY <3>1, <3>2 DEF Grows
    <3>4. k \in Len(p.rows[stream]) + 1 .. Len(r.rows[stream])
      BY <1>1, <3>1, <3>3
    <3>5. QED
      BY <2>2, <3>3, <3>4 DEF Answers
  <2>3. QED
    BY <1>3, <2>1, <2>2 DEF Answers
<1>4. ASSUME NEW site, NEW reg, Answers(q, r, site, reg) PROVE Answers(p, r, site, reg)
  <2>1. CASE \E s \in Range(r.inserts) \ Range(q.inserts) : s.stream # "call" /\ s.site = site /\ s.reg = reg
    BY <2>1 DEF Grows, Answers
  <2>2. ASSUME NEW stream \in {"join", "loop"}, NEW k \in Len(q.rows[stream]) + 1 .. Len(r.rows[stream]),
               r.rows[stream][k].site = site /\ r.rows[stream][k].reg = reg
        PROVE  Answers(p, r, site, reg)
    <3>1. stream \in StreamKinds
      BY <1>1
    <3>2. Len(p.rows[stream]) <= Len(q.rows[stream])
      BY <3>1 DEF Grows
    <3>3. k \in Len(p.rows[stream]) + 1 .. Len(r.rows[stream])
      BY <1>1, <3>1, <3>2
    <3>4. QED
      BY <2>2, <3>3 DEF Answers
  <2>3. QED
    BY <1>4, <2>1, <2>2 DEF Answers
<1>5. QED
  BY <1>2, <1>3, <1>4

LEMMA GrowsNot ==
  ASSUME NEW p \in Plans
  PROVE  Grows(p, p)
BY PlanIs DEF Grows

LEMMA WithheldIs ==
  ASSUME BodyOK(body), NEW p \in Plans, NEW s \in Notes, NEW kind \in {"omission", "rejection"}, NEW why \in Whys
  PROVE  LET q == Withheld(p, s, kind, why)
         IN  /\ q \in Plans /\ q.inserts = p.inserts /\ Grows(p, q)
             /\ s.stream # "call" => Answers(p, q, s.site, s.reg)
<1> DEFINE row == Row(kind, s.stream, s.site, s.reg, why)
           q == Withheld(p, s, kind, why)
<1>1. s.stream \in StreamKinds /\ s.site \in Spots /\ s.reg \in Registers
  BY NoteTells
<1>2. row \in Drops /\ row.site = s.site /\ row.reg = s.reg
  BY <1>1 DEF Drops, Row
<1> HIDE DEF row
<1>3. /\ p.rows \in [StreamKinds -> Seq(Drops)] /\ p.inserts \in Seq(Notes)
      /\ p = [inserts |-> p.inserts, rows |-> p.rows]
  BY DEF Plans
<1>4. q = [inserts |-> p.inserts, rows |-> [p.rows EXCEPT ![s.stream] = Append(@, row)]]
  <2> DEFINE rows == [p.rows EXCEPT ![s.stream] = Append(@, row)]
  <2>1. q = [p EXCEPT !.rows = rows]
    BY DEF Withheld, row
  <2> HIDE DEF rows, q
  <2>2. q = [inserts |-> p.inserts, rows |-> rows]
    BY <1>3, <2>1
  <2>3. QED
    BY <2>2 DEF rows
<1>5. /\ q.inserts = p.inserts
      /\ \A stream \in StreamKinds :
           q.rows[stream] = IF stream = s.stream THEN Append(p.rows[stream], row) ELSE p.rows[stream]
  BY <1>3, <1>4
<1>6. q \in Plans
  <2>1. Append(p.rows[s.stream], row) \in Seq(Drops)
    BY <1>1, <1>2, <1>3
  <2>2. [p.rows EXCEPT ![s.stream] = Append(@, row)] \in [StreamKinds -> Seq(Drops)]
    BY <1>1, <1>3, <2>1
  <2>3. QED
    BY <1>3, <1>4, <2>2 DEF Plans
<1>7. ASSUME NEW stream \in StreamKinds
      PROVE  /\ Len(p.rows[stream]) <= Len(q.rows[stream])
             /\ \A k \in 1 .. Len(p.rows[stream]) : q.rows[stream][k] = p.rows[stream][k]
  <2>1. p.rows[stream] \in Seq(Drops) /\ Len(p.rows[stream]) \in Nat
    BY <1>3
  <2>2. CASE stream = s.stream
    <3>1. q.rows[stream] = Append(p.rows[stream], row)
      BY <1>5, <2>2
    <3> HIDE DEF q
    <3>2. QED
      BY <1>2, <2>1, <3>1, AppendProperties
  <2>3. CASE stream # s.stream
    <3>1. q.rows[stream] = p.rows[stream]
      BY <1>5, <2>3
    <3> HIDE DEF q
    <3>2. QED
      BY <2>1, <3>1
  <2>4. QED
    BY <2>2, <2>3
<1> HIDE DEF q
<1>8. Grows(p, q)
  BY <1>5, <1>7 DEF Grows
<1>9. ASSUME s.stream # "call" PROVE Answers(p, q, s.site, s.reg)
  <2>1. s.stream \in {"join", "loop"}
    BY <1>1, <1>9 DEF StreamKinds
  <2> DEFINE n == Len(p.rows[s.stream])
  <2>2. n \in Nat /\ Len(q.rows[s.stream]) = n + 1 /\ q.rows[s.stream][n + 1] = row
    <3>1. p.rows[s.stream] \in Seq(Drops) /\ q.rows[s.stream] = Append(p.rows[s.stream], row)
      BY <1>1, <1>3, <1>5
    <3>2. QED
      BY <1>2, <3>1, AppendProperties
  <2>3. n + 1 \in Len(p.rows[s.stream]) + 1 .. Len(q.rows[s.stream])
    BY <2>2
  <2>4. QED
    BY <1>2, <2>1, <2>2, <2>3 DEF Answers
<1>10. QED
  BY <1>5, <1>6, <1>8, <1>9 DEF q

LEMMA FittedIs ==
  ASSUME BodyOK(body), NEW p, Sound(p), NEW s \in Notes, \A t \in Standing(p) : Place(t) # Place(s)
  PROVE  LET q == Fitted(p, s)
         IN  /\ Sound(q) /\ Grows(p, q) /\ Range(q.inserts) \subseteq Range(p.inserts) \union {s}
             /\ s.stream # "call" => Answers(p, q, s.site, s.reg)
<1> DEFINE q == Fitted(p, s)
           why == Budget(p, s)
           A == Standing(p)
           code == body.finished[s.line].code
<1>1. p \in Plans /\ A \in SUBSET Notes /\ spans \in SUBSET Notes /\ Range(p.inserts) \in SUBSET Notes
  BY PlanIs DEF Sound, Standing
<1>2. CASE why # Free
  <2>1. q = Withheld(p, s, "omission", why)
    BY <1>2 DEF Fitted
  <2>2. why \in Whys
    <3>1. why \in {"annotation", "line"}
      BY <1>2 DEF Budget
    <3>2. QED
      BY <3>1 DEF Whys
  <2> HIDE DEF q, why
  <2>3. /\ q \in Plans /\ q.inserts = p.inserts /\ Grows(p, q)
        /\ s.stream # "call" => Answers(p, q, s.site, s.reg)
    BY <1>1, <2>1, <2>2, WithheldIs
  <2>4. Sound(q)
    BY <2>3 DEF Sound, Standing
  <2>5. QED
    BY <2>3, <2>4 DEF q
<1>3. CASE why = Free
  <2>1. q = [p EXCEPT !.inserts = Append(@, s)]
    BY <1>3 DEF Fitted
  <2>2. s.line \in DOMAIN body.finished /\ SpanWidth(s.text) \in Nat /\ Width[code] \in Nat
    BY NoteTells, SpanWidthIs, BodyIs, NotesAssumption
  <2>3. s \notin A
    BY DEF Place
  <2>4. Width[code] + WidthOn(A, s.line) + SpanWidth(s.text) <= MaxLine
    <3>1. LineWidth(s.line) + WidthOn(Range(p.inserts), s.line) + SpanWidth(s.text) <= MaxLine
      <4> DEFINE over == SpanWidth(s.text) > MaxSpan
                 wide == LineWidth(s.line) + WidthOn(Range(p.inserts), s.line) + SpanWidth(s.text) > MaxLine
      <4>1. MaxSpan \in Nat /\ MaxLine \in Nat /\ Free \notin {"annotation", "line"}
        BY NotesAssumption
      <4>2. ~over /\ (SpanWidth(s.text) <= MaxSpan)
        BY <1>3, <2>2, <4>1 DEF Budget
      <4>3. ~wide
        BY <1>3, <4>1, <4>2 DEF Budget
      <4>4. LineWidth(s.line) + WidthOn(Range(p.inserts), s.line) + SpanWidth(s.text) \in Nat
        <5>1. WidthOn(spans, s.line) \in Nat /\ WidthOn(Range(p.inserts), s.line) \in Nat
          BY <1>1, <2>2, WidthOfTwo DEF Sound, Standing
        <5>2. QED
          BY <2>2, <5>1 DEF LineWidth
      <4>5. QED
        BY <4>1, <4>3, <4>4
    <3>2. /\ WidthOn(spans, s.line) \in Nat /\ WidthOn(Range(p.inserts), s.line) \in Nat
          /\ WidthOn(A, s.line) = WidthOn(spans, s.line) + WidthOn(Range(p.inserts), s.line)
      BY <1>1, <2>2, WidthOfTwo DEF Sound, Standing
    <3>3. LineWidth(s.line) = Width[code] + WidthOn(spans, s.line)
      BY DEF LineWidth
    <3>4. Width[code] + WidthOn(A, s.line) = LineWidth(s.line) + WidthOn(Range(p.inserts), s.line)
      BY <2>2, <3>2, <3>3
    <3>5. QED
      BY <3>1, <3>4
  <2>5. /\ p = [inserts |-> p.inserts, rows |-> p.rows]
        /\ p.inserts \in Seq(Notes) /\ p.rows \in [StreamKinds -> Seq(Drops)]
    BY <1>1 DEF Plans
  <2>6. q.inserts = Append(p.inserts, s) /\ q.rows = p.rows /\ q = [inserts |-> q.inserts, rows |-> q.rows]
    BY <2>1, <2>5
  <2> HIDE DEF q
  <2>7. Range(q.inserts) = Range(p.inserts) \union {s}
    <3>1. /\ Len(p.inserts) \in Nat /\ DOMAIN p.inserts = 1 .. Len(p.inserts)
          /\ DOMAIN q.inserts = 1 .. Len(p.inserts) + 1
          /\ \A k \in 1 .. Len(p.inserts) : q.inserts[k] = p.inserts[k]
          /\ q.inserts[Len(p.inserts) + 1] = s
      BY <2>5, <2>6
    <3>2. DOMAIN q.inserts = DOMAIN p.inserts \union {Len(p.inserts) + 1}
      BY <3>1
    <3>3. QED
      BY <3>1, <3>2 DEF Range
  <2>8. q \in Plans
    <3>1. q.inserts \in Seq(Notes)
      BY <2>5, <2>6
    <3>2. QED
      BY <2>5, <2>6, <3>1 DEF Plans
  <2>9. Standing(q) = A \union {s}
    BY <2>7 DEF Standing
  <2>10. Lone(Standing(q))
    BY <2>9 DEF Lone, Sound
  <2>11. Roomy(Standing(q))
    <3>1. ASSUME NEW t \in A \union {s} PROVE Width[body.finished[t.line].code] + WidthOn(A \union {s}, t.line) <= MaxLine
      <4>1. t.line \in DOMAIN body.finished
        BY <1>1, NoteTells
      <4>2. Lone(A \union {s}) /\ A \cap {s} = {} /\ {s} \in SUBSET Notes
        BY <2>3, <2>9, <2>10
      <4> HIDE DEF A
      <4>3. /\ WidthOn(A, t.line) \in Nat
            /\ WidthOn(A \union {s}, t.line) = WidthOn(A, t.line) + WidthOn({s}, t.line)
        BY <1>1, <4>1, <4>2, WidthOfTwo
      <4>4. WidthOn({s}, t.line) = IF s.line = t.line THEN SpanWidth(s.text) ELSE 0
        BY <4>1, WidthOfOne
      <4>5. CASE t.line = s.line
        <5>1. WidthOn(A \union {s}, t.line) = WidthOn(A, t.line) + SpanWidth(s.text)
          BY <4>3, <4>4, <4>5
        <5>2. Width[code] + (WidthOn(A, s.line) + SpanWidth(s.text)) <= MaxLine
          BY <2>2, <2>4, <4>3, <4>5
        <5>3. QED
          BY <4>5, <5>1, <5>2
      <4>6. CASE t.line # s.line
        <5>1. t \in A
          BY <4>6
        <5>2. Width[body.finished[t.line].code] + WidthOn(A, t.line) <= MaxLine
          BY <5>1 DEF Sound, Roomy, A
        <5>3. WidthOn(A \union {s}, t.line) = WidthOn(A, t.line)
          BY <4>3, <4>4, <4>6
        <5>4. QED
          BY <5>2, <5>3
      <4>7. QED
        BY <4>5, <4>6
    <3>2. QED
      BY <2>9, <3>1 DEF Roomy
  <2>12. spans \cap Range(q.inserts) = {}
    BY <2>3, <2>7 DEF Sound, Standing
  <2>13. Sound(q)
    BY <1>1, <2>8, <2>10, <2>11, <2>12 DEF Sound
  <2>14. Grows(p, q)
    BY <1>1, <2>6, <2>7, PlanIs DEF Grows
  <2>15. s \in Range(q.inserts) \ Range(p.inserts)
    BY <2>3, <2>7 DEF Standing
  <2>16. s.stream # "call" => Answers(p, q, s.site, s.reg)
    BY <2>15 DEF Answers
  <2>17. QED
    BY <2>7, <2>13, <2>14, <2>16 DEF q
<1>4. QED
  BY <1>2, <1>3

-----------------------------------------------------------------------------
(* The merges' notes.                                                        *)

LEMMA RefusalIs ==
  ASSUME NEW values \in Seq(DOMAIN Gate), Refusal(values) # Free
  PROVE  Refusal(values) \in Whys
<1> DEFINE I == {i \in 1 .. Len(values) : Gate[values[i]] # Free}
           bad == IF I # {} THEN Min(I) ELSE 0
<1>1. Refusal(values) = IF bad = 0 THEN Free ELSE Gate[values[bad]]
  BY DEF Refusal, SelectInSeq
<1>2. bad # 0 /\ Refusal(values) = Gate[values[bad]]
  BY <1>1
<1>3. I # {} /\ I \in SUBSET Nat /\ bad = Min(I)
  BY <1>2
<1>4. bad \in I
  BY <1>3, MinOf
<1>5. values[bad] \in DOMAIN Gate
  BY <1>4
<1>6. QED
  BY <1>2, <1>5 DEF Whys, Range

LEMMA ListingIs ==
  ASSUME NEW S, IsFiniteSet(S)
  PROVE  SetToSeq(S) \in Seq(S) /\ Range(SetToSeq(S)) = S
<1> DEFINE n == Cardinality(S)
           f == SetToSeq(S)
<1>1. n \in Nat /\ ExistsBijection(1 .. n, S)
  BY FS_CardinalityType
<1>2. \E g \in [1 .. n -> S] : IsInjective(g)
  BY <1>1 DEF ExistsBijection, Bijection, Injection
<1>3. f \in [1 .. n -> S] /\ IsInjective(f)
  BY <1>2 DEF SetToSeq
<1> HIDE DEF f
<1>4. f \in Injection(1 .. n, S)
  BY <1>3 DEF Injection
<1>5. IsFiniteSet(1 .. n) /\ Cardinality(1 .. n) = n
  BY <1>1, FS_Interval
<1>6. f \in Surjection(1 .. n, S)
  BY <1>4, <1>5, FS_Injection
<1>7. Range(f) = S
  BY <1>3, <1>6 DEF Surjection, Range
<1>8. f \in Seq(S)
  BY <1>1, <1>3
<1>9. QED
  BY <1>7, <1>8 DEF f

JoinPlans == {p \in Plans : Sound(p) /\ Range(p.inserts) \subseteq JoinNotes}

LEMMA OfferIs ==
  ASSUME BodyOK(body), spans = {}, NEW p \in JoinPlans, NEW anchor, NEW line \in DOMAIN body.finished,
         NEW at \in 1 .. ReadsAt(line)
  PROVE  LET q == Offered(p, anchor, line, at)
             reg == ReadsOf[body.finished[line].code][at]
         IN  /\ q \in JoinPlans /\ Grows(p, q)
             /\ reg \in anchor.regs /\ <<anchor.site, reg>> \in DOMAIN body.candidates
                => Answers(p, q, anchor.site, reg)
<1> DEFINE q == Offered(p, anchor, line, at)
           reg == ReadsOf[body.finished[line].code][at]
           s == JoinSpan(anchor.site, reg, line, at)
           asked == reg \in anchor.regs /\ <<anchor.site, reg>> \in DOMAIN body.candidates
<1>1. p \in Plans /\ Sound(p) /\ Range(p.inserts) \subseteq JoinNotes
  BY DEF JoinPlans
<1>2. CASE ~asked
  <2>1. q = p
    BY <1>2 DEF Offered
  <2>2. QED
    BY <1>1, <1>2, <2>1, GrowsNot DEF q
<1>3. CASE asked
  <2>1. q = IF Refusal(s.text.values) # Free THEN Withheld(p, s, "rejection", Refusal(s.text.values))
            ELSE IF Claimed(p, s) THEN Withheld(p, s, "rejection", "coordinate_already_claimed")
            ELSE Fitted(p, s)
    BY <1>3 DEF Offered
  <2> HIDE DEF reg
  <2>2. s.line = line /\ s.at = at /\ s.site = anchor.site /\ s.reg = reg
    BY DEF JoinSpan
  <2>3. at \in Nat
    BY LineReads
  <2>4. s \in JoinNotes
    <3> DEFINE k == <<anchor.site, reg>>
    <3>1. k \in DOMAIN body.candidates /\ s = JoinSpan(k[1], k[2], line, at)
      BY <1>3
    <3> HIDE DEF s, k
    <3>2. s \in {JoinSpan(key[1], key[2], l, n) : key \in DOMAIN body.candidates, l \in DOMAIN body.finished, n \in Nat}
      BY <2>3, <3>1
    <3>3. QED
      BY <1>3, <2>2, <3>2 DEF JoinNotes
  <2> HIDE DEF s, q
  <2>5. s \in Notes /\ s.stream # "call" /\ s.text.values \in Seq(DOMAIN Gate)
    BY <2>4, JoinNoteIs DEF Notes
  <2>6. CASE Refusal(s.text.values) # Free
    <3> DEFINE why == Refusal(s.text.values)
    <3>1. why \in Whys /\ q = Withheld(p, s, "rejection", why)
      BY <2>1, <2>5, <2>6, RefusalIs
    <3> HIDE DEF why
    <3>2. q \in Plans /\ q.inserts = p.inserts /\ Grows(p, q) /\ Answers(p, q, s.site, s.reg)
      BY <1>1, <2>5, <3>1, WithheldIs
    <3>3. q \in JoinPlans
      BY <1>1, <3>2 DEF JoinPlans, Sound, Standing
    <3>4. QED
      BY <2>2, <3>2, <3>3 DEF q, reg
  <2>7. CASE Refusal(s.text.values) = Free /\ Claimed(p, s)
    <3>1. q = Withheld(p, s, "rejection", "coordinate_already_claimed")
      BY <2>1, <2>7
    <3>2. "coordinate_already_claimed" \in Whys
      BY DEF Whys
    <3>3. q \in Plans /\ q.inserts = p.inserts /\ Grows(p, q) /\ Answers(p, q, s.site, s.reg)
      BY <1>1, <2>5, <3>1, <3>2, WithheldIs
    <3>4. q \in JoinPlans
      BY <1>1, <3>3 DEF JoinPlans, Sound, Standing
    <3>5. QED
      BY <2>2, <3>3, <3>4 DEF q, reg
  <2>8. CASE Refusal(s.text.values) = Free /\ ~Claimed(p, s)
    <3>1. q = Fitted(p, s)
      BY <2>1, <2>8
    <3>2. \A t \in Standing(p) : Place(t) # Place(s)
      BY <2>8 DEF Claimed, Standing
    <3>3. /\ Sound(q) /\ Grows(p, q) /\ Range(q.inserts) \subseteq Range(p.inserts) \union {s}
          /\ Answers(p, q, s.site, s.reg)
      BY <1>1, <2>5, <3>1, <3>2, FittedIs
    <3>4. q \in JoinPlans
      BY <1>1, <2>4, <3>3 DEF JoinPlans, Sound
    <3>5. QED
      BY <2>2, <3>3, <3>4 DEF q, reg
  <2>9. QED
    BY <2>6, <2>7, <2>8
<1>4. QED
  BY <1>2, <1>3

\* Plans that grow one after the other.
LEMMA GrowsAlong ==
  ASSUME NEW N \in Nat, NEW h \in [0 .. N -> Plans], \A n \in 1 .. N : Grows(h[n - 1], h[n])
  PROVE  /\ \A n \in 0 .. N : Grows(h[0], h[n])
         /\ \A n \in 1 .. N : \A site, reg : Answers(h[n - 1], h[n], site, reg) => Answers(h[0], h[N], site, reg)
<1> DEFINE T == {n \in Nat : n <= N => Grows(h[0], h[n])}
<1>1. \A n \in Nat : n \in T
  <2>1. 0 \in T
    BY GrowsNot
  <2>2. ASSUME NEW n \in Nat, n \in T PROVE n + 1 \in T
    <3>1. SUFFICES ASSUME n + 1 <= N PROVE Grows(h[0], h[n + 1])
      OBVIOUS
    <3>2. n + 1 \in 1 .. N /\ (n + 1) - 1 = n /\ n \in 0 .. N /\ n + 1 \in 0 .. N /\ 0 \in 0 .. N
      BY <3>1
    <3>3. Grows(h[0], h[n]) /\ Grows(h[n], h[n + 1])
      BY <2>2, <3>1, <3>2
    <3>4. h[0] \in Plans /\ h[n] \in Plans /\ h[n + 1] \in Plans
      BY <3>2
    <3>5. QED
      BY <3>3, <3>4, GrowsOn
  <2> HIDE DEF T
  <2>3. QED
    BY <2>1, <2>2, Induction
<1> DEFINE U(m) == {n \in Nat : m + n <= N => Grows(h[m], h[m + n])}
<1>2. ASSUME NEW m \in Nat PROVE \A n \in Nat : n \in U(m)
  <2>1. 0 \in U(m)
    <3>1. m <= N => h[m] \in Plans /\ m + 0 = m
      OBVIOUS
    <3>2. QED
      BY <3>1, GrowsNot
  <2>2. ASSUME NEW n \in Nat, n \in U(m) PROVE n + 1 \in U(m)
    <3>1. SUFFICES ASSUME m + (n + 1) <= N PROVE Grows(h[m], h[m + (n + 1)])
      OBVIOUS
    <3>2. /\ m + (n + 1) \in 1 .. N /\ (m + (n + 1)) - 1 = m + n /\ m + n \in 0 .. N
          /\ m + (n + 1) \in 0 .. N /\ m \in 0 .. N
      BY <3>1
    <3>3. Grows(h[m], h[m + n]) /\ Grows(h[m + n], h[m + (n + 1)])
      BY <2>2, <3>1, <3>2
    <3>4. h[m] \in Plans /\ h[m + n] \in Plans /\ h[m + (n + 1)] \in Plans
      BY <3>2
    <3>5. QED
      BY <3>3, <3>4, GrowsOn
  <2> HIDE DEF U
  <2>3. QED
    BY <2>1, <2>2, Induction
<1>3. ASSUME NEW n \in 1 .. N, NEW site, NEW reg, Answers(h[n - 1], h[n], site, reg)
      PROVE  Answers(h[0], h[N], site, reg)
  <2>1. n - 1 \in Nat /\ n \in Nat /\ N - n \in Nat /\ n + (N - n) = N /\ n - 1 \in 0 .. N /\ n \in 0 .. N /\ N \in 0 .. N
    OBVIOUS
  <2>2. Grows(h[0], h[n - 1])
    BY <1>1, <2>1
  <2>3. Grows(h[n - 1], h[n])
    OBVIOUS
  <2>4. Grows(h[n], h[N])
    <3>1. N - n \in U(n)
      BY <1>2, <2>1
    <3>2. QED
      BY <2>1, <3>1
  <2>5. h[0] \in Plans /\ h[n - 1] \in Plans /\ h[n] \in Plans /\ h[N] \in Plans
    BY <2>1
  <2>6. Answers(h[0], h[n], site, reg) /\ Grows(h[0], h[n])
    BY <1>3, <2>2, <2>3, <2>5, GrowsOn
  <2>7. QED
    BY <2>4, <2>5, <2>6, GrowsOn
<1>4. \A n \in 0 .. N : Grows(h[0], h[n])
  BY <1>1
<1>5. QED
  BY <1>3, <1>4

LEMMA AllOfferIs ==
  ASSUME BodyOK(body), spans = {}, NEW p \in JoinPlans, NEW anchor, NEW line \in DOMAIN body.finished
  PROVE  LET q == AllOffered(p, anchor, line)
         IN  /\ q \in JoinPlans /\ Grows(p, q)
             /\ \A reg \in Range(ReadsOf[body.finished[line].code]) :
                  reg \in anchor.regs /\ <<anchor.site, reg>> \in DOMAIN body.candidates
                  => Answers(p, q, anchor.site, reg)
<1> DEFINE N == ReadsAt(line)
           code == body.finished[line].code
           Eq(g) == g = [n \in 0 .. N |-> IF n = 0 THEN p ELSE Offered(g[n - 1], anchor, line, n)]
           offered == CHOOSE g : Eq(g)
           step == [n \in 1 .. N |-> [x \in JoinPlans |-> Offered(x, anchor, line, n)]]
           q == AllOffered(p, anchor, line)
<1>1. q = offered[N]
  BY DEF AllOffered, ReadsAt
<1>2. /\ N \in Nat /\ DOMAIN ReadsOf[code] = 1 .. N
      /\ \A n \in 1 .. N : \A x \in JoinPlans : Offered(x, anchor, line, n) \in JoinPlans
  BY LineReads, OfferIs
<1> HIDE DEF N
<1>3. step \in [1 .. N -> [JoinPlans -> JoinPlans]]
  BY <1>2
<1>4. PICK g : FollowsTo(N, g, JoinPlans, p, step)
  <2> HIDE DEF step
  <2>1. QED
    BY <1>2, <1>3, RecursionTo
<1>5. Eq(g)
  <2>1. ASSUME NEW n \in 0 .. N PROVE g[n] = IF n = 0 THEN p ELSE Offered(g[n - 1], anchor, line, n)
    <3>1. CASE n # 0
      <4>1. n \in 1 .. N /\ n - 1 \in 0 .. N
        BY <1>2, <3>1
      <4>2. g[n] = step[n][g[n - 1]] /\ g[n - 1] \in JoinPlans
        BY <1>4, <4>1 DEF FollowsTo
      <4>3. QED
        BY <3>1, <4>1, <4>2
    <3>2. QED
      BY <1>4, <3>1 DEF FollowsTo
  <2>2. QED
    BY <1>4, <2>1 DEF FollowsTo
<1>6. Eq(offered)
  BY <1>5
<1> HIDE DEF offered, q
<1> DEFINE T == {n \in Nat : n <= N => offered[n] \in JoinPlans}
<1>7. \A n \in Nat : n \in T
  <2>1. 0 \in T
    BY <1>2, <1>6
  <2>2. ASSUME NEW n \in Nat, n \in T PROVE n + 1 \in T
    <3>1. SUFFICES ASSUME n + 1 <= N PROVE offered[n + 1] \in JoinPlans
      OBVIOUS
    <3>2. n + 1 \in 0 .. N /\ n + 1 \in 1 .. N /\ n + 1 # 0 /\ (n + 1) - 1 = n /\ offered[n] \in JoinPlans
      BY <1>2, <2>2, <3>1
    <3>3. offered[n + 1] = Offered(offered[n], anchor, line, n + 1)
      BY <1>6, <3>2
    <3>4. QED
      BY <1>2, <3>2, <3>3
  <2> HIDE DEF T
  <2>3. QED
    BY <2>1, <2>2, Induction
<1>8. /\ offered \in [0 .. N -> Plans] /\ offered[0] = p
      /\ \A n \in 0 .. N : offered[n] \in JoinPlans
  <2>1. \A n \in 0 .. N : offered[n] \in JoinPlans
    BY <1>7
  <2>2. offered = [n \in 0 .. N |-> offered[n]] /\ offered[0] = p
    BY <1>2, <1>6
  <2>3. QED
    BY <2>1, <2>2 DEF JoinPlans
<1>9. ASSUME NEW n \in 1 .. N
      PROVE  /\ Grows(offered[n - 1], offered[n])
             /\ ReadsOf[code][n] \in anchor.regs /\ <<anchor.site, ReadsOf[code][n]>> \in DOMAIN body.candidates
                => Answers(offered[n - 1], offered[n], anchor.site, ReadsOf[code][n])
  <2>1. n \in 0 .. N /\ n # 0 /\ n - 1 \in 0 .. N
    BY <1>2
  <2>2. offered[n] = Offered(offered[n - 1], anchor, line, n) /\ offered[n - 1] \in JoinPlans
    BY <1>6, <1>8, <2>1
  <2>3. n \in 1 .. ReadsAt(line)
    BY DEF N
  <2>4. QED
    BY <2>2, <2>3, OfferIs
<1>10. /\ Grows(offered[0], offered[N])
       /\ \A n \in 1 .. N : \A site, reg : Answers(offered[n - 1], offered[n], site, reg) => Answers(offered[0], offered[N], site, reg)
  <2>1. \A n \in 1 .. N : Grows(offered[n - 1], offered[n])
    BY <1>9
  <2>2. N \in 0 .. N
    BY <1>2
  <2>3. QED
    BY <1>2, <1>8, <2>1, <2>2, GrowsAlong
<1>11. q \in JoinPlans
  BY <1>1, <1>2, <1>8
<1>12. ASSUME NEW reg \in Range(ReadsOf[code]), reg \in anchor.regs, <<anchor.site, reg>> \in DOMAIN body.candidates
       PROVE  Answers(p, q, anchor.site, reg)
  <2>1. PICK n \in 1 .. N : ReadsOf[code][n] = reg
    BY <1>2 DEF Range
  <2>2. QED
    BY <1>1, <1>8, <1>9, <1>10, <1>12, <2>1
<1>13. QED
  BY <1>1, <1>8, <1>10, <1>11, <1>12 DEF q

LEMMA FiniteList ==
  ASSUME NEW S, NEW s \in Seq(S)
  PROVE  IsFiniteSet(Range(s)) /\ Range(s) \subseteq S
<1>1. s \in [1 .. Len(s) -> S] /\ Len(s) \in Nat
  OBVIOUS
<1>2. s \in Surjection(1 .. Len(s), Range(s))
  BY <1>1 DEF Surjection, Range
<1>3. IsFiniteSet(1 .. Len(s))
  BY <1>1, FS_Interval
<1>4. QED
  BY <1>1, <1>2, <1>3, FS_Surjection DEF Range

LEMMA LostIs ==
  ASSUME BodyOK(body), NEW p \in JoinPlans, NEW anchor, NEW code \in DOMAIN ReadsOf
  PROVE  LET q == Lost(p, anchor, code)
         IN  /\ q \in JoinPlans /\ Grows(p, q)
             /\ \A reg \in Range(ReadsOf[code]) :
                  <<anchor.site, reg>> \in DOMAIN body.candidates => Answers(p, q, anchor.site, reg)
<1> DEFINE R == {r \in Range(ReadsOf[code]) : <<anchor.site, r>> \in DOMAIN body.candidates}
           regs == SetToSeq(R)
           stream == SiteOf(anchor.site)
           new == [i \in DOMAIN regs |-> Row("rejection", stream, anchor.site, regs[i], "no_line_carries_register")]
           q == Lost(p, anchor, code)
<1>1. p \in Plans /\ Sound(p) /\ Range(p.inserts) \subseteq JoinNotes
  BY DEF JoinPlans
<1>2. stream \in {"join", "loop"} /\ stream \in StreamKinds
  BY DEF SiteOf, StreamKinds
<1>3. IsFiniteSet(R)
  <2>1. IsFiniteSet(Range(ReadsOf[code]))
    <3>1. ReadsOf[code] \in Seq(Range(ReadsOf[code]))
      BY NotesAssumption
    <3>2. QED
      BY <3>1, FiniteList
  <2>2. QED
    BY <2>1, FS_Subset
<1>4. regs \in Seq(R) /\ Range(regs) = R
  <2> HIDE DEF R
  <2>1. QED
    BY <1>3, ListingIs
<1> HIDE DEF regs
<1>5. \A r \in R : anchor.site \in Spots /\ r \in Registers
  <2> TAKE r \in R
  <2> DEFINE k == <<anchor.site, r>>
  <2>1. k \in DOMAIN body.candidates /\ k[1] = anchor.site /\ k[2] = r
    OBVIOUS
  <2> HIDE DEF k
  <2>2. QED
    BY <2>1 DEF Spots, Registers
<1> HIDE DEF R
<1>6. /\ Len(regs) \in Nat /\ DOMAIN regs = 1 .. Len(regs) /\ \A i \in DOMAIN regs : regs[i] \in R
  BY <1>4
<1>7. new \in Seq(Drops) /\ Len(new) = Len(regs)
  <2>1. \A i \in DOMAIN regs : Row("rejection", stream, anchor.site, regs[i], "no_line_carries_register") \in Drops
    BY <1>2, <1>5, <1>6 DEF Row, Drops, Whys
  <2>2. QED
    BY <1>6, <2>1
<1>8. \A i \in DOMAIN regs : new[i].site = anchor.site /\ new[i].reg = regs[i]
  BY DEF Row
<1>9. /\ p.rows \in [StreamKinds -> Seq(Drops)] /\ p.inserts \in Seq(Notes)
      /\ p = [inserts |-> p.inserts, rows |-> p.rows]
  BY <1>1 DEF Plans
<1>10. q = [inserts |-> p.inserts, rows |-> [p.rows EXCEPT ![stream] = @ \o new]]
  <2> DEFINE rows == [p.rows EXCEPT ![stream] = @ \o new]
  <2>1. q = [p EXCEPT !.rows = rows]
    BY DEF Lost, regs, R
  <2> HIDE DEF rows, q
  <2>2. q = [inserts |-> p.inserts, rows |-> rows]
    BY <1>9, <2>1
  <2>3. QED
    BY <2>2 DEF rows
<1> HIDE DEF q, stream, new
<1>11. /\ p.rows[stream] \in Seq(Drops) /\ p.rows[stream] \o new \in Seq(Drops)
       /\ Len(p.rows[stream]) \in Nat
       /\ Len(p.rows[stream] \o new) = Len(p.rows[stream]) + Len(regs)
       /\ \A k \in 1 .. Len(p.rows[stream]) : (p.rows[stream] \o new)[k] = p.rows[stream][k]
       /\ \A i \in DOMAIN regs : (p.rows[stream] \o new)[Len(p.rows[stream]) + i] = new[i]
  <2>1. p.rows[stream] \in Seq(Drops)
    BY <1>2, <1>9
  <2> DEFINE old == p.rows[stream]
             all == old \o new
  <2>2. /\ all \in Seq(Drops) /\ Len(all) = Len(old) + Len(new) /\ Len(old) \in Nat
        /\ \A i \in 1 .. Len(old) + Len(new) : all[i] = IF i <= Len(old) THEN old[i] ELSE new[i - Len(old)]
    <3>1. old \in Seq(Drops) /\ new \in Seq(Drops) /\ all = old \o new
      BY <1>7, <2>1
    <3> HIDE DEF old, all
    <3>2. Len(old) \in Nat
      BY <3>1
    <3>3. QED
      BY ONLY <3>1, <3>2, ConcatProperties
  <2> HIDE DEF all, old
  <2>3. \A k \in 1 .. Len(old) : all[k] = old[k]
    BY <1>6, <1>7, <2>2
  <2>4. ASSUME NEW i \in DOMAIN regs PROVE all[Len(old) + i] = new[i]
    <3>1. /\ Len(old) + i \in 1 .. Len(old) + Len(new) /\ ~(Len(old) + i <= Len(old))
          /\ (Len(old) + i) - Len(old) = i
      BY <1>6, <1>7, <2>2
    <3>2. all[Len(old) + i] = new[(Len(old) + i) - Len(old)]
      BY <2>2, <3>1
    <3>3. QED
      BY <3>1, <3>2
  <2>5. QED
    BY <1>7, <2>1, <2>2, <2>3, <2>4 DEF all, old
<1>12. /\ q.inserts = p.inserts
       /\ \A st \in StreamKinds : q.rows[st] = IF st = stream THEN p.rows[stream] \o new ELSE p.rows[st]
  BY <1>9, <1>10
<1>13. q \in Plans
  <2>1. [p.rows EXCEPT ![stream] = @ \o new] \in [StreamKinds -> Seq(Drops)]
    BY <1>9, <1>11
  <2>2. QED
    BY <1>9, <1>10, <2>1 DEF Plans
<1>14. Grows(p, q)
  <2>1. ASSUME NEW st \in StreamKinds
        PROVE  /\ Len(p.rows[st]) <= Len(q.rows[st])
               /\ \A k \in 1 .. Len(p.rows[st]) : q.rows[st][k] = p.rows[st][k]
    <3>1. CASE st = stream
      <4>1. q.rows[st] = p.rows[stream] \o new /\ p.rows[st] = p.rows[stream]
        BY <1>12, <3>1
      <4> DEFINE a == Len(p.rows[stream])
                 b == Len(regs)
      <4>2. a \in Nat /\ b \in Nat /\ Len(p.rows[st]) = a /\ Len(q.rows[st]) = a + b
        BY <1>6, <1>11, <4>1
      <4> HIDE DEF a, b
      <4>3. Len(p.rows[st]) <= Len(q.rows[st])
        BY <4>2
      <4>4. QED
        BY <1>11, <4>1, <4>3
    <3>2. CASE st # stream
      <4>1. q.rows[st] = p.rows[st] /\ Len(p.rows[st]) \in Nat
        BY <1>9, <1>12, <3>2
      <4>2. QED
        BY <4>1
    <3>3. QED
      BY <3>1, <3>2
  <2>2. QED
    BY <1>12, <2>1 DEF Grows
<1>15. q \in JoinPlans
  BY <1>1, <1>12, <1>13 DEF JoinPlans, Sound, Standing
<1>16. ASSUME NEW reg \in Range(ReadsOf[code]), <<anchor.site, reg>> \in DOMAIN body.candidates
       PROVE  Answers(p, q, anchor.site, reg)
  <2>1. PICK i \in DOMAIN regs : regs[i] = reg
    <3>1. reg \in R
      BY <1>16 DEF R
    <3>2. QED
      BY <1>4, <3>1 DEF Range
  <2> DEFINE k == Len(p.rows[stream]) + i
  <2>2. k \in Len(p.rows[stream]) + 1 .. Len(q.rows[stream])
    <3> DEFINE a == Len(p.rows[stream])
               b == Len(regs)
    <3>1. a \in Nat /\ b \in Nat /\ i \in 1 .. b /\ Len(q.rows[stream]) = a + b /\ k = a + i
      BY <1>2, <1>6, <1>11, <1>12
    <3> HIDE DEF b, k
    <3>2. k \in a + 1 .. Len(q.rows[stream])
      <4> HIDE DEF a
      <4>1. QED
        BY <3>1
    <3>3. QED
      BY <3>2
  <2>3. q.rows[stream][k] = new[i]
    BY <1>2, <1>11, <1>12
  <2>4. q.rows[stream][k].site = anchor.site /\ q.rows[stream][k].reg = reg
    BY <1>8, <2>1, <2>3
  <2> HIDE DEF k
  <2>5. QED
    BY <1>2, <2>2, <2>4 DEF Answers
<1>17. QED
  BY <1>14, <1>15, <1>16 DEF q

Searches == [from : Nat, plan : JoinPlans]

LEMMA SearchedIs ==
  ASSUME BodyOK(body), spans = {}, NEW acc \in Searches, NEW anchor, NEW code \in DOMAIN ReadsOf
  PROVE  LET x == Searched(acc, anchor, code)
         IN  /\ x \in Searches /\ Grows(acc.plan, x.plan)
             /\ \A reg \in Range(ReadsOf[code]) :
                  reg \in anchor.regs /\ <<anchor.site, reg>> \in DOMAIN body.candidates
                  => Answers(acc.plan, x.plan, anchor.site, reg)
<1> DEFINE x == Searched(acc, anchor, code)
           line == Carrying(code, acc.from)
           p == acc.plan
<1>1. p \in JoinPlans /\ acc.from \in Nat /\ acc = [from |-> acc.from, plan |-> p] /\ p \in Plans
  BY DEF Searches, JoinPlans
<1>2. CASE ReadsOf[code] = <<>>
  <2>1. x = acc /\ Range(ReadsOf[code]) = {}
    BY <1>2 DEF Searched, Range
  <2>2. QED
    BY <1>1, <2>1, GrowsNot DEF x
<1>3. CASE ReadsOf[code] # <<>> /\ line = 0
  <2> DEFINE q == Lost(p, anchor, code)
  <2>1. x = [acc EXCEPT !.plan = q]
    BY <1>3 DEF Searched
  <2>2. /\ q \in JoinPlans /\ Grows(p, q)
        /\ \A reg \in Range(ReadsOf[code]) :
             <<anchor.site, reg>> \in DOMAIN body.candidates => Answers(p, q, anchor.site, reg)
    BY <1>1, LostIs
  <2> HIDE DEF q, x
  <2>3. x = [from |-> acc.from, plan |-> q]
    BY <1>1, <2>1
  <2>4. x \in Searches /\ x.plan = q
    BY <1>1, <2>2, <2>3 DEF Searches
  <2>5. QED
    BY <2>2, <2>4 DEF x
<1>4. CASE ReadsOf[code] # <<>> /\ line # 0
  <2> DEFINE lines == {l \in DOMAIN body.finished :
                         l >= acc.from /\ Range(ReadsOf[code]) \subseteq Range(ReadsOf[body.finished[l].code])}
             q == AllOffered(p, anchor, line)
  <2>1. lines # {} /\ line = Min(lines)
    <3>1. line = IF lines = {} THEN 0 ELSE Min(lines)
      BY DEF Carrying
    <3>2. QED
      BY <1>4, <3>1
  <2>2. lines \in SUBSET Nat
    BY BodyIs
  <2> HIDE DEF line
  <2>3. line \in lines
    <3> HIDE DEF lines
    <3>1. QED
      BY <2>1, <2>2, MinOf
  <2>4. /\ line \in DOMAIN body.finished /\ line \in Nat
        /\ Range(ReadsOf[code]) \subseteq Range(ReadsOf[body.finished[line].code])
    BY <2>2, <2>3
  <2>5. /\ q \in JoinPlans /\ Grows(p, q)
        /\ \A reg \in Range(ReadsOf[body.finished[line].code]) :
             reg \in anchor.regs /\ <<anchor.site, reg>> \in DOMAIN body.candidates
             => Answers(p, q, anchor.site, reg)
    BY <1>1, <2>4, AllOfferIs
  <2>6. x = [from |-> line + 1, plan |-> q]
    BY <1>4 DEF Searched, line
  <2> HIDE DEF q, x
  <2>7. x \in Searches /\ x.plan = q
    BY <2>4, <2>5, <2>6 DEF Searches
  <2>8. QED
    BY <2>4, <2>5, <2>7 DEF x
<1>5. QED
  BY <1>2, <1>3, <1>4

-----------------------------------------------------------------------------
(* How often a site's register was answered.                                 *)

Told(plan, site, reg) == {s \in Standing(plan) : s.stream # "call" /\ s.site = site /\ s.reg = reg}
RowsAbout(plan, site, reg) ==
  UNION {{<<stream, k>> : k \in {n \in DOMAIN plan.rows[stream] :
            plan.rows[stream][n].site = site /\ plan.rows[stream][n].reg = reg}} : stream \in {"join", "loop"}}
Tally(plan, site, reg) == Cardinality(Told(plan, site, reg)) + Cardinality(RowsAbout(plan, site, reg))

LEMMA RowAbout ==
  ASSUME NEW p \in Plans, NEW site, NEW reg, NEW stream \in {"join", "loop"}, NEW k
  PROVE  <<stream, k>> \in RowsAbout(p, site, reg)
         <=> k \in 1 .. Len(p.rows[stream]) /\ p.rows[stream][k].site = site /\ p.rows[stream][k].reg = reg
<1>1. stream \in StreamKinds
  BY DEF StreamKinds
<1>2. DOMAIN p.rows[stream] = 1 .. Len(p.rows[stream])
  BY <1>1, PlanIs
<1>3. QED
  BY <1>2 DEF RowsAbout

LEMMA TallyIs ==
  ASSUME NEW p \in Plans, NEW site, NEW reg, IsFiniteSet(spans)
  PROVE  /\ IsFiniteSet(Told(p, site, reg)) /\ IsFiniteSet(RowsAbout(p, site, reg))
         /\ Cardinality(Told(p, site, reg)) \in Nat /\ Cardinality(RowsAbout(p, site, reg)) \in Nat
         /\ Tally(p, site, reg) \in Nat
<1>1. IsFiniteSet(Told(p, site, reg))
  <2>1. IsFiniteSet(Range(p.inserts))
    BY PlanIs, FiniteList
  <2>2. IsFiniteSet(Standing(p))
    BY <2>1, FS_Union DEF Standing
  <2>3. QED
    BY <2>2, FS_Subset DEF Told
<1>2. IsFiniteSet(RowsAbout(p, site, reg))
  <2> DEFINE of(stream) == {<<stream, k>> : k \in {n \in DOMAIN p.rows[stream] :
                              p.rows[stream][n].site = site /\ p.rows[stream][n].reg = reg}}
  <2>1. ASSUME NEW stream \in {"join", "loop"} PROVE IsFiniteSet(of(stream))
    <3>1. stream \in StreamKinds
      BY DEF StreamKinds
    <3>2. Len(p.rows[stream]) \in Nat /\ DOMAIN p.rows[stream] = 1 .. Len(p.rows[stream])
      BY <3>1, PlanIs
    <3>3. IsFiniteSet(1 .. Len(p.rows[stream])) /\ IsFiniteSet({stream})
      <4>1. 1 \in Int /\ Len(p.rows[stream]) \in Int
        BY <3>2
      <4>2. IsFiniteSet(1 .. Len(p.rows[stream]))
        BY <4>1, FS_Interval
      <4>3. QED
        BY <4>2, FS_Singleton
    <3>4. IsFiniteSet({stream} \X (1 .. Len(p.rows[stream])))
      BY <3>3, FS_Product
    <3>5. of(stream) \in SUBSET ({stream} \X (1 .. Len(p.rows[stream])))
      BY <3>2
    <3>6. QED
      BY <3>4, <3>5, FS_Subset
  <2>2. RowsAbout(p, site, reg) = of("join") \union of("loop")
    BY DEF RowsAbout
  <2> HIDE DEF of
  <2>3. IsFiniteSet(of("join")) /\ IsFiniteSet(of("loop"))
    BY <2>1
  <2>4. QED
    BY <2>2, <2>3, FS_Union
<1>3. QED
  BY <1>1, <1>2, FS_CardinalityType DEF Tally

LEMMA TallyGrows ==
  ASSUME NEW p \in Plans, NEW q \in Plans, Grows(p, q), NEW site, NEW reg, IsFiniteSet(spans)
  PROVE  /\ Tally(p, site, reg) <= Tally(q, site, reg)
         /\ spans = {} /\ Answers(p, q, site, reg) => Tally(p, site, reg) + 1 <= Tally(q, site, reg)
<1> DEFINE A == Told(p, site, reg)
           B == Told(q, site, reg)
           C == RowsAbout(p, site, reg)
           D == RowsAbout(q, site, reg)
<1>1. A \in SUBSET B
  BY DEF Grows, Told, Standing
<1>2. C \in SUBSET D
  <2>1. SUFFICES ASSUME NEW stream \in {"join", "loop"}, NEW k, <<stream, k>> \in C PROVE <<stream, k>> \in D
    BY DEF RowsAbout
  <2>2. stream \in StreamKinds
    BY DEF StreamKinds
  <2>3. k \in 1 .. Len(p.rows[stream]) /\ p.rows[stream][k].site = site /\ p.rows[stream][k].reg = reg
    BY <2>1, RowAbout
  <2>4. /\ Len(p.rows[stream]) \in Nat /\ Len(q.rows[stream]) \in Nat /\ Len(p.rows[stream]) <= Len(q.rows[stream])
        /\ q.rows[stream][k] = p.rows[stream][k]
    BY <2>2, <2>3, PlanIs DEF Grows
  <2>5. k \in 1 .. Len(q.rows[stream])
    BY <2>3, <2>4
  <2>6. QED
    BY <2>3, <2>4, <2>5, RowAbout
<1>3. /\ IsFiniteSet(B) /\ IsFiniteSet(D)
      /\ Cardinality(A) \in Nat /\ Cardinality(B) \in Nat /\ Cardinality(C) \in Nat /\ Cardinality(D) \in Nat
      /\ Tally(p, site, reg) = Cardinality(A) + Cardinality(C) /\ Tally(q, site, reg) = Cardinality(B) + Cardinality(D)
  BY TallyIs DEF Tally
<1>4. ASSUME spans = {}, Answers(p, q, site, reg) PROVE A # B \/ C # D
  <2>1. CASE \E s \in Range(q.inserts) \ Range(p.inserts) : s.stream # "call" /\ s.site = site /\ s.reg = reg
    <3>1. PICK s \in Range(q.inserts) \ Range(p.inserts) : s.stream # "call" /\ s.site = site /\ s.reg = reg
      BY <2>1
    <3>2. s \in B /\ s \notin A
      BY <1>4, <3>1 DEF Told, Standing
    <3>3. QED
      BY <3>2
  <2>2. ASSUME NEW stream \in {"join", "loop"}, NEW k \in Len(p.rows[stream]) + 1 .. Len(q.rows[stream]),
               q.rows[stream][k].site = site /\ q.rows[stream][k].reg = reg
        PROVE  C # D
    <3>1. stream \in StreamKinds
      BY DEF StreamKinds
    <3>2. Len(p.rows[stream]) \in Nat /\ Len(q.rows[stream]) \in Nat
      BY <3>1, PlanIs
    <3>3. k \in 1 .. Len(q.rows[stream]) /\ k \notin 1 .. Len(p.rows[stream])
      BY <3>2
    <3>4. <<stream, k>> \in D
      BY <2>2, <3>3, RowAbout
    <3>5. <<stream, k>> \notin C
      BY <3>3, RowAbout
    <3>6. QED
      BY <3>4, <3>5
  <2>3. QED
    BY <1>4, <2>1, <2>2 DEF Answers
<1> HIDE DEF A, B, C, D
<1>5. /\ Cardinality(A) <= Cardinality(B) /\ Cardinality(C) <= Cardinality(D)
      /\ A # B => Cardinality(A) # Cardinality(B)
      /\ C # D => Cardinality(C) # Cardinality(D)
  BY <1>1, <1>2, <1>3, FS_Subset
<1> DEFINE a == Cardinality(A)
           b == Cardinality(B)
           c == Cardinality(C)
           d == Cardinality(D)
<1>6. /\ a \in Nat /\ b \in Nat /\ c \in Nat /\ d \in Nat /\ a <= b /\ c <= d
      /\ Tally(p, site, reg) = a + c /\ Tally(q, site, reg) = b + d
      /\ spans = {} /\ Answers(p, q, site, reg) => a # b \/ c # d
  BY <1>3, <1>4, <1>5
<1> HIDE DEF a, b, c, d
<1>7. QED
  BY <1>6

\* The lines of an anchor that read a register it asks for.
Asks(anchor, site, reg) ==
  {l \in DOMAIN body.rendered : /\ anchor.site = site /\ reg \in anchor.regs /\ l \in anchor.first .. anchor.last
                                /\ reg \in Range(ReadsOf[body.rendered[l]])}

AnchorOK(anchor) ==
  /\ anchor.first \in Nat \ {0} /\ anchor.last \in Nat
  /\ anchor.first <= anchor.last + 1 /\ anchor.last <= Len(body.rendered)

LEMMA WithAnchorIs ==
  ASSUME BodyOK(body), spans = {}, NEW p \in JoinPlans, NEW anchor, AnchorOK(anchor)
  PROVE  LET q == WithAnchor(p, anchor)
         IN  /\ q \in JoinPlans /\ Grows(p, q)
             /\ \A site, reg : <<site, reg>> \in DOMAIN body.candidates
                               => Tally(p, site, reg) + Cardinality(Asks(anchor, site, reg)) <= Tally(q, site, reg)
<1> DEFINE N == anchor.last - anchor.first + 1
           start == [from |-> 1, plan |-> p]
           code(n) == body.rendered[anchor.first + n - 1]
           Eq(g) == g = [n \in 0 .. N |-> IF n = 0 THEN start ELSE Searched(g[n - 1], anchor, code(n))]
           after == CHOOSE g : Eq(g)
           step == [n \in 1 .. N |-> [x \in Searches |-> Searched(x, anchor, code(n))]]
           q == WithAnchor(p, anchor)
<1>1. q = after[N].plan
  BY DEF WithAnchor
<1>2. /\ N \in Nat /\ anchor.first \in Nat \ {0} /\ anchor.last \in Nat /\ anchor.last <= Len(body.rendered)
      /\ anchor.last = anchor.first + N - 1
  BY DEF AnchorOK
<1> HIDE DEF N
<1>3. ASSUME NEW n \in 1 .. N
      PROVE  /\ anchor.first + n - 1 \in DOMAIN body.rendered /\ anchor.first + n - 1 \in anchor.first .. anchor.last
             /\ code(n) \in DOMAIN ReadsOf
  <2>1. Len(body.rendered) \in Nat /\ DOMAIN body.rendered = 1 .. Len(body.rendered)
    BY BodyIs
  <2>2. anchor.first + n - 1 \in DOMAIN body.rendered /\ anchor.first + n - 1 \in anchor.first .. anchor.last
    BY <1>2, <2>1
  <2>3. QED
    BY <2>2, BodyIs
<1> HIDE DEF code
<1>4. start \in Searches
  BY DEF Searches
<1>5. step \in [1 .. N -> [Searches -> Searches]]
  BY <1>3, SearchedIs
<1>6. PICK g : FollowsTo(N, g, Searches, start, step)
  <2> HIDE DEF step, start
  <2>1. QED
    BY <1>2, <1>4, <1>5, RecursionTo
<1>7. Eq(g)
  <2>1. ASSUME NEW n \in 0 .. N PROVE g[n] = IF n = 0 THEN start ELSE Searched(g[n - 1], anchor, code(n))
    <3>1. CASE n # 0
      <4>1. n \in 1 .. N /\ n - 1 \in 0 .. N
        BY <1>2, <3>1
      <4>2. g[n] = step[n][g[n - 1]] /\ g[n - 1] \in Searches
        BY <1>6, <4>1 DEF FollowsTo
      <4>3. QED
        BY <3>1, <4>1, <4>2
    <3>2. QED
      BY <1>6, <3>1 DEF FollowsTo
  <2>2. QED
    BY <1>6, <2>1 DEF FollowsTo
<1>8. Eq(after)
  BY <1>7
<1> HIDE DEF after, q
<1>9. /\ after[0] = start
      /\ \A n \in Nat : n + 1 <= N => after[n + 1] = Searched(after[n], anchor, code(n + 1)) /\ n + 1 \in 1 .. N
  <2>1. after[0] = start
    BY <1>2, <1>8
  <2>2. ASSUME NEW n \in Nat, n + 1 <= N
        PROVE  after[n + 1] = Searched(after[n], anchor, code(n + 1)) /\ n + 1 \in 1 .. N
    <3>1. n + 1 \in 0 .. N /\ n + 1 \in 1 .. N /\ n + 1 # 0 /\ (n + 1) - 1 = n
      BY <1>2, <2>2
    <3>2. after[n + 1] = Searched(after[(n + 1) - 1], anchor, code(n + 1))
      BY <1>8, <3>1
    <3>3. QED
      BY <3>1, <3>2
  <2>3. QED
    BY <2>1, <2>2
<1> DEFINE T == {n \in Nat : n <= N => after[n] \in Searches /\ Grows(p, after[n].plan)}
<1>10. \A n \in Nat : n \in T
  <2>1. 0 \in T
    BY <1>4, <1>9, GrowsNot DEF JoinPlans
  <2>2. ASSUME NEW n \in Nat, n \in T PROVE n + 1 \in T
    <3>1. SUFFICES ASSUME n + 1 <= N PROVE after[n + 1] \in Searches /\ Grows(p, after[n + 1].plan)
      OBVIOUS
    <3>2. n <= N
      BY <1>2, <3>1
    <3>3. after[n] \in Searches /\ Grows(p, after[n].plan)
      BY <2>2, <3>2
    <3>4. after[n + 1] \in Searches /\ Grows(after[n].plan, after[n + 1].plan)
      BY <1>3, <1>9, <3>1, <3>3, SearchedIs
    <3>5. p \in Plans /\ after[n].plan \in Plans /\ after[n + 1].plan \in Plans
      BY <3>3, <3>4 DEF Searches, JoinPlans
    <3>6. QED
      BY <3>3, <3>4, <3>5, GrowsOn
  <2> HIDE DEF T
  <2>3. QED
    BY <2>1, <2>2, Induction
<1>11. after[N] \in Searches /\ Grows(p, after[N].plan)
  BY <1>2, <1>10
<1>12. ASSUME NEW site, NEW reg, <<site, reg>> \in DOMAIN body.candidates
       PROVE  Tally(p, site, reg) + Cardinality(Asks(anchor, site, reg)) <= Tally(q, site, reg)
  <2> DEFINE upto(n) == {l \in Asks(anchor, site, reg) : l < anchor.first + n}
             t == Tally(p, site, reg)
             U == {n \in Nat : n <= N => t + Cardinality(upto(n)) <= Tally(after[n].plan, site, reg)}
  <2>0. IsFiniteSet(spans)
    BY FS_EmptySet
  <2>1. \A n \in Nat : n <= N => after[n].plan \in Plans /\ Tally(after[n].plan, site, reg) \in Nat
    <3> TAKE n \in Nat
    <3> HAVE n <= N
    <3>1. after[n] \in Searches
      BY <1>10
    <3>2. after[n].plan \in Plans
      BY <3>1 DEF Searches, JoinPlans
    <3>3. QED
      BY <2>0, <3>2, TallyIs
  <2>2. t \in Nat
    BY <2>0, TallyIs DEF JoinPlans
  <2>3. IsFiniteSet(Asks(anchor, site, reg)) /\ Asks(anchor, site, reg) \subseteq anchor.first .. anchor.last
    <3>1. IsFiniteSet(anchor.first .. anchor.last)
      <4>1. anchor.first \in Int /\ anchor.last \in Int
        BY <1>2
      <4>2. QED
        BY <4>1, FS_Interval
    <3>2. Asks(anchor, site, reg) \in SUBSET (anchor.first .. anchor.last)
      BY DEF Asks
    <3>3. QED
      BY <3>1, <3>2, FS_Subset
  <2>4. \A n : IsFiniteSet(upto(n)) /\ Cardinality(upto(n)) \in Nat
    BY <2>3, FS_Subset, FS_CardinalityType
  <2> HIDE DEF t
  <2>5. 0 \in U
    <3>1. upto(0) = {}
      BY <1>2, <2>3
    <3>2. Cardinality(upto(0)) = 0
      BY <3>1, FS_EmptySet
    <3>3. after[0].plan = p
      BY <1>9
    <3> HIDE DEF upto
    <3>4. QED
      BY <2>2, <3>2, <3>3 DEF t
  <2>6. ASSUME NEW n \in Nat, n \in U PROVE n + 1 \in U
    <3>1. SUFFICES ASSUME n + 1 <= N PROVE t + Cardinality(upto(n + 1)) <= Tally(after[n + 1].plan, site, reg)
      OBVIOUS
    <3> DEFINE l == anchor.first + n
    <3>2. n <= N /\ n + 1 \in Nat /\ l \in Nat /\ anchor.first + (n + 1) - 1 = l /\ anchor.first + (n + 1) = l + 1
      BY <1>2, <3>1
    <3>3. t + Cardinality(upto(n)) <= Tally(after[n].plan, site, reg)
      BY <2>6, <3>2
    <3>4. after[n] \in Searches /\ after[n].plan \in Plans /\ after[n + 1].plan \in Plans
      BY <1>10, <2>1, <3>1, <3>2
    <3>5. after[n + 1] = Searched(after[n], anchor, code(n + 1)) /\ code(n + 1) \in DOMAIN ReadsOf
      BY <1>3, <1>9, <3>1
    <3>6. /\ Grows(after[n].plan, after[n + 1].plan)
          /\ \A r \in Range(ReadsOf[code(n + 1)]) :
               r \in anchor.regs /\ <<anchor.site, r>> \in DOMAIN body.candidates
               => Answers(after[n].plan, after[n + 1].plan, anchor.site, r)
      BY <3>4, <3>5, SearchedIs
    <3>7. upto(n + 1) \subseteq upto(n) \union {l} /\ (l \notin Asks(anchor, site, reg) => upto(n + 1) = upto(n))
      <4>1. \A k \in Asks(anchor, site, reg) : k \in Nat
        BY <1>2, <2>3
      <4>2. QED
        BY <3>2, <4>1
    <3>8. CASE l \notin Asks(anchor, site, reg)
      <4>1. Tally(after[n].plan, site, reg) <= Tally(after[n + 1].plan, site, reg)
        BY <2>0, <3>4, <3>6, TallyGrows
      <4>2. Cardinality(upto(n + 1)) = Cardinality(upto(n))
        BY <3>7, <3>8
      <4> HIDE DEF upto
      <4>3. QED
        BY <2>1, <2>2, <2>4, <3>1, <3>2, <3>3, <4>1, <4>2
    <3>9. CASE l \in Asks(anchor, site, reg)
      <4>1. anchor.site = site /\ reg \in anchor.regs /\ reg \in Range(ReadsOf[code(n + 1)])
        BY <3>2, <3>9 DEF Asks, code
      <4>2. Answers(after[n].plan, after[n + 1].plan, site, reg)
        BY <1>12, <3>6, <4>1
      <4>3. Tally(after[n].plan, site, reg) + 1 <= Tally(after[n + 1].plan, site, reg)
        BY <2>0, <3>4, <3>6, <4>2, TallyGrows
      <4>4. Cardinality(upto(n + 1)) <= Cardinality(upto(n)) + 1
        <5> DEFINE V == upto(n)
                   W == upto(n + 1)
        <5>1. IsFiniteSet(V) /\ Cardinality(V) \in Nat /\ Cardinality(W) \in Nat
          BY <2>4
        <5>2. W \in SUBSET (V \union {l})
          BY <3>7
        <5> HIDE DEF V, W
        <5>3. IsFiniteSet(V \union {l}) /\ Cardinality(V \union {l}) \in {Cardinality(V), Cardinality(V) + 1}
          BY <5>1, FS_AddElement
        <5>4. Cardinality(W) <= Cardinality(V \union {l})
          BY <5>2, <5>3, FS_Subset
        <5>5. QED
          BY <5>1, <5>3, <5>4 DEF V, W
      <4> HIDE DEF upto
      <4>5. QED
        BY <2>1, <2>2, <2>4, <3>1, <3>2, <3>3, <4>3, <4>4
    <3>10. QED
      BY <3>8, <3>9
  <2>7. \A n \in Nat : n \in U
    <3> HIDE DEF U
    <3>1. QED
      BY <2>5, <2>6, Induction
  <2>8. upto(N) = Asks(anchor, site, reg)
    <3>1. \A k \in anchor.first .. anchor.last : k < anchor.first + N
      BY <1>2
    <3>2. QED
      BY <2>3, <3>1
  <2>9. N \in U
    BY <1>2, <2>7
  <2>10. t + Cardinality(upto(N)) <= Tally(after[N].plan, site, reg)
    BY <1>2, <2>9
  <2> HIDE DEF upto
  <2>11. QED
    BY <1>1, <2>8, <2>10 DEF t
<1>13. q \in JoinPlans /\ Grows(p, q)
  BY <1>1, <1>11 DEF Searches
<1>14. QED
  BY <1>12, <1>13 DEF q

LEMMA SameBody ==
  ASSUME body' = body
  PROVE  /\ Aligned' = Aligned /\ JoinNotes' = JoinNotes /\ CallNotes' = CallNotes /\ Notes' = Notes
         /\ Plans' = Plans
         /\ \A a, l : WidthOn(a, l)' = WidthOn(a, l)
<1>1. Aligned' = Aligned
  BY DEF Aligned, Walked, Resync
<1>2. JoinNotes' = JoinNotes
  BY DEF JoinNotes, JoinSpan, SiteOf, Text, ReadsAt
<1>3. CallNotes' = CallNotes
  BY DEF CallNotes, CallSpan, Text, Aligned, Walked, Resync, SelectInSeq
<1>4. Notes' = Notes
  BY <1>2, <1>3 DEF Notes
<1>5. Plans' = Plans
  BY <1>4 DEF Plans, Drops, Spots, Registers
<1>6. ASSUME NEW a, NEW l PROVE WidthOn(a, l)' = WidthOn(a, l)
  BY DEF WidthOn, WidthAt, SpanWidth
<1>7. QED
  BY <1>1, <1>2, <1>3, <1>4, <1>5, <1>6

LEMMA SamePlans ==
  ASSUME body' = body, spans' = spans
  PROVE  /\ \A p : (p \in JoinPlans)' <=> p \in JoinPlans
         /\ \A p : Sound(p)' <=> Sound(p)
         /\ \A p, site, reg : Tally(p, site, reg)' = Tally(p, site, reg)
         /\ \A a, site, reg : Asks(a, site, reg)' = Asks(a, site, reg)
<1>1. /\ JoinNotes' = JoinNotes /\ Notes' = Notes /\ Plans' = Plans
      /\ \A a, l : WidthOn(a, l)' = WidthOn(a, l)
  BY SameBody
<1>2. ASSUME NEW p PROVE Sound(p)' <=> Sound(p)
  <2>1. Standing(p)' = Standing(p)
    BY DEF Standing
  <2>2. ASSUME NEW a PROVE Roomy(a)' <=> Roomy(a)
    BY <1>1 DEF Roomy
  <2>3. ASSUME NEW a PROVE Lone(a)' <=> Lone(a)
    BY DEF Lone
  <2>4. QED
    BY <1>1, <2>1, <2>2, <2>3 DEF Sound
<1>3. ASSUME NEW p PROVE (p \in JoinPlans)' <=> p \in JoinPlans
  BY <1>1, <1>2 DEF JoinPlans
<1>4. ASSUME NEW p, NEW site, NEW reg PROVE Tally(p, site, reg)' = Tally(p, site, reg)
  BY DEF Tally, Told, RowsAbout, Standing
<1>5. ASSUME NEW a, NEW site, NEW reg PROVE Asks(a, site, reg)' = Asks(a, site, reg)
  BY DEF Asks
<1>6. QED
  BY <1>2, <1>3, <1>4, <1>5

LEMMA WithCallIs ==
  ASSUME BodyOK(body), NEW p, Sound(p), NEW call \in Range(body.calls)
  PROVE  LET q == WithCall(p, call)
         IN  Sound(q) /\ Grows(p, q) /\ Range(q.inserts) \subseteq Range(p.inserts) \union CallNotes
<1> DEFINE q == WithCall(p, call)
           s == CallSpan(call)
<1>1. p \in Plans
  BY DEF Sound
<1>2. q = IF s.at = 0 \/ Claimed(p, s) \/ (\E other \in spans : Place(other) = Place(s)) THEN p
          ELSE IF Refusal(s.text.values) # Free THEN Withheld(p, s, "rejection", Refusal(s.text.values))
          ELSE Fitted(p, s)
  BY DEF WithCall
<1> HIDE DEF q, s
<1>3. CASE s.at = 0 \/ Claimed(p, s) \/ (\E other \in spans : Place(other) = Place(s))
  <2>1. q = p
    BY <1>2, <1>3
  <2>2. QED
    BY <1>1, <2>1, GrowsNot DEF q
<1>4. CASE ~(s.at = 0 \/ Claimed(p, s) \/ (\E other \in spans : Place(other) = Place(s)))
  <2>1. s \in CallNotes
    BY <1>4 DEF CallNotes, s
  <2>2. s \in Notes /\ s.text.values \in Seq(DOMAIN Gate)
    BY <2>1, CallNoteIs DEF Notes
  <2>3. CASE Refusal(s.text.values) # Free
    <3> DEFINE why == Refusal(s.text.values)
    <3>1. why \in Whys /\ q = Withheld(p, s, "rejection", why)
      BY <1>2, <1>4, <2>2, <2>3, RefusalIs
    <3> HIDE DEF why
    <3>2. q \in Plans /\ q.inserts = p.inserts /\ Grows(p, q)
      BY <1>1, <2>2, <3>1, WithheldIs
    <3>3. Sound(q)
      BY <3>2 DEF Sound, Standing
    <3>4. QED
      BY <3>2, <3>3 DEF q
  <2>4. CASE Refusal(s.text.values) = Free
    <3>1. q = Fitted(p, s)
      BY <1>2, <1>4, <2>4
    <3>2. \A t \in Standing(p) : Place(t) # Place(s)
      BY <1>4 DEF Claimed, Standing
    <3>3. Sound(q) /\ Grows(p, q) /\ Range(q.inserts) \subseteq Range(p.inserts) \union {s}
      BY <2>2, <3>1, <3>2, FittedIs
    <3>4. QED
      BY <2>1, <3>3 DEF q
  <2>5. QED
    BY <2>3, <2>4
<1>5. QED
  BY <1>3, <1>4

-----------------------------------------------------------------------------
(* The records, in the order of the places, and where they are found.        *)

Orderly(A, S) ==
  /\ A \in [1 .. Cardinality(S) -> S]
  /\ \A s \in S : \E k \in 1 .. Cardinality(S) : A[k] = s
  /\ \A i, j \in 1 .. Cardinality(S) : i < j => Before(A[i], A[j])

Placeable(S) == \A s \in S : s.line \in Nat \ {0} /\ s.at \in Nat \ {0}

LEMMA BeforeIs ==
  ASSUME NEW S, Lone(S), Placeable(S)
  PROVE  /\ \A s \in S : ~Before(s, s)
         /\ \A s, t \in S : s # t => Before(s, t) \/ Before(t, s)
         /\ \A s, t \in S : ~(Before(s, t) /\ Before(t, s))
         /\ \A s, t, u \in S : Before(s, t) /\ Before(t, u) => Before(s, u)
<1>1. ASSUME NEW s \in S, NEW t \in S, s # t PROVE s.line # t.line \/ s.at # t.at
  BY <1>1 DEF Lone, Place
<1>2. \A s \in S : s.line \in Nat /\ s.at \in Nat
  BY DEF Placeable
<1>3. \A s \in S : ~Before(s, s)
  BY <1>2 DEF Before
<1>4. \A s, t \in S : s # t => Before(s, t) \/ Before(t, s)
  BY <1>1, <1>2 DEF Before
<1>5. \A s, t \in S : ~(Before(s, t) /\ Before(t, s))
  BY <1>2 DEF Before
<1>6. \A s, t, u \in S : Before(s, t) /\ Before(t, u) => Before(s, u)
  BY <1>2 DEF Before
<1>7. QED
  BY <1>3, <1>4, <1>5, <1>6

LEMMA AscendingIs ==
  ASSUME NEW S, IsFiniteSet(S), Lone(S), Placeable(S)
  PROVE  Orderly(Ascending(S), S)
<1> DEFINE n == Cardinality(S)
           below(s) == {t \in S : Before(t, s)}
           r == [s \in S |-> Cardinality(below(s)) + 1]
           A == Ascending(S)
<1>1. n \in Nat
  BY FS_CardinalityType
<1>2. ASSUME NEW s \in S
      PROVE  IsFiniteSet(below(s)) /\ Cardinality(below(s)) \in Nat /\ Cardinality(below(s)) + 1 <= n
  <2>1. below(s) \in SUBSET S /\ s \notin below(s)
    BY BeforeIs
  <2>2. IsFiniteSet(below(s)) /\ Cardinality(below(s)) <= n /\ (Cardinality(below(s)) = n => below(s) = S)
    BY <2>1, FS_Subset
  <2>3. Cardinality(below(s)) \in Nat
    BY <2>2, FS_CardinalityType
  <2>4. below(s) # S
    BY <2>1
  <2> HIDE DEF below
  <2>5. QED
    BY <1>1, <2>2, <2>3, <2>4
<1>3. ASSUME NEW s \in S, NEW t \in S, Before(s, t) PROVE Cardinality(below(s)) < Cardinality(below(t))
  <2>1. below(s) \in SUBSET below(t)
    BY <1>3, BeforeIs
  <2>2. s \in below(t) /\ s \notin below(s)
    BY <1>3, BeforeIs
  <2>3. below(s) # below(t)
    BY <2>2
  <2>4. /\ IsFiniteSet(below(t)) /\ Cardinality(below(s)) \in Nat /\ Cardinality(below(t)) \in Nat
    BY <1>2
  <2> HIDE DEF below
  <2>5. /\ Cardinality(below(s)) <= Cardinality(below(t))
        /\ Cardinality(below(s)) = Cardinality(below(t)) => below(s) = below(t)
    BY <2>1, <2>4, FS_Subset
  <2>6. QED
    BY <2>3, <2>4, <2>5
<1> HIDE DEF below, n
<1>4. r \in Injection(S, 1 .. n)
  <2>1. r \in [S -> 1 .. n]
    BY <1>1, <1>2
  <2>2. ASSUME NEW s \in S, NEW t \in S, r[s] = r[t] PROVE s = t
    <3>1. SUFFICES ASSUME s # t PROVE FALSE
      OBVIOUS
    <3>2. Cardinality(below(s)) \in Nat /\ Cardinality(below(t)) \in Nat /\ Cardinality(below(s)) = Cardinality(below(t))
      BY <1>2, <2>2
    <3>3. Before(s, t) \/ Before(t, s)
      BY <3>1, BeforeIs
    <3>4. QED
      BY <1>3, <3>2, <3>3
  <2>3. QED
    BY <2>1, <2>2 DEF Injection, IsInjective
<1>5. IsFiniteSet(1 .. n) /\ Cardinality(1 .. n) = n
  BY <1>1, FS_Interval
<1>6. r \in Surjection(S, 1 .. n)
  <2> HIDE DEF r
  <2>1. QED
    BY <1>4, <1>5, FS_Injection DEF n
<1>7. ASSUME NEW k \in 1 .. n PROVE A[k] \in S /\ Cardinality(below(A[k])) = k - 1
  <2>1. PICK s \in S : r[s] = k
    BY <1>6 DEF Surjection
  <2>2. Cardinality(below(s)) = k - 1
    BY <1>2, <2>1
  <2>3. A[k] = CHOOSE x \in S : Cardinality(below(x)) = k - 1
    BY DEF Ascending, n, below
  <2> HIDE DEF A
  <2>4. QED
    BY <2>2, <2>3
<1>8. A = [k \in 1 .. n |-> A[k]]
  <2> DEFINE e(k) == CHOOSE s \in S : Cardinality({t \in S : Before(t, s)}) = k - 1
  <2>1. A = [k \in 1 .. n |-> e(k)]
    BY DEF Ascending, n
  <2> HIDE DEF A, e
  <2>2. QED
    BY <2>1
<1> HIDE DEF A
<1>9. A \in [1 .. n -> S]
  BY <1>7, <1>8
<1>10. ASSUME NEW s \in S PROVE \E k \in 1 .. n : A[k] = s
  <2> DEFINE k == Cardinality(below(s)) + 1
  <2>1. k \in 1 .. n
    BY <1>1, <1>2
  <2>2. A[k] \in S /\ Cardinality(below(A[k])) = Cardinality(below(s))
    BY <1>2, <1>7, <2>1
  <2>3. A[k] = s
    <3>1. SUFFICES ASSUME A[k] # s PROVE FALSE
      OBVIOUS
    <3>2. Before(A[k], s) \/ Before(s, A[k])
      BY <2>2, <3>1, BeforeIs
    <3>3. Cardinality(below(s)) \in Nat
      BY <1>2
    <3> HIDE DEF k
    <3>4. QED
      BY <1>3, <2>2, <3>2, <3>3
  <2>4. QED
    BY <2>1, <2>3
<1>11. ASSUME NEW i \in 1 .. n, NEW j \in 1 .. n, i < j PROVE Before(A[i], A[j])
  <2>1. A[i] \in S /\ A[j] \in S /\ Cardinality(below(A[i])) = i - 1 /\ Cardinality(below(A[j])) = j - 1
    BY <1>7
  <2>2. A[i] # A[j]
    BY <1>11, <2>1
  <2>3. ~Before(A[j], A[i])
    BY <1>3, <1>11, <2>1
  <2>4. QED
    BY <2>1, <2>2, <2>3, BeforeIs
<1>12. QED
  BY <1>9, <1>10, <1>11 DEF Orderly, n, A

\* Inserted from the end, and reversed: in order.
LEMMA BackAndForth ==
  ASSUME NEW S, NEW s \in Seq(S)
  PROVE  Reverse(Reverse(s)) = s
<1> DEFINE n == Len(s)
           r == Reverse(s)
           b == Reverse(r)
<1>1. n \in Nat /\ s = [i \in 1 .. n |-> s[i]]
  OBVIOUS
<1>2. r = [i \in 1 .. n |-> s[(n - i) + 1]]
  BY DEF Reverse
<1> HIDE DEF r
<1>3. Len(r) = n
  BY <1>1, <1>2
<1>4. b = [i \in 1 .. n |-> r[(n - i) + 1]]
  BY <1>3 DEF Reverse
<1> HIDE DEF n
<1>5. ASSUME NEW i \in 1 .. n PROVE r[(n - i) + 1] = s[i]
  <2>1. (n - i) + 1 \in 1 .. n /\ (n - ((n - i) + 1)) + 1 = i
    BY <1>1
  <2>2. QED
    BY <1>2, <2>1
<1>6. b = [i \in 1 .. n |-> s[i]]
  BY <1>4, <1>5
<1>7. QED
  BY <1>1, <1>6 DEF r

StandingOf(stream) == {s \in spans : s.stream = stream}
RowOf(s) == [kind |-> "annotation", stream |-> s.stream, line |-> s.line, at |-> s.at,
             site |-> s.site, reg |-> s.reg, values |-> s.text.values]
Tallies == [kind : {"summary"}, stream : StreamKinds, omitted : Nat]
AuditRows == {RowOf(s) : s \in spans} \union Drops \union Tallies

Settling ==
  /\ BodyOK(body) /\ IsFiniteSet(spans) /\ spans \in SUBSET Notes /\ Lone(spans)
  /\ \A stream \in StreamKinds : /\ records[stream] = Ascending(StandingOf(stream))
                                 /\ ledger[stream] \in Seq(Drops)

LEMMA SpansAre ==
  ASSUME Settling
  PROVE  /\ Placeable(spans)
         /\ \A s \in spans : s.stream = KindOf(s.text.literal)
         /\ \A stream \in StreamKinds : /\ IsFiniteSet(StandingOf(stream)) /\ Cardinality(StandingOf(stream)) \in Nat
                                        /\ Orderly(records[stream], StandingOf(stream))
                                        /\ Len(records[stream]) = Cardinality(StandingOf(stream))
<1>1. Placeable(spans) /\ \A s \in spans : s.stream = KindOf(s.text.literal)
  <2>1. ASSUME NEW s \in spans
        PROVE  s.line \in Nat \ {0} /\ s.at \in Nat \ {0} /\ s.stream = KindOf(s.text.literal)
    <3>1. /\ s.line \in DOMAIN body.finished /\ s.at \in 1 .. ReadsAt(s.line) /\ s.at \in Nat
          /\ s.stream = KindOf(s.text.literal)
      BY NoteTells DEF Settling
    <3>2. s.line \in Nat \ {0}
      BY <3>1, BodyIs DEF Settling
    <3>3. ReadsAt(s.line) \in Nat
      BY <3>1, LineReads DEF Settling
    <3>4. QED
      BY <3>1, <3>2, <3>3
  <2>2. QED
    BY <2>1 DEF Placeable
<1>2. ASSUME NEW stream \in StreamKinds
      PROVE  /\ IsFiniteSet(StandingOf(stream)) /\ Cardinality(StandingOf(stream)) \in Nat
             /\ Orderly(records[stream], StandingOf(stream)) /\ Len(records[stream]) = Cardinality(StandingOf(stream))
  <2> DEFINE S == StandingOf(stream)
  <2>1. S \in SUBSET spans
    BY DEF StandingOf
  <2>2. IsFiniteSet(S) /\ Cardinality(S) \in Nat
    BY <2>1, FS_Subset, FS_CardinalityType DEF Settling
  <2>3. Lone(S) /\ Placeable(S)
    BY <1>1, <2>1 DEF Settling, Lone, Placeable
  <2> HIDE DEF S
  <2>4. Orderly(Ascending(S), S)
    BY <2>2, <2>3, AscendingIs
  <2>5. records[stream] = Ascending(S)
    BY DEF Settling, S
  <2>6. Len(Ascending(S)) = Cardinality(S)
    BY <2>2 DEF Ascending
  <2>7. QED
    BY <2>2, <2>4, <2>5, <2>6 DEF S
<1>3. QED
  BY <1>1, <1>2

\* After n records: where the next is searched from, and what was found.
From(A, n) == IF n = 0 THEN [line |-> 1, at |-> 1] ELSE [line |-> A[n].line, at |-> A[n].at + 1]
SoughtBy(A, n) == [from |-> From(A, n), rows |-> [k \in 1 .. n |-> RowOf(A[k])]]

LEMMA FoundIs ==
  ASSUME Settling, NEW stream \in StreamKinds, NEW n \in Nat, n + 1 <= Cardinality(StandingOf(stream))
  PROVE  Found(records[stream][n + 1].text, From(records[stream], n)) = <<Place(records[stream][n + 1])>>
<1> DEFINE A == records[stream]
           S == StandingOf(stream)
           m == Cardinality(S)
           s == A[n + 1]
           from == From(A, n)
           behind == {t \in spans : t.text = s.text /\ ~Before(t, from)}
           places == {Place(t) : t \in behind}
<1>1. /\ m \in Nat /\ Orderly(A, S) /\ Placeable(spans) /\ Lone(spans) /\ S \subseteq spans
      /\ \A t \in spans : t.stream = KindOf(t.text.literal)
  BY SpansAre DEF Settling, StandingOf
<1>2. \A t \in S : t.line \in Nat \ {0} /\ t.at \in Nat \ {0}
  BY <1>1 DEF Placeable
<1>3. n + 1 \in 1 .. m /\ s \in S /\ s \in spans /\ s.stream = stream /\ s.line \in Nat \ {0} /\ s.at \in Nat \ {0}
  <2>1. n + 1 \in 1 .. m
    BY <1>1
  <2>2. s \in S
    BY <1>1, <2>1 DEF Orderly
  <2>3. QED
    BY <1>1, <1>2, <2>1, <2>2 DEF StandingOf
<1>4. n # 0 => n \in 1 .. m /\ A[n] \in S /\ Before(A[n], s) /\ A[n].line \in Nat \ {0} /\ A[n].at \in Nat \ {0}
  <2>1. n # 0 => n \in 1 .. m /\ n < n + 1
    <3> HIDE DEF m
    <3>1. n + 1 <= m
      BY <1>3
    <3>2. QED
      BY <1>1, <3>1
  <2>2. QED
    BY <1>1, <1>2, <1>3, <2>1 DEF Orderly
<1> HIDE DEF A, m, s
<1>5. Place(s) \in places
  <2>1. ~Before(s, from)
    <3>1. CASE n = 0
      <4>1. from.line = 1 /\ from.at = 1
        BY <3>1 DEF From
      <4> HIDE DEF from
      <4>2. QED
        BY <1>3, <4>1 DEF Before
    <3>2. CASE n # 0
      <4>1. from.line = A[n].line /\ from.at = A[n].at + 1
        BY <3>2 DEF From
      <4> HIDE DEF from
      <4>2. QED
        BY <1>3, <1>4, <3>2, <4>1 DEF Before
    <3>3. QED
      BY <3>1, <3>2
  <2> HIDE DEF from
  <2>2. QED
    BY <1>3, <2>1
<1>6. ASSUME NEW t \in behind PROVE ~Before(t, s) /\ t \in spans
  <2>1. t \in S
    <3>1. t.stream = stream
      BY <1>1, <1>3
    <3>2. QED
      BY <3>1 DEF StandingOf
  <2>2. PICK j \in 1 .. m : A[j] = t
    BY <1>1, <2>1 DEF Orderly, m
  <2>3. SUFFICES ASSUME Before(t, s) PROVE FALSE
    OBVIOUS
  <2>4. ~(n + 1 < j) /\ j # n + 1
    <3>1. n + 1 < j => Before(s, t)
      BY <1>1, <1>3, <2>2 DEF Orderly, m, s
    <3>2. j = n + 1 => s = t
      BY <2>2 DEF s
    <3>3. ~(Before(t, s) /\ Before(s, t)) /\ ~Before(s, s)
      BY <1>1, <1>3, BeforeIs
    <3>4. QED
      BY <2>3, <3>1, <3>2, <3>3
  <2>5. j <= n /\ n # 0
    BY <2>2, <2>4, <1>1
  <2>6. Before(t, A[n]) \/ t = A[n]
    <3>1. j < n => Before(A[j], A[n])
      BY <1>1, <1>4, <2>5 DEF Orderly, m
    <3>2. j = n \/ j < n
      BY <1>1, <2>5
    <3>3. QED
      BY <2>2, <3>1, <3>2
  <2>7. t.line \in Nat /\ t.at \in Nat
    BY <1>2, <2>1
  <2>8. from.line = A[n].line /\ from.at = A[n].at + 1
    BY <2>5 DEF From
  <2>11. ~Before(t, from)
    OBVIOUS
  <2> HIDE DEF from
  <2>9. Before(t, from)
    BY <1>4, <2>5, <2>6, <2>7, <2>8 DEF Before
  <2>10. QED
    BY <2>9, <2>11
<1>7. \A q \in places : ~Before(q, Place(s))
  BY <1>6 DEF Before, Place
<1>8. ASSUME NEW p \in places, \A q \in places : ~Before(q, p) PROVE p = Place(s)
  <2>1. PICK t \in behind : p = Place(t)
    OBVIOUS
  <2>2. ~Before(Place(s), p) /\ ~Before(p, Place(s))
    BY <1>5, <1>7, <1>8
  <2>3. t.line \in Nat /\ t.at \in Nat
    BY <1>1, <1>6 DEF Placeable
  <2> HIDE DEF behind, places
  <2>4. t.line = s.line /\ t.at = s.at
    BY <1>3, <2>1, <2>2, <2>3 DEF Before, Place
  <2>5. QED
    BY <2>1, <2>4 DEF Place
<1>9. Found(s.text, from) = IF places = {} THEN <<>> ELSE <<CHOOSE p \in places : \A q \in places : ~Before(q, p)>>
  BY DEF Found
<1> HIDE DEF places, from
<1>10. (CHOOSE p \in places : \A q \in places : ~Before(q, p)) = Place(s)
  BY <1>5, <1>7, <1>8
<1>11. Found(s.text, from) = <<Place(s)>>
  BY <1>5, <1>9, <1>10
<1>12. QED
  BY <1>11 DEF s, A, from

LEMMA SoughtIs ==
  ASSUME Settling, NEW stream \in StreamKinds, NEW n \in Nat, n + 1 <= Cardinality(StandingOf(stream))
  PROVE  Sought(SoughtBy(records[stream], n), records[stream][n + 1]) = SoughtBy(records[stream], n + 1)
<1> DEFINE A == records[stream]
           s == A[n + 1]
           p == <<Place(s)>>
           rows == [k \in 1 .. n |-> RowOf(A[k])]
           more == [k \in 1 .. n + 1 |-> RowOf(A[k])]
           acc == SoughtBy(A, n)
<1>1. acc.from = From(A, n) /\ acc.rows = rows
  BY DEF SoughtBy
<1>2. Found(s.text, acc.from) = p
  BY <1>1, FoundIs
<1>3. p # <<>> /\ p[1].line = s.line /\ p[1].at = s.at
  BY DEF Place
<1>4. Sought(acc, s) = [from |-> [line |-> s.line, at |-> s.at + 1], rows |-> Append(rows, RowOf(s))]
  <2> HIDE DEF s, p, acc, rows
  <2>1. QED
    BY <1>1, <1>2, <1>3 DEF Sought, RowOf
<1>5. Append(rows, RowOf(s)) = more
  <2> DEFINE e(k) == RowOf(A[k])
             R == {e(k) : k \in 1 .. n + 1}
  <2>1. rows = [k \in 1 .. n |-> e(k)] /\ more = [k \in 1 .. n + 1 |-> e(k)] /\ RowOf(s) = e(n + 1)
    OBVIOUS
  <2>2. n + 1 \in 1 .. n + 1 /\ \A k \in 1 .. n : k \in 1 .. n + 1
    OBVIOUS
  <2> HIDE DEF rows, more, e, s
  <2>3. rows \in Seq(R) /\ Len(rows) = n /\ e(n + 1) \in R
    BY <2>1, <2>2
  <2> HIDE DEF R
  <2>4. Append(rows, e(n + 1)) = more
    BY <2>1, <2>3
  <2>5. QED
    BY <2>1, <2>4
<1>6. SoughtBy(A, n + 1) = [from |-> [line |-> s.line, at |-> s.at + 1], rows |-> more]
  <2>1. From(A, n + 1) = [line |-> s.line, at |-> s.at + 1]
    BY DEF From
  <2>2. SoughtBy(A, n + 1) = [from |-> From(A, n + 1), rows |-> more]
    BY DEF SoughtBy
  <2> HIDE DEF s, more
  <2>3. QED
    BY <2>1, <2>2
<1>7. QED
  BY <1>4, <1>5, <1>6

\* Every record is found where its annotation stands.
LEMMA PlacedIs ==
  ASSUME Settling, NEW stream \in StreamKinds
  PROVE  Placed(stream) = [k \in 1 .. Cardinality(StandingOf(stream)) |-> RowOf(records[stream][k])]
<1> DEFINE A == records[stream]
           m == Cardinality(StandingOf(stream))
           start == [from |-> [line |-> 1, at |-> 1], rows |-> <<>>]
           Eq(g) == g = [n \in 0 .. m |-> IF n = 0 THEN start ELSE Sought(g[n - 1], A[n])]
           after == CHOOSE g : Eq(g)
           g == [n \in 0 .. m |-> SoughtBy(A, n)]
<1>1. m \in Nat /\ Len(A) = m
  BY SpansAre
<1>2. Placed(stream) = after[m].rows
  BY <1>1 DEF Placed
<1>3. SoughtBy(A, 0) = start
  <2>1. [k \in 1 .. 0 |-> RowOf(A[k])] = <<>>
    OBVIOUS
  <2>2. QED
    BY <2>1 DEF SoughtBy, From
<1>4. ASSUME NEW n \in Nat, n + 1 <= m PROVE Sought(SoughtBy(A, n), A[n + 1]) = SoughtBy(A, n + 1)
  BY <1>4, SoughtIs
<1> HIDE DEF m, A, start
<1>5. Eq(g)
  <2>1. ASSUME NEW n \in 0 .. m PROVE g[n] = IF n = 0 THEN start ELSE Sought(g[n - 1], A[n])
    <3>1. CASE n # 0
      <4>1. n - 1 \in Nat /\ (n - 1) + 1 = n /\ (n - 1) + 1 <= m /\ n - 1 \in 0 .. m
        BY <1>1, <3>1
      <4>2. Sought(SoughtBy(A, n - 1), A[(n - 1) + 1]) = SoughtBy(A, (n - 1) + 1)
        BY <1>4, <4>1
      <4>3. g[n] = SoughtBy(A, n) /\ g[n - 1] = SoughtBy(A, n - 1)
        BY <4>1
      <4> HIDE DEF g
      <4>4. QED
        BY <3>1, <4>1, <4>2, <4>3
    <3>2. CASE n = 0
      BY <1>3, <3>2
    <3>3. QED
      BY <3>1, <3>2
  <2>2. g = [n \in 0 .. m |-> g[n]]
    OBVIOUS
  <2> HIDE DEF g
  <2>3. QED
    BY <2>1, <2>2
<1>6. Eq(after)
  BY <1>5
<1> HIDE DEF after, g
<1> DEFINE T == {n \in Nat : n <= m => after[n] = SoughtBy(A, n)}
<1>7. \A n \in Nat : n \in T
  <2>1. 0 \in T
    BY <1>1, <1>3, <1>6
  <2>2. ASSUME NEW n \in Nat, n \in T PROVE n + 1 \in T
    <3>1. SUFFICES ASSUME n + 1 <= m PROVE after[n + 1] = SoughtBy(A, n + 1)
      OBVIOUS
    <3>2. n + 1 \in 0 .. m /\ n + 1 # 0 /\ (n + 1) - 1 = n /\ n <= m
      BY <1>1, <3>1
    <3>3. after[n + 1] = Sought(after[(n + 1) - 1], A[n + 1])
      BY <1>6, <3>2
    <3>4. QED
      BY <1>4, <2>2, <3>1, <3>2, <3>3
  <2> HIDE DEF T
  <2>3. QED
    BY <2>1, <2>2, Induction
<1>8. after[m] = SoughtBy(A, m)
  BY <1>1, <1>7
<1>9. SoughtBy(A, m).rows = [k \in 1 .. m |-> RowOf(A[k])]
  BY DEF SoughtBy
<1>10. QED
  BY <1>2, <1>8, <1>9 DEF A, m

-----------------------------------------------------------------------------
(* What is written is what stands.                                           *)

Annotated(X) == {k \in 1 .. Len(X) : X[k].kind = "annotation"}
Reports(X, S) ==
  /\ X \in Seq(AuditRows)
  /\ {x \in Range(X) : x.kind = "annotation"} = {RowOf(s) : s \in S}
  /\ Cardinality(Annotated(X)) = Cardinality(S)

LEMMA ReportsBoth ==
  ASSUME NEW X, NEW Y, NEW S, NEW T, IsFiniteSet(S), IsFiniteSet(T), S \cap T = {}, Reports(X, S), Reports(Y, T)
  PROVE  /\ Reports(X \o Y, S \union T)
         /\ Range(X \o Y) = Range(X) \union Range(Y)
<1> DEFINE Z == X \o Y
           a == Len(X)
           b == Len(Y)
           I == Annotated(X)
           J == Annotated(Y)
           K == {k + a : k \in J}
<1>1. X \in Seq(AuditRows) /\ Y \in Seq(AuditRows)
  BY DEF Reports
<1>2. /\ a \in Nat /\ b \in Nat /\ Z \in Seq(AuditRows) /\ Len(Z) = a + b
      /\ \A k \in 1 .. a + b : Z[k] = IF k <= a THEN X[k] ELSE Y[k - a]
  <2>1. a \in Nat /\ b \in Nat
    BY <1>1
  <2>2. QED
    BY ONLY <1>1, <2>1, ConcatProperties
<1>3. DOMAIN X = 1 .. a /\ DOMAIN Y = 1 .. b /\ DOMAIN Z = 1 .. Len(Z)
  BY <1>1, <1>2
<1> HIDE DEF a, b, Z
<1>4. /\ \A k \in 1 .. a : k \in 1 .. a + b /\ Z[k] = X[k]
      /\ \A k \in 1 .. b : k + a \in 1 .. a + b /\ Z[k + a] = Y[k]
      /\ \A k \in 1 .. a + b : k \in 1 .. a \/ \E j \in 1 .. b : k = j + a
  <2>1. \A k \in 1 .. a : k \in 1 .. a + b /\ Z[k] = X[k]
    BY <1>2
  <2>2. ASSUME NEW k \in 1 .. b PROVE k + a \in 1 .. a + b /\ Z[k + a] = Y[k]
    <3>1. k + a \in 1 .. a + b /\ ~(k + a <= a) /\ (k + a) - a = k
      BY <1>2
    <3>2. QED
      BY <1>2, <3>1
  <2>3. ASSUME NEW k \in 1 .. a + b PROVE k \in 1 .. a \/ \E j \in 1 .. b : k = j + a
    <3>1. k \in 1 .. a \/ (k - a \in 1 .. b /\ k = (k - a) + a)
      BY <1>2
    <3>2. QED
      BY <3>1
  <2>4. QED
    BY <2>1, <2>2, <2>3
<1>5. Range(Z) = Range(X) \union Range(Y)
  <2>1. Range(X) = {X[k] : k \in 1 .. a} /\ Range(Y) = {Y[k] : k \in 1 .. b} /\ Range(Z) = {Z[k] : k \in 1 .. a + b}
    BY <1>2, <1>3 DEF Range
  <2>2. QED
    BY <1>4, <2>1
<1>6. {x \in Range(Z) : x.kind = "annotation"} = {RowOf(s) : s \in S \union T}
  <2>1. {x \in Range(X) : x.kind = "annotation"} = {RowOf(s) : s \in S}
    BY DEF Reports
  <2>2. {x \in Range(Y) : x.kind = "annotation"} = {RowOf(s) : s \in T}
    BY DEF Reports
  <2> DEFINE e(s) == RowOf(s)
  <2>3. {e(s) : s \in S \union T} = {e(s) : s \in S} \union {e(s) : s \in T}
    OBVIOUS
  <2>4. {x \in Range(Z) : x.kind = "annotation"}
        = {x \in Range(X) : x.kind = "annotation"} \union {x \in Range(Y) : x.kind = "annotation"}
    BY <1>5
  <2> HIDE DEF e
  <2>5. QED
    BY <2>1, <2>2, <2>3, <2>4 DEF e
<1>7. Annotated(Z) = I \union K /\ I \cap K = {}
  <2>1. I = {k \in 1 .. a : X[k].kind = "annotation"} /\ J = {k \in 1 .. b : Y[k].kind = "annotation"}
    BY DEF Annotated, a, b
  <2>2. Annotated(Z) = {k \in 1 .. a + b : Z[k].kind = "annotation"}
    BY <1>2 DEF Annotated
  <2> HIDE DEF I, J
  <2>3. Annotated(Z) \subseteq I \union K
    BY <1>4, <2>1, <2>2
  <2>4. I \union K \subseteq Annotated(Z)
    BY <1>4, <2>1, <2>2
  <2>5. I \cap K = {}
    BY <1>2, <2>1
  <2>6. QED
    BY <2>3, <2>4, <2>5
<1>8. IsFiniteSet(I) /\ IsFiniteSet(J)
  <2>1. IsFiniteSet(1 .. a) /\ IsFiniteSet(1 .. b)
    <3>1. 1 \in Int /\ a \in Int /\ b \in Int
      BY <1>2
    <3>2. QED
      BY <3>1, FS_Interval
  <2>2. I \in SUBSET (1 .. a) /\ J \in SUBSET (1 .. b)
    BY DEF Annotated, a, b
  <2> HIDE DEF I, J
  <2>3. QED
    BY <2>1, <2>2, FS_Subset
<1>9. J \subseteq Nat
  BY <1>2 DEF Annotated, b
<1> HIDE DEF I, J
<1>10. IsFiniteSet(K) /\ Cardinality(K) = Cardinality(J)
  <2> DEFINE h == [k \in J |-> k + a]
  <2>1. h \in Bijection(J, K)
    <3>1. h \in [J -> K]
      OBVIOUS
    <3>2. \A k, j \in J : h[k] = h[j] => k = j
      <4>1. \A k, j \in Nat : k + a = j + a => k = j
        BY <1>2
      <4>2. QED
        BY <1>9, <4>1
    <3>3. \A x \in K : \E k \in J : h[k] = x
      OBVIOUS
    <3> HIDE DEF h, K
    <3>4. QED
      BY <3>1, <3>2, <3>3 DEF Bijection, Injection, Surjection, IsInjective
  <2> HIDE DEF h, K
  <2>2. ExistsBijection(J, K)
    BY <2>1 DEF ExistsBijection
  <2>3. QED
    BY <1>8, <2>2, FS_Bijection
<1> HIDE DEF K
<1>11. Cardinality(Annotated(Z)) = Cardinality(S \union T)
  <2>1. Cardinality(I) = Cardinality(S) /\ Cardinality(J) = Cardinality(T)
    BY DEF Reports, I, J
  <2>2. Cardinality(I \union K) = Cardinality(I) + Cardinality(K) - Cardinality(I \cap K)
    BY <1>8, <1>10, FS_Union
  <2>3. Cardinality(S \union T) = Cardinality(S) + Cardinality(T) - Cardinality(S \cap T)
    BY FS_Union
  <2>4. Cardinality(I \cap K) = Cardinality(S \cap T)
    BY <1>7
  <2>5. QED
    BY <1>7, <1>10, <2>1, <2>2, <2>3, <2>4
<1>12. Reports(Z, S \union T)
  BY <1>2, <1>6, <1>11 DEF Reports
<1>13. QED
  BY <1>5, <1>12 DEF Z

\* Rows that are no annotations.
LEMMA ReportsNothing ==
  ASSUME NEW X \in Seq(AuditRows), \A k \in 1 .. Len(X) : X[k].kind # "annotation"
  PROVE  Reports(X, {})
<1>1. Annotated(X) = {}
  BY DEF Annotated
<1>2. {x \in Range(X) : x.kind = "annotation"} = {}
  BY DEF Range
<1>3. QED
  BY <1>1, <1>2 DEF Reports

LEMMA WrittenIs ==
  ASSUME Settling, NEW stream \in StreamKinds
  PROVE  /\ Reports(Written(stream), StandingOf(stream))
         /\ ~Silent(stream) => Range(ledger[stream]) \subseteq Range(Written(stream))
         /\ \A row \in Range(Written(stream)) :
              row.kind = "summary" => row.stream = stream /\ row.omitted = Cardinality(Omissions(stream))
<1> DEFINE A == records[stream]
           S == StandingOf(stream)
           m == Cardinality(S)
           P == Placed(stream)
           L == ledger[stream]
           row == [kind |-> "summary", stream |-> stream, omitted |-> Cardinality(Omissions(stream))]
           Q == IF Omissions(stream) = {} THEN <<>> ELSE <<row>>
<1>1. m \in Nat /\ IsFiniteSet(S) /\ Orderly(A, S) /\ S \subseteq spans
  BY SpansAre DEF StandingOf
<1>2. P = [k \in 1 .. m |-> RowOf(A[k])]
  BY PlacedIs
<1>3. \A k \in 1 .. m : A[k] \in S
  BY <1>1 DEF Orderly
<1> HIDE DEF P, m, A
<1>4. Reports(P, S) /\ (P = <<>> => S = {})
  <2>1. Len(P) = m /\ DOMAIN P = 1 .. m
    BY <1>1, <1>2
  <2>2. P \in Seq(AuditRows)
    <3>1. \A k \in 1 .. m : RowOf(A[k]) \in AuditRows
      <4>1. \A s \in S : RowOf(s) \in AuditRows
        BY <1>1 DEF AuditRows
      <4>2. QED
        BY <1>3, <4>1
    <3>2. QED
      BY <1>1, <1>2, <3>1
  <2>3. \A k \in 1 .. m : P[k] = RowOf(A[k]) /\ P[k].kind = "annotation"
    BY <1>2 DEF RowOf
  <2>4. {x \in Range(P) : x.kind = "annotation"} = {RowOf(s) : s \in S}
    <3>1. Range(P) = {P[k] : k \in 1 .. m}
      BY <2>1 DEF Range
    <3>2. \A s \in S : \E k \in 1 .. m : A[k] = s
      BY <1>1 DEF Orderly, m, A
    <3> DEFINE e(s) == RowOf(s)
    <3>3. \A k \in 1 .. m : P[k] = e(A[k]) /\ P[k].kind = "annotation"
      BY <2>3
    <3> HIDE DEF e
    <3>4. {x \in Range(P) : x.kind = "annotation"} = {e(s) : s \in S}
      BY <1>3, <3>1, <3>2, <3>3
    <3>5. QED
      BY <3>4 DEF e
  <2>5. Annotated(P) = 1 .. m
    BY <2>1, <2>3 DEF Annotated
  <2>6. Cardinality(1 .. m) = m
    BY <1>1, FS_Interval
  <2>7. P = <<>> => S = {}
    <3>1. \A s \in S : \E k \in 1 .. m : A[k] = s
      BY <1>1 DEF Orderly, m, A
    <3>2. P = <<>> => m = 0
      BY <2>1
    <3>3. QED
      BY <3>1, <3>2
  <2>8. QED
    BY <2>2, <2>4, <2>5, <2>6, <2>7 DEF Reports, m
<1>5. L \in Seq(AuditRows) /\ L \in Seq(Drops) /\ \A k \in 1 .. Len(L) : L[k] \in Drops
  BY DEF Settling, AuditRows
<1>6. \A d \in Drops : d.kind # "annotation" /\ d.kind # "summary"
  BY DEF Drops
<1>7. Reports(L, {})
  BY <1>5, <1>6, ReportsNothing
<1>8. Cardinality(Omissions(stream)) \in Nat
  <2>1. DOMAIN L = 1 .. Len(L) /\ Len(L) \in Nat
    BY <1>5
  <2>2. IsFiniteSet(1 .. Len(L))
    <3>1. 1 \in Int /\ Len(L) \in Int
      BY <2>1
    <3>2. QED
      BY <3>1, FS_Interval
  <2>3. Omissions(stream) \in SUBSET (1 .. Len(L))
    BY <2>1 DEF Omissions
  <2>4. QED
    BY <2>2, <2>3, FS_Subset, FS_CardinalityType
<1>9. row \in AuditRows /\ row.kind = "summary" /\ row.stream = stream /\ row.omitted = Cardinality(Omissions(stream))
  BY <1>8 DEF AuditRows, Tallies
<1> HIDE DEF row, L
<1>10. Reports(Q, {}) /\ \A x \in Range(Q) : x = row
  <2>1. CASE Omissions(stream) = {}
    <3>1. Q = <<>> /\ Range(Q) = {}
      BY <2>1 DEF Range
    <3> HIDE DEF Q
    <3>2. Q \in Seq(AuditRows) /\ \A k \in 1 .. Len(Q) : Q[k].kind # "annotation"
      BY <3>1
    <3>3. QED
      BY <3>1, <3>2, ReportsNothing
  <2>2. CASE Omissions(stream) # {}
    <3>1. Q = <<row>>
      BY <2>2
    <3> HIDE DEF Q
    <3>2. Q \in Seq(AuditRows) /\ Len(Q) = 1 /\ Q[1] = row /\ DOMAIN Q = 1 .. 1
      BY <1>9, <3>1
    <3>3. \A k \in 1 .. Len(Q) : Q[k].kind # "annotation"
      BY <1>9, <3>2
    <3>4. \A x \in Range(Q) : x = row
      BY <3>2 DEF Range
    <3>5. QED
      BY <3>2, <3>3, <3>4, ReportsNothing
  <2>3. QED
    BY <2>1, <2>2
<1> HIDE DEF Q
<1>11. IsFiniteSet({}) /\ S \cap {} = {} /\ S \union {} = S
  BY FS_EmptySet
<1> DEFINE W == P \o L \o Q
<1>12. Reports(W, S) /\ Range(W) = Range(P) \union Range(L) \union Range(Q)
  <2>1. Reports(P \o L, S \union {}) /\ Range(P \o L) = Range(P) \union Range(L)
    BY <1>1, <1>4, <1>7, <1>11, ReportsBoth
  <2>2. Reports(P \o L, S)
    BY <1>11, <2>1
  <2>3. Reports((P \o L) \o Q, S \union {}) /\ Range((P \o L) \o Q) = Range(P \o L) \union Range(Q)
    BY <1>1, <1>10, <1>11, <2>2, ReportsBoth
  <2>4. QED
    BY <1>11, <2>1, <2>3
<1>13. Written(stream) = IF Silent(stream) THEN <<>> ELSE W
  BY DEF Written, P, L, Q, row
<1> HIDE DEF W
<1>14. CASE Silent(stream)
  <2>1. P = <<>>
    BY <1>14 DEF Silent, P
  <2>2. S = {} /\ Written(stream) = <<>>
    BY <1>4, <1>13, <1>14, <2>1
  <2>3. Reports(<<>>, {})
    <3>1. <<>> \in Seq(AuditRows) /\ Len(<<>>) = 0 /\ \A k \in 1 .. 0 : FALSE
      OBVIOUS
    <3>2. {x \in Range(<<>>) : x.kind = "annotation"} = {} /\ Annotated(<<>>) = {}
      BY <3>1 DEF Annotated, Range
    <3>3. QED
      BY <3>1, <3>2 DEF Reports
  <2>4. Range(<<>>) = {}
    BY DEF Range
  <2>5. QED
    BY <1>14, <2>2, <2>3, <2>4
<1>15. CASE ~Silent(stream)
  <2>1. Written(stream) = W
    BY <1>13, <1>15
  <2>2. ASSUME NEW x \in Range(W), x.kind = "summary" PROVE x = row
    <3>1. \A k \in 1 .. m : P[k].kind = "annotation"
      BY <1>2 DEF RowOf
    <3>2. x \notin Range(P)
      BY <1>2, <2>2, <3>1 DEF Range
    <3>3. x \notin Range(L)
      <4>1. DOMAIN L = 1 .. Len(L)
        BY <1>5
      <4>2. QED
        BY <1>5, <1>6, <2>2, <4>1 DEF Range
    <3>4. QED
      BY <1>10, <1>12, <2>2, <3>2, <3>3
  <2>3. QED
    BY <1>9, <1>12, <2>1, <2>2 DEF L
<1>16. QED
  BY <1>14, <1>15

-----------------------------------------------------------------------------
(* The annotations of a function, step by step.                              *)

AnchorCount == Len(body.anchors)
CallCount == Len(body.calls)
AskedBefore(n, site, reg) ==
  {p \in (DOMAIN body.anchors) \X (DOMAIN body.rendered) : p[1] < n /\ p[2] \in Asks(body.anchors[p[1]], site, reg)}

\* While the merges are planned nothing stands yet; while the calls are, the merges' notes do; and
\* after that all of them.
Staged ==
  /\ Nth <= 0 => spans = {} /\ Range(inserts) \subseteq JoinNotes
  /\ Nth \in 1 .. CallCount + 1 => spans \subseteq JoinNotes /\ Range(inserts) \subseteq CallNotes
  /\ Nth >= CallCount + 2 => inserts = <<>>

Recorded ==
  /\ records = [s \in StreamKinds |-> records[s]]
  /\ Nth >= 1 => records["join"] = Ascending(StandingOf("join")) /\ records["loop"] = Ascending(StandingOf("loop"))
  /\ Nth >= CallCount + 2 => records["call"] = Ascending(StandingOf("call"))
  /\ Nth = CallCount + 3 => audit = Written("call") \o Written("join") \o Written("loop")

Tallied ==
  \A key \in DOMAIN body.candidates :
    Cardinality(AskedBefore(next, key[1], key[2])) <= Tally(Plan, key[1], key[2])

NotesInv ==
  /\ BodyOK(body) /\ next \in Nat \ {0} /\ Nth <= CallCount + 3
  /\ IsFiniteSet(spans) /\ Sound(Plan)
  /\ Staged /\ Recorded /\ Tallied

NoNotes ==
  /\ next = 1 /\ inserts = <<>> /\ spans = {} /\ audit = <<>>
  /\ ledger = [s \in StreamKinds |-> <<>>]
  /\ records = [s \in StreamKinds |-> <<>>]

LEMMA CountsAre ==
  ASSUME BodyOK(body)
  PROVE  /\ AnchorCount \in Nat /\ CallCount \in Nat
         /\ DOMAIN body.anchors = 1 .. AnchorCount /\ DOMAIN body.calls = 1 .. CallCount
         /\ \A n \in 1 .. AnchorCount : AnchorOK(body.anchors[n])
         /\ \A n \in 1 .. CallCount : body.calls[n] \in Range(body.calls)
<1>1. List(body.anchors) /\ List(body.calls)
  BY DEF BodyOK
<1>2. \A a \in Range(body.anchors) : AnchorOK(a)
  BY DEF BodyOK, AnchorOK
<1>3. QED
  BY <1>1, <1>2, ListOf DEF AnchorCount, CallCount

LEMMA FreshIs == BodyOK(body) /\ NoNotes => NotesInv
<1> SUFFICES ASSUME BodyOK(body), NoNotes PROVE NotesInv
  OBVIOUS
<1>1. AnchorCount \in Nat /\ CallCount \in Nat /\ Nth = 0 - AnchorCount
  BY CountsAre DEF NoNotes, Nth, AnchorCount
<1>2. Nth <= 0 /\ ~(Nth >= 1) /\ ~(Nth >= CallCount + 2) /\ Nth # CallCount + 3 /\ Nth <= CallCount + 3 /\ Nth \notin 1 .. CallCount + 1
  BY <1>1
<1>3. IsFiniteSet(spans) /\ Plan \in Plans /\ Standing(Plan) = {}
  <2>1. IsFiniteSet({})
    BY FS_EmptySet
  <2>2. <<>> \in Seq(Notes) /\ <<>> \in Seq(Drops) /\ Range(<<>>) = {}
    BY DEF Range
  <2>3. Plan \in Plans
    BY <2>2 DEF Plans, Plan, NoNotes
  <2>4. QED
    BY <2>1, <2>2, <2>3 DEF NoNotes, Plan, Standing
<1>4. Sound(Plan)
  BY <1>3 DEF Sound, NoNotes, Lone, Roomy
<1>5. Range(inserts) = {}
  BY DEF NoNotes, Range
<1>6. Staged
  BY <1>2, <1>5 DEF Staged, NoNotes
<1>7. Recorded
  BY <1>2 DEF Recorded, NoNotes
<1>8. Tallied
  <2> SUFFICES ASSUME NEW key \in DOMAIN body.candidates
               PROVE  Cardinality(AskedBefore(next, key[1], key[2])) <= Tally(Plan, key[1], key[2])
    BY DEF Tallied
  <2>1. AskedBefore(next, key[1], key[2]) = {}
    BY CountsAre DEF AskedBefore, NoNotes
  <2>2. Cardinality({}) = 0
    BY FS_EmptySet
  <2>3. Tally(Plan, key[1], key[2]) \in Nat
    BY <1>3, TallyIs
  <2>4. QED
    BY <2>1, <2>2, <2>3
<1>9. next \in Nat \ {0}
  BY DEF NoNotes
<1>10. QED
  BY <1>2, <1>3, <1>4, <1>6, <1>7, <1>8, <1>9 DEF NotesInv

LEMMA SameAudit ==
  ASSUME body' = body, ledger' = ledger, spans' = spans, records' = records
  PROVE  \A stream : Written(stream)' = Written(stream)
BY DEF Written, Silent, Placed, Sought, Found, Omissions, Before, Place

LEMMA SameNotes ==
  ASSUME UNCHANGED notesVars
  PROVE  NotesInv' <=> NotesInv
<1>1. /\ body' = body /\ spans' = spans /\ next' = next /\ inserts' = inserts /\ ledger' = ledger
      /\ records' = records /\ audit' = audit
  BY DEF notesVars
<1>2. (BodyOK(body))' <=> BodyOK(body)
  BY <1>1
<1>3. Plan' = Plan /\ Nth' = Nth /\ CallCount' = CallCount
  BY <1>1 DEF Plan, Nth, CallCount
<1>4. (Sound(Plan))' <=> Sound(Plan)
  BY <1>1, <1>3, SamePlans
<1>5. Staged' <=> Staged
  BY <1>1, <1>3, SameBody DEF Staged
<1>6. \A stream : Written(stream)' = Written(stream)
  BY <1>1, SameAudit
<1>7. \A stream : Ascending(StandingOf(stream))' = Ascending(StandingOf(stream))
  BY <1>1 DEF Ascending, StandingOf, Before
<1>8. Recorded' <=> Recorded
  BY <1>1, <1>3, <1>6, <1>7 DEF Recorded
<1>9. \A n, site, reg : AskedBefore(n, site, reg)' = AskedBefore(n, site, reg)
  BY <1>1 DEF AskedBefore, Asks
<1>10. Tallied' <=> Tallied
  BY <1>1, <1>3, <1>9, SamePlans DEF Tallied
<1>11. (IsFiniteSet(spans))' <=> IsFiniteSet(spans)
  BY <1>1
<1>12. QED
  BY <1>1, <1>2, <1>3, <1>4, <1>5, <1>8, <1>10, <1>11 DEF NotesInv

\* What a planning step and what an applying step keep.
LEMMA CountsStay ==
  ASSUME body' = body
  PROVE  /\ AnchorCount' = AnchorCount /\ CallCount' = CallCount
         /\ (BodyOK(body))' <=> BodyOK(body)
         /\ \A n, site, reg : AskedBefore(n, site, reg)' = AskedBefore(n, site, reg)
<1>1. AnchorCount' = AnchorCount /\ CallCount' = CallCount
  BY DEF AnchorCount, CallCount
<1>2. (BodyOK(body))' <=> BodyOK(body)
  OBVIOUS
<1>3. \A n, site, reg : AskedBefore(n, site, reg)' = AskedBefore(n, site, reg)
  BY DEF AskedBefore, Asks
<1>4. QED
  BY <1>1, <1>2, <1>3

LEMMA AskedIs ==
  ASSUME BodyOK(body), NEW n \in Nat \ {0}, NEW site, NEW reg
  PROVE  /\ IsFiniteSet(AskedBefore(n, site, reg)) /\ Cardinality(AskedBefore(n, site, reg)) \in Nat
         /\ n > AnchorCount => AskedBefore(n + 1, site, reg) = AskedBefore(n, site, reg)
         /\ n <= AnchorCount =>
              Cardinality(AskedBefore(n + 1, site, reg))
              <= Cardinality(AskedBefore(n, site, reg)) + Cardinality(Asks(body.anchors[n], site, reg))
         /\ IsFiniteSet(Asks(body.anchors[n], site, reg)) /\ Cardinality(Asks(body.anchors[n], site, reg)) \in Nat
<1> DEFINE A == AskedBefore(n, site, reg)
           B == AskedBefore(n + 1, site, reg)
           C == Asks(body.anchors[n], site, reg)
           D == {n} \X C
<1>1. /\ AnchorCount \in Nat /\ DOMAIN body.anchors = 1 .. AnchorCount
      /\ Len(body.rendered) \in Nat /\ DOMAIN body.rendered = 1 .. Len(body.rendered)
  BY CountsAre, BodyIs
<1>2. IsFiniteSet(1 .. AnchorCount) /\ IsFiniteSet(1 .. Len(body.rendered))
  <2>1. 1 \in Int /\ AnchorCount \in Int /\ Len(body.rendered) \in Int
    BY <1>1
  <2>2. QED
    BY <2>1, FS_Interval
<1>3. IsFiniteSet((1 .. AnchorCount) \X (1 .. Len(body.rendered)))
  BY <1>2, FS_Product
<1>4. IsFiniteSet(A) /\ Cardinality(A) \in Nat /\ IsFiniteSet(B)
  <2>1. A \in SUBSET ((1 .. AnchorCount) \X (1 .. Len(body.rendered))) /\ B \in SUBSET ((1 .. AnchorCount) \X (1 .. Len(body.rendered)))
    BY <1>1 DEF AskedBefore
  <2>2. QED
    BY <1>3, <2>1, FS_Subset, FS_CardinalityType
<1>5. IsFiniteSet(C) /\ Cardinality(C) \in Nat
  <2>1. C \in SUBSET (1 .. Len(body.rendered))
    BY <1>1 DEF Asks
  <2>2. QED
    BY <1>2, <2>1, FS_Subset, FS_CardinalityType
<1>6. IsFiniteSet(D) /\ Cardinality(D) = Cardinality(C)
  <2> HIDE DEF C
  <2>1. IsFiniteSet({n}) /\ Cardinality({n}) = 1
    BY FS_Singleton
  <2>2. IsFiniteSet(D) /\ Cardinality(D) = Cardinality({n}) * Cardinality(C)
    BY <1>5, <2>1, FS_Product
  <2>3. QED
    BY <1>5, <2>1, <2>2
<1>7. ASSUME n > AnchorCount PROVE B = A
  <2>1. \A k \in DOMAIN body.anchors : k < n /\ k < n + 1
    BY <1>1, <1>7
  <2>2. QED
    BY <2>1 DEF AskedBefore
<1>8. B \subseteq A \union D
  <2>1. \A k \in DOMAIN body.anchors : k < n + 1 => k < n \/ k = n
    BY <1>1
  <2>2. ASSUME NEW p \in B PROVE p \in A \union D
    <3>1. /\ p \in (DOMAIN body.anchors) \X (DOMAIN body.rendered) /\ p[1] < n + 1
          /\ p[2] \in Asks(body.anchors[p[1]], site, reg)
      BY DEF AskedBefore
    <3>2. CASE p[1] < n
      BY <3>1, <3>2 DEF AskedBefore
    <3>3. CASE p[1] = n
      <4>1. p = <<n, p[2]>> /\ p[2] \in C
        BY <3>1, <3>3
      <4> HIDE DEF C
      <4>2. QED
        BY <4>1
    <3>4. QED
      BY <2>1, <3>1, <3>2, <3>3
  <2>3. QED
    BY <2>2
<1> HIDE DEF A, B, C, D
<1>9. Cardinality(B) <= Cardinality(A) + Cardinality(C)
  <2>1. IsFiniteSet(A \union D) /\ Cardinality(A \union D) = Cardinality(A) + Cardinality(D) - Cardinality(A \cap D)
    BY <1>4, <1>6, FS_Union
  <2>2. Cardinality(B) <= Cardinality(A \union D)
    BY <1>8, <2>1, FS_Subset
  <2>3. Cardinality(A \cap D) \in Nat
    BY <1>4, FS_Subset, FS_CardinalityType
  <2>4. Cardinality(B) \in Nat /\ Cardinality(A \union D) \in Nat
    BY <1>4, <2>1, FS_CardinalityType
  <2>5. QED
    BY <1>4, <1>5, <1>6, <2>1, <2>2, <2>3, <2>4
<1>10. QED
  BY <1>4, <1>5, <1>7, <1>9 DEF A, B, C

LEMMA JoinStep ==
  ASSUME NotesInv, JoinAnchor
  PROVE  NotesInv'
<1>1. /\ body' = body /\ spans' = spans /\ records' = records /\ audit' = audit /\ next' = next + 1
      /\ Planned(WithAnchor(Plan, body.anchors[next]))
      /\ next <= AnchorCount /\ next \in Nat \ {0} /\ Nth = next - AnchorCount - 1
  BY DEF JoinAnchor, NotesInv, AnchorCount, Nth
<1>2. BodyOK(body) /\ Sound(Plan) /\ AnchorCount \in Nat /\ CallCount \in Nat
  BY CountsAre DEF NotesInv
<1>3. Nth' = Nth + 1 /\ Nth <= 0 - 1 /\ Nth \in Int /\ Nth' = next' - AnchorCount - 1
  <2>1. Nth' = next' - AnchorCount' - 1
    BY DEF Nth, AnchorCount
  <2>2. QED
    BY <1>1, <1>2, <2>1, CountsStay
<1>4. Plan \in JoinPlans /\ spans = {}
  BY <1>2, <1>3 DEF JoinPlans, Sound, NotesInv, Staged, Plan
<1>5. PICK p : p = Plan
  OBVIOUS
<1>6. PICK a : a = body.anchors[next]
  OBVIOUS
<1>7. PICK q : q = WithAnchor(p, a)
  OBVIOUS
<1>8. AnchorOK(a)
  BY <1>1, <1>2, <1>6, CountsAre
<1>9. /\ q \in JoinPlans /\ Grows(p, q)
      /\ \A site, reg : <<site, reg>> \in DOMAIN body.candidates
                        => Tally(p, site, reg) + Cardinality(Asks(a, site, reg)) <= Tally(q, site, reg)
  BY <1>2, <1>4, <1>5, <1>7, <1>8, WithAnchorIs
<1>10. q \in Plans /\ p \in Plans /\ Sound(q) /\ Range(q.inserts) \subseteq JoinNotes
  BY <1>4, <1>5, <1>9 DEF JoinPlans
<1>11. inserts' = q.inserts /\ ledger' = q.rows
  BY <1>1, <1>5, <1>6, <1>7 DEF Planned
<1>12. Plan' = q
  <2>1. q = [inserts |-> q.inserts, rows |-> q.rows]
    BY <1>10 DEF Plans
  <2>2. QED
    BY <1>11, <2>1 DEF Plan
<1>13. (Sound(Plan))'
  BY <1>1, <1>10, <1>12, SamePlans
<1>14. /\ Nth' <= 0 /\ ~(Nth' >= 1) /\ Nth' \notin 1 .. CallCount + 1 /\ ~(Nth' >= CallCount + 2)
       /\ Nth' # CallCount + 3 /\ Nth' <= CallCount + 3
  BY <1>2, <1>3
<1>15. CallCount' = CallCount /\ JoinNotes' = JoinNotes
  BY <1>1, CountsStay, SameBody
<1>16. Staged'
  BY <1>1, <1>4, <1>10, <1>11, <1>14, <1>15 DEF Staged
<1>17. Recorded'
  BY <1>1, <1>14, <1>15 DEF Recorded, NotesInv
<1>18. Tallied'
  <2>1. ASSUME NEW key \in DOMAIN body.candidates
        PROVE  Cardinality(AskedBefore(next + 1, key[1], key[2])) <= Tally(q, key[1], key[2])
    <3>1. key = <<key[1], key[2]>>
      BY <1>2 DEF BodyOK
    <3>2. Cardinality(AskedBefore(next, key[1], key[2])) <= Tally(p, key[1], key[2])
      BY <1>5 DEF NotesInv, Tallied
    <3>3. Tally(p, key[1], key[2]) + Cardinality(Asks(a, key[1], key[2])) <= Tally(q, key[1], key[2])
      BY <1>9, <3>1
    <3>4. /\ Cardinality(AskedBefore(next + 1, key[1], key[2]))
             <= Cardinality(AskedBefore(next, key[1], key[2])) + Cardinality(Asks(a, key[1], key[2]))
          /\ Cardinality(AskedBefore(next, key[1], key[2])) \in Nat /\ Cardinality(Asks(a, key[1], key[2])) \in Nat
      BY <1>1, <1>2, <1>6, AskedIs
    <3>5. Tally(p, key[1], key[2]) \in Nat /\ Tally(q, key[1], key[2]) \in Nat
      BY <1>10, TallyIs DEF NotesInv
    <3>6. Cardinality(AskedBefore(next + 1, key[1], key[2])) \in Nat
      <4>1. next + 1 \in Nat \ {0}
        BY <1>1
      <4>2. QED
        BY <1>2, <4>1, AskedIs
    <3>7. QED
      BY <3>2, <3>3, <3>4, <3>5, <3>6
  <2>2. QED
    BY <1>1, <1>12, <2>1, CountsStay, SamePlans DEF Tallied
<1>19. next' \in Nat \ {0} /\ (Nth <= CallCount + 3)' /\ (BodyOK(body))' /\ (IsFiniteSet(spans))'
  BY <1>1, <1>2, <1>14, <1>15, CountsStay DEF NotesInv
<1>20. QED
  BY <1>13, <1>16, <1>17, <1>18, <1>19 DEF NotesInv

\* What is planned is put into the text: no plan is left, and the same annotations stand.
LEMMA AppliedIs ==
  ASSUME NotesInv, body' = body, ledger' = ledger, spans' = spans \union Range(inserts), inserts' = <<>>
  PROVE  /\ (Sound(Plan))' /\ (IsFiniteSet(spans))'
         /\ \A site, reg : (Tally(Plan, site, reg))' = Tally(Plan, site, reg)
<1>1. /\ Plan \in Plans /\ spans \in SUBSET Notes /\ Lone(Standing(Plan)) /\ Roomy(Standing(Plan))
      /\ inserts \in Seq(Notes) /\ ledger \in [StreamKinds -> Seq(Drops)]
  BY DEF NotesInv, Sound, Plans, Plan
<1>2. IsFiniteSet(Range(inserts)) /\ Range(inserts) \subseteq Notes
  BY <1>1, FiniteList
<1>3. Notes' = Notes /\ Plans' = Plans /\ \A a, l : WidthOn(a, l)' = WidthOn(a, l)
  BY SameBody
<1>4. Plan' = [inserts |-> <<>>, rows |-> ledger] /\ Plan' \in Plans
  <2>1. Plan' = [inserts |-> <<>>, rows |-> ledger]
    BY DEF Plan
  <2>2. <<>> \in Seq(Notes)
    OBVIOUS
  <2>3. QED
    BY <1>1, <2>1, <2>2 DEF Plans
<1>5. Range(<<>>) = {}
  BY DEF Range
<1>6. Standing(Plan)' = Standing(Plan) /\ Plan'.inserts = <<>> /\ Plan'.rows = Plan.rows
  BY <1>4, <1>5 DEF Standing, Plan
<1>7. (Sound(Plan))'
  <2>1. Lone(Standing(Plan))'
    <3>1. \A a : Lone(a)' <=> Lone(a)
      BY DEF Lone
    <3>2. QED
      BY <1>1, <1>6 DEF Lone
  <2>2. Roomy(Standing(Plan))'
    BY <1>1, <1>3, <1>6 DEF Roomy
  <2>3. spans' \in SUBSET Notes
    BY <1>1, <1>2
  <2>4. QED
    BY <1>3, <1>4, <1>5, <1>6, <2>1, <2>2, <2>3 DEF Sound
<1>8. (IsFiniteSet(spans))'
  BY <1>2, FS_Union DEF NotesInv
<1>9. ASSUME NEW site, NEW reg PROVE (Tally(Plan, site, reg))' = Tally(Plan, site, reg)
  <2>1. (Told(Plan, site, reg))' = Told(Plan, site, reg)
    BY <1>6 DEF Told
  <2>2. (RowsAbout(Plan, site, reg))' = RowsAbout(Plan, site, reg)
    BY <1>6 DEF RowsAbout
  <2>3. QED
    BY <2>1, <2>2 DEF Tally
<1>10. QED
  BY <1>7, <1>8, <1>9

\* Once all merges are planned no more is asked.
LEMMA TalliedOn ==
  ASSUME NotesInv, body' = body, next' = next + 1, next > AnchorCount,
         \A key \in DOMAIN body.candidates : Tally(Plan, key[1], key[2]) <= (Tally(Plan, key[1], key[2]))',
         \A key \in DOMAIN body.candidates : (Tally(Plan, key[1], key[2]))' \in Nat
  PROVE  Tallied'
<1>1. BodyOK(body) /\ next \in Nat \ {0}
  BY DEF NotesInv
<1>2. ASSUME NEW key \in DOMAIN body.candidates
      PROVE  Cardinality(AskedBefore(next + 1, key[1], key[2])) <= (Tally(Plan, key[1], key[2]))'
  <2>1. /\ AskedBefore(next + 1, key[1], key[2]) = AskedBefore(next, key[1], key[2])
        /\ Cardinality(AskedBefore(next, key[1], key[2])) \in Nat
    BY <1>1, AskedIs
  <2>2. Cardinality(AskedBefore(next, key[1], key[2])) <= Tally(Plan, key[1], key[2])
    BY DEF NotesInv, Tallied
  <2>3. Tally(Plan, key[1], key[2]) \in Nat
    BY TallyIs DEF NotesInv, Sound
  <2>4. QED
    BY <2>1, <2>2, <2>3
<1>3. QED
  BY <1>2, CountsStay DEF Tallied

LEMMA ApplyJoinsStep ==
  ASSUME NotesInv, ApplyJoins
  PROVE  NotesInv'
<1>1. /\ body' = body /\ ledger' = ledger /\ audit' = audit /\ next' = next + 1
      /\ spans' = Range(inserts) /\ inserts' = <<>>
      /\ records' = [s \in StreamKinds |-> IF s = "call" THEN <<>> ELSE JoinRecords(s)]
      /\ next = AnchorCount + 1 /\ next \in Nat \ {0} /\ Nth = next - AnchorCount - 1
  BY DEF ApplyJoins, NotesInv, AnchorCount, Nth
<1>2. BodyOK(body) /\ AnchorCount \in Nat /\ CallCount \in Nat
  BY CountsAre DEF NotesInv
<1>3. Nth = 0 /\ Nth' = 1
  <2>1. Nth' = next' - AnchorCount' - 1
    BY DEF Nth, AnchorCount
  <2>2. QED
    BY <1>1, <1>2, <2>1, CountsStay
<1>4. spans = {} /\ Range(inserts) \subseteq JoinNotes
  BY <1>3 DEF NotesInv, Staged
<1>5. spans' = spans \union Range(inserts)
  BY <1>1, <1>4
<1>6. /\ (Sound(Plan))' /\ (IsFiniteSet(spans))'
      /\ \A site, reg : (Tally(Plan, site, reg))' = Tally(Plan, site, reg)
  BY <1>1, <1>5, AppliedIs
<1>7. CallCount' = CallCount /\ JoinNotes' = JoinNotes /\ CallNotes' = CallNotes /\ (BodyOK(body))'
  BY <1>1, <1>2, CountsStay, SameBody
<1>8. ~(Nth' <= 0) /\ Nth' >= 1 /\ ~(Nth' >= CallCount + 2) /\ Nth' # CallCount + 3 /\ Nth' <= CallCount + 3
  BY <1>2, <1>3
<1>9. Staged'
  <2>1. Range(inserts') = {}
    BY <1>1 DEF Range
  <2>2. QED
    BY <1>1, <1>4, <1>7, <1>8, <2>1 DEF Staged
<1>10. Recorded'
  <2>1. ASSUME NEW s \in {"join", "loop"} PROVE records'[s] = (Ascending(StandingOf(s)))'
    <3>1. s \in StreamKinds /\ s # "call"
      BY DEF StreamKinds
    <3>2. records'[s] = Ascending({t \in Range(inserts) : t.stream = s})
      BY <1>1, <3>1 DEF JoinRecords
    <3>3. (StandingOf(s))' = {t \in Range(inserts) : t.stream = s}
      BY <1>1 DEF StandingOf
    <3>4. (Ascending(StandingOf(s)))' = Ascending((StandingOf(s))')
      BY DEF Ascending, Before
    <3>5. QED
      BY <3>2, <3>3, <3>4
  <2>2. records' = [s \in StreamKinds |-> records'[s]]
    BY <1>1
  <2>3. QED
    BY <1>7, <1>8, <2>1, <2>2 DEF Recorded
<1>11. Tallied'
  <2>1. \A site, reg : Tally(Plan, site, reg) \in Nat
    BY TallyIs DEF NotesInv, Sound
  <2>2. next > AnchorCount
    BY <1>1, <1>2
  <2>3. \A key \in DOMAIN body.candidates : /\ Tally(Plan, key[1], key[2]) <= (Tally(Plan, key[1], key[2]))'
                                            /\ (Tally(Plan, key[1], key[2]))' \in Nat
    BY <1>6, <2>1
  <2>4. QED
    BY <1>1, <2>2, <2>3, TalliedOn
<1>12. next' \in Nat \ {0} /\ (Nth <= CallCount + 3)'
  BY <1>1, <1>7, <1>8
<1>13. QED
  BY <1>6, <1>7, <1>9, <1>10, <1>11, <1>12 DEF NotesInv

LEMMA CallStep ==
  ASSUME NotesInv, CallAnchor
  PROVE  NotesInv'
<1>1. /\ body' = body /\ spans' = spans /\ records' = records /\ audit' = audit /\ next' = next + 1
      /\ Planned(WithCall(Plan, body.calls[Nth])) /\ Nth \in DOMAIN body.calls
      /\ next \in Nat \ {0} /\ Nth = next - AnchorCount - 1
  BY DEF CallAnchor, NotesInv, AnchorCount, Nth
<1>2. BodyOK(body) /\ Sound(Plan) /\ AnchorCount \in Nat /\ CallCount \in Nat /\ Nth \in 1 .. CallCount
  BY <1>1, CountsAre DEF NotesInv
<1>3. Nth' = Nth + 1
  <2>1. Nth' = next' - AnchorCount' - 1
    BY DEF Nth, AnchorCount
  <2>2. QED
    BY <1>1, <1>2, <2>1, CountsStay
<1>4. spans \subseteq JoinNotes /\ Range(inserts) \subseteq CallNotes
  <2>1. Nth \in 1 .. CallCount + 1
    BY <1>2
  <2>2. QED
    BY <2>1 DEF NotesInv, Staged
<1>5. PICK p : p = Plan
  OBVIOUS
<1>6. PICK c : c = body.calls[Nth]
  OBVIOUS
<1>7. PICK q : q = WithCall(p, c)
  OBVIOUS
<1>8. c \in Range(body.calls)
  BY <1>2, <1>6, CountsAre
<1>9. Sound(q) /\ Grows(p, q) /\ Range(q.inserts) \subseteq Range(p.inserts) \union CallNotes
  BY <1>2, <1>5, <1>7, <1>8, WithCallIs
<1>10. q \in Plans /\ p \in Plans /\ Range(q.inserts) \subseteq CallNotes
  BY <1>2, <1>4, <1>5, <1>9 DEF Sound, Plan
<1>11. inserts' = q.inserts /\ ledger' = q.rows
  BY <1>1, <1>5, <1>6, <1>7 DEF Planned
<1>12. Plan' = q
  <2>1. q = [inserts |-> q.inserts, rows |-> q.rows]
    BY <1>10 DEF Plans
  <2>2. QED
    BY <1>11, <2>1 DEF Plan
<1>13. (Sound(Plan))'
  BY <1>1, <1>9, <1>12, SamePlans
<1>14. /\ ~(Nth' <= 0) /\ Nth' >= 1 /\ ~(Nth' >= CallCount + 2) /\ Nth' # CallCount + 3 /\ Nth' <= CallCount + 3
       /\ Nth >= 1
  BY <1>2, <1>3
<1>15. CallCount' = CallCount /\ JoinNotes' = JoinNotes /\ CallNotes' = CallNotes /\ (BodyOK(body))'
  BY <1>1, <1>2, CountsStay, SameBody
<1>16. Staged'
  BY <1>1, <1>4, <1>10, <1>11, <1>14, <1>15 DEF Staged
<1>17. Recorded'
  <2>1. \A s : (Ascending(StandingOf(s)))' = Ascending(StandingOf(s))
    BY <1>1 DEF Ascending, Before, StandingOf
  <2>2. QED
    BY <1>1, <1>14, <1>15, <2>1 DEF Recorded, NotesInv
<1>18. Tallied'
  <2>1. next > AnchorCount
    BY <1>1, <1>2
  <2>2. ASSUME NEW key \in DOMAIN body.candidates
        PROVE  Tally(Plan, key[1], key[2]) <= (Tally(Plan, key[1], key[2]))' /\ (Tally(Plan, key[1], key[2]))' \in Nat
    <3>1. Tally(p, key[1], key[2]) <= Tally(q, key[1], key[2])
      BY <1>9, <1>10, TallyGrows DEF NotesInv
    <3>2. Tally(q, key[1], key[2]) \in Nat
      BY <1>10, TallyIs DEF NotesInv
    <3>3. (Tally(Plan, key[1], key[2]))' = Tally(q, key[1], key[2])
      BY <1>1, <1>12, SamePlans
    <3>4. QED
      BY <1>5, <3>1, <3>2, <3>3
  <2>3. QED
    BY <1>1, <2>1, <2>2, TalliedOn
<1>19. next' \in Nat \ {0} /\ (Nth <= CallCount + 3)' /\ (IsFiniteSet(spans))'
  BY <1>1, <1>14, <1>15 DEF NotesInv
<1>20. QED
  BY <1>13, <1>15, <1>16, <1>17, <1>18, <1>19 DEF NotesInv

LEMMA ApplyCallsStep ==
  ASSUME NotesInv, ApplyCalls
  PROVE  NotesInv'
<1>1. /\ body' = body /\ ledger' = ledger /\ audit' = audit /\ next' = next + 1
      /\ spans' = spans \union Range(inserts) /\ inserts' = <<>>
      /\ records' = [records EXCEPT !["call"] = CallRecords]
      /\ Nth = CallCount + 1 /\ next \in Nat \ {0} /\ Nth = next - AnchorCount - 1
  BY DEF ApplyCalls, NotesInv, AnchorCount, CallCount, Nth
<1>2. BodyOK(body) /\ AnchorCount \in Nat /\ CallCount \in Nat
  BY CountsAre DEF NotesInv
<1>3. Nth' = CallCount + 2
  <2>1. Nth' = next' - AnchorCount' - 1
    BY DEF Nth, AnchorCount
  <2>2. QED
    BY <1>1, <1>2, <2>1, CountsStay
<1>4. spans \subseteq JoinNotes /\ Range(inserts) \subseteq CallNotes
  <2>1. Nth \in 1 .. CallCount + 1
    BY <1>1, <1>2
  <2>2. QED
    BY <2>1 DEF NotesInv, Staged
<1>5. /\ (Sound(Plan))' /\ (IsFiniteSet(spans))'
      /\ \A site, reg : (Tally(Plan, site, reg))' = Tally(Plan, site, reg)
  BY <1>1, AppliedIs
<1>6. CallCount' = CallCount /\ (BodyOK(body))'
  BY <1>1, <1>2, CountsStay
<1>7. ~(Nth' <= 0) /\ Nth' >= 1 /\ Nth' \notin 1 .. CallCount + 1 /\ Nth' # CallCount + 3 /\ Nth' <= CallCount + 3 /\ Nth >= 1
  BY <1>1, <1>2, <1>3
<1>8. Staged'
  BY <1>1, <1>6, <1>7 DEF Staged
<1>9. Recorded'
  <2>1. /\ records = [s \in StreamKinds |-> records[s]]
        /\ records["join"] = Ascending(StandingOf("join")) /\ records["loop"] = Ascending(StandingOf("loop"))
    BY <1>7 DEF NotesInv, Recorded
  <2>2. CallRecords = Ascending(Range(inserts))
    <3> DEFINE S == Range(inserts)
    <3>1. IsFiniteSet(S) /\ S \subseteq Notes
      BY FiniteList DEF NotesInv, Sound, Plans, Plan
    <3>2. Lone(S)
      BY DEF NotesInv, Sound, Standing, Plan, Lone
    <3>3. Placeable(S)
      <4>1. ASSUME NEW s \in S PROVE s.line \in Nat \ {0} /\ s.at \in Nat \ {0}
        <5>1. s.line \in DOMAIN body.finished /\ s.at \in 1 .. ReadsAt(s.line) /\ s.at \in Nat
          BY <1>2, <3>1, NoteTells
        <5>2. s.line \in Nat \ {0}
          BY <1>2, <5>1, BodyIs
        <5>3. ReadsAt(s.line) \in Nat
          BY <1>2, <5>1, LineReads
        <5>4. QED
          BY <5>1, <5>2, <5>3
      <4>2. QED
        BY <4>1 DEF Placeable
    <3> HIDE DEF S
    <3>4. Orderly(Ascending(S), S) /\ Cardinality(S) \in Nat
      BY <3>1, <3>2, <3>3, AscendingIs, FS_CardinalityType
    <3>5. Ascending(S) \in Seq(S)
      BY <3>4 DEF Orderly
    <3>6. Reverse(Reverse(Ascending(S))) = Ascending(S)
      BY <3>5, BackAndForth
    <3>7. QED
      BY <3>6 DEF CallRecords, S
  <2>3. \A s \in spans : s.stream # "call"
    BY <1>2, <1>4, JoinNoteIs
  <2>4. \A s \in Range(inserts) : s.stream = "call"
    BY <1>2, <1>4, CallNoteIs
  <2>5. \A s : (StandingOf(s))' = IF s = "call" THEN Range(inserts) ELSE StandingOf(s)
    <3> TAKE s
    <3>1. (StandingOf(s))' = {t \in spans \union Range(inserts) : t.stream = s}
      BY <1>1 DEF StandingOf
    <3>2. CASE s = "call"
      BY <2>3, <2>4, <3>1, <3>2
    <3>3. CASE s # "call"
      BY <2>3, <2>4, <3>1, <3>3 DEF StandingOf
    <3>4. QED
      BY <3>2, <3>3
  <2>6. \A s : (Ascending(StandingOf(s)))' = Ascending((StandingOf(s))')
    BY DEF Ascending, Before
  <2>7. "call" \in StreamKinds /\ "join" \in StreamKinds /\ "loop" \in StreamKinds
    BY DEF StreamKinds
  <2>8. /\ records' = [s \in StreamKinds |-> records'[s]]
        /\ records'["call"] = CallRecords /\ records'["join"] = records["join"] /\ records'["loop"] = records["loop"]
    BY <1>1, <2>1, <2>7
  <2>9. /\ records'["call"] = (Ascending(StandingOf("call")))'
        /\ records'["join"] = (Ascending(StandingOf("join")))'
        /\ records'["loop"] = (Ascending(StandingOf("loop")))'
    BY <2>1, <2>2, <2>5, <2>6, <2>8
  <2>10. QED
    BY <1>6, <1>7, <2>8, <2>9 DEF Recorded
<1>10. Tallied'
  <2>1. \A site, reg : Tally(Plan, site, reg) \in Nat
    BY TallyIs DEF NotesInv, Sound
  <2>2. next > AnchorCount
    BY <1>1, <1>2
  <2>3. \A key \in DOMAIN body.candidates : /\ Tally(Plan, key[1], key[2]) <= (Tally(Plan, key[1], key[2]))'
                                            /\ (Tally(Plan, key[1], key[2]))' \in Nat
    BY <1>5, <2>1
  <2>4. QED
    BY <1>1, <2>2, <2>3, TalliedOn
<1>11. next' \in Nat \ {0} /\ (Nth <= CallCount + 3)'
  BY <1>1, <1>6, <1>7
<1>12. QED
  BY <1>5, <1>6, <1>8, <1>9, <1>10, <1>11 DEF NotesInv

LEMMA WriteStep ==
  ASSUME NotesInv, WriteAudit
  PROVE  NotesInv'
<1>1. /\ body' = body /\ ledger' = ledger /\ spans' = spans /\ inserts' = inserts /\ records' = records
      /\ next' = next + 1 /\ audit' = Written("call") \o Written("join") \o Written("loop")
      /\ Nth = CallCount + 2 /\ next \in Nat \ {0} /\ Nth = next - AnchorCount - 1
  BY DEF WriteAudit, NotesInv, AnchorCount, CallCount, Nth
<1>2. BodyOK(body) /\ AnchorCount \in Nat /\ CallCount \in Nat
  BY CountsAre DEF NotesInv
<1>3. Nth' = CallCount + 3
  <2>1. Nth' = next' - AnchorCount' - 1
    BY DEF Nth, AnchorCount
  <2>2. QED
    BY <1>1, <1>2, <2>1, CountsStay
<1>4. CallCount' = CallCount /\ (BodyOK(body))' /\ Plan' = Plan
  BY <1>1, <1>2, CountsStay DEF Plan
<1>5. ~(Nth' <= 0) /\ Nth' >= 1 /\ Nth' \notin 1 .. CallCount + 1 /\ Nth' <= CallCount + 3 /\ Nth >= 1 /\ Nth >= CallCount + 2
  BY <1>1, <1>2, <1>3
<1>6. (Sound(Plan))' /\ (IsFiniteSet(spans))'
  BY <1>1, <1>4, SamePlans DEF NotesInv
<1>7. Staged'
  BY <1>1, <1>4, <1>5 DEF Staged, NotesInv
<1>8. Recorded'
  <2>1. \A s : (Ascending(StandingOf(s)))' = Ascending(StandingOf(s))
    BY <1>1 DEF Ascending, Before, StandingOf
  <2>2. \A stream : (Written(stream))' = Written(stream)
    BY <1>1, SameAudit
  <2>3. QED
    BY <1>1, <1>4, <1>5, <2>1, <2>2 DEF Recorded, NotesInv
<1>9. Tallied'
  <2>1. \A site, reg : Tally(Plan, site, reg) \in Nat
    BY TallyIs DEF NotesInv, Sound
  <2>2. next > AnchorCount
    BY <1>1, <1>2
  <2>3. \A site, reg : (Tally(Plan, site, reg))' = Tally(Plan, site, reg)
    BY <1>1, <1>4, SamePlans
  <2>4. \A key \in DOMAIN body.candidates : /\ Tally(Plan, key[1], key[2]) <= (Tally(Plan, key[1], key[2]))'
                                            /\ (Tally(Plan, key[1], key[2]))' \in Nat
    BY <2>1, <2>3
  <2>5. QED
    BY <1>1, <2>2, <2>4, TalliedOn
<1>10. next' \in Nat \ {0} /\ (Nth <= CallCount + 3)'
  BY <1>1, <1>4, <1>5
<1>11. QED
  BY <1>4, <1>6, <1>7, <1>8, <1>9, <1>10 DEF NotesInv

RunNotesInv == NotesInv /\ (phase # "notes" => NoNotes)

LEMMA NotesStep ==
  ASSUME FileInv, RunNotesInv, [RunNext]_runVars
  PROVE  RunNotesInv'
<1>1. NotesInv /\ (phase # "notes" => NoNotes)
  BY DEF RunNotesInv
<1>2. ASSUME UNCHANGED notesVars, phase = "notes" => phase' = "notes" PROVE RunNotesInv'
  <2>1. NotesInv'
    BY <1>1, <1>2, SameNotes
  <2>2. NoNotes' <=> NoNotes
    BY <1>2 DEF NoNotes, notesVars
  <2>3. QED
    BY <1>1, <1>2, <2>1, <2>2 DEF RunNotesInv
<1>3. CASE Read
  <2>1. phase # "notes" /\ UNCHANGED notesVars
    BY <1>3 DEF Read, ReadNext, Open, Carve, Answered, Validate, Select, Skip, StartFunction, Decode,
                FinishFunction, Done
  <2>2. QED
    BY <1>2, <2>1
<1>4. CASE Name \/ NoMap \/ Merge
  <2>1. UNCHANGED notesVars /\ (phase = "notes" => phase' = "notes")
    BY <1>4 DEF Name, NoMap, Merge, readVars
  <2>2. QED
    BY <1>2, <2>1
<1>5. CASE Emit
  <2>1. /\ phase = "name" /\ phase' = "notes" /\ body' \in Of.bodies
        /\ UNCHANGED <<next, inserts, ledger, spans, records, audit>>
    BY <1>5 DEF Emit
  <2>2. NoNotes
    BY <1>1, <2>1
  <2>3. (BodyOK(body))'
    <3>1. input \in Inputs
      BY DEF FileInv
    <3>2. QED
      BY <2>1, <3>1, BodiesAssumption DEF Of
  <2>4. NoNotes'
    BY <2>1, <2>2 DEF NoNotes
  <2>5. (BodyOK(body) /\ NoNotes => NotesInv)'
    BY FreshIs, PTL
  <2>6. QED
    BY <2>1, <2>3, <2>4, <2>5 DEF RunNotesInv
<1>6. CASE Annotate
  <2>1. phase = "notes" /\ phase' = "notes" /\ NotesNext
    BY <1>6 DEF Annotate, readVars
  <2>2. NotesInv'
    BY <1>1, <2>1, JoinStep, ApplyJoinsStep, CallStep, ApplyCallsStep, WriteStep DEF NotesNext
  <2>3. QED
    BY <2>1, <2>2 DEF RunNotesInv
<1>7. CASE UNCHANGED runVars
  <2>1. UNCHANGED notesVars /\ phase' = phase
    BY <1>7 DEF runVars, readVars
  <2>2. QED
    BY <1>2, <2>1
<1>8. QED
  BY <1>3, <1>4, <1>5, <1>6, <1>7 DEF RunNext

LEMMA NotesStart ==
  ASSUME RunInit
  PROVE  RunNotesInv
<1>1. body = NoBody /\ NoNotes /\ phase # "notes"
  BY DEF RunInit, NotesInit, ReadInit, NoNotes
<1>2. BodyOK(NoBody)
  <2>1. List(<<>>) /\ Range(<<>>) = {}
    BY DEF List, Range
  <2>2. QED
    BY <2>1 DEF BodyOK, NoBody
<1>3. QED
  BY <1>1, <1>2, FreshIs DEF RunNotesInv

LEMMA NotesNow ==
  ASSUME NotesInv
  PROVE  NotesStandAtTheirReads
<1>1. BodyOK(body) /\ spans \in SUBSET Notes
  BY DEF NotesInv, Sound
<1>2. ASSUME NEW s \in spans, s.stream = "call"
      PROVE  s.anchor \in DOMAIN body.rendered /\ s.line = Aligned[s.anchor] /\ s.line # 0
  <2>1. s \in CallNotes
    BY <1>1, <1>2, NoteTells
  <2>2. QED
    BY <1>1, <2>1, CallNoteIs
<1>3. ASSUME NEW s \in spans, s.stream = "call"
      PROVE  body.rendered[s.anchor] = body.finished[s.line].code
  BY <1>1, <1>2, <1>3, PairsAre DEF Like
<1>4. ASSUME NEW s \in spans, s.stream = "call", NEW t \in spans, t.stream = "call", s.anchor < t.anchor
      PROVE  s.line < t.line
  BY <1>1, <1>2, <1>4, PairsAre
<1>5. ASSUME ChangesAreUnlike, NEW s \in spans, s.stream = "call" PROVE Survived(s.anchor, s.line)
  BY <1>1, <1>2, <1>5, AlignedIs
<1>6. ChangesAreUnlike /\ Cardinality(Gone) + Cardinality(Fresh) < Window =>
        \A l \in DOMAIN body.rendered \ Gone : Aligned[l] # 0
  BY <1>1, AlignedIs
<1>7. QED
  BY <1>3, <1>4, <1>5, <1>6 DEF NotesStandAtTheirReads

\* Whatever was rewritten, notes of values before a call stand on lines of the code their reads
\* were rendered in, and none crosses another (emit.rs:948).  Where no changed line is like
\* another, each stands on the line its read became, and no line that is left loses its notes
\* while the changes fit in the window (align_rendered_lines, emit.rs:956).
THEOREM NotesHold == RunSpec => []NotesStandAtTheirReads
<1>1. RunInit => FileInv /\ RunNotesInv
  BY FileStart, NotesStart DEF RunInit
<1>2. FileInv /\ RunNotesInv /\ [RunNext]_runVars => FileInv' /\ RunNotesInv'
  BY FileStep, NotesStep
<1>3. RunNotesInv => NotesStandAtTheirReads
  BY NotesNow DEF RunNotesInv
<1>4. QED
  BY <1>1, <1>2, <1>3, PTL DEF RunSpec

\* The audit is the text once the function is done: every row is where its annotation stands.
LEMMA SettledNow ==
  ASSUME NotesInv, NotesDone
  PROVE  /\ Settling /\ inserts = <<>> /\ next \in Nat /\ next > AnchorCount
         /\ audit = Written("call") \o Written("join") \o Written("loop")
         /\ Plan \in Plans /\ Standing(Plan) = spans /\ Roomy(spans)
<1>1. BodyOK(body) /\ AnchorCount \in Nat /\ CallCount \in Nat /\ next \in Nat \ {0}
  BY CountsAre DEF NotesInv
<1>2. Nth = CallCount + 3 /\ Nth = next - AnchorCount - 1
  BY DEF NotesDone, CallCount, Nth, AnchorCount
<1>3. Nth >= 1 /\ Nth >= CallCount + 2 /\ next > AnchorCount
  BY <1>1, <1>2
<1>4. inserts = <<>> /\ Range(inserts) = {}
  BY <1>3 DEF NotesInv, Staged, Range
<1>5. /\ audit = Written("call") \o Written("join") \o Written("loop")
      /\ \A stream \in StreamKinds : records[stream] = Ascending(StandingOf(stream))
  BY <1>2, <1>3 DEF NotesInv, Recorded, StreamKinds
<1>6. Plan \in Plans /\ spans \in SUBSET Notes /\ Lone(Standing(Plan)) /\ Roomy(Standing(Plan))
  BY DEF NotesInv, Sound
<1>7. Standing(Plan) = spans
  BY <1>4 DEF Standing, Plan
<1>8. \A stream \in StreamKinds : ledger[stream] \in Seq(Drops)
  BY <1>6 DEF Plans, Plan
<1>9. Settling
  BY <1>1, <1>5, <1>6, <1>7, <1>8 DEF Settling, NotesInv
<1>10. QED
  BY <1>1, <1>3, <1>4, <1>5, <1>6, <1>7, <1>9

LEMMA AuditNow ==
  ASSUME NotesInv, NotesDone
  PROVE  /\ Reports(audit, spans)
         /\ Range(audit) = Range(Written("call")) \union Range(Written("join")) \union Range(Written("loop"))
<1> DEFINE C == StandingOf("call")
           J == StandingOf("join")
           L == StandingOf("loop")
           c == Written("call")
           j == Written("join")
           l == Written("loop")
<1>1. Settling /\ audit = (c \o j) \o l
  BY SettledNow
<1>2. "call" \in StreamKinds /\ "join" \in StreamKinds /\ "loop" \in StreamKinds
  BY DEF StreamKinds
<1>3. IsFiniteSet(C) /\ IsFiniteSet(J) /\ IsFiniteSet(L) /\ IsFiniteSet(C \union J)
  BY <1>1, <1>2, SpansAre, FS_Union
<1>4. C \cap J = {} /\ (C \union J) \cap L = {}
  BY DEF StandingOf
<1>5. (C \union J) \union L = spans
  <2>1. \A s \in spans : s.stream \in StreamKinds
    BY <1>1, NoteTells DEF Settling
  <2>2. QED
    BY <2>1 DEF StandingOf, StreamKinds
<1>6. Reports(c, C) /\ Reports(j, J) /\ Reports(l, L)
  BY <1>1, <1>2, WrittenIs
<1> HIDE DEF C, J, L, c, j, l
<1>7. Reports(c \o j, C \union J) /\ Range(c \o j) = Range(c) \union Range(j)
  BY <1>3, <1>4, <1>6, ReportsBoth
<1>8. /\ Reports((c \o j) \o l, (C \union J) \union L)
      /\ Range((c \o j) \o l) = Range(c \o j) \union Range(l)
  BY <1>3, <1>4, <1>6, <1>7, ReportsBoth
<1>9. QED
  BY <1>1, <1>5, <1>7, <1>8 DEF c, j, l

\* What stands is told row by row.
LEMMA StandsNow ==
  ASSUME NotesInv
  PROVE  AuditIsWhatStands
<1> SUFFICES ASSUME NotesDone PROVE AuditIsWhatStands
  BY DEF AuditIsWhatStands
<1>1. /\ Settling /\ Standing(Plan) = spans /\ Roomy(spans)
      /\ audit = Written("call") \o Written("join") \o Written("loop")
  BY SettledNow
<1>2. Reports(audit, spans)
  BY AuditNow
<1> DEFINE Short(r) == [stream |-> r.stream, line |-> r.line, at |-> r.at, site |-> r.site, reg |-> r.reg, values |-> r.values]
           Full(s) == [stream |-> s.stream, line |-> s.line, at |-> s.at, site |-> s.site, reg |-> s.reg, values |-> s.text.values]
           rows == {row \in Range(audit) : row.kind = "annotation"}
<1>3. {Short(r) : r \in rows} = {Full(s) : s \in spans}
  <2>1. rows = {RowOf(s) : s \in spans}
    BY <1>2 DEF Reports
  <2>2. \A s : Short(RowOf(s)) = Full(s)
    BY DEF RowOf
  <2> HIDE DEF Short, Full, rows
  <2>3. QED
    BY <2>1, <2>2
<1>4. Cardinality({k \in DOMAIN audit : audit[k].kind = "annotation"}) = Cardinality(spans)
  <2>1. DOMAIN audit = 1 .. Len(audit)
    BY <1>2 DEF Reports
  <2>2. {k \in DOMAIN audit : audit[k].kind = "annotation"} = Annotated(audit)
    BY <2>1 DEF Annotated
  <2>3. QED
    BY <1>2, <2>2 DEF Reports
<1>5. \A s, t \in spans : Place(s) = Place(t) => s = t
  BY <1>1 DEF Settling, Lone
<1>6. \A s \in spans : LineWidth(s.line) <= MaxLine
  BY <1>1 DEF Roomy, LineWidth
<1>7. QED
  BY <1>3, <1>4, <1>5, <1>6 DEF AuditIsWhatStands

\* Every read that was asked for is answered, and what was dropped is told of.
LEMMA NothingLostNow ==
  ASSUME NotesInv
  PROVE  NothingIsLostSilently
<1> SUFFICES ASSUME NotesDone PROVE NothingIsLostSilently
  BY DEF NothingIsLostSilently
<1>1. /\ Settling /\ Plan \in Plans /\ Standing(Plan) = spans /\ next \in Nat /\ next > AnchorCount
  BY SettledNow
<1>2. BodyOK(body) /\ IsFiniteSet(spans) /\ Tallied
  BY DEF NotesInv
<1> DEFINE Asked(site, reg) ==
             {p \in (DOMAIN body.anchors) \X (DOMAIN body.rendered) :
                LET a == body.anchors[p[1]]
                IN  a.site = site /\ reg \in a.regs /\ p[2] \in a.first..a.last
                    /\ reg \in Range(ReadsOf[body.rendered[p[2]]])}
           told(site, reg) == {s \in spans : s.stream # "call" /\ s.site = site /\ s.reg = reg}
           rows(site, reg) ==
             UNION {{<<stream, k>> : k \in {n \in DOMAIN ledger[stream] :
                       ledger[stream][n].site = site /\ ledger[stream][n].reg = reg}} : stream \in {"join", "loop"}}
<1>3. ASSUME NEW key \in DOMAIN body.candidates
      PROVE  Cardinality(told(key[1], key[2])) + Cardinality(rows(key[1], key[2])) >= Cardinality(Asked(key[1], key[2]))
  <2>1. Asked(key[1], key[2]) = AskedBefore(next, key[1], key[2])
    <3>1. \A p \in (DOMAIN body.anchors) \X (DOMAIN body.rendered) : p[1] < next /\ p[2] \in DOMAIN body.rendered
      BY <1>1, <1>2, CountsAre
    <3>2. QED
      BY <3>1 DEF AskedBefore, Asks
  <2>2. told(key[1], key[2]) = Told(Plan, key[1], key[2]) /\ rows(key[1], key[2]) = RowsAbout(Plan, key[1], key[2])
    BY <1>1 DEF Told, RowsAbout, Plan
  <2>3. Cardinality(AskedBefore(next, key[1], key[2]))
        <= Cardinality(Told(Plan, key[1], key[2])) + Cardinality(RowsAbout(Plan, key[1], key[2]))
    BY <1>2 DEF Tallied, Tally
  <2>4. /\ Cardinality(AskedBefore(next, key[1], key[2])) \in Nat
        /\ Cardinality(Told(Plan, key[1], key[2])) \in Nat /\ Cardinality(RowsAbout(Plan, key[1], key[2])) \in Nat
    <3>1. next \in Nat \ {0}
      BY DEF NotesInv
    <3>2. QED
      BY <1>1, <1>2, <3>1, AskedIs, TallyIs
  <2> HIDE DEF Asked, told, rows
  <2>5. QED
    BY <2>1, <2>2, <2>3, <2>4
<1>4. ASSUME NEW stream \in StreamKinds, ~Silent(stream)
      PROVE  /\ Range(ledger[stream]) \subseteq Range(audit)
             /\ \A row \in Range(audit) :
                  row.stream = stream /\ row.kind = "summary" => row.omitted = Cardinality(Omissions(stream))
  <2>1. Range(audit) = UNION {Range(Written(s)) : s \in StreamKinds}
    BY AuditNow DEF StreamKinds
  <2>2. Range(ledger[stream]) \subseteq Range(Written(stream))
    BY <1>1, <1>4, WrittenIs
  <2>3. ASSUME NEW row \in Range(audit), row.stream = stream, row.kind = "summary"
        PROVE  row.omitted = Cardinality(Omissions(stream))
    <3>1. PICK s \in StreamKinds : row \in Range(Written(s))
      BY <2>1
    <3>2. row.stream = s /\ row.omitted = Cardinality(Omissions(s))
      BY <1>1, <2>3, <3>1, WrittenIs
    <3>3. QED
      BY <2>3, <3>2
  <2>4. QED
    BY <2>1, <2>2, <2>3
<1>5. QED
  BY <1>3, <1>4 DEF NothingIsLostSilently

\* In every run, the audit of a function that is done is its text: one row for each annotation that
\* stands, at its place, and every read of a merged register is annotated or its drop is told of
\* (emit.rs write_function_provenance over structured.rs append_join_annotations).
THEOREM AuditHolds == RunSpec => []AuditIsTheText
<1>1. RunInit => FileInv /\ RunNotesInv
  BY FileStart, NotesStart DEF RunInit
<1>2. FileInv /\ RunNotesInv /\ [RunNext]_runVars => FileInv' /\ RunNotesInv'
  BY FileStep, NotesStep
<1>3. RunNotesInv => AuditIsTheText
  BY StandsNow, NothingLostNow DEF RunNotesInv, AuditIsTheText
<1>4. QED
  BY <1>1, <1>2, <1>3, PTL DEF RunSpec
=============================================================================
