------------------------------ MODULE Regions ------------------------------
(***************************************************************************)
(* The facts structuring needs about a function's block graph: what the     *)
(* entry reaches, which block dominates which, where a conditional's arms   *)
(* meet again, the natural loops and where a break out of one lands         *)
(* (decompiler, control_flow/regions.rs).                                   *)
(*                                                                         *)
(* A function ir maps every block id, from the entry 0, to the places its   *)
(* terminator leads to: <<>> leaves the function, <<b>> goes to b, and      *)
(* <<t, f>> branches, t being None when the target is no block of the       *)
(* function.  BasicBlock::succs is what is left without None.               *)
(***************************************************************************)
EXTENDS Integers, SequencesExt

CONSTANT Inputs   \* the functions: records whose ends is the ir of one

None == -1     \* Option::None of a block id

\* Blocks are numbered through; only a branch's taken target is outside.
ASSUME InputsAssumption ==
  \A f \in Inputs :
    /\ \E last \in DOMAIN f.ends : last \in Nat /\ DOMAIN f.ends = 0 .. last
    /\ \A b \in DOMAIN f.ends :
         /\ f.ends[b] \in Seq(DOMAIN f.ends \union {None})
         /\ Len(f.ends[b]) <= 2
         /\ IsInjective(f.ends[b])
         /\ None \in Range(f.ends[b]) => Len(f.ends[b]) = 2 /\ f.ends[b][1] = None

VARIABLES
  ir,      \* where the terminator of each block leads
  stage,   \* "lifted", then "built" or "dfs", and what the emitters go on to
  regions  \* Option<Regions>, <<>> for None

Blocks(graph) == DOMAIN graph

SuccList(graph, b) ==
  IF graph[b] # <<>> /\ graph[b][1] = None THEN Tail(graph[b]) ELSE graph[b]

\* Every block of from and what the relation step leads to from there: the
\* worklist loop that each pass of this code writes out again.  It visits a node
\* once, so no more rounds than nodes can add to it.
Closure(step, from) ==
  LET round[n \in Nat] ==
        IF n = 0 THEN from
        ELSE LET before == round[n - 1] IN before \union UNION {step[b] : b \in before}
  IN  round[Cardinality(DOMAIN step)]

\* step, never entering a block of avoided.
Avoiding(step, avoided) == [b \in DOMAIN step |-> step[b] \ avoided]

SuccsOf(graph) == [b \in Blocks(graph) |-> Range(SuccList(graph, b))]

Reachable(graph) == Closure(SuccsOf(graph), {0})

Inverted(step) == [b \in DOMAIN step |-> {p \in DOMAIN step : b \in step[p]}]

(***************************************************************************)
(* The two dominance fixpoints, iterated down from everything: a block is   *)
(* dominated by itself and by what dominates all it is entered from.  One   *)
(* round narrows every set; as many as there are blocks leave no change.    *)
(***************************************************************************)
Narrower(sets, from, fixed) ==
  [b \in DOMAIN sets |->
     IF b \in fixed THEN sets[b]
     ELSE {b} \union {d \in sets[b] : \A p \in from[b] : d \in sets[p]}]

Narrow(sets, from, fixed) ==
  LET round[n \in Nat] == IF n = 0 THEN sets ELSE Narrower(round[n - 1], from, fixed)
  IN  round[Cardinality(DOMAIN sets)]

Dominators(reachable, preds) ==
  Narrow([b \in reachable |-> IF b = 0 THEN {0} ELSE reachable], preds, {0})

PostDominators(reachable, succs) ==
  LET exits == {b \in reachable : succs[b] = {}}
  IN  Narrow([b \in reachable |-> IF b \in exits THEN {b} ELSE reachable], succs, exits)

\* The strict post-dominator that most blocks post-dominate in turn, the lowest
\* id among equals.
FollowOf(pdom, b) ==
  LET strict  == pdom[b] \ {b}
      nearest == {p \in strict : \A q \in strict : Cardinality(pdom[q]) <= Cardinality(pdom[p])}
  IN  IF strict = {} THEN None ELSE Min(nearest)

(***************************************************************************)
(* is_irreducible: a depth-first search in successor order, whose stack     *)
(* holds a block and the successor to try next.  An edge back to the stack  *)
(* is retreating, and must end at a dominator: else the search has found    *)
(* what it looks for and stops.                                             *)
(***************************************************************************)
OnStack(stack, b) == \E k \in DOMAIN stack : stack[k][1] = b

\* Mutant: an edge to any block seen before counts as retreating.
TurnFromSeen(graph, dom, search) ==
  LET u     == Last(search.stack)[1]
      i     == Last(search.stack)[2]
      list  == SuccList(graph, u)
      below == Front(search.stack)
      here  == Append(below, <<u, i + 1>>)
  IN  IF search.stack = <<>> \/ search.found THEN search
      ELSE IF i > Len(list)           THEN [search EXCEPT !.stack = below]
      ELSE IF list[i] \in search.seen THEN [search EXCEPT !.stack = here,
                                                          !.found = list[i] \notin dom[u]]
      ELSE [search EXCEPT !.stack = Append(here, <<list[i], 1>>),
                          !.seen  = @ \union {list[i]}]

\* One turn of the loop.
Turn(graph, dom, search) ==
  LET u     == Last(search.stack)[1]
      i     == Last(search.stack)[2]
      list  == SuccList(graph, u)
      below == Front(search.stack)
      here  == Append(below, <<u, i + 1>>)
  IN  IF search.stack = <<>> \/ search.found THEN search
      ELSE IF i > Len(list)           THEN [search EXCEPT !.stack = below]
      ELSE IF OnStack(here, list[i])  THEN [search EXCEPT !.stack = here,
                                                          !.found = list[i] \notin dom[u]]
      ELSE IF list[i] \in search.seen THEN [search EXCEPT !.stack = here]
      ELSE [search EXCEPT !.stack = Append(here, <<list[i], 1>>),
                          !.seen  = @ \union {list[i]}]

\* A block takes a turn for each of its one or two successors and one to leave.
Irreducible(graph, dom) ==
  LET turn[n \in Nat] ==
        IF n = 0 THEN [stack |-> <<<<0, 1>>>>, seen |-> {0}, found |-> FALSE]
        ELSE Turn(graph, dom, turn[n - 1])
  IN  turn[3 * Cardinality(Blocks(graph))].found

\* The blocks that reach a latch of h's back edges without passing h.
LoopBody(preds, dom, h) ==
  LET latches == {u \in preds[h] : h \in dom[u]}
  IN  {h} \union Closure(Avoiding(preds, {h}), latches \ {h})

\* Where a break lands: the only block outside that the body leads to, else the
\* header's follow if that is outside.
LoopFollow(succs, body, follow) ==
  LET targets == UNION {succs[b] : b \in body} \ body
  IN  IF Cardinality(targets) = 1 THEN CHOOSE t \in targets : TRUE
      ELSE IF targets # {} /\ follow \notin body THEN follow
      ELSE None

Regions(graph) ==
  LET reachable == Reachable(graph)
      succs   == [b \in reachable |-> Range(SuccList(graph, b))]
      preds   == Inverted(succs)
      dom     == Dominators(reachable, preds)
      pdom    == PostDominators(reachable, succs)
      follow  == [b \in reachable |-> FollowOf(pdom, b)]
      headers == {h \in reachable : \E u \in preds[h] : h \in dom[u]}
      body    == [h \in headers |-> LoopBody(preds, dom, h)]
  IN  [ reachable |-> reachable, succs |-> succs, preds |-> preds,
        dom |-> dom, pdom |-> pdom, follow |-> follow,
        irreducible |-> Irreducible(graph, dom),
        body |-> body,
        loopFollow |-> [h \in headers |-> LoopFollow(succs, body[h], follow[h])] ]

Headers(r) == DOMAIN r.body

Joins(r) == {b \in r.reachable : Cardinality(r.preds[b]) > 1}

-----------------------------------------------------------------------------
(* What the same facts are by definition, over paths.                       *)

\* Every path from b to a block of ends passes p.
OnEveryPath(succs, p, b, ends) ==
  b = p \/ ends \cap Closure(Avoiding(succs, {p}), {b}) = {}

DominatorsAreTrue(r) ==
  \A b \in r.reachable : r.dom[b] = {d \in r.reachable : OnEveryPath(r.succs, d, 0, {b})}

\* A block that can leave the function is followed by the nearest of the blocks
\* that all its ways out pass: those pass every other one after it.
FollowIsNearest(r) ==
  LET exits == {b \in r.reachable : r.succs[b] = {}} IN
  \A b \in r.reachable :
    exits \cap Closure(r.succs, {b}) # {} =>
      LET strict == {p \in r.reachable \ {b} : OnEveryPath(r.succs, p, b, exits)}
      IN  IF strict = {} THEN r.follow[b] = None
          ELSE /\ r.follow[b] \in strict
               /\ \A p \in strict : OnEveryPath(r.succs, p, r.follow[b], exits)

\* A loop is what its header dominates and what can come back to it from there
\* without leaving what it dominates.
LoopsAreTrue(r) ==
  \A h \in r.reachable :
    LET owned == {b \in r.reachable : h \in r.dom[b]}
        back  == {b \in owned : h \in UNION {r.succs[x] :
                    x \in Closure([y \in owned |-> (r.succs[y] \cap owned) \ {h}], {b})}}
    IN  /\ h \in Headers(r) <=> h \in back
        /\ h \in Headers(r) => r.body[h] = back

\* Reducible means that no cycle is left without the edges to a dominator,
\* whatever order a search visits the blocks in.
IrreducibleIsTrue(r) ==
  LET forward == [b \in r.reachable |-> r.succs[b] \ r.dom[b]]
  IN  r.irreducible <=> \E b \in r.reachable : b \in Closure(forward, forward[b])

-----------------------------------------------------------------------------
Lifted(f) ==
  /\ ir = f.ends
  /\ stage = "lifted"
  /\ regions = <<>>

\* Regions::build; an irreducible function is left to the other emitter.
BuildRegions ==
  /\ stage = "lifted"
  /\ LET r == Regions(ir)
     IN  IF r.irreducible THEN stage' = "dfs" /\ UNCHANGED regions
         ELSE stage' = "built" /\ regions' = r
  /\ UNCHANGED ir

\* The regions are what the definitions over paths say, whatever order the
\* fixpoints and the depth-first search take the blocks in (regions.rs).
RegionsAreTheDefinitions ==
  stage \in {"built", "dfs"} =>
    LET r == Regions(ir)
    IN  DominatorsAreTrue(r) /\ FollowIsNearest(r) /\ LoopsAreTrue(r) /\ IrreducibleIsTrue(r)
=============================================================================
