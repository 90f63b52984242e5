---------------------------- MODULE MCStructuring ----------------------------
(* Block graphs for checking both emitters with TLC.                        *)
EXTENDS Compaction

\* In address order code falls through to the next block; a block may also end
\* without one, and a branch may lead out of the function.  low is the first block
\* that is led to.
Ends(b, low, n) ==
  {<<>>} \union {<<t>> : t \in low .. n - 1}
    \union {<<t, f>> \in ((low .. n - 1) \union {None}) \X ({b + 1} \cap low .. n - 1) : t # f}

RECURSIVE Begun(_, _, _)
Begun(k, low, n) ==
  IF k = 0 THEN {<<>>} ELSE {Append(p, e) : p \in Begun(k - 1, low, n), e \in Ends(k - 1, low, n)}

\* The functions of n blocks, and their edges back.
Graphs(low, n) == {[b \in 0 .. n - 1 |-> p[b + 1]] : p \in Begun(n, low, n)}

BackEdges(g) == {<<p, b>> \in (DOMAIN g) \X (DOMAIN g) : p >= b /\ b \in Range(g[p])}

\* Two blocks write each register: enough to tell a stale value from a true one.
Pairs(ends) == kSubset(2, DOMAIN ends)

Function(ends) == [ends |-> ends, registers |-> Pairs(ends)]

\* Every function of up to four blocks, and those of five with at most two edges
\* back and every block reached, none leading to the entry as behind a prologue.
SmallFunctions ==
  {Function(g) : g \in UNION {Graphs(0, n) : n \in 1 .. 4}
                 \union {g \in Graphs(1, 5) : /\ Cardinality(BackEdges(g)) <= 2
                                              /\ Reachable(g) = 0 .. 4}}
=============================================================================
