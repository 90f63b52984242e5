----------------------------- MODULE CallPruning -----------------------------
(***************************************************************************)
(* The graphs of the functions as split (build_program_ir of flutterdec-ir)  *)
(* and prune_calls_that_never_return of crates/flutterdec-core               *)
(* (runners/stubs.rs), which takes away what follows a call of a stub that   *)
(* raises.  Which calls those are is known only from the stubs, so any set of  *)
(* the plain instructions at Calls may be theirs.                          *)
(***************************************************************************)
EXTENDS FunctionSplit

CONSTANT Calls   \* the addresses whose instruction, plain to the blocks, is a call

VARIABLES
  functions,   \* the FunctionIr of every function of out
  pruned,      \* the stubs are known and the calls of non_returning cut
  raising,     \* the calls whose target is in non_returning
  prune        \* NoreturnPrune

vars == <<splitVars, functions, pruned, raising, prune>>

PruneInit ==
  /\ SplitInit
  /\ functions = <<>>
  /\ pruned = FALSE
  /\ raising = {}
  /\ prune = [functions |-> 0, blocksCut |-> 0, instructionsCut |-> 0]

Split == SplitNext /\ UNCHANGED <<functions, pruned, raising, prune>>

BuildProgramIr ==
  /\ Done /\ functions = <<>>
  /\ functions' = [i \in DOMAIN out |-> BuildFunctionIr(out[i].code)]
  /\ UNCHANGED <<splitVars, pruned, raising, prune>>

-----------------------------------------------------------------------------
\* The calls of a block that end it.
Raises(block, calls) == Addresses(block) \cap calls

\* Mutant: only the edges out are cut.
CutKeepingPreds(ir0, calls) ==
  [i \in DOMAIN ir0 |->
     IF Raises(ir0[i], calls) = {} THEN ir0[i]
     ELSE [ir0[i] EXCEPT !.succs = {}, !.last = Min(Raises(ir0[i], calls))]]

\* The blocks stay, with their ids: a block ends at its first call that raises,
\* leads nowhere, and is forgotten by what it led to.
CutAfterCalls(ir0, calls) ==
  LET ended == {i \in DOMAIN ir0 : Raises(ir0[i], calls) # {}}
  IN  [i \in DOMAIN ir0 |->
         [ start |-> ir0[i].start,
           last  |-> IF i \in ended THEN Min(Raises(ir0[i], calls)) ELSE ir0[i].last,
           succs |-> IF i \in ended THEN {} ELSE ir0[i].succs,
           preds |-> ir0[i].preds \ ended ]]

ReachableBlocks(ir0) == Reached([i \in DOMAIN ir0 |-> ir0[i].succs], {0})

CallSites ==
  UNION {{a \in InBlocks(functions[k]) \cap Calls : out[k].code[a].op = "plain"} :
           k \in DOMAIN functions}

\* With no stub that raises nothing is done.  The statistics count what became
\* unreachable, and only in functions cut.
PruneCalls ==
  /\ functions # <<>> /\ ~pruned
  /\ pruned' = TRUE
  /\ \E calls \in (SUBSET CallSites) \ {{}} :
       LET cut  == [k \in DOMAIN functions |-> CutAfterCalls(functions[k], calls)]
           hit  == {k \in DOMAIN functions : \E i \in DOMAIN cut[k] :
                      \/ cut[k][i].last # functions[k][i].last
                      \/ cut[k][i].succs # functions[k][i].succs}
           lost(k) == Cardinality(ReachableBlocks(functions[k])) - Cardinality(ReachableBlocks(cut[k]))
           gone(k) == Cardinality(InBlocks(functions[k])) - Cardinality(InBlocks(cut[k]))
       IN  /\ raising' = calls
           /\ functions' = cut
           /\ prune' = [ functions       |-> Cardinality(hit),
                         blocksCut       |-> MapThenSumSet(lost, hit),
                         instructionsCut |-> MapThenSumSet(gone, DOMAIN functions) ]
  /\ UNCHANGED splitVars

PruneNext == Split \/ BuildProgramIr \/ PruneCalls

-----------------------------------------------------------------------------
(* Properties.                                                              *)

\* What the emitters walk after the cut is what runs when a raising call does not
\* come back, no less and no more; the ids stay dense and both directions of an
\* edge agree, which the emitters read separately (regions.rs:33, summary.rs:37).
PrunedIsTheCode ==
  pruned =>
    \A k \in DOMAIN functions :
      LET graph == functions[k]
          code  == out[k].code
          runs  == [a \in DOMAIN code |-> IF a \in raising THEN {} ELSE Flow(code, a)]
      IN  /\ DOMAIN graph = 0 .. Cardinality(DOMAIN graph) - 1
          /\ \A i, j \in DOMAIN graph : j \in graph[i].succs <=> i \in graph[j].preds
          /\ UNION {Addresses(graph[i]) : i \in ReachableBlocks(graph)}
               = Reached(runs, {Min(DOMAIN code)})
=============================================================================
