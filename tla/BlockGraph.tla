----------------------------- MODULE BlockGraph -----------------------------
(***************************************************************************)
(* build_function_ir of crates/flutterdec-ir: the blocks and edges of one   *)
(* function record.                                                         *)
(*                                                                          *)
(* A record's code is a function from consecutive addresses to instructions *)
(* (the decoder stops at the first word it cannot read, so there are no     *)
(* gaps), and an instruction what its mnemonic makes of it and the address  *)
(* it names, 0 for one that is elsewhere.  "check" stands for the group of  *)
(* the stack-overflow guard; "push" and "trap" are plain to this module and *)
(* told apart by FunctionSplit.                                             *)
(***************************************************************************)
EXTENDS Naturals, FiniteSets, FiniteSetsExt

Kinds == {"plain", "push", "trap", "branch", "jump", "return", "check"}

Aimed == {"branch", "jump"}
Ends  == {"branch", "jump", "return"}

Instruction == [op : Kinds, to : Nat]

\* The slow path of the guard at a, as the compiler mostly lays it out: it lies ahead,
\* behind the end of a path, calls a stub and jumps back behind its guard, if the decoder
\* got that far, and nothing else leads in.  Nothing makes sure of it: a slow path may
\* also follow a call that raises, or be two guards' (stubs.rs:538).
SlowPath(code, a, last) ==
  LET slow == code[a].to .. last IN
  /\ a + 1 < code[a].to /\ code[a].to <= last
  /\ code[code[a].to - 1].op \in {"jump", "return"}
  /\ \A b \in slow \ {last} : code[b].op = "plain"
  /\ \/ code[last] = [op |-> "jump", to |-> a + 1]
     \/ last = Max(DOMAIN code) /\ code[last].op = "plain"
  /\ \A b \in DOMAIN code \ {a} :
       code[b].op \in Aimed \union {"check"} => code[b].to \notin slow

\* Not all code is laid out so: a property that needs it says so.
OwnSlowPaths(code) ==
  \A a \in DOMAIN code : code[a].op = "check" /\ code[a].to \in DOMAIN code =>
    \E last \in DOMAIN code : SlowPath(code, a, last)

\* What decode_function gives of a record.
CodeOK(code) ==
  /\ code = [a \in DOMAIN code |-> code[a]]
  /\ \E first, last \in DOMAIN code : first \in Nat \ {0} /\ DOMAIN code = first .. last
  /\ \A a \in DOMAIN code : code[a] \in Instruction

\* The k-th of a finite set of numbers, from 0, and the place of one in it.
Place(S, x) == Cardinality({y \in S : y < x})
Nth(S, k)   == CHOOSE x \in S : Place(S, x) = k

\* What is reached from a set along a function from nodes to sets of nodes.
Reached(edges, from) ==
  LET step[n \in Nat] ==
        IF n = 0 THEN from
        ELSE LET before == step[n - 1] IN before \union UNION {edges[x] : x \in before}
  IN step[Cardinality(DOMAIN edges)]

-----------------------------------------------------------------------------
(* Leaders and blocks.                                                      *)

\* Mutant: what follows a return goes on in its block.
LeadersNotAfterReturn(code) ==
  ({Min(DOMAIN code)}
   \union {code[a].to : a \in {b \in DOMAIN code : code[b].op \in Aimed}}
   \union {a + 1 : a \in {b \in DOMAIN code : code[b].op \in Aimed}})
  \cap DOMAIN code

\* The first instruction, whatever is branched to, and whatever follows the end of
\* a path.  A leader outside the record starts a block of no instruction, which is
\* not kept.
Leaders(code) ==
  ({Min(DOMAIN code)}
   \union {code[a].to : a \in {b \in DOMAIN code : code[b].op \in Aimed}}
   \union {a + 1 : a \in {b \in DOMAIN code : code[b].op \in Ends}})
  \cap DOMAIN code

\* A block runs from its leader to the next one.
Blocks(code) ==
  LET leaders == Leaders(code) IN
  [k \in 0 .. Cardinality(leaders) - 1 |->
     LET from == Nth(leaders, k) IN
     [start |-> from,
      last  |-> Max({a \in DOMAIN code : a >= from /\ \A l \in leaders : l <= from \/ l > a})]]

StartingAt(blocks, address) == {k \in DOMAIN blocks : blocks[k].start = address}

\* By the last instruction alone: only the instructions that end a path are told
\* apart, everything else runs on.
Successors(code, blocks, k) ==
  LET i    == code[blocks[k].last]
      next == {k + 1} \cap DOMAIN blocks
  IN CASE i.op = "branch" -> StartingAt(blocks, i.to) \union next
       [] i.op = "jump"   -> StartingAt(blocks, i.to)
       [] i.op = "return" -> {}
       [] OTHER           -> next

\* The guards of a block, as they were before they were taken out.
GuardTargets(code, blocks, k) ==
  UNION {StartingAt(blocks, code[a].to) :
           a \in {b \in blocks[k].start .. blocks[k].last : code[b].op = "check"}}

\* Mutant: every block the entry does not reach is dropped.
KeptReachable(code, blocks, succs) == Reached(succs, {0})

\* Dropped is what only a guard reaches; what nothing reaches stays.
Kept(code, blocks, succs) ==
  LET guarded == [k \in DOMAIN blocks |-> succs[k] \union GuardTargets(code, blocks, k)]
  IN DOMAIN blocks \ (Reached(guarded, {0}) \ Reached(succs, {0}))

\* The blocks that stay are numbered anew, and their edges with them.
Renumber(blocks, succs, kept) ==
  LET old(i) == Nth(kept, i)
  IN [i \in 0 .. Cardinality(kept) - 1 |->
        [start |-> blocks[old(i)].start,
         last  |-> blocks[old(i)].last,
         succs |-> {Place(kept, j) : j \in succs[old(i)] \cap kept}]]

Predecessors(blocks, i) == {j \in DOMAIN blocks : i \in blocks[j].succs}

BuildFunctionIr(code) ==
  LET blocks == Blocks(code)
      succs  == [k \in DOMAIN blocks |-> Successors(code, blocks, k)]
      ir     == Renumber(blocks, succs, Kept(code, blocks, succs))
  IN [i \in DOMAIN ir |->
        [start |-> ir[i].start, last |-> ir[i].last, succs |-> ir[i].succs,
         preds |-> Predecessors(ir, i)]]

Addresses(block) == block.start .. block.last

-----------------------------------------------------------------------------
(* What a graph must be, said of single instructions.                       *)

\* Where control may go from an instruction, guards taken out; or with them.
Flow(code, a) ==
  {b \in DOMAIN code : \/ code[a].op \in Aimed /\ b = code[a].to
                       \/ code[a].op \notin {"jump", "return"} /\ b = a + 1}

GuardedFlow(code, a) ==
  Flow(code, a) \union (IF code[a].op = "check" THEN {code[a].to} \cap DOMAIN code ELSE {})

RunsTo(code, a)        == Reached([b \in DOMAIN code |-> Flow(code, b)], {a})
RunsToGuarded(code, a) == Reached([b \in DOMAIN code |-> GuardedFlow(code, b)], {a})

\* What taking out the guards cut off.
Stranded(code) ==
  LET entry == Min(DOMAIN code) IN RunsToGuarded(code, entry) \ RunsTo(code, entry)

\* What the blocks hold.
InBlocks(ir) == UNION {Addresses(ir[i]) : i \in DOMAIN ir}

\* The blocks, in their order, share out the code: nothing is lost but what the guards
\* stranded, and all of that where every guard has a slow path of its own.
PartitionsTheCode(code, ir) ==
  /\ DOMAIN code \ Stranded(code) \subseteq InBlocks(ir) /\ InBlocks(ir) \subseteq DOMAIN code
  /\ OwnSlowPaths(code) => InBlocks(ir) \cap Stranded(code) = {}
  /\ \A i, j \in DOMAIN ir : i < j => ir[i].last < ir[j].start

\* Control goes from block to block as it does from instruction to instruction,
\* never into the middle of one, and the numbers mean the same in both directions.
\* Only a way into what was lost is gone.
FollowsTheCode(code, ir) ==
  \A i \in DOMAIN ir :
    /\ \A a \in Addresses(ir[i]) \ {ir[i].last} : Flow(code, a) = {a + 1}
    /\ Flow(code, ir[i].last) \cap InBlocks(ir) = {ir[j].start : j \in ir[i].succs}
    /\ \A j \in DOMAIN ir : j \in ir[i].succs <=> i \in ir[j].preds
=============================================================================
