---------------------------- MODULE Structuring ----------------------------
(***************************************************************************)
(* Structured emission of one function (decompiler,                         *)
(* control_flow/structured.rs): try_emit_structured builds the regions of   *)
(* the block graph, walks them into nested ifs and loops, and either keeps  *)
(* the result or puts the emitter back and leaves the function to the       *)
(* depth-first emitter.                                                     *)
(*                                                                         *)
(* A register is named by the set of blocks that write it, and its value by *)
(* the block that did, Entry being the argument it held on entry and None a *)
(* value the emitter does not know.  A block writes all its registers and   *)
(* reads none, and its lines are one rendering, a Body;                     *)
(* instruction budgets and layout are left out.                             *)
(***************************************************************************)
EXTENDS Regions

CONSTANTS
  MaxDepth,           \* the nesting a sequence is given up at, 64
  MaxRepeatedBlocks,  \* the largest region rendered twice, 16
  MaxRendered         \* a bound of the model: the renderings it follows a walk for

ASSUME StructuringAssumption ==
  {MaxDepth, MaxRepeatedBlocks, MaxRendered} \subseteq Nat \ {0}

\* An input also has its registers.  stage goes on from "built" by "rendered" or
\* "endless", and ends as "structured" or "dfs".
VARIABLES
  registers,   \* the registers, each the set of blocks that write it
  emitter      \* the FuncEmitter

structVars == <<ir, registers, stage, regions, emitter>>

-----------------------------------------------------------------------------
(* What the lines of a structured function say: the statements that the      *)
(* emitter writes and the order in which a reader runs them, computed from   *)
(* the text alone, so that it can be compared with the block graph.          *)

\* A rendering of block id, the at-th of the function; holds is what each
\* register is believed to hold where it begins.
Body(id, at, holds) == [do |-> "body", id |-> id, at |-> at, holds |-> holds]

If(then, else) == [do |-> "if", then |-> then, else |-> else]
Loop(body)     == [do |-> "loop", body |-> body]
Break          == [do |-> "break"]
Continue       == [do |-> "continue"]
Leave          == [do |-> "leave"]     \* a return, a tail call or an outside branch
Omitted(id)    == [do |-> "omitted", id |-> id]   \* return _block_<id>();

(***************************************************************************)
(* The first rendering, Leave or omitted path that control meets in lines.  *)
(* context says what follows them and where break and continue go.          *)
(***************************************************************************)
RECURSIVE First(_, _)
First(lines, context) ==
  IF lines = <<>> THEN context.after
  ELSE CASE lines[1].do \in {"body", "leave", "omitted"} -> lines[1]
         [] lines[1].do = "break"    -> context.break
         [] lines[1].do = "continue" -> context.continue
         [] lines[1].do = "loop"     -> First(lines[1].body, context)

Top == [after |-> Leave, break |-> Leave, continue |-> Leave]

\* From every rendering to what runs after it, one target for each outcome of
\* its branch when an if tells the outcomes apart.
RECURSIVE Steps(_, _)
Steps(lines, context) ==
  IF lines = <<>> THEN {}
  ELSE
    LET rest == Tail(lines)
        next == [context EXCEPT !.after = First(rest, context)]
        tests == rest # <<>> /\ rest[1].do = "if"
    IN CASE lines[1].do = "body" /\ ~tests ->
              {[from |-> lines[1], to |-> <<next.after>>]} \union Steps(rest, context)
         [] lines[1].do = "body" /\ tests ->
              LET past == [context EXCEPT !.after = First(Tail(rest), context)]
              IN  {[from |-> lines[1],
                    to   |-> <<First(rest[1].then, past), First(rest[1].else, past)>>]}
                  \union Steps(rest[1].then, past) \union Steps(rest[1].else, past)
                  \union Steps(Tail(rest), context)
         [] lines[1].do = "loop" ->
              LET top == First(lines[1].body, context)
              IN  Steps(lines[1].body, [after |-> top, break |-> next.after, continue |-> top])
                  \union Steps(rest, context)
         [] OTHER -> Steps(rest, context)

Entry == -2

Fresh(regs) ==
  [ ok        |-> TRUE,                        \* what render_sequence returned
    lines     |-> <<>>,
    rendered  |-> 0,                           \* blocks rendered so far
    values    |-> [reg \in regs |-> Entry],    \* state.reg_values, of init_state
    repeated  |-> 0,                           \* repeated_blocks
    emitted   |-> {},                          \* structured_emitted
    loops     |-> <<>>,                        \* loop_stack
    snapshots |-> <<>>,                        \* block_snapshots
    sites     |-> <<>> ]                       \* join_candidates, by block and register

Failed(e)        == [e EXCEPT !.ok = FALSE]
Push(e, line)    == [e EXCEPT !.lines = Append(@, line)]
InLoop(e)        == e.loops # <<>>
InnerHeader(e)   == IF InLoop(e) THEN Last(e.loops)[1] ELSE None
InnerFollow(e)   == IF InLoop(e) THEN Last(e.loops)[2] ELSE None
IsOpen(e, h)     == \E k \in DOMAIN e.loops : e.loops[k][1] = h

-----------------------------------------------------------------------------
(* What a merge drops.                                                      *)

\* The blocks met from roots before stop.  registers_written_between is what
\* they write.
Passed(roots, stop) == Closure(Avoiding(regions.succs, {stop}), roots \ {stop})

WrittenBetween(roots, stop) == {reg \in registers : reg \cap Passed(roots, stop) # {}}

\* merge_state_at_join.
Merged(values, written) ==
  [reg \in DOMAIN values |-> IF reg \in written THEN None ELSE values[reg]]

-----------------------------------------------------------------------------
(* Evidence for the annotations.                                            *)

\* snapshot_block_end: the state after b, if b enters a join that can be
\* annotated or, from outside, a loop.
Snapshot(e, b) ==
  LET kept == \E s \in regions.succs[b] :
                \/ s \in Joins(regions) \ Headers(regions)
                \/ s \in Headers(regions) /\ b \notin regions.body[s]
  IN  IF kept THEN [e EXCEPT !.snapshots = Append(@, [block |-> b, values |-> e.values])]
      ELSE e

\* latest_block_snapshot: what reg held when b was last rendered.
LastHeld(e, b, reg) ==
  LET k == SelectLastInSeq(e.snapshots, LAMBDA s : s.block = b)
  IN  IF k = 0 THEN None ELSE e.snapshots[k].values[reg]

\* Mutant: a predecessor without a value counts as one that contributed.
WithCandidatesOfSome(e, site, preds, dropped, complete) ==
  LET held(reg) == [p \in preds |-> LastHeld(e, p, reg)]
      told      == {reg \in dropped : Range(held(reg)) \ {None} # {}}
  IN  [e EXCEPT !.sites =
         [key \in {<<site, reg>> : reg \in told} |->
            [values |-> Range(held(key[2])) \ {None}, complete |-> complete]] @@ @]

\* record_join_candidates and record_loop_entry_candidates: for every register
\* the merge at site is about to drop, the values its predecessors ended with.
\* Those of a join are complete when every predecessor contributed one.
WithCandidates(e, site, preds, dropped, complete) ==
  LET held(reg) == [p \in preds |-> LastHeld(e, p, reg)]
      told      == {reg \in dropped : Range(held(reg)) \ {None} # {}}
  IN  [e EXCEPT !.sites =
         [key \in {<<site, reg>> : reg \in told} |->
            [ values   |-> Range(held(key[2])) \ {None},
              complete |-> complete /\ None \notin Range(held(key[2])) ]] @@ @]

JoinCandidates(e, join) ==
  LET preds == regions.preds[join]
  IN  IF join \in Headers(regions) THEN e
      ELSE WithCandidates(e, join, preds, WrittenBetween(preds, join), TRUE)

LoopCandidates(e, header) ==
  WithCandidates(e, header, regions.preds[header] \ regions.body[header],
                 WrittenBetween({header}, None), FALSE)

-----------------------------------------------------------------------------
(* The walk.                                                                *)

\* Mutant: the header of an outer loop will do.
ContinuesOuter(e, b) == IsOpen(e, b)

\* An edge to b is a `continue;`: it goes back to the innermost loop, since an
\* outer one would need a label.
Continues(e, b) == b = InnerHeader(e)

\* Mutant: every block is emitted once.
NeverRepeatable(e, b, follow) == FALSE

\* is_repeatable_region: what a second rendering of b would write again is
\* small and enters no loop.
Repeatable(e, b, follow) ==
  LET again == Closure(Avoiding(regions.succs, {follow, InnerHeader(e)}), {b})
  IN  again \cap Headers(regions) = {} /\ Cardinality(again) <= MaxRepeatedBlocks

\* Where the arms of b's branch are taken to meet: its follow, unless that lies
\* outside the innermost loop, whose break it then is.
ArmsMeetAt(e, b) ==
  LET f == regions.follow[b]
  IN  IF InLoop(e) /\ f \notin regions.body[InnerHeader(e)] THEN None ELSE f

\* render_block_body and what comes before it: a join first forgets what any of
\* its predecessors may have written.
RenderBody(e, b) ==
  LET joined == IF b \in Joins(regions)
                  THEN [JoinCandidates(e, b) EXCEPT
                          !.values = Merged(@, WrittenBetween(regions.preds[b], b))]
                  ELSE e
      wrote  == [reg \in DOMAIN e.values |-> IF b \in reg THEN b ELSE joined.values[reg]]
  IN  Snapshot([joined EXCEPT !.emitted  = @ \union {b},
                              !.rendered = @ + 1,
                              !.lines    = Append(@, Body(b, e.rendered + 1, joined.values)),
                              !.values   = wrote], b)

\* Mutant: the state at the branch as it was.
AfterBranchUnmerged(values, arms, meet) == values

\* The state after a branch: that at the branch, less what the arms may have
\* written before they met.
AfterBranch(values, arms, meet) ==
  IF meet = None THEN values ELSE Merged(values, WrittenBetween(arms, meet))

\* render_sequence from cursor b up to follow, with render_loop and the two arms
\* of a branch written into buffers of their own.
RECURSIVE Sequence(_, _, _, _)

LoopAt(e, h, depth) ==
  LET written == WrittenBetween({h}, None)
      inside == [LoopCandidates(e, h) EXCEPT
                   !.loops  = Append(@, <<h, regions.loopFollow[h]>>),
                   !.lines  = <<>>,
                   !.values = Merged(@, written)]
      done   == Sequence(inside, h, regions.loopFollow[h], depth + 1)
  IN  [done EXCEPT !.lines  = Append(e.lines, Loop(done.lines)),
                   !.loops  = e.loops,
                   !.values = Merged(e.values, written)]

BranchAt(e, b, depth) ==
  LET meet   == ArmsMeetAt(e, b)
      blank  == [e EXCEPT !.lines = <<>>]
      arm(from, to) == IF to = meet THEN from ELSE Sequence(from, to, meet, depth + 1)
      then   == IF ir[b][1] = None THEN Push(blank, Leave) ELSE arm(blank, ir[b][1])
      else   == arm([then EXCEPT !.lines = <<>>, !.values = e.values], ir[b][2])
  IN  [else EXCEPT
         !.lines  = IF then.lines = <<>> /\ else.lines = <<>> THEN e.lines
                    ELSE Append(e.lines, If(then.lines, else.lines)),
         !.values = AfterBranch(e.values, Range(ir[b]) \ {None}, meet)]

Sequence(e, b, follow, depth) ==
  CASE ~e.ok \/ depth > MaxDepth \/ e.rendered > MaxRendered -> Failed(e)
    [] e.ok /\ depth <= MaxDepth /\ e.rendered <= MaxRendered ->
       CASE b \in {None, follow} -> e
         [] b \notin {None, follow} /\ b = InnerFollow(e) -> Push(e, Break)
         [] b \notin {None, follow, InnerFollow(e)} ->
            LET again  == b \in e.emitted
                tried  == IF again THEN [e EXCEPT !.repeated = @ + 1] ELSE e
            IN CASE again /\ Continues(e, b) -> Push(e, Continue)
                 [] again /\ ~Continues(e, b) /\ ~Repeatable(e, b, follow) -> Failed(e)
                 [] ~again /\ b \in Headers(regions) /\ ~IsOpen(e, b) ->
                      Sequence(LoopAt(e, b, depth), regions.loopFollow[b], follow, depth)
                 [] OTHER ->
                      LET shown == RenderBody(tried, b)
                      IN  CASE Len(ir[b]) = 0 -> Push(shown, Leave)
                            [] Len(ir[b]) = 1 -> Sequence(shown, ir[b][1], follow, depth)
                            [] Len(ir[b]) = 2 ->
                                 Sequence(BranchAt(shown, b, depth), ArmsMeetAt(shown, b),
                                          follow, depth)

-----------------------------------------------------------------------------
(* try_emit_structured.                                                     *)

Init ==
  /\ \E f \in Inputs : Lifted(f) /\ registers = f.registers
  /\ emitter = Fresh(registers)

Build == BuildRegions /\ UNCHANGED <<registers, emitter>>

Render ==
  /\ stage = "built"
  /\ emitter' = Sequence(emitter, 0, None, 0)
  /\ stage' = IF emitter'.rendered > MaxRendered THEN "endless" ELSE "rendered"
  /\ UNCHANGED <<ir, registers, regions>>

Covered == Cardinality(emitter.emitted) = Cardinality(regions.reachable)

Keep ==
  /\ stage = "rendered"
  /\ emitter.ok /\ Covered
  /\ stage' = "structured"
  /\ UNCHANGED <<ir, registers, regions, emitter>>

\* Mutant: the candidates of the abandoned attempt stay.
RolledBackKeepingSites ==
  [Fresh(registers) EXCEPT !.sites = emitter.sites]

\* The lines, state and counters saved before, and every table cleared.
RolledBack ==
  [emitter EXCEPT !.ok = TRUE, !.rendered = 0,
     !.lines = <<>>, !.values = Fresh(registers).values, !.repeated = 0,
     !.emitted = {}, !.loops = <<>>, !.snapshots = <<>>, !.sites = <<>>]

GiveUp ==
  /\ stage = "rendered"
  /\ ~(emitter.ok /\ Covered)
  /\ emitter' = RolledBack
  /\ regions' = <<>>
  /\ stage' = "dfs"
  /\ UNCHANGED <<ir, registers>>

StructNext == Build \/ Render \/ Keep \/ GiveUp

StructSpec == Init /\ [][StructNext]_structVars

-----------------------------------------------------------------------------
(* Properties.                                                              *)

Text == Steps(emitter.lines, Top)

\* A structured function runs exactly the paths of its block graph: it begins
\* with the entry, and from each rendering of a block every outcome of its
\* terminator leads to a rendering of the block it leads to in the graph, through
\* whatever break, continue, fall-through, elided arm or repeated region.
RunsTheGraph ==
  stage = "structured" =>
    /\ First(emitter.lines, Top).id = 0
    /\ \A step \in Text :
         LET ends == ir[step.from.id]
             runs(i) == IF Len(step.to) = 1 THEN step.to[1] ELSE step.to[i]
         IN  IF ends = <<>> THEN step.to = <<Leave>>
             ELSE \A i \in DOMAIN ends :
                    IF ends[i] = None THEN runs(i) = Leave
                    ELSE runs(i).do = "body" /\ runs(i).id = ends[i]

\* Only loops are beyond structuring: a function without a cycle is never left to
\* the other emitter.  And only a loop without an exit is walked round for ever:
\* its blocks keep every block as post-dominator (regions.rs:206), so the arms of a
\* branch in it can be taken to meet at a block already rendered, and a walk that
\* ends every repeated region there repeats it without end.
Settles ==
  LET succs == [b \in DOMAIN ir |-> Range(SuccList(ir, b))]
  IN  /\ stage = "dfs" => \E b \in Reachable(ir) : b \in Closure(succs, succs[b])
      /\ stage = "endless" =>
           \E b \in Reachable(ir) : \A x \in Closure(succs, {b}) : succs[x] # {}

\* What is structured runs the paths of its graph, and what is not has a loop.
StructureIsTheGraph == RunsTheGraph /\ Settles

\* What lines believe a register holds where a block's lines begin is what it
\* holds there, whatever way the text is run to that point: the last block that
\* wrote it, or the entry when none did, is the believed one.
BeliefsHold(lines) ==
  LET steps  == Steps(lines, Top)
      places == {step.from : step \in steps}
      runs   == [p \in places |-> {q \in places : \E step \in steps :
                                                    step.from = p /\ q \in Range(step.to)}]
  IN  \A reg \in registers :
        LET quiet == [p \in places |-> IF p.id \in reg THEN {} ELSE runs[p]]
        IN  /\ \A p \in Closure(quiet, {First(lines, Top)}) : p.holds[reg] \in {None, Entry}
            /\ \A w \in {p \in places : p.id \in reg} :
                 \A p \in Closure(quiet, runs[w]) : p.holds[reg] \in {None, w.id}

\* What is kept for the annotations is about the body that is output: every
\* snapshot and every candidate list is of a block rendered there, and nothing of
\* an abandoned attempt is left for the other emitter's lines.
EvidenceIsOfTheBody ==
  stage \in {"structured", "dfs"} =>
    LET shown == {step.from.id : step \in Text}
    IN  /\ \A s \in Range(emitter.snapshots) : s.block \in shown
        /\ \A key \in DOMAIN emitter.sites : key[1] \in shown

\* The last writers of reg that a path of the graph brings to the entry of b.
Reaching(reg, b) ==
  LET quiet == [x \in regions.reachable |-> IF x \in reg THEN {} ELSE regions.succs[x]]
  IN  {w \in regions.reachable \cap reg : b \in Closure(quiet, regions.succs[w])}
      \union {w \in {Entry} : b \in Closure(quiet, {0})}

\* The user guide's reading of `regN /* = a | b */`: every path reaching the merge
\* contributed a value, they are all listed, and regN is one of them.  It holds of
\* the merges whose predecessors were rendered once each: of a block rendered in
\* two places only the last state is looked at (structured.rs:1110).
ExhaustiveListsEveryPath ==
  stage = "structured" =>
    LET places == {step.from : step \in Text}
        once(b) == Cardinality({p \in places : p.id = b}) = 1
    IN  \A key \in DOMAIN emitter.sites :
          emitter.sites[key].complete /\ (\A p \in regions.preds[key[1]] : once(p))
            => Reaching(key[2], key[1]) \subseteq emitter.sites[key].values

\* What is kept for the annotations is of what is shown, and says what can happen there.
EvidenceIsTrue == EvidenceIsOfTheBody /\ ExhaustiveListsEveryPath
=============================================================================
