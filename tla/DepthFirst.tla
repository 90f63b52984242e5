----------------------------- MODULE DepthFirst -----------------------------
(***************************************************************************)
(* The other emitter (decompiler, emit_block of control_flow/emit.rs with    *)
(* control_flow/graph.rs and helper_flow/): what structuring leaves is       *)
(* walked depth first, every path written out until it is too deep, too      *)
(* often visited or already open, and what is left out becomes a call of a   *)
(* helper _block_<id>, which is emitted beside the function, written into    *)
(* its callers when it is small, and dropped for a summary otherwise.        *)
(*                                                                         *)
(* A block id is its place in address order, so that the code falls through  *)
(* from b to b + 1.  What a helper returns when it runs off its end is not   *)
(* told apart from a return.                                                *)
(***************************************************************************)
EXTENDS Structuring

CONSTANTS
  MaxInline,        \* the depth nothing more is written at, 12
  MaxWrapped,       \* the depth no loop is opened at, 10
  LongBlocks,       \* the blocks of more than three instructions
  ShortVisits,      \* how often a short block is written that runs nowhere on, 48
  JoinVisits,       \* another that several lead to, 24
  PlainVisits,      \* any other, 14
  MaxHelpers,       \* how many helpers are emitted, 64
  MaxInlinedLines   \* the longest helper written into its callers, 28

ASSUME DepthFirstAssumption ==
  {MaxInline, MaxWrapped, ShortVisits, JoinVisits, PlainVisits, MaxHelpers, MaxInlinedLines}
    \subseteq Nat \ {0} /\ LongBlocks \subseteq Nat

VARIABLES
  fallback,   \* the FuncEmitter of the walk from the entry
  helpers,    \* the lines of the helpers emitted so far, by block
  generated,  \* the blocks append_helper_functions took from its queue
  queue       \* and those it has yet to take, the next one last

walkVars == <<fallback, helpers, generated, queue>>
vars     == <<structVars, walkVars>>

Preds(b) == {p \in DOMAIN ir : b \in Range(ir[p])}

\* FuncEmitter::new, as far as emit_block goes; from is how many blocks have been
\* rendered before.
FreshWalk(from) ==
  [ lines     |-> <<>>,
    rendered  |-> from,
    values    |-> [reg \in registers |-> Entry],   \* state.reg_values, of init_state
    emitted   |-> {},
    visits    |-> [b \in DOMAIN ir |-> 0],         \* inline_visits
    active    |-> {},                              \* active_stack
    loop      |-> None,                            \* loop_context, which never holds two
    omitted   |-> {},                              \* omitted_blocks
    backEdges |-> {} ]                             \* loop_back_edges

FallsThrough(b) == ir[b] = <<b + 1>>

\* It ends in a jump or a return.
JumpsOff(b) == Len(ir[b]) < 2 /\ ~FallsThrough(b)

VisitLimit(b) ==
  LET short == b \notin LongBlocks /\ JumpsOff(b)
  IN  CASE short                                    -> ShortVisits
        [] ~short /\ Cardinality(Preds(b)) > 1      -> JoinVisits
        [] ~short /\ Cardinality(Preds(b)) < 2      -> PlainVisits

\* Whether b is written out at that depth.  emit_block asks the same again when it
\* is entered, with the same answer: it is only called where this holds.
CanInline(w, b, depth) ==
  depth < MaxInline /\ b \notin w.active /\ w.visits[b] < VisitLimit(b)

\* should_wrap_loop_header: a branch entered from above and from itself or below.
Wraps(w, b, depth) ==
  /\ depth < MaxWrapped /\ w.loop = None
  /\ Len(ir[b]) = 2 /\ None \notin Range(ir[b])
  /\ \E p \in Preds(b) : p >= b
  /\ \E p \in Preds(b) : p < b

\* registers_written_before: what any block that reaches b writes.
WrittenBefore(b) ==
  LET before == Closure([x \in DOMAIN ir |-> Preds(x)], Preds(b))
  IN  {reg \in registers : reg \cap before # {}}

\* The lines of b itself: unless one path alone leads to it, first nothing is kept
\* of what was written on any.
Enter(w, b) ==
  LET held == IF Cardinality(Preds(b)) < 2 THEN w.values ELSE Merged(w.values, WrittenBefore(b))
  IN  [w EXCEPT !.emitted   = @ \union {b},
                !.visits[b] = @ + 1,
                !.active    = @ \union {b},
                !.rendered  = @ + 1,
                !.lines     = Append(@, Body(b, w.rendered + 1, held)),
                !.values    = [reg \in registers |-> IF b \in reg THEN b ELSE held[reg]]]

\* emit_omitted_path.
Omit(w, b) == Push([w EXCEPT !.omitted = @ \union {b}], Omitted(b))

-----------------------------------------------------------------------------
(* emit_block.                                                              *)

\* Mutant: an edge back to any open block is a continue.
ContinuesAny(w, b) == w.loop # None

ContinuesHere(w, b) == b = w.loop

RECURSIVE EmitBlock(_, _, _)

\* The end of a block with one successor: a path already open ends without a line,
\* and so does one written before.
Follow(w, b, depth) ==
  CASE CanInline(w, b, depth + 1) -> EmitBlock(w, b, depth + 1)
    [] ~CanInline(w, b, depth + 1) /\ b \in w.active ->
         IF ContinuesHere(w, b) THEN Push(w, Continue)
         ELSE [w EXCEPT !.backEdges = @ \union {b}]
    [] ~CanInline(w, b, depth + 1) /\ b \notin w.active ->
         IF b \in w.emitted THEN w ELSE Omit(w, b)

\* The arms of a branch; only the first is never left without a line.
Taken(w, b, depth) ==
  CASE b = None                                -> Push(w, Leave)
    [] b # None /\ CanInline(w, b, depth + 1)  -> EmitBlock(w, b, depth + 1)
    [] b # None /\ ~CanInline(w, b, depth + 1) -> Omit(w, b)

NotTaken(w, b, depth) ==
  CASE CanInline(w, b, depth + 1)                        -> EmitBlock(w, b, depth + 1)
    [] ~CanInline(w, b, depth + 1) /\ b \notin w.emitted -> Omit(w, b)
    [] ~CanInline(w, b, depth + 1) /\ b \in w.emitted    -> w

Branched(w, b, depth) ==
  LET then == Taken([w EXCEPT !.lines = <<>>], ir[b][1], depth)
      else == NotTaken([then EXCEPT !.lines = <<>>, !.values = w.values], ir[b][2], depth)
  IN  [else EXCEPT !.lines = Append(w.lines, If(then.lines, else.lines)), !.values = w.values]

EmitBlock(w, b, depth) ==
  IF Wraps(w, b, depth)
  THEN LET inside == EmitBlock([w EXCEPT !.loop = b, !.lines = <<>>], b, depth + 1)
       IN  [inside EXCEPT !.loop  = None,
                          !.lines = Append(w.lines, Loop(Append(inside.lines, Break)))]
  ELSE LET shown == Enter(w, b)
           done  == CASE Len(ir[b]) = 0 -> Push(shown, Leave)
                      [] Len(ir[b]) = 1 -> Follow(shown, ir[b][1], depth)
                      [] Len(ir[b]) = 2 -> Branched(shown, b, depth)
       IN  [done EXCEPT !.active = w.active]

-----------------------------------------------------------------------------
(* The helpers.                                                             *)

RECURSIVE Calls(_)
Calls(lines) ==
  UNION {LET line == lines[k] IN
           CASE line.do = "omitted" -> {line.id}
             [] line.do = "if"      -> Calls(line.then) \union Calls(line.else)
             [] line.do = "loop"    -> Calls(line.body)
             [] OTHER               -> {} : k \in DOMAIN lines}

RECURSIVE LineCount(_)
LineCount(lines) ==
  FoldSeq(LAMBDA line, n :
            n + CASE line.do = "if"   -> 2 + LineCount(line.then)
                                           + (IF line.else = <<>> THEN 0 ELSE 2 + LineCount(line.else))
                  [] line.do = "loop" -> 2 + LineCount(line.body)
                  [] OTHER            -> 1,
          0, lines)

\* helper_inline_lines: a helper is written into its callers if it is short and
\* calls none itself.
InlinePlan(lines) == LineCount(lines) <= MaxInlinedLines /\ Calls(lines) = {}

\* What the call becomes: the helper's lines and, unless they are all in a row and return
\* in the end, `return null;`.  Every block here has a line before its branch, so a helper
\* is not an if alone, which needs a return somewhere in each arm to go without.
Written(lines) ==
  IF Last(lines) = Leave /\ \A k \in DOMAIN lines : lines[k].do \notin {"if", "loop"}
    THEN lines ELSE Append(lines, Leave)

\* inline_trivial_helpers and collapse_remaining_helpers, for the lines of the
\* function: the calls of the helpers with a plan become their lines, and of the
\* others what is left is a return and the block's id in a summary.
RECURSIVE Inlined(_)
Inlined(lines) ==
  FlattenSeq([k \in DOMAIN lines |->
    LET line == lines[k] IN
      CASE line.do = "omitted" ->
             IF line.id \in DOMAIN helpers /\ InlinePlan(helpers[line.id])
               THEN Written(helpers[line.id]) ELSE <<line>>
        [] line.do = "if"   -> <<If(Inlined(line.then), Inlined(line.else))>>
        [] line.do = "loop" -> <<Loop(Inlined(line.body))>>
        [] OTHER            -> <<line>>])

-----------------------------------------------------------------------------
(* emit_with_provenance, after structuring was declined.                    *)

EmitInit ==
  /\ Init
  /\ fallback = <<>> /\ helpers = <<>> /\ generated = {} /\ queue = <<>>

Structure == StructNext /\ UNCHANGED walkVars

EmitEntry ==
  /\ stage = "dfs"
  /\ fallback' = EmitBlock(FreshWalk(0), 0, 0)
  /\ queue' = SetToSortSeq(fallback'.omitted, <)
  /\ stage' = "helpers"
  /\ UNCHANGED <<ir, registers, regions, emitter, helpers, generated>>

\* append_helper_functions, once around: a helper is a FuncEmitter of its own, of
\* which only the lines, the omitted blocks and the running number are kept.
EmitHelper ==
  /\ stage = "helpers"
  /\ queue # <<>>
  /\ generated' = generated \union {Last(queue)}
  /\ IF Cardinality(generated') > MaxHelpers
     THEN queue' = <<>> /\ UNCHANGED <<fallback, helpers>>
     ELSE LET helper == EmitBlock(FreshWalk(fallback.rendered), Last(queue), 0)
              left   == Front(queue)
              new    == helper.omitted \ (generated' \union Range(left))
          IN  /\ helpers' = (Last(queue) :> helper.lines) @@ helpers
              /\ fallback' = [fallback EXCEPT !.rendered = helper.rendered]
              /\ queue' = left \o SetToSortSeq(new, <)
  /\ UNCHANGED <<structVars>>

InlineHelpers ==
  /\ stage = "helpers"
  /\ queue = <<>>
  /\ fallback' = [fallback EXCEPT !.lines = Inlined(@)]
  /\ stage' = "emitted"
  /\ UNCHANGED <<ir, registers, regions, emitter, helpers, generated, queue>>

EmitNext == Structure \/ EmitEntry \/ EmitHelper \/ InlineHelpers

EmitSpec == EmitInit /\ [][EmitNext]_vars

-----------------------------------------------------------------------------
(* Properties.                                                              *)

Runs(step, i) == IF Len(step.to) = 1 THEN step.to[1] ELSE step.to[i]

IsOf(place, b) == place.do \in {"body", "omitted"} /\ place.id = b

\* A path the walk cuts short ends: the text of the other emitter begins with the
\* entry and runs nothing after a block that the graph does not, a helper it names
\* being the block; and no block goes unmentioned, each being reached in the graph
\* from one that is written out or named as omitted.
FallbackFollowsTheGraph ==
  stage = "emitted" =>
    LET steps == Steps(fallback.lines, Top)
        shown == {step.from.id : step \in steps} \union Calls(fallback.lines)
    IN  /\ First(fallback.lines, Top).do = "body" /\ First(fallback.lines, Top).id = 0
        /\ \A step \in steps :
             LET ends == ir[step.from.id]
             IN  IF ends = <<>> THEN step.to = <<Leave>>
                 ELSE \A i \in DOMAIN ends : Runs(step, i) = Leave \/ IsOf(Runs(step, i), ends[i])
        /\ \A b \in Reachable(ir) :
             b \in shown \/ \E o \in Calls(fallback.lines) :
                              b \in Closure([x \in DOMAIN ir |-> Range(SuccList(ir, x))], {o})

\* What the lines of either emitter believe of the registers holds; of the other
\* one's when nothing leads back to the entry, as the comment on its predecessor
\* map asks (emit.rs:1214), and when no helper was written into them that begins
\* with a block one path alone leads to: a helper is walked with the registers of
\* the function's entry, which only a join forgets.
BindingsHold ==
  LET joins == {b \in DOMAIN helpers : Cardinality(Preds(b)) > 1}
  IN  /\ stage = "structured" => BeliefsHold(emitter.lines)
      /\ stage = "emitted" /\ Preds(0) = {} /\ DOMAIN helpers = joins
           => BeliefsHold(fallback.lines)
=============================================================================
