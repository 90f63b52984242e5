----------------------------- MODULE Compaction -----------------------------
(***************************************************************************)
(* The last rewriting of control flow (decompiler, compact_lines of          *)
(* passes/compaction.rs with passes/structural_helpers/): the lines that     *)
(* either emitter left are rewritten by pattern, pass after pass, until a    *)
(* pass changes nothing.                                                     *)
(*                                                                         *)
(* A nest of lines stands for the flat text with its braces, which is always *)
(* well nested and indented by its depth.  A block may print nothing but its *)
(* terminator.  What a condition says is left out, and with it the rewriting *)
(* of repeated null checks and of ranges; so are the numbers of the retry    *)
(* flags, each of which is declared just before its loop.                    *)
(***************************************************************************)
EXTENDS DepthFirst

CONSTANT MaxPasses   \* 16

ASSUME CompactionAssumption == MaxPasses \in Nat \ {0}

VARIABLES
  laid,     \* the lines before the first pass
  text,     \* self.lines
  passes,   \* how many passes changed them
  crossed   \* history: a guard was merged into one that has an else

textVars == <<laid, text, passes, crossed>>
allVars  == <<vars, textVars>>

Test(b)   == [op |-> "test", of |-> b]
Not(c)    == [op |-> "not", of |-> c]
And(c, d) == [op |-> "and", of |-> <<c, d>>]
Or(conds) == [op |-> "or", of |-> conds]

Guard(cond, then, else) == [do |-> "if", cond |-> cond, then |-> then, else |-> else]
While(flag, body)       == [do |-> "loop", flag |-> flag, body |-> body]
Declare                 == [do |-> "declare"]   \* bool retryLoop = true;
Lower                   == [do |-> "lower"]     \* retryLoop = false;
ReturnNull              == [do |-> "null"]      \* what collapse_remaining_helpers leaves
Outside                 == [do |-> "outside"]   \* the comment on a branch out of the function

\* The lines as they reach the first pass, where the blocks of quiet print only how
\* they end.  The structured emitter writes no branch whose arms are both empty,
\* and negates the condition if the first is.
RECURSIVE Lay(_, _)
Lay(lines, quiet) ==
  FlattenSeq([k \in DOMAIN lines |->
    LET line == lines[k] IN
      CASE line.do = "body"    -> IF line.id \in quiet THEN <<>> ELSE <<line>>
        [] line.do = "omitted" -> <<ReturnNull>>
        [] line.do = "loop"    -> <<While(FALSE, Lay(line.body, quiet))>>
        [] line.do = "if"      ->
             LET b    == lines[k - 1].id
                 then == IF ir[b][1] = None THEN <<Outside>> ELSE Lay(line.then, quiet)
                 else == Lay(line.else, quiet)
             IN  CASE stage = "emitted" \/ then # <<>> -> <<Guard(Test(b), then, else)>>
                   [] stage # "emitted" /\ then = <<>> /\ else # <<>> ->
                        <<Guard(Not(Test(b)), else, <<>>)>>
                   [] OTHER -> <<>>
        [] OTHER -> <<line>>])

-----------------------------------------------------------------------------
(* The patterns.                                                            *)

RECURSIVE ContinueCount(_)
ContinueCount(lines) ==
  FoldSeq(LAMBDA line, n :
            n + CASE line.do = "continue" -> 1
                  [] line.do = "if"       -> ContinueCount(line.then) + ContinueCount(line.else)
                  [] line.do = "loop"     -> ContinueCount(line.body)
                  [] OTHER                -> 0,
          0, lines)

IsReturn(line)    == line.do \in {"leave", "null"}
Terminal(line)    == IsReturn(line) \/ line.do \in {"continue", "break"}
Terminates(lines) == lines # <<>> /\ Terminal(Last(lines))

\* How many of the first lines are ifs without an else that do only.
Guards(lines, only) ==
  LET isOne(line) == line.do = "if" /\ line.else = <<>> /\ line.then = <<only>>
      others      == {k \in DOMAIN lines : ~isOne(lines[k])}
  IN  IF others = {} THEN Len(lines) ELSE Min(others) - 1

\* redundant_guarded_return_chain, for the return that ends it: what it spans.
ReturnChain(lines, ret) ==
  LET n == Guards(lines, ret)
  IN  IF n > 0 /\ n < Len(lines) /\ lines[n + 1] = ret THEN n + 1 ELSE 0

GuardedReturns(lines) ==
  /\ lines # <<>> /\ lines[1].do = "if" /\ Len(lines[1].then) = 1
  /\ IsReturn(lines[1].then[1])
  /\ ReturnChain(lines, lines[1].then[1]) > 0

\* collapse_guarded_returns_inside_if.
OnlyReturns(line) ==
  /\ line.do = "if" /\ line.else = <<>> /\ line.then # <<>>
  /\ IsReturn(Last(line.then))
  /\ Len(line.then) > 1
  /\ ReturnChain(line.then, Last(line.then)) = Len(line.then)

\* An if that does nothing but ask again.
LoneGuard(line) ==
  /\ line.do = "if" /\ Len(line.then) = 1
  /\ line.then[1].do = "if" /\ line.then[1].else = <<>>

RECURSIVE Lowered(_)
Lowered(lines) ==
  FlattenSeq([k \in DOMAIN lines |->
    LET line == lines[k] IN
      CASE line.do = "lower" -> <<>>
        [] line.do = "if"    -> <<Guard(line.cond, Lowered(line.then), Lowered(line.else))>>
        [] line.do = "loop"  -> <<While(line.flag, Lowered(line.body))>>
        [] OTHER             -> <<line>>])

-----------------------------------------------------------------------------
(* One pass.                                                                *)

\* A pass goes on behind the lines a pattern spanned, and into a line that none
\* began with.
RECURSIVE Pass(_)

\* bool flag = true; while (flag) without a continue.
Unflagged(lines) == Lowered(lines[2].body) \o Pass(SubSeq(lines, 3, Len(lines)))

\* while (true) without a continue whose body ends a path; where that is a break,
\* the break stays.
Unwrapped(lines) == lines[1].body \o Pass(Tail(lines))

\* while (true) that ends in a break and continues twice or more.
Flagged(lines) ==
  <<Declare, While(TRUE, Append(Front(lines[1].body), Lower))>> \o Pass(Tail(lines))

ReturnsOnce(lines) ==
  LET ret == lines[1].then[1]
  IN  <<ret>> \o Pass(SubSeq(lines, ReturnChain(lines, ret) + 1, Len(lines)))

ReturnsOnceInside(lines) ==
  <<Guard(lines[1].cond, <<Last(lines[1].then)>>, <<>>)>> \o Pass(Tail(lines))

ContinuesOnce(lines) ==
  LET n == Guards(lines, Continue)
  IN  <<Guard(Or([k \in 1 .. n |-> lines[k].cond]), <<Continue>>, <<>>)>>
        \o Pass(SubSeq(lines, n + 1, Len(lines)))

\* The else of the outer if is not asked about: it follows what was merged.
GuardsMerged(lines) ==
  LET inner == lines[1].then[1]
  IN  <<Guard(And(lines[1].cond, inner.cond), inner.then, Pass(lines[1].else))>>
        \o Pass(Tail(lines))

\* Mutant: whatever the first arm ends with.
HoistsAny(line) == line.do = "if" /\ line.then # <<>> /\ line.else # <<>>

Hoists(line) == line.do = "if" /\ line.else # <<>> /\ Terminates(line.then)

ElseHoisted(lines) ==
  <<Guard(lines[1].cond, lines[1].then, <<>>)>> \o lines[1].else \o Pass(Tail(lines))

Negated(lines) ==
  <<Guard(Not(lines[1].cond), lines[1].else, <<>>)>> \o Pass(Tail(lines))

Into(line) ==
  CASE line.do = "if"   -> Guard(line.cond, Pass(line.then), Pass(line.else))
    [] line.do = "loop" -> While(line.flag, Pass(line.body))
    [] OTHER            -> line

\* The patterns in the order they are tried.
Pass(lines) ==
  IF lines = <<>> THEN <<>>
  ELSE LET line    == lines[1]
           endless == line.do = "loop" /\ ~line.flag
       IN
  IF line.do = "declare" /\ ContinueCount(lines[2].body) = 0                THEN Unflagged(lines)
  ELSE IF endless /\ ContinueCount(line.body) = 0 /\ Terminates(line.body)  THEN Unwrapped(lines)
  ELSE IF endless /\ ContinueCount(line.body) > 1 /\ Last(line.body) = Break THEN Flagged(lines)
  ELSE IF GuardedReturns(lines)                                            THEN ReturnsOnce(lines)
  ELSE IF OnlyReturns(line)                                                THEN ReturnsOnceInside(lines)
  ELSE IF Guards(lines, Continue) > 1                                      THEN ContinuesOnce(lines)
  ELSE IF LoneGuard(line)                                                  THEN GuardsMerged(lines)
  ELSE IF Hoists(line)                                                     THEN ElseHoisted(lines)
  ELSE IF line.do = "if" /\ line.then = <<>> /\ line.else # <<>>            THEN Negated(lines)
  ELSE IF Terminal(line)                                                   THEN <<line>>
  ELSE <<Into(line)>> \o Pass(Tail(lines))

RECURSIVE MergesBeforeElse(_)
MergesBeforeElse(lines) ==
  \E k \in DOMAIN lines :
    LET line == lines[k] IN
    \/ line.do = "if" /\ \/ LoneGuard(line) /\ line.else # <<>>
                         \/ MergesBeforeElse(line.then) \/ MergesBeforeElse(line.else)
    \/ line.do = "loop" /\ MergesBeforeElse(line.body)

-----------------------------------------------------------------------------
(* emit_with_provenance, after the helpers.                                 *)

CompactInit ==
  /\ EmitInit
  /\ laid = <<>> /\ text = <<>> /\ passes = 0 /\ crossed = FALSE

Emit == EmitNext /\ UNCHANGED textVars

Branching == {b \in DOMAIN ir : Len(ir[b]) = 2}

LayOut ==
  /\ stage \in {"structured", "emitted"}
  /\ \E others \in SUBSET (DOMAIN ir \ Branching) :
       laid' = Lay(IF stage = "structured" THEN emitter.lines ELSE fallback.lines,
                   Branching \union others)
  /\ text' = laid'
  /\ stage' = "compacting"
  /\ UNCHANGED <<ir, registers, regions, emitter, walkVars, passes, crossed>>

CompactPass ==
  /\ stage = "compacting"
  /\ passes < MaxPasses
  /\ text' = Pass(text)
  /\ text' # text
  /\ passes' = passes + 1
  /\ crossed' = (crossed \/ MergesBeforeElse(text))
  /\ UNCHANGED <<vars, laid>>

CompactNext == Emit \/ LayOut \/ CompactPass

CompactSpec == CompactInit /\ [][CompactNext]_allVars

-----------------------------------------------------------------------------
(* What a text does.                                                        *)

RECURSIVE Holds(_, _)
Holds(cond, outcome) ==
  CASE cond.op = "test" -> outcome[cond.of]
    [] cond.op = "not"  -> ~Holds(cond.of, outcome)
    [] cond.op = "and"  -> \A k \in DOMAIN cond.of : Holds(cond.of[k], outcome)
    [] cond.op = "or"   -> \E k \in DOMAIN cond.of : Holds(cond.of[k], outcome)

End  == [do |-> "end"]
Spin == [do |-> "spin"]   \* round a loop that prints nothing

\* The first line met that says what happens, under one outcome of every test.
RECURSIVE Met(_, _, _)
Met(lines, context, outcome) ==
  IF lines = <<>> THEN context.after
  ELSE LET line == lines[1]
           next == [context EXCEPT !.after = Met(Tail(lines), context, outcome)]
       IN CASE line.do = "break"    -> context.break
            [] line.do = "continue" -> context.continue
            [] line.do = "declare"  -> next.after
            [] line.do = "lower"    -> context.break
            [] line.do = "if"       -> Met(IF Holds(line.cond, outcome) THEN line.then ELSE line.else,
                                           next, outcome)
            [] line.do = "loop"     -> Met(line.body, [after |-> Spin, continue |-> Spin,
                                                       break |-> next.after], outcome)
            [] OTHER                -> line

\* What is met after every block's lines.
RECURSIVE Moves(_, _, _)
Moves(lines, context, outcome) ==
  UNION {LET line == lines[k]
             past == Met(SubSeq(lines, k + 1, Len(lines)), context, outcome)
             next == [context EXCEPT !.after = past]
         IN CASE line.do = "body" -> {<<line, past>>}
              [] line.do = "if"   -> Moves(line.then, next, outcome)
                                       \union Moves(line.else, next, outcome)
              [] line.do = "loop" ->
                   LET top == Met(line.body, [after |-> Spin, continue |-> Spin,
                                              break |-> past], outcome)
                   IN  Moves(line.body, [after |-> top, continue |-> top, break |-> past], outcome)
              [] OTHER            -> {} : k \in DOMAIN lines}

Ground == [after |-> End, break |-> End, continue |-> End]

-----------------------------------------------------------------------------
(* Properties.                                                              *)

\* No pass changes what a text does: whatever every test turns out to be, the same
\* block or return is met first, and after every block that is left the same one as
\* before; except once a guard that had an else of its own was merged with the
\* guard inside, by which the else is run when only the second of them fails.
CompactionKeepsTheRuns ==
  stage = "compacting" /\ ~crossed =>
    \A outcome \in [Branching -> BOOLEAN] :
      /\ Met(text, Ground, outcome) = Met(laid, Ground, outcome)
      /\ Moves(text, Ground, outcome) \subseteq Moves(laid, Ground, outcome)

\* how-it-works.md on nested guards: the ifs that become one are those without
\* more, so that both mean the same.
GuardsMergeAlone ==
  stage = "compacting" =>
    \A outcome \in [Branching -> BOOLEAN] :
      Met(text, Ground, outcome) = Met(laid, Ground, outcome)
=============================================================================
