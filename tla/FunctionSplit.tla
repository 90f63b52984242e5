---------------------------- MODULE FunctionSplit ----------------------------
(***************************************************************************)
(* split_inflated_records of crates/flutterdec-core (runners/split.rs): a   *)
(* record that swallowed functions the adapter missed is cut where they     *)
(* begin.  One step looks at one candidate.  A record has an id, its code,    *)
(* and whether the model declared it (a piece it did not declare has no name). *)
(***************************************************************************)
EXTENDS BlockGraph, Sequences

VARIABLES
  records,   \* the records given
  todo,      \* those still to split
  out,       \* the functions made so far
  source,    \* history: the place of the record each of them came from
  nextId,    \* the next id of a recovered function
  pc,        \* off, between records, or at the candidates of the first of todo
  ir,        \* the blocks of that record
  cand,      \* candidates still to look at
  cuts,      \* those accepted
  entry,     \* the block the current piece starts in, if there is one
  reach,     \* the highest address the current piece reaches
  rejected   \* why candidates were refused

splitVars == <<records, todo, out, source, nextId, pc, ir, cand, cuts, entry, reach, rejected>>

Reasons == {"branchTarget", "noBlock", "notContained"}

SplitInit ==
  /\ records = <<>>
  /\ todo = <<>>
  /\ out = <<>>
  /\ source = <<>>
  /\ nextId = 1
  /\ pc = "off"
  /\ ir = <<>>
  /\ cand = {}
  /\ cuts = {}
  /\ entry = {}
  /\ reach = 0
  /\ rejected = [r \in Reasons |-> 0]

-----------------------------------------------------------------------------
(* What split_points reads.                                                 *)

\* is_terminator, which ends a path at a trap and at a jump through a register
\* where the blocks of the IR go on.
Terminators == {"return", "trap", "jump"}

\* Clauses 1 and 2: after a terminator, a frame is pushed.
Candidates(code) ==
  {a \in DOMAIN code : /\ a - 1 \in DOMAIN code
                       /\ code[a - 1].op \in Terminators
                       /\ code[a].op = "push"}

\* Mutant: jumps are not looked at.
TargetsOfBranches(code, blocks) ==
  {code[a].to : a \in {b \in UNION {Addresses(blocks[i]) : i \in DOMAIN blocks} :
                         code[b].op = "branch"}}

\* Every address a branch or jump in a block of the IR names.
BranchTargets(code, blocks) ==
  {code[a].to : a \in {b \in UNION {Addresses(blocks[i]) : i \in DOMAIN blocks} :
                         code[b].op \in Aimed}}

\* Mutant: looked up among the block starts, as the comment at split.rs:91 says it
\* once was.
StartsOnly(blocks, a) == StartingAt(blocks, a)

Containing(blocks, a) == {i \in DOMAIN blocks : a \in Addresses(blocks[i])}

\* Mutant: only the block the piece starts in is asked.
HighestOfEntry(blocks, from) == Max({0} \union {blocks[i].last : i \in from})

HighestReachable(blocks, from) ==
  Max({0} \union {blocks[i].last : i \in Reached([j \in DOMAIN blocks |-> blocks[j].succs], from)})

\* A piece, from its first address up to the next.
Piece(f, from, upto, id) ==
  [id |-> id, declared |-> f.declared /\ from = f.entry, entry |-> from,
   code |-> [a \in {b \in DOMAIN f.code : from <= b /\ b < upto} |-> f.code[a]]]

\* pieces(): the first keeps the record's identity, the others get the next ids.
Pieces(f, points, id) ==
  LET starts == {f.entry} \union points
      ends   == points \union {Max(DOMAIN f.code) + 1}
  IN [k \in 1 .. Cardinality(starts) |->
        Piece(f, Nth(starts, k - 1), Nth(ends, k - 1), IF k = 1 THEN f.id ELSE id + k - 2)]

-----------------------------------------------------------------------------
(* split_inflated_records and split_points.                                 *)

f == Head(todo)
At == Len(records) - Len(todo) + 1
point == Min(cand)

SplitRecords(given) ==
  /\ pc = "off"
  /\ records' = given
  /\ todo' = given
  /\ nextId' = Max({0} \union {given[i].id : i \in DOMAIN given}) + 1
  /\ pc' = "records"
  /\ UNCHANGED <<out, source, ir, cand, cuts, entry, reach, rejected>>

\* Splitting is an option of the run.
KeepRecords(given) ==
  /\ pc = "off"
  /\ records' = given
  /\ out' = given
  /\ source' = [i \in DOMAIN given |-> i]
  /\ pc' = "records"
  /\ UNCHANGED <<todo, nextId, ir, cand, cuts, entry, reach, rejected>>

\* A record without a candidate goes out as it came in.
Pass ==
  /\ pc = "records" /\ todo # <<>>
  /\ Candidates(f.code) = {}
  /\ out' = Append(out, f)
  /\ source' = Append(source, At)
  /\ todo' = Tail(todo)
  /\ UNCHANGED <<records, nextId, pc, ir, cand, cuts, entry, reach, rejected>>

Look ==
  /\ pc = "records" /\ todo # <<>>
  /\ Candidates(f.code) # {}
  /\ pc'    = "candidates"
  /\ ir'    = BuildFunctionIr(f.code)
  /\ cand'  = Candidates(f.code)
  /\ cuts'  = {}
  /\ entry' = {0}
  /\ reach' = HighestReachable(ir', {0})
  /\ UNCHANGED <<records, todo, out, source, nextId, rejected>>

\* Clauses 3 and 4, in the order of the code.
Verdict ==
  IF point \in BranchTargets(f.code, ir) THEN "branchTarget"
  ELSE IF entry = {} THEN "noBlock"
  ELSE IF point <= reach THEN "notContained" ELSE "accepted"

Reject ==
  /\ pc = "candidates" /\ cand # {}
  /\ Verdict \in Reasons
  /\ cand' = cand \ {point}
  /\ rejected' = [rejected EXCEPT ![Verdict] = @ + 1]
  /\ UNCHANGED <<records, todo, out, source, nextId, pc, ir, cuts, entry, reach>>

\* The next piece starts here, and from here is reached what must not be cut.
Accept ==
  /\ pc = "candidates" /\ cand # {}
  /\ Verdict = "accepted"
  /\ cand'  = cand \ {point}
  /\ cuts'  = cuts \union {point}
  /\ entry' = Containing(ir, point)
  /\ reach' = HighestReachable(ir, entry')
  /\ UNCHANGED <<records, todo, out, source, nextId, pc, ir, rejected>>

\* Mutant: the ids given are not used up.
CutWithoutIds ==
  /\ pc = "candidates" /\ cand = {}
  /\ out'  = out \o Pieces(f, cuts, nextId)
  /\ source' = source \o [k \in DOMAIN Pieces(f, cuts, nextId) |-> At]
  /\ todo' = Tail(todo)
  /\ pc'   = "records"
  /\ ir' = <<>> /\ cuts' = {} /\ entry' = {} /\ reach' = 0
  /\ UNCHANGED <<records, nextId, cand, rejected>>

Cut ==
  /\ pc = "candidates" /\ cand = {}
  /\ out'    = out \o Pieces(f, cuts, nextId)
  /\ source' = source \o [k \in DOMAIN Pieces(f, cuts, nextId) |-> At]
  /\ nextId' = nextId + Cardinality(cuts)
  /\ todo'   = Tail(todo)
  /\ pc'     = "records"
  /\ ir' = <<>> /\ cuts' = {} /\ entry' = {} /\ reach' = 0
  /\ UNCHANGED <<records, cand, rejected>>

SplitNext ==
  Pass \/ Look \/ Reject \/ Accept \/ Cut

-----------------------------------------------------------------------------
(* Properties.                                                              *)

Done == pc = "records" /\ todo = <<>>

\* The record a function came from.
Source(i) == records[source[i]]

\* The blocks of every record, and again of every function made of it, are its
\* code: block by block, edge by edge, with nothing lost but what only a guard that
\* was taken out led to (build_function_ir runs on both), however the slow paths lie.
GraphIsTheCode ==
  /\ pc = "candidates" => /\ PartitionsTheCode(f.code, ir)
                          /\ FollowsTheCode(f.code, ir)
  /\ Done => \A i \in DOMAIN out :
       LET graph == BuildFunctionIr(out[i].code) IN
       /\ PartitionsTheCode(out[i].code, graph)
       /\ FollowsTheCode(out[i].code, graph)

\* split.rs:16: "Candidates abandoned because the preceding piece had no block.
\* Should stay zero".
NoBlockStaysZero ==
  (\A i \in DOMAIN records : OwnSlowPaths(records[i].code)) => rejected["noBlock"] = 0

\* No cut amputates: whatever the code of a record runs to from a function's
\* entry, as long as it does not go back before that entry, is in the function,
\* and the blocks the function is emitted from reach it.  Nor is a candidate given up
\* because nothing stands before it.  Both where every guard of the record has a slow
\* path of its own: another may hold what a cut is decided by.
NothingAmputated ==
  /\ NoBlockStaysZero
  /\ Done => \A i \in DOMAIN out : OwnSlowPaths(Source(i).code) =>
       LET g     == out[i]
           code  == Source(i).code
           ahead == [a \in {b \in DOMAIN code : b >= g.entry} |-> code[a]]
           graph == BuildFunctionIr(g.code)
           shown == Reached([k \in DOMAIN graph |-> graph[k].succs], {0})
       IN RunsTo(ahead, g.entry) = UNION {Addresses(graph[k]) : k \in shown}

\* A function no path of its record falls or branches into: a cut is never
\* crossed from below by code that was emitted, where slow paths are their guards' own.
CutsAreEntries ==
  Done => \A i \in DOMAIN out :
    LET code == Source(i).code IN
    OwnSlowPaths(code) /\ out[i].entry # Source(i).entry =>
      /\ out[i].entry \notin RunsToGuarded(code, Source(i).entry)
      /\ \A a \in DOMAIN code : code[a].op \in Aimed => code[a].to # out[i].entry

\* Every instruction goes out as often as it came in, in the functions of its own
\* record, and every function has an id of its own.
OutputIsTheInput ==
  Done =>
    /\ \A i \in DOMAIN records : \A a \in DOMAIN records[i].code :
         Cardinality({j \in DOMAIN out : source[j] = i /\ a \in DOMAIN out[j].code}) = 1
    /\ \A j \in DOMAIN out : \A a \in DOMAIN out[j].code :
         a \in DOMAIN Source(j).code /\ out[j].code[a] = Source(j).code[a]
    /\ \A i, j \in DOMAIN out : i < j => out[i].id # out[j].id

=============================================================================
