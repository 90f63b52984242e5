---------------------------- MODULE CoreRecovery ----------------------------
(***************************************************************************)
(* flutterdec-core/src/pipeline/fallback.rs: the model core makes itself   *)
(* from instruction bytes alone, when no adapter may.                      *)
(*                                                                         *)
(* A file's code says what the instruction at each file offset is:         *)
(* "prologue" (a frame-record store), "epilogue" (a load of one that moves *)
(* no register but these and the stack pointer), "plain", "bad" (no        *)
(* instruction), or a bl with its signed displacement in instructions.     *)
(***************************************************************************)
EXTENDS ProgramModel, SequencesExt

CONSTANTS Word,              \* bytes of an instruction (4)
          MaxCandidateSize   \* MAX_CANDIDATE_SIZE

ASSUME RecoveryAssumption ==
  Word \in Nat \ {0} /\ MaxCandidateSize \in Nat \ {0} /\ MaxCandidateSize % Word = 0

MinCallTargetHits == 2
Kinds == {"plain", "prologue", "bad"}

\* instr.chunks_exact: the offsets in the region of its whole instructions, wherever they start.
Chunks(region) == {k * Word : k \in 0..(region.size \div Word) - 1}

\* decode_bl_target: None below zero or past the last address.
BlTarget(pc, word) ==
  IF word[1] # "bl" THEN None
  ELSE LET to == pc + word[2] * Word IN IF to < 0 \/ to >= Top THEN None ELSE to

\* Mutant: a target is counted wherever it lands between two instructions.
InRegionAnywhere(region, va) == va >= region.va /\ va < Plus(region.va, region.size)

\* The closure in_region.
InRegion(region, va) ==
  va >= region.va /\ va < Plus(region.va, region.size) /\ (va - region.va) % Word = 0

Instruction(file, region, o) == file.code[region.offset + o]

\* is_frame_prologue: the bit that tells a load from a store is not looked at.
Prologues(file, region) ==
  {region.va + o :
     o \in {c \in Chunks(region) : Instruction(file, region, c)[1] \in {"prologue", "epilogue"}}}

\* The calls that land in the region: offset of each, with its target.
Calls(file, region) ==
  {c \in Chunks(region) \X (region.va..Plus(region.va, region.size) - 1) :
     c[2] = BlTarget(region.va + c[1], Instruction(file, region, c[1])) /\ InRegion(region, c[2])}

Hits(file, region, va) == Cardinality({c \in Calls(file, region) : c[2] = va})

\* Where functions start: the region's base, each prologue, and what is called often enough.
Starts(file, region) ==
  Prologues(file, region)
  \union (IF region.size = 0 THEN {} ELSE {region.va})
  \union {c[2] : c \in {k \in Calls(file, region) : Hits(file, region, k[2]) >= MinCallTargetHits}}

\* Mutant: the last candidate may run past the end of the region.
SizeUnclamped(region, starts, start) ==
  LET after == {s \in starts : s > start}
  IN  IF after = {} \/ Min(after) - start > MaxCandidateSize THEN MaxCandidateSize ELSE Min(after) - start

\* Up to the next start, or the end, and no further than a candidate may reach.
CandidateSize(region, starts, start) ==
  LET after == {s \in starts : s > start}
      next == IF after = {} THEN Plus(region.va, region.size) ELSE Min(after)
  IN  IF next - start > MaxCandidateSize THEN MaxCandidateSize ELSE next - start

\* The k-th least of a set of numbers.
Least(S, k) == CHOOSE s \in S : Cardinality({t \in S : t <= s}) = k

\* recover_code_candidates: ascending, with dense ids, nothing where the region overflows.
Candidates(file, region) ==
  LET starts == Starts(file, region)
      ordered == [k \in 1..Cardinality(starts) |-> Least(starts, k)]
  IN  IF Plus(region.va, region.size) = None THEN <<>>
      ELSE [i \in DOMAIN ordered |->
             [id |-> i - 1, name |-> Nothing, nameProv |-> Nothing, confidence |-> Nothing,
              owner |-> None, start |-> ordered[i],
              size |-> CandidateSize(region, starts, ordered[i]),
              section |-> region.va, prov |-> "heuristic"]]

\* region_of, observed_regions: the four regions the loader carved, in the order of their names.
Observed(spans) ==
  [i \in DOMAIN RegionNames |->
    LET name == RegionNames[i] IN
    [name |-> name, size |-> spans[name].size, bytes |-> spans[name].offset,
     va |-> IF Executable(name) THEN spans[name].va ELSE None, executable |-> Executable(name)]]

\* What the host knows, whoever answers (core, or run_adapter for an adapter).
HostContext(bundle, producer, binding) ==
  [identity |-> bundle.identity, producer |-> producer, binding |-> binding,
   regions |-> Observed(bundle.spans)]

\* core_recovered_model: one level and one diagnostic for each domain, and functions alone.
RecoveredModel(file, bundle) ==
  LET functions == Candidates(file, bundle.spans["isolate_instructions"])
  IN  [version |-> Version, producer |-> "core", identity |-> bundle.identity, binding |-> Nothing,
       regions |-> Observed(bundle.spans),
       libraries |-> <<>>, classes |-> <<>>, functions |-> functions,
       pool |-> [space |-> "ordinal", word |-> None, entries_offset |-> 0, entries |-> <<>>],
       caps |-> [d \in Domains |->
                  IF d = "functions" /\ functions # <<>> THEN "partial" ELSE "unavailable"],
       explained |-> Domains]

=============================================================================
