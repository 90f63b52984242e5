-------------------------- MODULE FunctionSelection --------------------------
(***************************************************************************)
(* Which functions of a model a decompile run decodes: the target filter of *)
(* crates/flutterdec-core (pipeline/runners.rs) and                         *)
(* disassemble_program_with_priorities_and_package_hints of                 *)
(* crates/flutterdec-disasm-arm64.  Scores are left out: the functions of a   *)
(* request stand in the order they rank, which may be any.                   *)
(***************************************************************************)
EXTENDS Naturals, FiniteSetsExt, Sequences

\* What a run may be asked.  A request has the functions of the model, each with an
\* id, an entry, a name and an owner, and the code the image holds of it, which is
\* empty for one that cannot be decoded; the ids its scope and its focus leave; the
\* pairs of an entry and a start-up category known for it, if seeding is on; and,
\* each if given, a target and a cap.
CONSTANTS Requests, NoName

VARIABLES
  request,
  chosen,     \* the functions decoded, by their rank, in their order
  selection   \* asked, made, or refused

selectVars == <<request, chosen, selection>>

SelectInit ==
  /\ request \in Requests
  /\ chosen = <<>>
  /\ selection = "asked"

-----------------------------------------------------------------------------
(* The candidates, by their rank.                                           *)

\* function_matches_target.
Matches(c, target) ==
  CASE target.by = "id"  -> c.id = target.value
    [] target.by = "va"  -> c.entry = target.value
    [] target.by = "any" -> target.value \in {c.id, c.entry}

Scoped(r) == {i \in DOMAIN r.functions : r.functions[i].id \in r.scope}

\* What a target names in the scope or, if that is nothing, anywhere.
Targeted(r, target) ==
  LET named == {i \in DOMAIN r.functions : Matches(r.functions[i], target)} IN
  IF named \cap Scoped(r) # {} THEN named \cap Scoped(r) ELSE named

\* It must name something, and one thing when it does not say by what.
Unanswerable(r, target) ==
  LET named == Targeted(r, target) IN
  named = {} \/ (target.by = "any" /\ Cardinality(named) > 1)

\* A target takes the place of the focus and of the cap.
Ranked(r) ==
  IF r.target = {} THEN {i \in Scoped(r) : r.functions[i].id \in r.focus}
  ELSE UNION {Targeted(r, target) : target \in r.target}

Cap(r) == IF r.target = {} THEN r.max ELSE {}

\* decode_function finds something to decode.
Decodes(c) == DOMAIN c.code # {}

-----------------------------------------------------------------------------
(* The choice.                                                              *)

\* BOOTFLOW_SEED_CATEGORY_ORDER.
Categories == <<"main", "runapp", "deeplink", "activity", "bootstrap">>

EntriesOf(r, picked) == {r.functions[picked[k]].entry : k \in DOMAIN picked}

OfCategory(r, n) == {i \in Ranked(r) : <<r.functions[i].entry, Categories[n]>> \in r.flow}

\* For every category, its best function at an entry that is not one of them yet.
SeedEntries(r) ==
  LET seeds[n \in Nat] ==
        IF n = 0 THEN <<>>
        ELSE LET before == seeds[n - 1]
                 fresh  == {i \in OfCategory(r, n) : r.functions[i].entry \notin EntriesOf(r, before)}
             IN  IF fresh = {} THEN before ELSE Append(before, Min(fresh))
  IN  seeds[Len(Categories)]

SameName(c, d)  == c.name = d.name
SameOwner(c, d) == c.name = d.name /\ c.owner = d.owner

\* Mutant: a name may go on with one owner after the other.
CrowdedByOwner(r, i, picked) ==
  LET c == r.functions[i]
  IN  c.name # NoName /\ \E k \in DOMAIN picked : SameOwner(c, r.functions[picked[k]])

\* Two of its name, or one of its owner and name, are there; a function without a
\* name crowds nobody out.
Crowded(r, i, picked) ==
  LET c == r.functions[i] IN
  /\ c.name # NoName
  /\ \/ Cardinality({k \in DOMAIN picked : SameName(c, r.functions[picked[k]])}) >= 2
     \/ \E k \in DOMAIN picked : SameOwner(c, r.functions[picked[k]])

\* Under a cap there must be room, and its entry must be new.
Fits(r, i, picked) ==
  \A max \in Cap(r) : Len(picked) < max /\ r.functions[i].entry \notin EntriesOf(r, picked)

\* One more, when it fits and decodes.
Pick(r, i, picked) ==
  IF Fits(r, i, picked) /\ Decodes(r.functions[i]) THEN Append(picked, i) ELSE picked

\* A seed is the best function at its entry; if that one does not decode, no other
\* is tried here.
Seeded(r) ==
  LET seeds == SeedEntries(r)
      picked[n \in Nat] == IF n = 0 THEN <<>> ELSE Pick(r, seeds[n], picked[n - 1])
  IN  picked[Len(seeds)]

\* The first pass puts off who is crowded out.
FirstPass(r) ==
  LET pass[n \in Nat] ==
        IF n = 0 THEN [picked |-> Seeded(r), deferred |-> {}]
        ELSE LET before == pass[n - 1]
             IN  IF n \notin Ranked(r) THEN before
                 ELSE IF Fits(r, n, before.picked) /\ Crowded(r, n, before.picked)
                 THEN [before EXCEPT !.deferred = @ \union {n}]
                 ELSE [before EXCEPT !.picked = Pick(r, n, @)]
  IN  pass[Len(r.functions)]

\* All of some ranks after those that are picked, the best first.
InTurn(r, ranks, picked) ==
  LET after[n \in Nat] == IF n = 0 THEN picked
                          ELSE IF n \in ranks THEN Pick(r, n, after[n - 1]) ELSE after[n - 1]
  IN  after[Len(r.functions)]

\* Mutant: those put off are forgotten.
ChosenInOnePass(r) == FirstPass(r).picked

\* Those put off come after all others.
ChosenUnder(r) == InTurn(r, FirstPass(r).deferred, FirstPass(r).picked)

Chosen(r) == IF Cap(r) = {} THEN InTurn(r, Ranked(r), <<>>) ELSE ChosenUnder(r)

-----------------------------------------------------------------------------
Refuse ==
  /\ selection = "asked"
  /\ \E target \in request.target : Unanswerable(request, target)
  /\ selection' = "refused"
  /\ UNCHANGED <<request, chosen>>

Disassemble ==
  /\ selection = "asked"
  /\ \A target \in request.target : ~Unanswerable(request, target)
  /\ selection' = "made"
  /\ chosen' = Chosen(request)
  /\ UNCHANGED request

-----------------------------------------------------------------------------
(* Properties.                                                              *)

\* Without a cap every candidate that decodes goes on.  A cap is used up while there
\* is an entry to decode, and never spent twice on one; the best function of each
\* start-up category is in, as far as the cap reaches; and apart from those, nobody is
\* passed over for a function that ranks lower or repeats a name, unless repeating
\* one, and then for none that ranks lower and repeats its owner and name.
SelectionIsBest ==
  selection = "made" =>
    LET fs      == request.functions
        decoded == {i \in Ranked(request) : Decodes(fs[i])}
        kept    == {chosen[k] : k \in DOMAIN chosen}
        entries == EntriesOf(request, chosen)
        seeds   == {i \in kept : fs[i].entry \in EntriesOf(request, SeedEntries(request))}
        ahead(i) == {k \in kept \ {i} : k < i} \union (seeds \ {i})
        TwiceOfOwner(i) == fs[i].name # NoName /\ \E k \in ahead(i) : SameOwner(fs[i], fs[k])
        ThriceOfName(i) == /\ fs[i].name # NoName
                           /\ Cardinality({k \in ahead(i) : SameName(fs[i], fs[k])}) >= 2
        Repeats(i) == TwiceOfOwner(i) \/ ThriceOfName(i)
        passedOver == {i \in decoded : fs[i].entry \notin entries}
    IN
    /\ Cap(request) = {} => kept = decoded
    /\ \A max \in Cap(request) :
         /\ Len(chosen) = Cardinality(entries)
         /\ Len(chosen) = Min({max, Cardinality({fs[i].entry : i \in decoded})})
         /\ \A n \in DOMAIN Categories : \A i \in OfCategory(request, n) \cap decoded :
              n <= max /\ i = Min(OfCategory(request, n)) => fs[i].entry \in entries
         /\ \A i \in passedOver : \A j \in kept \ seeds :
              /\ i < j \/ Repeats(j) => Repeats(i)
              /\ i < j => ~TwiceOfOwner(j)
=============================================================================
