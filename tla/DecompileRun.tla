---------------------------- MODULE DecompileRun ----------------------------
(***************************************************************************)
(* run_decompile (core, pipeline/runners.rs) from an input to the values    *)
(* shown in a function's text: the program is read, its functions are       *)
(* named, and one of them is annotated.  How a function gets the body whose *)
(* lines are annotated is FunctionPipeline and Structuring.                 *)
(*                                                                         *)
(* Contents of an input are those of ProgramRead and                        *)
(*   sdk        the version its identity stands for, and the one whose      *)
(*              stubs its code holds                                        *)
(*   hints      what the host guesses of addresses                          *)
(*   externals  ELF files and symbol maps, a pair the map is made of        *)
(*   bodies     what its functions may be rendered as                       *)
(***************************************************************************)
EXTENDS ProgramRead, SymbolNames, Annotations

\* Files and maps come in a list; the symbols of a table are one too, at addresses, and a name
\* has a length; so do the sections, whose branches go some words on or back.
SymbolsOK(elf) ==
  /\ List(elf.sym) /\ List(elf.dyn)
  /\ \A s \in Range(elf.sym) \union Range(elf.dyn) : s.va \in Address /\ NameLength[s.name] \in Nat
SectionsOK(elf) ==
  \A s \in Range(elf.sections) :
    /\ s.addr \in Address /\ s.code \in Seq(Range(s.code))
    /\ \A k \in DOMAIN s.code : s.code[k][1] \in {"bl", "b"} => s.code[k][2] \in Int
ExternalOK(x) ==
  /\ x.kind \in {"elf", "map"}
  /\ x.kind = "elf" => SymbolsOK(x.elf)
  /\ x.kind = "map" => SymbolsOK(x.pair.unstripped) /\ SectionsOK(x.pair.stripped) /\ x.pair.reach \in Nat

ASSUME ExternalsAssumption ==
  \A i \in Inputs : List(Contents(i).externals) /\ \A x \in Range(Contents(i).externals) : ExternalOK(x)

\* A finished line comes of a rendered one or of none; no pass reorders them (emit.rs:946).  What
\* a merge was rendered as are lines of the function, and a call is noted for the line that comes
\* next.
BodyOK(b) ==
  /\ List(b.rendered) /\ Range(b.rendered) \subseteq DOMAIN ReadsOf
  /\ List(b.finished)
  /\ \A line \in Range(b.finished) : line.code \in DOMAIN ReadsOf /\ line.from \in 0..Len(b.rendered)
  /\ \A q, r \in DOMAIN b.finished :
       q < r /\ b.finished[q].from # 0 /\ b.finished[r].from # 0 => b.finished[q].from < b.finished[r].from
  /\ \A key \in DOMAIN b.candidates :
       key = <<key[1], key[2]>> /\ b.candidates[key].values \in Seq(DOMAIN Gate)
  /\ List(b.anchors)
  /\ \A a \in Range(b.anchors) :
       /\ a.first \in Nat \ {0} /\ a.last \in Nat
       /\ a.first <= a.last + 1 /\ a.last <= Len(b.rendered)
  /\ List(b.calls)
  /\ \A c \in Range(b.calls) : c.line \in DOMAIN b.rendered /\ c.value \in DOMAIN Gate

ASSUME BodiesAssumption == \A i \in Inputs : \A b \in Contents(i).bodies : BodyOK(b)

VARIABLE
  naming    \* what shared_stub_names found

runVars == <<readVars, nameVars, notesVars, naming>>

NoBody == [rendered |-> <<>>, finished |-> <<>>, candidates |-> <<>>, loops |-> {}, anchors |-> <<>>, calls |-> <<>>]
Of == Contents(input)

RunInit ==
  /\ ReadInit
  /\ NamesInit
  /\ NotesInit({NoBody})
  /\ naming = Nothing

Read ==
  /\ ReadNext
  /\ UNCHANGED <<nameVars, notesVars, naming>>

\* The decoded functions' instructions, by address.
Listings ==
  [va \in {Fn(i).start : i \in DOMAIN listing} |->
     LET i == CHOOSE k \in DOMAIN listing : Fn(k).start = va
     IN  [k \in DOMAIN listing[i] |-> file.code[listing[i][k].offset]]]

Compressed == PointerCompression(bundle.identity) = "compressed"

\* load_elf_function_symbols, load_symbol_target_symbols.
Given(of, external) ==
  IF external.kind = "elf" THEN ElfSymbols(external.elf) ELSE Taken(Summary(external.pair), of.request.nearest)
\* A file that cannot be read, or a map that was never written.
Unreadable ==
  \E x \in Range(Of.externals) :
    (x.kind = "elf" /\ ~x.elf.reads) \/ (x.kind = "map" /\ MapRefused(x.pair))

Name ==
  /\ phase = "done"
  /\ ~Unreadable
  /\ \E of \in {Of}, code \in {Listings}, chosen \in {Chosen} :
       LET given == [k \in DOMAIN of.externals |-> Source(Texts(Given(of, of.externals[k])), External)]
       IN  /\ naming' = StubNaming(code, of.sdk.claimed, Compressed)
           /\ NameModel(model, chosen, of.hints, of.request, given, naming'.names)
  /\ phase' = "name"
  /\ UNCHANGED <<loadVars, notesVars>>

\* Either ends the run.
NoMap ==
  /\ phase = "done"
  /\ Unreadable
  /\ phase' = "failed"
  /\ UNCHANGED <<loadVars, nameVars, notesVars, naming>>

Merge ==
  /\ phase = "name"
  /\ MergeNames
  /\ UNCHANGED <<readVars, notesVars, naming>>

\* A function is emitted.
Emit ==
  /\ phase = "name" /\ AllMerged
  /\ body' \in Of.bodies
  /\ phase' = "notes"
  /\ UNCHANGED <<loadVars, nameVars, naming, next, inserts, ledger, spans, records, audit>>

Annotate ==
  /\ phase = "notes"
  /\ NotesNext
  /\ UNCHANGED <<readVars, nameVars, naming>>

RunNext == Read \/ Name \/ NoMap \/ Merge \/ Emit \/ Annotate

RunSpec == RunInit /\ [][RunNext]_runVars

---------------------------------------------------------------------------

AllNamed == phase = "name" /\ AllMerged

\* Every function of the run starts where no other does.
Apart == \A i, j \in Chosen : Fn(i).start = Fn(j).start => i = j

\* What an address is offered, source by source, the model's own being 0.
NamesOffered ==
  LET request == Of.request
      chosen == Chosen
      own == ModelNames(model, chosen, request)
      rated == ModelQuality(model, chosen, request)
      named(k) == IF k = 0 THEN DOMAIN own ELSE {a \in DOMAIN sources[k].names : sources[k].names[a] # <<>>}
      of(a, k) == IF k = 0 THEN [name |-> own[a], quality |-> rated[a]]
                  ELSE [name |-> sources[k].names[a], quality |-> sources[k].quality]
  IN  [a \in DOMAIN names |-> [k \in {j \in 0..Len(sources) : a \in named(j)} |-> of(a, k)]]

\* An address has the best name it was offered, the first of those, and is rated as that one
\* is (SymbolNameQuality); what is rated exact is what the model itself says exactly, as it is
\* spelled there, or what the code of a stub says; where each function starts by itself.
NamesAreBest ==
  AllNamed /\ Apart =>
    LET offered == NamesOffered
    IN  /\ \A va \in DOMAIN names :
             \E k \in DOMAIN offered[va] :
               /\ offered[va][k] = [name |-> names[va], quality |-> quality[va]]
               /\ \A j \in DOMAIN offered[va] : /\ offered[va][j].quality <= quality[va]
                                              /\ offered[va][j].quality = quality[va] => k <= j
        /\ \A va \in DOMAIN quality : quality[va] = Exact =>
             \/ \E i \in Chosen : Fn(i).start = va /\ names[va] = <<Fn(i).name>> /\ Fn(i).nameProv = "exact"
             \/ va \in DOMAIN naming.names /\ names[va] = naming.names[va]

\* What a function that loads a slot of any table really is, in the SDK its code is of.
Slots == UNION {DOMAIN Tables[v] : v \in DOMAIN Tables}
TrueTable == Tables[Of.sdk.true]
LoadsSlot(ops) == \E k \in DOMAIN ops : ops[k][1] = "ldr" /\ ops[k][3] = THR /\ ops[k][4] \in Slots

\* The code is of an SDK with a table; only its stubs and their trampolines load such a slot,
\* each its own and no other, and none of them begins as what allocates a class does.
StubsOnly ==
  LET code == Listings
      table == TrueTable
      loads(ops) == {k \in DOMAIN ops : LoadsSlot(<<ops[k]>>)}
  IN  /\ Of.sdk.true \in DOMAIN Tables
      /\ \A va \in DOMAIN code :
           /\ Cardinality(loads(code[va])) <= 1
           /\ LoadsSlot(code[va]) => \/ Hit(code[va], table) = 0
                                    \/ IsStub(code[va], table) \/ IsThunk(code[va], table)
           /\ LoadsSlot(code[va]) => AllocatedClass(code[va]) = 0
           /\ \A k \in loads(code[va]) : code[va][k][4] \in DOMAIN table

\* An identity that stands for another SDK than the code is of names no stub wrongly, ends no
\* path after a call that returns, and takes nothing for kept or written that is not
\* (stubs.rs:131, "an unknown version names nothing").
StubsAreNamedRight ==
  phase = "name" /\ StubsOnly =>
    LET code == Listings
        table == TrueTable
        allocates(va) == naming.names[va][1] = "allocate"
        slot(va) == SlotHit(code[va], table)
    IN  /\ \A va \in DOMAIN naming.names : allocates(va) \/ naming.names[va] = StubName(code[va], table)
        /\ \A va \in naming.nonReturning : IsStub(code[va], table) /\ ~slot(va).returns
        /\ \A va \in DOMAIN naming.effects :
             allocates(va) \/ [f \in {"writes", "preserves"} |-> naming.effects[va][f]]
                              = [f \in {"writes", "preserves"} |-> slot(va)[f]]

\* Neither the model nor the pool nor a stub's code names the address.
FromOutside(offers) == DOMAIN offers \intersect {0, 1, Len(sources)} = {}

\* A name from outside is a symbol's: one that stands at that address in one of the files, or,
\* where a map may say the nearest, below it with no other in between and not too far.
OutsideNamesAreSymbols ==
  AllNamed =>
    \A va \in DOMAIN names : quality[va] = External /\ FromOutside(NamesOffered[va]) =>
      \E k \in DOMAIN Of.externals :
        LET x == Of.externals[k]
            elf == IF x.kind = "elf" THEN x.elf ELSE x.pair.unstripped
            at == {s.va : s \in Usable(elf)}
        IN  \E s \in Usable(elf) :
              /\ names[va] = Normalized(<<s.name>>)
              /\ \/ s.va = va
                 \/ /\ x.kind = "map" /\ Of.request.nearest /\ s.va < va /\ va - s.va <= x.pair.reach
                    /\ \A other \in at : other <= s.va \/ other > va
=============================================================================
