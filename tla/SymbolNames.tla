---------------------------- MODULE SymbolNames -----------------------------
(***************************************************************************)
(* The names a decompile run calls functions by (core, pipeline/runners.rs  *)
(* and runners/symbols.rs): those of the model, canonical where its library *)
(* is a known one, then what the object pool says of its targets, then ELF  *)
(* files and symbol maps, then the runtime stubs; a name gives way to a     *)
(* better one only.                                                         *)
(*                                                                         *)
(* A name is a tuple: <<text>>, or what a name was composed of.             *)
(***************************************************************************)
EXTENDS TargetScope, StubNames, SymbolMap

CONSTANTS
  Generic,    \* texts a tool made of an address
  Token,      \* text |-> what sanitize_symbol_token_stream leaves of it, or Nothing
  Normal,     \* text |-> what normalize_external_symbol_name makes of it, or Nothing
  Segment     \* library |-> the part of a canonical name it gives, or Nothing

VARIABLES
  names,     \* address |-> name
  quality,   \* address |-> how good it is
  sources,   \* what is merged into the names of the model, in this order, each names and their quality
  merged     \* how many of them have been

nameVars == <<names, quality, sources, merged>>

\* SymbolNameQuality.
Placeholder == 0
Heuristic == 1
External == 2
Exact == 3
QualityOf(prov) == CASE prov = "exact" -> Exact [] prov = "derived" -> External [] OTHER -> Heuristic

---------------------------------------------------------------------------
(* symbols.rs: the names of the model.                                      *)

\* canonical_standard_model_name: for a function of the SDK or the framework, or <<>>.
StandardName(model, f) ==
  LET uri == Uri(model, f)
      method == IF f.name \in Generic THEN Nothing ELSE Token[f.name]
      owner == IF OwnerName(model, f) = Nothing THEN Nothing ELSE Token[OwnerName(model, f)]
  IN  CASE method \in Generic \union {Nothing} \/ uri = Nothing -> <<>>
        [] OTHER ->
           CASE UriKind[uri] = "stdlib" /\ Segment[uri] # Nothing -> <<"dart", Segment[uri], method>>
             [] UriKind[uri] = "framework" /\ Segment[uri] # Nothing /\ owner # Nothing ->
                  <<"flutter", Segment[uri], owner, method>>
             [] OTHER -> <<>>

\* The name and quality a function comes with.
Resolved(model, f, request) ==
  IF request.canonical /\ StandardName(model, f) # <<>>
  THEN [name |-> StandardName(model, f), quality |-> Heuristic]
  ELSE [name |-> <<f.name>>, quality |-> QualityOf(f.nameProv)]

\* The functions of a run that start at an address, of which the last decides.
Starting(model, selected, va) == {i \in selected : model.functions[i].start = va}
Naming(model, selected) == {i \in selected : model.functions[i].name # Nothing}

ModelNames(model, selected, request) ==
  [va \in {model.functions[i].start : i \in Naming(model, selected)} |->
     Resolved(model, model.functions[Max(Starting(model, selected, va) \cap Naming(model, selected))], request).name]

ModelQuality(model, selected, request) ==
  [va \in {model.functions[i].start : i \in selected} |->
     LET last == Max(Starting(model, selected, va))
     IN  IF last \notin Naming(model, selected) THEN Placeholder
         ELSE Resolved(model, model.functions[last], request).quality]

---------------------------------------------------------------------------
(* symbols.rs: the names of what the pool points at.                        *)

\* build_function_metadata_lookup: of the first function there that says anything of itself.
Said(model, f) == [name |-> f.name, owner |-> OwnerName(model, f), library |-> Uri(model, f)]
NothingSaid == [name |-> Nothing, owner |-> Nothing, library |-> Nothing]
Metadata(model, va) ==
  LET there == {i \in DOMAIN model.functions : model.functions[i].start = va /\ Said(model, model.functions[i]) # NothingSaid}
  IN  IF there = {} THEN NothingSaid ELSE Said(model, model.functions[Min(there)])

\* The first hint about an address.
HintAt(hints, va) ==
  LET at == SelectInSeq(hints, LAMBDA h : h.target = va)
  IN  IF at = 0 THEN [selector |-> Nothing, owner |-> Nothing, library |-> Nothing] ELSE hints[at]

FirstOf(a, b) == IF a # Nothing THEN a ELSE b

\* build_pool_semantic_hints: what is known of an entry's target, the model before the hints.
Semantics(model, hints, e) ==
  LET f == IF e.target = None THEN NothingSaid ELSE Metadata(model, e.target)
      h == HintAt(hints, e.target)
      named == IF f.name \in Generic THEN Nothing ELSE f.name
  IN  [selector |-> FirstOf(IF e.kind = "selector" THEN e.value ELSE Nothing, FirstOf(named, h.selector)),
       owner |-> FirstOf(f.owner, h.owner), library |-> FirstOf(f.library, h.library)]

\* build_pool_value_hints, where a target's name falls back on it.
ValueHint(e) == IF e.kind \in {"string", "selector", "field"} THEN e.value ELSE Nothing

Family(uri) == CASE UriKind[uri] = "stdlib" -> "dart" [] UriKind[uri] = "framework" -> "flutter" [] OTHER -> "package"

\* build_pool_target_symbols: the name an entry gives its target, or <<>>.
TargetName(model, hints, e) ==
  LET s == Semantics(model, hints, e)
      selector == FirstOf(s.selector, ValueHint(e))
      owner == IF s.owner = Nothing THEN Nothing ELSE Token[s.owner]
      method == IF selector = Nothing THEN Nothing ELSE Token[selector]
  IN  IF Nothing \in {owner, method, s.library} \/ UriKind[s.library] = "unknown" \/ Segment[s.library] = Nothing THEN <<>>
      ELSE <<Family(s.library), Segment[s.library], owner, IF method = owner THEN "new" ELSE method>>

\* The names a target is given, by one entry or another.
TargetNames(model, hints, va) ==
  {TargetName(model, hints, e) : e \in {d \in Range(model.pool.entries) : d.target = va}} \ {<<>>}

PoolTargets(model, hints, request) ==
  IF request.canonical /\ request.pool /\ model.pool.space = "hardware"
  THEN {va \in {e.target : e \in Range(model.pool.entries)} \ {None} : TargetNames(model, hints, va) # {}}
  ELSE {}

---------------------------------------------------------------------------
(* merge_symbol_name.                                                       *)

\* normalize_external_symbol_name leaves a composed name alone.
Normalized(name) == IF Len(name) # 1 THEN name ELSE IF Normal[name[1]] = Nothing THEN <<>> ELSE <<Normal[name[1]]>>

Source(given, q) == [names |-> [va \in DOMAIN given |-> Normalized(given[va])], quality |-> q]
Texts(given) == [va \in DOMAIN given |-> <<given[va]>>]

\* Mutant: a name as good as the one there replaces it.
ReplacesEqual(source) ==
  {va \in DOMAIN source.names : source.names[va] # <<>> /\ (va \notin DOMAIN names \/ source.quality >= quality[va])}

\* Where a source's name is taken.
Replaces(source) ==
  {va \in DOMAIN source.names : source.names[va] # <<>> /\ (va \notin DOMAIN names \/ source.quality > quality[va])}

NamesInit == names = <<>> /\ quality = <<>> /\ sources = <<>> /\ merged = 0

\* The names of the model, and the sources that will be asked, in their order; the pool's
\* targets are met in the order of a hash map, and the first name of one stays.  The decoded
\* functions have the names of the model again; a piece that was split off (FunctionSplit) has
\* none, and takes that of the first source that has one, as any address does without.
NameModel(model, selected, hints, request, externals, stubs) ==
  /\ names' = ModelNames(model, selected, request)
  /\ quality' = ModelQuality(model, selected, request)
  /\ \E given \in [PoolTargets(model, hints, request) -> UNION {TargetNames(model, hints, va) : va \in PoolTargets(model, hints, request)}] :
       /\ \A va \in DOMAIN given : given[va] \in TargetNames(model, hints, va)
       /\ sources' = <<Source(given, Heuristic)>> \o externals \o <<Source(stubs, Exact)>>
  /\ merged' = 0

MergeNames ==
  /\ merged < Len(sources)
  /\ LET source == sources[merged + 1]
     IN  /\ names' = Over([va \in Replaces(source) |-> source.names[va]], names)
         /\ quality' = Over([va \in Replaces(source) |-> source.quality], quality)
  /\ merged' = merged + 1
  /\ UNCHANGED sources

AllMerged == merged = Len(sources)
=============================================================================
