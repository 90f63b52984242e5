---------------------------- MODULE ProgramModel ----------------------------
(***************************************************************************)
(* flutterdec-adapter/src/model.rs and validate.rs: what a program model   *)
(* says, and the checks it must pass before anything reads it.             *)
(*                                                                         *)
(* A model is a record:                                                    *)
(*   version, producer, identity, binding   what the host compares         *)
(*   regions    sequence of name, size, bytes (digest), va, executable     *)
(*   libraries  sequence of id, name, prov                                 *)
(*   classes    sequence of id, name, library, super, prov                 *)
(*   functions  sequence of id, name, nameProv, confidence, owner, start,  *)
(*              size, section, prov                                        *)
(*   pool       space, word and entries_offset (word = None: no geometry), *)
(*              and entries: index, kind, target, value, prov, confidence  *)
(*   caps       a level for each domain; explained, the domains some       *)
(*              diagnostic is about                                        *)
(* An absent number is None, an absent text Nothing, and a text that admits*)
(* that nothing was recovered is in Placeholders. A confidence is None, or *)
(* "in range" or "out of range" as it is a number of 0..1 or not.          *)
(***************************************************************************)
EXTENDS SnapshotLoader

CONSTANT Placeholders

ASSUME PlaceholdersAssumption == Nothing \notin Placeholders

Version == 4
Domains == {"libraries", "classes", "class_relationships", "functions", "function_names",
            "object_pool", "pool_index_space"}

---------------------------------------------------------------------------
(* model.rs.                                                               *)

\* The position in RegionNames, which is the order of InputRegionName.
Rank(name) == CHOOSE i \in DOMAIN RegionNames : RegionNames[i] = name

EndVa(va, size) == IF va = None THEN None ELSE Plus(va, size)

\* Mutant: only where the range starts is looked at.
ContainsStart(region, start, size) ==
  /\ EndVa(region.va, region.size) # None
  /\ start >= region.va /\ start < EndVa(region.va, region.size)

\* InputRegion::contains_range.
ContainsRange(region, start, size) ==
  /\ EndVa(region.va, region.size) # None
  /\ Plus(start, size) # None
  /\ start >= region.va
  /\ Plus(start, size) <= EndVa(region.va, region.size)

ContainsAddress(region, address) == ContainsRange(region, address, 1)

\* PoolGeometry::index_for_displacement: None for a header access.
IndexAt(pool, displacement) ==
  LET rel == displacement - pool.entries_offset
  IN  IF pool.word = 0 \/ rel < 0 \/ rel % pool.word # 0 THEN None ELSE rel \div pool.word

\* displacement_for_index: None where it does not fit.
DisplacementOf(pool, index) ==
  IF index * pool.word >= Top THEN None ELSE Plus(index * pool.word, pool.entries_offset)

\* library, class: the first record with that id.
LibraryOf(model, id) == {l \in Range(model.libraries) : l.id = id}
ClassOf(model, id) == {c \in Range(model.classes) : c.id = id}

\* owner_library_uri: the library of the class that owns a function, where both are known.
OwnerLibrary(model, f) ==
  LET owners == ClassOf(model, f.owner)
      libraries == UNION {LibraryOf(model, c.library) : c \in owners}
  IN  IF libraries = {} THEN None ELSE (CHOOSE l \in libraries : TRUE).id

---------------------------------------------------------------------------
(* validate.rs, check by check. Each says what it accepts.                 *)

\* No duplicate, and the order of the keys.
StrictlyAscending(keys) == \A i \in 1..Len(keys) - 1 : keys[i] < keys[i + 1]
Ids(records) == [i \in DOMAIN records |-> records[i].id]

\* check_regions.
RegionsAgree(model) ==
  /\ \A r \in Range(model.regions) :
       /\ r.executable = Executable(r.name)
       /\ r.executable = (r.va # None)
       /\ r.executable => EndVa(r.va, r.size) # None
  /\ StrictlyAscending([i \in DOMAIN model.regions |-> Rank(model.regions[i].name)])

\* check_host_facts. A host region is one the model has too, with the same size, digest and va.
HostFacts(model, host) ==
  /\ model.identity = host.identity
  /\ model.producer = host.producer
  /\ model.binding = host.binding
  /\ \A h \in Range(host.regions) : \E r \in Range(model.regions) :
       r.name = h.name /\ r.size = h.size /\ r.bytes = h.bytes /\ r.va = h.va
  /\ \A r \in Range(model.regions) : \E h \in Range(host.regions) : h.name = r.name

\* check_strings.
StringsReal(model) ==
  /\ \A l \in Range(model.libraries) : l.name \notin Placeholders
  /\ \A c \in Range(model.classes) : c.name \notin Placeholders
  /\ \A f \in Range(model.functions) : f.name \notin Placeholders
  /\ \A e \in Range(model.pool.entries) : e.value \notin Placeholders

\* check_one_confidence: only a guess has one, and it is a number of 0..1.
ConfidenceOK(confidence, prov) ==
  confidence = Nothing \/ (prov = "heuristic" /\ confidence = "in range")

\* check_confidence.
ConfidenceReal(model) ==
  /\ \A f \in Range(model.functions) : f.name # Nothing => ConfidenceOK(f.confidence, f.nameProv)
  /\ \A e \in Range(model.pool.entries) : ConfidenceOK(e.confidence, e.prov)

\* check_identity_and_order.
Canonical(model) ==
  /\ StrictlyAscending(Ids(model.libraries))
  /\ StrictlyAscending(Ids(model.classes))
  /\ StrictlyAscending(Ids(model.functions))
  /\ StrictlyAscending([i \in DOMAIN model.pool.entries |-> model.pool.entries[i].index])

SuperOf(model, id) ==
  LET c == ClassOf(model, id) IN IF c = {} THEN None ELSE (CHOOSE k \in c : TRUE).super

\* Mutant: only a class that is its own superclass is noticed.
MeetsItself(model, id) == SuperOf(model, id) = id

\* The walk of check_references from one class: whether it comes to a class it has seen.
Cyclic(model, id) ==
  LET ids == {c.id : c \in Range(model.classes)} \union {c.super : c \in Range(model.classes)}
      \* at is the pair of what was visited and the cursor
      walk[at \in (SUBSET ids) \X (ids \union {None})] ==
        IF at[2] = None THEN FALSE
        ELSE at[2] \in at[1] \/ walk[<<at[1] \union {at[2]}, SuperOf(model, at[2])>>]
  IN  walk[<<{id}, SuperOf(model, id)>>]

\* check_references.
ReferencesResolve(model) ==
  /\ \A c \in Range(model.classes) :
       /\ c.library # None => LibraryOf(model, c.library) # {}
       /\ c.super # None => ClassOf(model, c.super) # {}
  /\ \A f \in Range(model.functions) : f.owner # None => ClassOf(model, f.owner) # {}
  /\ \A c \in Range(model.classes) : ~Cyclic(model, c.id)

\* check_capabilities: an unavailable domain is empty, a complete one has no guess in it.
Claim(level, records, guessed) ==
  /\ level = "unavailable" => records = {}
  /\ level = "complete" => guessed = {}

Guesses(records) == {r \in records : r.prov = "heuristic"}

CapabilitiesAgree(model) ==
  LET caps == model.caps
      classes == Range(model.classes)
      functions == Range(model.functions)
      entries == Range(model.pool.entries)
      named == {f \in functions : f.name # Nothing}
      guessedNames == {f \in named : f.nameProv = "heuristic"}
  IN  /\ Claim(caps["libraries"], Range(model.libraries), Guesses(Range(model.libraries)))
      /\ Claim(caps["classes"], classes, Guesses(classes))
      /\ caps["classes"] = "unavailable" => caps["class_relationships"] = "unavailable"
      /\ Claim(caps["class_relationships"], {c \in classes : c.super # None}, {})
      /\ Claim(caps["functions"], functions, Guesses(functions))
      /\ caps["functions"] = "unavailable" => caps["function_names"] = "unavailable"
      /\ Claim(caps["function_names"], named, guessedNames \union (functions \ named))
      /\ Claim(caps["object_pool"], entries, Guesses(entries) \union {e \in entries : e.kind = "undecoded"})
      /\ caps["object_pool"] = "unavailable" => caps["pool_index_space"] = "unavailable"
      /\ (model.pool.space = "hardware") = (model.pool.word # None)
      /\ (model.pool.space = "hardware") = (caps["pool_index_space"] # "unavailable")
      /\ \A d \in Domains : caps[d] = "unavailable" => d \in model.explained

\* check_geometry.
GeometryOK(model) ==
  model.pool.word # None =>
    /\ model.pool.word \in {1, 2, 4, 8}
    /\ model.pool.entries_offset % model.pool.word = 0
    /\ \A e \in Range(model.pool.entries) : DisplacementOf(model.pool, e.index) # None

Code(model) == {r \in Range(model.regions) : r.executable}

\* check_addresses, of a function: the section it declares is one its code lies in.
FunctionAddress(model, f) ==
  /\ f.size # 0
  /\ EndVa(f.start, f.size) # None
  /\ \E r \in Code(model) : r.va = f.section /\ ContainsRange(r, f.start, f.size)

\* The arms of its match on a pool entry, in their order, then the target.
EntryShape(model, e) ==
  /\ ~(e.kind = "code" /\ e.target = None)
  /\ ~(e.kind = "undecoded" /\ e.value # Nothing)
  /\ ~(e.kind \notin {"code", "selector"} /\ e.target # None)
  /\ ~(e.kind # "undecoded" /\ e.value = Nothing)
  /\ e.target # None => \E r \in Code(model) : ContainsAddress(r, e.target)

\* check_addresses.
AddressesOK(model) ==
  /\ \A f \in Range(model.functions) : FunctionAddress(model, f)
  /\ \A e \in Range(model.pool.entries) : EntryShape(model, e)

\* validate: the checks in their order, and which one refuses.
Checks(model, host) ==
  <<[name |-> "version", holds |-> model.version = Version],
    [name |-> "regions", holds |-> RegionsAgree(model)],
    [name |-> "host facts", holds |-> HostFacts(model, host)],
    [name |-> "strings", holds |-> StringsReal(model)],
    [name |-> "confidence", holds |-> ConfidenceReal(model)],
    [name |-> "identity and order", holds |-> Canonical(model)],
    [name |-> "references", holds |-> ReferencesResolve(model)],
    [name |-> "capabilities", holds |-> CapabilitiesAgree(model)],
    [name |-> "geometry", holds |-> GeometryOK(model)],
    [name |-> "addresses", holds |-> AddressesOK(model)]>>

Verdict(model, host) ==
  LET checks == Checks(model, host)
      failed == {i \in DOMAIN checks : ~checks[i].holds}
  IN  IF failed = {} THEN "accepted" ELSE checks[Min(failed)].name

=============================================================================
