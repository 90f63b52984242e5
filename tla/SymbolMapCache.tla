--------------------------- MODULE SymbolMapCache ---------------------------
(***************************************************************************)
(* The local symbol cache of crates/flutterdec-core (symbol_map/cache.rs):  *)
(* map-symbols registers the summary of an engine library in it, decompile  *)
(* finds it again by the build id, or failing that by the Flutter version,  *)
(* of the engine in an APK.  Several runs share it and none takes a lock.   *)
(*                                                                          *)
(* A summary file is told apart by the library it was made from.  The only  *)
(* architecture is the one run_symbol_map registers.  Build ids are compared *)
(* ignoring case and never recovered in two cases, so they are values here. *)
(***************************************************************************)
EXTENDS Naturals, Sequences, FiniteSets, SequencesExt

CONSTANTS
  Runs,       \* concurrent map-symbols processes
  Readers,    \* concurrent decompile processes
  Libraries,  \* what fingerprinting can recover of an engine: build id, version
  MaxEntries, \* bound of the model: no run adds to a longer manifest
  MayStop     \* a run may die, or a file operation of it fail, at any step

Unknown == 0    \* a build id or version that was not recovered; it sorts first
NoLibrary == [build |-> Unknown, version |-> Unknown]

ASSUME CacheAssumption ==
  /\ Libraries \subseteq [build : Nat, version : Nat]
  /\ MaxEntries \in Nat
  /\ MayStop \in BOOLEAN

VARIABLES
  summary,     \* the summary files: which library each is about
  manifest,    \* manifest.json: its entries, or what became of it
  pc,          \* where each map-symbols run is
  lib,         \* the library it registers
  loaded,      \* the manifest it loaded and updated
  registered,  \* history: build ids whose registration reported success
  rpc,         \* where each decompile run is
  wanted,      \* the engine it looks for
  ingested     \* what it took

registerVars    == <<pc, lib, loaded>>
readerVars   == <<rpc, wanted, ingested>>
cacheVars  == <<summary, manifest, registerVars, registered, readerVars>>

\* The files of a library: by-build-id/<build> and by-version/<version>.
BuildKey(l)   == <<"build", l.build>>
VersionKey(l) == <<"version", l.version>>
Keys == {BuildKey(l) : l \in Libraries} \union {VersionKey(l) : l \in Libraries}

Entries == {l \in Libraries : l.build # Unknown \/ l.version # Unknown}

(***************************************************************************)
(* A file, or what a run read.  One being written was truncated first, and  *)
(* two writers write over each other: the longer of the two texts keeps its *)
(* tail, and nothing parses.  A summary's text is the one library it is of. *)
(***************************************************************************)
Blank(is)        == [is |-> is, text |-> <<>>]
Full(text)       == [is |-> "full", text |-> text]
Fill(file, text) == {Full(text)} \union IF file.is = "empty" THEN {} ELSE {Blank("mixed")}
Garbled(file)    == file.is \in {"empty", "mixed"}

CacheInit ==
  /\ summary    = [k \in Keys |-> Blank("absent")]
  /\ manifest   = Blank("absent")
  /\ pc         = [r \in Runs |-> "idle"]
  /\ lib        = [r \in Runs |-> NoLibrary]
  /\ loaded     = [r \in Runs |-> <<>>]
  /\ registered = {}
  /\ rpc        = [q \in Readers |-> "idle"]
  /\ wanted     = [q \in Readers |-> NoLibrary]
  /\ ingested   = [q \in Readers |-> Blank("absent")]

-----------------------------------------------------------------------------
(* The entries of the manifest.                                             *)

\* The comparison of update_local_symbol_cache_entry, field by field: two build
\* ids decide, two versions decide next, anything else is no match.
SameEntry(candidate, entry) ==
  IF entry.build # Unknown /\ candidate.build # Unknown
  THEN candidate.build = entry.build
  ELSE /\ entry.version # Unknown
       /\ candidate.version = entry.version

SortsBefore(a, b) == a.build < b.build \/ (a.build = b.build /\ a.version < b.version)

\* Where an entry goes in the sort, which keeps the order of equal ones.
Upto(s, i)  == {j \in DOMAIN s : SortsBefore(s[j], s[i]) \/ (~SortsBefore(s[i], s[j]) /\ j <= i)}
SortPlace(s, i) == Cardinality(Upto(s, i))
Sorted(s)   == [k \in DOMAIN s |-> s[CHOOSE i \in DOMAIN s : SortPlace(s, i) = k]]

\* The first entry that matches is replaced, or the new one added; then sorted.
UpdateEntry(entries, entry) ==
  LET at == SelectInSeq(entries, LAMBDA c : SameEntry(c, entry))
  IN Sorted(IF at = 0 THEN Append(entries, entry) ELSE ReplaceAt(entries, at, entry))

\* resolve_local_symbol_cache_paths: a build id that was recovered is the only
\* thing asked for, found or not.
Listed(entries, engine) ==
  \E i \in DOMAIN entries :
    IF engine.build # Unknown
    THEN entries[i].build = engine.build
    ELSE engine.version # Unknown /\ entries[i].version = engine.version

\* Mutant: the summary of the version is preferred.
WantedByVersion(engine) == IF engine.version # Unknown THEN VersionKey(engine) ELSE BuildKey(engine)

\* The summary a matching entry points to.
Wanted(engine) == IF engine.build # Unknown THEN BuildKey(engine) ELSE VersionKey(engine)

-----------------------------------------------------------------------------
(* register_local_symbol_cache.                                             *)

Goto(r, place) == pc' = [pc EXCEPT ![r] = place]

\* The run is over, well or not, and nothing of it remains but its files.
Finish(r) ==
  /\ Goto(r, "idle")
  /\ lib'    = [lib EXCEPT ![r] = NoLibrary]
  /\ loaded' = [loaded EXCEPT ![r] = <<>>]

\* Mutant: the manifest is written before the summaries are copied.
RegisterManifestFirst(r) ==
  /\ pc[r] = "idle"
  /\ \E l \in Entries :
       /\ lib' = [lib EXCEPT ![r] = l]
       /\ Goto(r, "load")
  /\ UNCHANGED <<summary, manifest, loaded, registered>>

\* Nothing is registered of a library of which nothing is known.
Register(r) ==
  /\ pc[r] = "idle"
  /\ \E l \in Entries :
       /\ lib' = [lib EXCEPT ![r] = l]
       /\ Goto(r, IF l.build # Unknown THEN "buildOpen" ELSE "versionOpen")
  /\ UNCHANGED <<summary, manifest, loaded, registered>>

\* fs::copy of the summary: the destination is opened and emptied, then filled.
CopyOpen(r, here, key, next) ==
  /\ pc[r] = here
  /\ summary' = [summary EXCEPT ![key] = Blank("empty")]
  /\ Goto(r, next)
  /\ UNCHANGED <<manifest, lib, loaded, registered>>

CopyFill(r, here, key, next) ==
  /\ pc[r] = here
  /\ \E file \in Fill(summary[key], <<lib[r]>>) : summary' = [summary EXCEPT ![key] = file]
  /\ Goto(r, next)
  /\ UNCHANGED <<manifest, lib, loaded, registered>>

CopySummaries(r) ==
  \/ CopyOpen(r, "buildOpen", BuildKey(lib[r]), "buildFill")
  \/ CopyFill(r, "buildFill", BuildKey(lib[r]),
              IF lib[r].version # Unknown THEN "versionOpen" ELSE "load")
  \/ CopyOpen(r, "versionOpen", VersionKey(lib[r]), "versionFill")
  \/ CopyFill(r, "versionFill", VersionKey(lib[r]), "load")

\* A manifest that is not there is empty; one that does not parse ends the run.
Load(r) ==
  /\ pc[r] = "load"
  /\ \/ /\ Garbled(manifest)
        /\ Finish(r)
     \/ /\ ~Garbled(manifest)
        /\ Len(manifest.text) < MaxEntries
        /\ loaded' = [loaded EXCEPT ![r] = UpdateEntry(manifest.text, lib[r])]
        /\ Goto(r, "open")
        /\ UNCHANGED lib
  /\ UNCHANGED <<summary, manifest, registered>>

\* fs::write of the manifest: emptied, then filled.
OpenManifest(r) ==
  /\ pc[r] = "open"
  /\ manifest' = Blank("empty")
  /\ Goto(r, "write")
  /\ UNCHANGED <<summary, lib, loaded, registered>>

WriteManifest(r) ==
  /\ pc[r] = "write"
  /\ manifest' \in Fill(manifest, loaded[r])
  /\ Finish(r)
  /\ registered' = registered \union ({lib[r].build} \ {Unknown})
  /\ UNCHANGED summary

\* An operation fails, or the process dies: the run ends where it stands.
Stop(r) ==
  /\ MayStop
  /\ pc[r] # "idle"
  /\ Finish(r)
  /\ UNCHANGED <<summary, manifest, registered>>

RunStep(r) == Register(r) \/ CopySummaries(r) \/ Load(r) \/ OpenManifest(r) \/ WriteManifest(r) \/ Stop(r)

-----------------------------------------------------------------------------
(* resolve_local_engine_symbol_targets, then the load of what it found.     *)

Look(q) ==
  /\ rpc[q] = "idle"
  /\ \E engine \in Libraries :
       /\ wanted' = [wanted EXCEPT ![q] = engine]
       /\ rpc' = [rpc EXCEPT ![q] = IF Listed(manifest.text, engine) THEN "ingest" ELSE "idle"]
  /\ ingested' = [ingested EXCEPT ![q] = Blank(IF Garbled(manifest) THEN "error" ELSE "absent")]

\* Files only ever appear, so the check that it exists and the read are one step.
Ingest(q) ==
  /\ rpc[q] = "ingest"
  /\ rpc' = [rpc EXCEPT ![q] = "idle"]
  /\ LET file == summary[Wanted(wanted[q])] IN
     ingested' = [ingested EXCEPT ![q] = IF file.is = "full" THEN file ELSE Blank("error")]
  /\ UNCHANGED wanted

CacheNext ==
  \/ \E r \in Runs : RunStep(r) /\ UNCHANGED readerVars
  \/ \E q \in Readers : /\ Look(q) \/ Ingest(q)
                        /\ UNCHANGED <<summary, manifest, registerVars, registered>>

CacheSpec == CacheInit /\ [][CacheNext]_cacheVars

-----------------------------------------------------------------------------
(* Properties.                                                              *)

\* Whatever runs, dies or fails beside it, the manifest never names a summary
\* file that was not put there first.
NamesWhatExists ==
  \A i \in DOMAIN manifest.text :
    LET e == manifest.text[i] IN
    /\ e.build   # Unknown => summary[BuildKey(e)].is   # "absent"
    /\ e.version # Unknown => summary[VersionKey(e)].is # "absent"

\* A decompile run never applies the symbols of another engine: what it ingests
\* is of the build it asked for, or of the version if it knew no build.
IngestedIsAskedFor ==
  \A q \in Readers : ingested[q].is = "full" =>
    LET l == ingested[q].text[1] IN
    IF wanted[q].build # Unknown THEN l.build = wanted[q].build ELSE l.version = wanted[q].version

\* What the manifest names is there, and is taken only for what it is.
ManifestIsTrue == NamesWhatExists /\ IngestedIsAskedFor

\* docs/cli-reference.md:201: map-symbols copies the summary into the cache "and
\* register[s] it in its manifest.json for later auto-ingestion".  While no run is
\* writing, what was ever registered for a build id is found by that build id.
RegisteredIsFound ==
  (\A r \in Runs : pc[r] = "idle") =>
    \A build \in registered : Listed(manifest.text, [build |-> build, version |-> Unknown])
=============================================================================
