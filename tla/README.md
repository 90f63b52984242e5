# Verification of flutterdec

TLA+ models of flutterdec, the model-checking runs over them, and the theorems proved about them.
flutterdec turns a Flutter AOT library (or the APK around it) into pseudocode. Two kinds of its code
are hard to test and are modelled here: what meets other processes (the adapter store, the host that
runs adapters as untrusted children, the symbol cache that several runs share), and the steps from
the input to the text where one wrong number, name or edge gives wrong pseudocode that looks right
(loading, validation, recovery, decoding, naming, selection, splitting, blocks, structuring,
compaction, annotation).

## Inventory

| Part | State | Operations | Meets |
|---|---|---|---|
| adapter store (`flutterdec-adapter/src/store.rs`) | artifacts, `state.json`, temporaries, the flock of `.lock` | `install`, `inspect` (`adapter list`), `installed_for` | other installs, listings and runs, through the directory |
| adapter host (`host.rs`) | the private workspace of one run | `authorize`, `run_adapter`, reading `result.json` and the model | store, registry, sandbox, the child |
| execution (`host/exec.rs`, `sandbox.rs`) | the child, its group, two drain threads, the deadline | spawn, set-up of the child, drain, poll, kill, reap, join | whatever the adapter forks |
| executable image (`host/image.rs`) | sealed in-memory file and its descriptor | prepare, seal, execute | kernel |
| protocol, model, validation (`protocol.rs`, `model.rs`, `validate.rs`) | none | check request, result and model | host, pipeline |
| registry, identity, profiles, layout (`flutterdec-loader`) | files shipped with the tool | load, validate, select | host, store |
| snapshot loader (`flutterdec-loader/src/lib.rs`, `identity.rs`) | none | find the library, carve the regions, read the identity | pipeline |
| recovery (`pipeline/fallback.rs`) | none | make a model from instruction bytes alone | validation, pipeline |
| disassembler (`flutterdec-disasm-arm64`) | pool bases per register | rank, select and decode functions, name pool slots | pipeline |
| function splitting (`pipeline/runners/split.rs`) | none | cut records that hold several functions | IR |
| IR (`flutterdec-ir`) | none | blocks, edges, elided guards | splitting, decompiler |
| structuring (`control_flow/regions.rs`, `structured.rs`, `graph.rs`) | emitter's lines, state, counters, anchors | dominance, loops, render, roll back | IR, emitter |
| depth-first emitter and helpers (`control_flow/emit.rs`, `helper_flow/`) | the same, and a queue of omitted blocks | walk, emit helpers, inline them | structuring, passes |
| lifting and passes (`expression_lift.rs`, `passes/`) | lines of text | lift, rewrite, compact | both emitters |
| names (`pipeline/runners/stubs.rs`, `symbols.rs`, `symbol_map/`) | names and their quality by address | name functions from the model, the pool, ELF files, symbol maps and stubs | decoded functions |
| annotations (`structured.rs`, `emit.rs`, `helpers/provenance.rs`) | inserts, spans, ledger of one function | align lines, annotate reads, write the audit | both emitters |
| pipeline (`pipeline/runners.rs`, `model.rs`) | outputs of a run | choose a program source, run the stages | all |
| symbol map cache (`pipeline/symbol_map/cache.rs`) | `manifest.json`, two summary trees | register, resolve | other `map-symbols` and `decompile` runs |
| APK start-up (`pipeline/apk_startup.rs`, `bootflow_hints.rs`) | registers per method, the queue of a search | scan dex files, build the bootstrap chain, seed functions | pipeline, selection |
| reports, diff, scripts, command line | none or output files | pure functions of their inputs | pipeline |

What makes each correct:

- *store*: a reported success is an install that is really there; a reported failure undid itself;
  rows of other snapshots survive; every row has its executable, also between the two renames and
  after a crash; an equal second install writes nothing; seen from outside, an install is one step.
- *readers of the store*: no false alarm beside an install; what is listed may run; a file alone is
  not an install.
- *execution*: the child is the sealed image and every control it is said to be under is in force;
  nothing of the tree outlives the sweep; the verdict is what happened; nobody else's group is
  signalled; `run` returns.
- *run_adapter*: an accepted model comes from a child that ended by itself and from documents
  nobody can change any more; a pre-spawn refusal had no child; every run ends.
- *registry, identity and fallback*: a near miss never selects; a backend asked for by name is never
  answered by another; what is installed is never answered by recovery instead; the two looks at the
  store agree unless it was changed in between.
- *loading, recovery, decoding*: an instruction stands at the address the kernel maps it to; a model
  that is accepted can be followed; core's own model is accepted and cuts no instruction; a load is
  said to read the slot it reads.
- *names*: an address has the best name it is offered; an identity that lies about the SDK names no
  stub wrongly; a name from another file is a symbol that stands there.
- *symbol cache*: the manifest names only what exists; nobody takes another engine's symbols; what
  was registered is found.
- *APK start-up*: an entrypoint that is reported is the one the code executes; a stage of the start is
  shown with the surest way the app comes to it.
- *selection, splitting, IR*: a cap keeps the best functions; every instruction lands in exactly one
  piece and block, except the slow paths of elided guards; edges are the code's; a cut takes nothing
  from the function before it; a call that does not return hides what follows it and nothing else.
- *structuring, depth-first emission, compaction*: dominance, loops and follow nodes agree with
  their definitions; the text, run, takes the paths of the graph; what is believed of a register
  holds on every path; an abandoned attempt leaves no trace; a rewriting changes no run.
- *annotations*: an annotation stands at the read it is about although the lines were rewritten in
  between; the audit and the text tell one story; what is dropped is accounted for.

Hard behaviours: interleavings of installs, readers and cache runs; the two renames of an install
and its rollback; crashes that leave temporaries; a pid that comes back; a process tree that forks,
floods, hangs, escapes or leaves pipes open while a deadline runs; group numbers reused after a
reap; truncating writes seen half way; a store that changes between two looks at it; rollback of a
half-rendered function; passes that read what another pass just wrote; line numbers taken before a
rewriting and used after it. `PROJECT.json` lists each
hazard at its line with the properties that watch it.

## Modules

| Module | Models |
|---|---|
| `AdapterStore` | `install()`, one action per file operation, and the mapping under which it implements `AtomicStore` |
| `AtomicStore` | what an install promises: one step from the store before to the store after |
| `AdapterReaders` | `inspect` and `authorize` beside the installs (extends `AdapterStore`) |
| `AdapterExec` | `exec::run`, its drain threads, `kill_tree`, and the process tree |
| `ChildSetup` | the sealed image, the status pipe, and what the forked child does before it becomes the image |
| `ContainedExec` | `exec::run` with the child `ChildSetup` makes (extends `AdapterExec`, `ChildSetup`) |
| `AdapterRun` | `run_adapter` around the execution, and what a `result.json` must say (extends `AdapterExec`) |
| `ProgramSource` | `load_program`: registry, identity, recovery, then `authorize` and `run_adapter` (extends `AdapterRun`) |
| `SymbolMapCache` | registration in and lookup of the symbol cache |
| `SnapshotLoader` | which file is the library, its regions, its identity |
| `ProgramModel` | a model's lookups and `validate` (extends `SnapshotLoader`) |
| `CoreRecovery` | the model core makes of code alone (extends `ProgramModel`) |
| `PoolRefs` | `PoolRefResolver`: the slot a load reads (extends `CoreRecovery`) |
| `TargetScope` | which functions a run is about (extends `CoreRecovery`) |
| `ProgramRead` | from an input to the instructions of its functions (extends `PoolRefs`, `TargetScope`) |
| `StubNames` | `shared_stub_names`: runtime stubs told by their code (extends `PoolRefs`) |
| `SymbolMap` | `map-symbols`, and what a run takes of a map or an ELF file (extends `CoreRecovery`) |
| `SymbolNames` | the merging of names by quality (extends `TargetScope`, `StubNames`, `SymbolMap`) |
| `Annotations` | alignment, annotations and audit of one emitted function |
| `DecompileRun` | `run_decompile`: read, name, annotate (extends `ProgramRead`, `SymbolNames`, `Annotations`) |
| `FunctionSelection` | scope, target, and the functions decoded under a cap |
| `BlockGraph` | `build_function_ir`: leaders, blocks, edges, elided guards, as operators, and what a graph must be, said of instructions |
| `FunctionSplit` | `split_inflated_records` (extends `BlockGraph`) |
| `CallPruning` | `build_program_ir` and `prune_calls_that_never_return` (extends `FunctionSplit`) |
| `ApkStartup` | what a run learns from the dex files of an APK |
| `FunctionPipeline` | the stages of `run_decompile` from a model to its graphs, and what an APK adds before them (extends `FunctionSelection`, `CallPruning`, `ApkStartup`) |
| `Regions` | `Regions::build`: dominance, loops, follow nodes, irreducibility |
| `Structuring` | `try_emit_structured`, and what a nest of ifs and loops runs, computed from the text alone (extends `Regions`) |
| `DepthFirst` | the emitter for what structuring leaves, and its helpers (extends `Structuring`) |
| `Compaction` | the control flow of `compact_lines` (extends `DepthFirst`) |
| `MCAdapterStore`, `MCAdapterReaders`, `MCContainedExec`, `MCProgramSource`, `MCSymbolMapCache`, `MCDecompileRun`, `MCFunctionPipeline`, `MCStructuring` | small registries, descriptor tables, libraries, code, graphs and symmetries for TLC |
| `AdapterStoreProofs`, `AdapterExecProofs`, `ContainedExecProofs`, `ProgramSourceProofs`, `SymbolMapCacheProofs`, `DecompileRunProofs`, `FunctionPipelineProofs`, `RegionsProofs` | theorems |

Operators named `...Unchecked`, `...Only`, `...Anyhow` and so on, with a comment that begins
"Mutant:", are plausible bugs of the definition after them. No specification uses them;
`PROJECT.json` names for each property one that breaks it.

### AdapterStore

`artifact[path]` is a file of the store: its bytes (a digest, `NoFile`, or something else) and its
executable bit. `ledger` is `store.json`, a row per snapshot hash; `stateOK` says it parses. `tmp`
is the set of temporary names on disk, `lock` the flock. Per install: `pc`, the request, the ledger
it loaded, the bytes it captured, the temporaries whose `Drop` is pending, its outcome, and
`before`, a history of the store when it took the lock.

`Begin` and `FailBeforeLock` are the checks before the lock, `AcquireLock` the blocking flock,
`Load`, `Decide` (idempotence), `Capture`, `StageArtifact`, `StageState`, `PublishArtifact`,
`PublishState`, `Restore` and `Republish` the section under it, in the order of the code, `Unwind`
the destructors. Every operation may fail when `"io" \in Faults`. Reading the artifact for the
comparison in `Decide` may fail as well (`"read"`), which `is_ok()` (`store.rs:758`) takes for a
mismatch, so the call goes on to write what is there already; and the removal in a `Drop` may fail
(`"drop"`), which nobody is told of and which leaves the temporary. `Crash` ends a process between any
two of them, loses its lock and keeps its files; `Tamper` edits the store by hand while no install
holds the lock. A temporary's name holds the process, so a process with a reused pid draws the names
a crashed one left, which `create_new` refuses. Publication is a rename, atomic for everybody who
looks. What a power loss leaves, where renames may come undone, is not modelled.

### AdapterReaders

Neither reader takes the lock. `ListLoad` and `ListRow` are `inspect` (ledger, then file);
`AuthorizePath`, `AuthorizeBytes`, `AuthorizeLedger` are `authorize` (file, then ledger). One call
answers for one record: rows of a listing share nothing but the ledger it loaded.

### AdapterExec, AdapterRun and ProgramSource

`proc`, `group`, `holds` and `pipe` are the tree: who lives, who is in the leader's group, who has a
pipe's write end, what a pipe holds. The tree may `Fork`, `Write`, `Close`, `Escape` the group and
`Exit` whenever it likes. `seen`, `kept` and `drained` are the drain threads; `expired` the clock.
`Spawn`, `TryWait`, `CheckLimits`, `Sweep`, `Signal`, `KillChild`, `WaitChild`, `Abort` and `Join`
are `run`, step by step. `Reuse` gives the leader's number to an unrelated group, which only a
reaped leader with an empty group allows. This is the Linux build; SIGKILL acts when it is sent, and
`setsid` cannot fail in a child that was just forked.

`ChildSetup` is what happens before `AdapterExec`'s child exists: `OpenImage` makes and seals the
image, `Prepare` opens the status pipe (`Pipe`) and counts the user's tasks, `ForkChild` copies the table `fds`, which
says what every number is open on. The child moves the status pipe out of the way (`MoveStatus`),
scans the descriptors, lowers its soft limits, leaves the network, bounds its processes, writes its
record and `Become`s the image; `OtherTasks` are the user's other processes. Every call may fail; what
the host learns is the record, and `Claimed` is what it concludes of each control. What is claimed of
a bound is what is in force when the image starts: `sandbox.rs:301` lowers `rlim_cur` and leaves
`rlim_max`, so the image may raise its own again, up to the hard limit. `ContainedExec` runs both: `Spawn` has a child where the set-up has
one, and the set-up refused is `Spawn` without one.

`AdapterRun` puts the gates of `authorize` (by the errors each can give), the workspace, the image,
the two documents and the workspace's `Drop` around it. The result is checked by itself and
against the request in the order of `run_adapter`; a model is told apart by the error the host
answers it with, and any living member of the
tree may replace either at any time.

`ProgramSource` is the only caller. Its actions are the steps of `load_program` in their order
(`CheckIdentity`, `SelectRecord`, `ResolveArtifact`, `AskLedger` and its lenient forms, `LoadProfile`,
`NameProducer`, `ReadMember`), then the gates of `authorize` with the store it really finds, then
`Answer` or `AnswerOrRecover`. A record is told apart by what selection and authorization compare;
`store` is what the store holds for the one selected, and `StoreChanges` lets other processes change
it between any two steps. `refusal` is why there is no model, or why no adapter ran when core made
it. In this composition a gate that finds an error is `AdapterRun`'s gate with that error, which
`ProgramSourceProofs!ImplementsRun` proves.

### SymbolMapCache

A file is absent, emptied by a writer, garbled by two, or full. `Register`, `CopyOpen`/`CopyFill`
(twice), `Load`, `OpenManifest` and `WriteManifest` are one registration; `Look` and `Ingest` one
`decompile` run; `Stop` is a failed operation or a death at any step. `UpdateEntry` and `Listed` are
the manifest's own functions. Build ids and versions are numbers, with 0 for one not recovered,
because the manifest is sorted and the absent ones sort first.

### SnapshotLoader to ProgramRead

A file has no bytes: it has program headers, symbol tables, and functions from a file offset to what
is found there (a magic, a hash, an instruction). `Open`, `Carve`, `Answered`, `Validate`, `Select`
are the stages of `run_decompile` up to the functions to decode; `StartFunction`, `Decode`,
`FinishFunction` and `Skip` are `decode_function`, one instruction a step. `Answered` lets an adapter
answer with any model of the input wherever the identity may select one, and core wherever it likes,
which covers every path through `ProgramSource`. `Verdict` is `validate` in its order: each check has
a name, and the verdict is the first that refuses. `RecoveredModel` is the recovery of core, with its
prologues, call targets and the limit of a candidate's size.

`seam` is a hash that lies across the end of the VM's data and the beginning of the isolate's,
which the scan reads put together. An offset and a size whose sum overflows end the
run (`"panic"`, `lib.rs:217`).

`PoolRefs` keeps, per register, the displacement from the pool pointer the resolver believes, and
beside it, `RegistersAfter`, what the machine would hold. `seen` is false from an instruction whose
write the resolver does not look at until it forgets its bases: a branch to a register, and any load
or store, of one register or of a pair, that moves its base (`Unseen`). There a stale base is possible, and `SlotIsRead` says so.

### StubNames, SymbolMap, SymbolNames, Annotations, DecompileRun

`StubNaming` reads the tables of the two SDKs shipped, tells a stub or its trampoline by the slot of
the thread object its prologue loads, and keeps the claimed table only if it explains more of the
code than the other. `SymbolMap` has `map-symbols` (`DirectCalls`, `Resolve`, `Summary`, the refusals)
and what a run takes of a map (`Taken`); a map or an ELF file that cannot be read ends the run
(`MapRefused`). `NameModel` gives the model's own names with their quality; `MergeNames` merges one
source a step, in the order of `runners.rs`, a name giving way to a better one only.

`Annotations` works on lines known by their code. What the emitter captured (candidates of merges,
anchors of reads and calls) is part of a `body`, as `Structuring` produces it, and so are the lines
after the rewriting, each with the one it came from, which only the properties look at. `JoinAnchor`,
`ApplyJoins`, `CallAnchor`, `ApplyCalls` and `WriteAudit` are the functions of those names, one
anchor a step; `Aligned` is the alignment of lines within its window.

### FunctionSelection, BlockGraph, FunctionSplit, CallPruning, FunctionPipeline

`FunctionSelection` is a function of a request: `Scoped`, `Targeted`, `Ranked` give the candidates,
`Seeded` (from `SeedEntries`), `FirstPass` and `ChosenUnder` the three rounds under a cap, each a
recursive function over the ranks. Scores are left out: a request lists its functions in the order
they rank, and every order is possible, so a function is known by its rank. The start-up categories
of an entry are given, and a function that cannot be decoded has no code.

An instruction is a kind and the address it names. Only `llir_from_disasm`'s distinctions are kept
(`branch`, `jump`, `return`, everything else), and those of `split.rs`, which ends a path also at a
trap or a jump through a register (`trap`) and looks for a pushed frame (`push`); the three
instructions of the stack-overflow guard are one `check`. Addresses count instructions, and a record
has no gaps: the decoder stops at the first word it cannot read. `BuildFunctionIr` composes
`Leaders`, `Blocks`, `Successors`, `Kept`, `Renumber` and `Predecessors` in the order of the code.
`Flow` and `RunsTo` say the same of single instructions, without blocks, and are what the graph is
compared with. `CodeOK` is what a listing of `decode_function` looks like, wherever its slow paths
lie; `OwnSlowPaths` says of a listing that they lie as the compiler puts those of a guard.

`FunctionSplit` takes one step for each record without candidates (`Pass`), for the work before the
loop (`Look`), for each candidate refused or accepted (`Reject`, `Accept`), and for the pieces
(`Cut`); `KeepRecords` is a run without the option. `entry` is `piece_entry`, a set of at most one
block; `reach` is `piece_reach`; `source` is a history: the record each function that goes out was
cut from. `CallPruning` takes any set of the plain instructions at `Calls`
for the calls that raise, because which they are is known from stubs only.

### ApkStartup

`apk` is what was read of an APK: dex files with the superclasses of their classes and the methods
that have code, the classes the manifest names, and the functions of the model. `scan` is
`StartupScanResult`, `terminals` the methods with a call of a stage for which no path was built yet,
`search` the queue of the search from one of them, `chains` the paths kept.

`ScanDexes` reads every method from its first instruction to its last (`Read`, `Tracked`,
`Result`), with the summaries of what the methods of its file return (`Summaries`, up to `MaxPasses`
rounds over them). `StartSearch`, `Visit`, `TurnBack` and `KeepPath` are the breadth-first search
from one terminal back along the calls, the callers of one method in any order, because the code
orders them by name; `Link` retains the paths, `CollectHints` gives the hints. `Holds` reads a
register backwards instead, from a call to the load its value came from, and only the properties
look at it. The code reads a method as if it were a straight line, leaves a register as it is where
an instruction it does not know writes it, and keeps what a register held when the index of a text
does not resolve. `Plain` leaves out files where that shows, or where the rounds end too early; of
those `EntrypointsAreTheCode` says only that the texts come from what the method calls. What the
reports repeat, how sure they are, and the hints the manifest gives of itself are left out.

### Regions, Structuring, DepthFirst, Compaction

A function is, for every block, the places its terminator leads to. A register is named by the set
of blocks that write it and its value by the block that did, so a wrong belief shows as a wrong
block. The emitted lines are a nest of `body`, `if`, `loop`, `break`, `continue`, `leave` and calls
of helpers, and `Text` computes what a reader of them would run, knowing nothing of how
they were made.

`Regions` computes what the walk goes by. Its worklists, fixpoints and depth-first search are
functions of the round (`Closure`, `Narrow`, `Irreducible`, whose `Turn` is one turn of the loop),
taken as often as the number of blocks asks for, where the code goes on until nothing changes or the
stack is empty; that this is often enough is part of `RegionsAreTheDefinitions`. A fixpoint of the
code uses a set it has just narrowed, a round of the model the sets of the round before: they end in
the same sets.

`Structuring` has four steps: `Build` the regions, `Render` the walk (`Sequence`, `BranchAt`,
`LoopAt`: `render_sequence` and its callees, with the snapshots, candidates and merges of
`emit.rs`), then `Keep` or `GiveUp`, which restores the emitter. `DepthFirst` emits the entry
(`EmitBlock`), then the helpers one by one from its queue, then inlines the small ones. `Compaction`
lays the lines out, any subset of the blocks without a branch printing nothing but how they end,
and applies the passes in their order until nothing changes.

Left out, all data of a block's text: the instruction budget, comments of unlifted instructions,
anchors of calls, labels, the wording of conditions. Conditions are combinations of the tests of
blocks, so the passes that go by their wording (null checks, ranges, `flags.` placeholders) are left
out too. Every register starts as an argument. A branch whose target is its own fall-through is not
an input. The numbers of retry flags are left out: each flag is declared just before its loop.

## Runs

| Run | Instance | Properties |
|---|---|---|
| `store_shared` | `AdapterReaders`: 2 installers, 1 reader, the shipped shape of registry (2 hashes, 1 artifact), failures, crashes | `FailedInstallUndone`, `LedgerBacked`, `NoLostRow`, `ImplementsAtomicStore`; for the reader `ListingIsTrue` |
| `store_edited` | `AdapterStore`: 2 fair installers, 1 record beside 2 that this build refuses, failures, crashes and edits by hand | `SuccessIsInstalled`, `RecoversFromCrash`, `InstallReturns` |
| `exec_safe` | `ContainedExec`: every descriptor table of up to 9 numbers, two hard limits, 4 tasks, every call of the set-up refused; then leader and 2 descendants that may escape, limit 1, pipe of 2, 2 units a stream, waits that may fail | `ContainmentIsTrue`, `ImageIsWhatRuns`, `NothingSurvives`, `EndIsTheTrees` |
| `run_adapter` | `ProgramSource`: 3 requests, 10 identities, 10 registries, every store, changed at any time; leader and 1 descendant, fair host | `AcceptedIsWhole`, `AnswererIsHonest`, `AskedTwiceAnsweredOnce`, `SourceFinishes` |
| `decompile_run` | `DecompileRun`: every archive, container, header, code of four instructions, walk over pool loads, model, request, symbol file, pair of stubs and rewritten body of `MCDecompileRun`; beside it `SymbolMapCache`: 2 registrations that may stop anywhere, 1 reader, 4 engines | `CodeIsTheImage`, `AcceptedIsSound`, `RecoveryIsSound`, `SlotIsRead`, `NamesAreBest`, `StubsAreNamedRight`, `OutsideNamesAreSymbols`, `AuditIsTheText`, `NotesStandAtTheirReads`; of the cache `ManifestIsTrue` |
| `split_records` | `FunctionPipeline`: every record of up to 4 instructions and every framed one of 5, with one of three functions and a raising stub; 4 candidates under caps, 3 under targets | `GraphIsTheCode`, `NothingAmputated`, `CutsAreEntries`, `OutputIsTheInput`, `PrunedIsTheCode`, `SelectionIsBest`; before them every APK of `MCFunctionPipeline`: `EntrypointsAreTheCode`, `ChainsAreTheCalls` |
| `structured_small` | `Compaction`, with all it extends: every graph of up to 4 blocks in address order, and every one of 5 with at most two edges back | `RegionsAreTheDefinitions`, `StructureIsTheGraph`, `BindingsHold`, `EvidenceIsTrue`, `FallbackFollowsTheGraph`, `CompactionKeepsTheRuns` |

Runs that end in a counterexample, each against a sentence of the repository:

| Run | Disagreement |
|---|---|
| `store_targets` | the ledger is keyed by hash and host, so an install for one target authorizes another target's record; a test's comment says it must not |
| `exec_escape` | a descendant in a session of its own may hold a pipe and the join has no deadline; a comment says the joins terminate |
| `broken_install` | a record whose file is gone is recovered although the ledger contradicts it; a comment says a contradicting ledger stays loud |
| `cache_raced` | two registrations at once lose one; the reference says it is registered for later |
| `compacted_guards` | a guard is merged with the guard inside it although it has an else, which then runs in the wrong case; the documents give the rewriting for a guard without one |

### Bounds

Two installers are enough for every race on the lock, and one call each at a time, repeated without
limit, gives every order of calls; a third adds only a second waiter. Two hashes over one path give
the shared artifact, over two paths the independent ones. The theorems hold for every number of
either. In the execution what matters of a stream is below, at and above the limit and whether the
pipe is full: limit 1 and 2 units, with a pipe of 2, reach each. A second descendant (`exec_safe`)
gives a fork by a non-leader; more add nothing a group of two lacks. `MaxEntries` bounds the
manifest of `SymbolMapCache`: without it the manifest of one build id grows for ever (the
replacement rule may leave several entries of one build id, and goes on to add more), so a run that
would go past it is not explored. Symmetry is used for installers, descendants and cache runs, only
in runs of safety properties.

`exec_safe` explores the set-up in full, and follows the execution (`MCSpec`) after one child that
wrote its record and one that did not, because nothing the host does afterwards reads more of how the
child was made; the theorems are about every child. Nine numbers are enough for the status pipe and
the image below, at and above the ceiling of the descriptor scan with an inherited descriptor beside
each. `exec_escape` needs one descendant.

`run_adapter` fixes `MayEscape = FALSE`: a descendant that left the group is not swept, may rewrite
a document after it was read and may keep a pipe open. There streams are small (`Limit = 0`, one
unit), because the streams are `exec_safe`'s question. Its `Flaws` are the ways a model may be
wrong; one is enough, since every other fails at the same place. `store_shared` and the proofs of
`LedgerBacked` and `ListingIsTrue` take registries where records that share a path agree on its
digest, as every shipped one does; the other theorems about the store do without.

The inputs of `decompile_run` vary one part at a time around one library with something in every
table: two instructions to a function, words of two units, regions of four to twelve units, an
address space of 64. Each part has its values at, below and above every boundary the code compares
it with, the end of the address space included. The code has every sequence of four of prologues,
calls, plain and undecodable words; the walks every sequence of four pool operations that starts with
a base and ends with a load, the second of them possibly one that moves its base. Bodies have up to four lines with every edit of each line, and three
anchors that share lines, under a window, a line and a span small enough to be exceeded. The cache
shares nothing with a run but the symbols, so its processes are interleaved (`MCSpec`) beside one input
that is not opened, not beside every one.

The records of `split_records` are every sequence of instructions of their length over every target
in the record (a jump may also leave it), so loops, crossing branches, unreachable code and guards
in any order occur; the fixed second record adds two cuts in one record, the second after a piece
that begins in the middle of a block, and ids that go on from one record to the next. Slow paths lie
anywhere in records of up to three instructions and in those of four that begin with the guard;
in the others, to keep the run short, as the compiler lays them out (`OwnSlowPaths`): ahead, behind the end of a path,
entered by their guard alone and left by a jump back behind it, unless the decoder stopped before
that jump. `GraphIsTheCode` and the other properties are checked of all of them; those that say which
instructions may be cut off (`NothingAmputated`, `CutsAreEntries`) only where the slow paths are
their guards' own, because the search for cuts does not look into slow paths. Calls to the stub in it are plain instructions and left out. `FirstCalls` lets only instructions of the first record
raise. The four candidates of a capped selection take every way to share a name among three owners
or to have none, at most one entry of two, at most two that do not decode and caps 1 to 3: enough
for a third of a name, a second of an owner, and a seed among those put off.

`MCSpec` takes every request without an APK and every APK with one request, because a run reads the
APK first and what comes after does not look at it. The APKs that are scanned have three or four
methods of a class, in both orders, so that one and two rounds of summaries and their limit
(`MaxPasses = 2` for 16) occur: makers that load, move and are given texts, givers with one return
and with two, an overload, and an indirect giver. The APKs that are linked have four methods and
every set of up to four calls among them, so cycles, two ways of the same length, and paths at and
beyond `MaxDepth = 3` (for 6) occur, in casts of the manifest's classes, superclasses, classes that
two files have, and methods of the embedding; a third dex file cannot be read.

The graphs of `structured_small` reach every shape the walk tells apart: irreducible, loops in
loops, loops left twice or never, arms that meet late, regions rendered twice. Blocks are in address
order because the code is (a block falls through to the next). The depth and repetition limits of
`structured.rs` have their real values, and block 1 stands for a block too long for the highest visit limit
of `summary.rs:33` (`LongBlocks`); those of `DepthFirst` are scaled down (`MaxInline = 5` for
12, two helpers for 64), or no small function would reach them. `MaxRendered` ends a walk that goes
on for ever: walks that end render at most 9 blocks in these functions, so 40 tells them apart.

### Fairness

An installer's steps are scheduled weakly fairly and the flock strongly, for the kernel queues its
waiters; beginning a call is never forced. The host thread, its drain threads and the clock are
weakly fair: they are threads of one live process and real time. The adapter's tree owes nothing, so
`SourceFinishes` holds against a child that hangs or floods. `RecoversFromCrash` is checked without
failing operations: a file system that fails every write lets nobody recover. Runs of executions,
pipelines and emitters are checked without the deadlock check, since they really end.

## Proofs

Each theorem is for every value of the constants that the assumptions of its module allow; further
hypotheses stand in its statement.

`AdapterStoreProofs`: `TypeCorrect`, `LockIsExclusive`, `SuccessMeansInstalled`,
`FailureUndoesItself`, `RewritesOnlyWhenNeeded`, `NoRowIsLost`, `RowsAreBacked`,
`NothingStaysStaged`, whatever of failures, crashes and edits `Faults` has; an install that finds
what it wants rewrites nothing, unless the comparison could not read it (`RewritesOnlyWhenNeeded`). The inductive invariant
has four parts. `TypeInv` adds to the types that a call past its checks holds a record of the
registry. `LockExclusive` is inductive on top of it and is what lets every later step assume that
the store moves only by its own call. `CallsInv` relates each place of a call to the store it loaded
and the store as it was when the lock was taken: without it nothing says at the rollback that the
captured bytes are the ones that were there. `CapturedTrue` carries exactly that fact across the two
renames. `RowsAreBacked` further assumes `PathsAgree`, that records with one path have one digest,
and no edits by hand. `NothingStaysStaged` assumes no crash and no removal that failed; its `TempsInv` says that a temporary on
disk is one that the `Drop` of a running call still owes. `ImplementsAtomic` (without edits by hand)
is the refinement: `FilePlaced` says which bytes are at the path of a call past its first rename,
and `Seen` what the abstract store looks like through the mapping at each place of the section, so
the renames of one call change it once.

The same module on the readers: `ReadersTypeCorrect`, `FileIsNotInstall` (which needs nothing),
`ListingIsQuiet`, `ShownMayRun` and, of both, `ListingHolds` (where records of a path and of a hash
agree and nobody edits). They extend the store's invariant by what a reader between its two looks
still knows: `HonestInv` keeps every answer tied to a row that was committed, `QuietInv` relates the
ledger a listing loaded to the store as it has since become, which works because rows never vanish
without edits.

`AdapterExecProofs`, for every tree, limit and pipe size: `TypeCorrect`, `FirstBytesAreKept`,
`SweepIsFinal`, `VerdictIsRight`, `SignalIsAimed`, `EndIsRight`. `TypeInv` adds that what a stream
delivered and still holds is bounded by what was written, and that a member of the group was forked;
the latter keeps a fork after the sweep from bringing the group back. `LifeInv` ties the leader's
life to the host's place: nobody lives before the spawn or after a refusal, nobody is reaped before
the waits, no number is reused before the reap, nobody was killed before a limit. `HostInv` says
which completion belongs to which place, and with it the verdict and the aim of the signal follow.

`ContainedExecProofs`, for every descriptor table, set of limits and failure: `SetupTypeCorrect`,
`ContainmentHolds`, `ImageRuns`; `ImplementsExec`, that the execution with its set-up is one of
`AdapterExec`, so `ContainedSurvivesNothing` and `ContainedEndIsTrue` carry over. `TableInv` says at
each place of the set-up which descriptors are open on what: the standard ones stay open until the
exec, so nothing the host opens lands on them, and every copy of the status pipe is closed by the
exec. `ScanInv` bounds what the scan has still to look at, and `CodesInv` ties every step's code to
the state it claims. Containment follows from `CodesInv` at the record; that a lowered limit is not
above what was asked is a lemma about `Effective`.

`ProgramSourceProofs`, of `run_adapter`: `RunTypeCorrect`, `PreSpawnIsChildless`, and
`AcceptedModelIsWhole` where nobody escapes the group. `StageByPlace` ties the stages of
`run_adapter` to the places of the execution; `WholeInv` says that once the tree is swept the
documents are the ones that will be read. Of `load_program`: `ImplementsRun` shows that every step of
`ProgramSource` is one of `AdapterRun` or a stutter, so these carry over (`LoadedModelIsWhole`). On
top of them: `SourceTypeCorrect`, `CoreRunsNothing`, `PinnedIsHonoured`, `RecoveryHidesNothing` (but for
a ledger that is not asked, `BehindAbsence`), of these three `AnswererHolds`, and `GatesAgree`. `SourcePlace` ties where `load_program` is to where
`run_adapter` is; `AskedInv` keeps, at each place, what the questions asked so far have established
of registry and identity (`Selected`) and, as long as nobody changed the store, of the store
(`StillHolds`), which is why a second look cannot refuse what the first one passed.

`SymbolMapCacheProofs`: `NoForeignSymbols` and `ManifestHolds`. `FilesInv` says that a file under a
key has only ever been written with the symbols of an engine of that key, whatever halves two writers
leave. `PresentInv` says that the entries of the manifest, and of every manifest a run has loaded,
have their summaries, and that a run past its copies has written its own. It rests on
`SortKeepsTheEntries`: the manifest is sorted by giving every entry its rank, the ranks of n entries
that are ordered totally are n different numbers of 1 to n, and so every place is taken once
(`EveryPlaceIsTaken`, by the pigeonhole fact about cardinalities).

`DecompileRunProofs`, for every file, model, request and code the types allow: `FileHolds`,
`AcceptedHolds`, `CodeHolds`, `SlotHolds`, `RecoveryHolds`, `NamesHold`, `OutsideHolds`, `StubsHold`,
`NotesHold`, `AuditHolds`.
Its parts:

- `FileInv` says what the run goes on with at each phase: the bundle of the file it found, a model
  that was answered, a verdict that accepted. The lemma about `Verdict` turns "accepted" into all the
  checks at once.
- *Accepted models.* The walk of `check_references` is a recursive function over steps;
  `LeadsStep`/`WalkIs` show that it is the closed form "n steps up lead there" by the least n for
  which it is not. A set of classes that each have their superclass in it would keep the walk from
  one of them going past as many steps as there are classes, without repetition, which the unseen
  classes forbid (`ChainsEnd`). Regions are told apart by their ascending names, and displacements
  and slots are each other's by the divisions of the geometry check.
- *Listings.* `PlaceInv` holds, while a function is decoded, that the listing is the instructions from
  its start to the cursor, each at its address and file offset, and of every finished one that it is
  complete or stopped at a word that is none. `IsolateIsMapped` is the only place that needs
  `WellFormed`: that the loader carved the region by one header and the kernel maps by another would
  break it. `BaseInv`: as long as the resolver saw everything that changed its bases, each is what
  the machine's register holds.
- *Recovery.* `RecoveredAccepted` goes through the checks of `validate` one after the other with the
  model core makes: only a region that runs off the address space refuses it. Candidates start at
  whole words, end at the next start at the latest and have a whole number of words (here
  `MaxCandidateSize` must be a multiple of a word), hence the instruction-level facts.
- *Names.* `NameInv` holds while the sources are merged: they are the pool's targets, the files and
  maps in their order and the stubs (`SourcesAre`), and an address has the best of what those merged
  so far offer it, the first of them (`BestSoFar`). A merge step keeps it because a source replaces
  only what is strictly worse. What is exact comes from the model or the last source, since all
  between are rated external. For a name from outside, `ElfSymbolIs` finds the symbol a file names an
  address by, and `ResolvedIs` the one a map does; nothing lies between because it is the greatest below.
- *Stubs.* `SameHit`: where a function loads one slot only, the table that sees it sees the same load
  as the true one, so the claimed table explains no function the true one does not (`BestIsTrue`).
  It is kept only if no other explains more, hence both explain the same by the same names, and
  equal names are equal stubs (`TablesAre`: what a stub does is fixed by its family, in every table).
- *Alignment.* Whatever was rewritten, a turn keeps `Forward`: what is paired so far is a line and one
  of the same text, and no pair crosses an earlier one (`StepForward`, `PairsAre`). The rest is about
  rewritings that leave nothing which looks like what they changed. A turn of the walk over the two
  bodies keeps `Well`: every pair made so far is a line
  and what it became (`Tells`), and the walk is `InStep`, with no surviving line behind it on one side
  and ahead on the other, or `Astray`, before a window of lines that are all new, from where it pairs
  nothing more (`StepTogether`, `StepApart`, `StepAstray`, by what `Resync` gives: `ResyncIs`). There
  (`ChangesAreUnlike`) lines that agree are lines that were kept; and
  with fewer changes than the window is wide, it never goes astray. `WalkEnds`: as many turns as there
  are lines are enough.
- *Plans.* `Sound` says of a plan, with what stands already, that no read has two annotations and no
  line exceeds its limit, which the sum of the widths of two disjoint sets gives (`WidthOfTwo`). Each
  read of a merged register is answered by an annotation or by a row (`Answers`), and nothing is taken
  back (`Grows`); so along the reads of a line, the lines of an anchor and the anchors, `Tally` of a
  site's register is at least the number of times it was asked for (`WithAnchorIs`, `Tallied`).
- *Audit.* `NotesInv` ties the anchors planned to the plan, the text and the records (`Staged`,
  `Recorded`). No two annotations have one place, so `Ascending`, which ranks them, lists each once
  (`AscendingIs`); and because texts tell the kinds of sites apart, the search for the n-th record,
  from behind the one before it, finds the annotation it was made for (`FoundIs`, `PlacedIs`). What the
  three kinds write is put together by `ReportsBoth`.

The recursive functions of these operators are handled as in `FunctionPipelineProofs`: `RecursionTo` says
that one with a first value and a step exists.

`FunctionPipelineProofs`, for every listing (`CodeOK`): `GraphOf`, that `BuildFunctionIr` gives a graph of
the code (`GraphIs`), and `GraphReach`, that the blocks reached from a block hold what the code runs
to. The argument:

- *Recursion.* A function defined by recursion over the numbers exists and is the one defined
  (`Recursion`: approximations up to n exist for every n and agree). With it `ReachedIs`: the closure
  that `Reached` iterates, once per element, is the least set closed under the edges, because a round
  that adds nothing adds nothing for ever and there are no more rounds that add than elements.
- *Blocks* (`BlocksOf`, `SuccessorsOf`): leaders taken in order cut the code into runs of addresses in
  which only the last instruction leads anywhere else; so what a block leads to is what its last
  instruction does, and `BlockReach` carries reachability between blocks and instructions.
- *What is dropped* (`StrandedIs`, `KeptAre`): a block goes only when nothing but an elided guard
  led to it; `BlocksApart` and the numbering by `Nth` (`NthIs`) make the rest a graph from zero.

And in the same module, for every request that `RequestsAssumption` allows and every set `Calls`:
`Invariant`, `GraphsHold`, `OutputHolds`, `EntriesHold`, `NothingIsAmputated`, `PrunedHolds`,
`SelectionHolds`. `GraphsHold` holds wherever slow paths lie, `EntriesHold` and `NothingIsAmputated` of
requests whose slow paths are their guards' own. What is selected is a list of functions that decode, none twice (`ChosenIs`), whose codes `CutsDivide` cuts
into parts (`PartIs`: a part of a listing is a listing). The invariant `IInv` is the conjunction of

- `TypesHold`;
- `TodoIsTheRest` and `OutIsMade`: what is still to do is the end of the records, and what went out was made of the
  others, each instruction in one part (`source` says of which record);
- `IdsAreFresh`: no id from `nextId` on is in use, by what went out or is to come;
- `CutsHold`: while a record is looked at, each accepted cut is a candidate that the code before it
  neither jumps over nor runs to, which is what `Verdict` established with `reach`, the least
  set closed under the edges of the graph, however many cuts came after;
- `NoBlockStaysZero`: the block a piece begins in is block zero or a cut;
- `GraphsAreBuilt`: every graph is the one of `BuildFunctionIr` for its function, or that one pruned.

`CutIsEntryOnly` turns a verdict of the code (blocks, edges, a highest address) into a fact about
instructions by `GraphReach`; `PiecesAre` and `MoreIsMade` add the pieces of one record. The five
properties of the split follow from `IInv` and `GraphOf`; `PrunedHolds` also from `PrunedReach`, that what is
reached in a graph after edges are removed and the rest renumbered is what was reached before the
renumbering.

`SelectionHolds` is about one choice, which no later step changes (`ChosenOnce`). The lists of
`FunctionSelection` are recursive functions over ranks; the lemmas `...Steps` say that each is a first
value and a step, and the argument is an induction for each pass. Under a cap every list is `Sound`:
an entry once, no more of them than the cap. The seeds hold, of each category they came to, the best
one (`SeedsTo`, `SeedStep`). Of the first pass, `PassTo` says rank by rank that whom it left out met a
full list of better ones (`LeftOut`), whom it put off was crowded out by better ones (`PutOff`), and
that nobody it took is crowded, even by those put off before (`Uncrowded`, `AloneAfter`): so one who is
passed over repeats a name or an owner whenever a lower one that was taken does
(`NobodyIsPassedOver`). The backfill takes those put off from the best on (`BackTo`), until the cap is
used up or none is left (`CapIsUsed`). Without a cap everything that decodes is taken (`OpenIsAll`).

`ChainsHold` is about the search of `ApkStartup`, for every APK and every depth. While it runs there
is a level for every method met, the length of the way it was first met by (`Levels`): the queue
holds two lengths at most, the shorter first, and a method that was met and waits no more is
`Settled`: all its callers are met, at most one level on, and the best path is at least as good as the
one to it. When the queue is empty no way within the depth leads past what was settled, so the path
kept is the best (`FollowedIs`, `FoundIs`). `Reaches` says of every terminal already searched from that
its stages are on paths; `Retained` keeps that, for a path goes only where those of the app come to all
its stages. `RunImplements`: a step of `RunSpec` is one of the analysis or one of the pipeline, so the
theorems about either hold of the run.

`RegionsProofs`, for every block graph that `InputsAssumption` allows: `RegionsHold`, that what
structuring is told of the graph is what the definitions over paths say. It is stated of any emitter
that starts from a lifted function and leaves its blocks alone (`[][UNCHANGED ir]_ir`), which every
step of `Structuring` and of what extends it does. The argument:

- *Worklists.* `ClosureIs`: what `Closure` gives is the least set that holds its start and is closed
  under the edges.
- *Dominance.* `NarrowIs`: d falls out of the set of a block in just the round in which the closure
  that avoids d comes to that block, so after as many rounds as there are blocks what is left is what
  every path passes (`AvoidIs`, `DominatorsHold`).
- *Follow nodes.* The strict post-dominators of a block that can leave are a chain (`PdomChain`), so
  the one that most blocks post-dominate comes first on every way out (`FollowHolds`).
- *Loops.* From a latch, going backwards without passing the header cannot leave what the header
  dominates, and what is dominated and comes back reaches a latch (`LoopHolds`).
- *Irreducibility* (`IrreducibleHolds`). The invariant of the search, `SearchInv`: the stack is a path
  from the entry, and a block that was left has only edges to blocks that were left, but for those to
  a dominator, and lies on no cycle without such an edge. No edge of the path ends at a dominator, for
  the path so far has avoided what comes next (`PathForward`), so an edge back to the stack that ends
  at none closes a cycle without such edges (`RetreatFinds`). Each turn works off a pair of a block and
  an index that no turn before it did (`TurnWorks`), so three turns for each block end the search.

Induction over numbers is done by hand in these modules: a statement that fails for some number fails
for a least one (`LeastNumber`, from the library's well-founded induction on a set), which needs no
operator parameter. What the provers cannot see into is written otherwise in the modules that are
proved about: `SortSeq`, `SelectSeq`, `FoldLeft`, `@@`, and functions of several arguments.

Assumptions are named where they are declared: `RecordsAssumption`, `NamesAssumption`,
`NoEntryAssumption`, `ExecAssumption`, `SetupAssumption`, `RunAssumption`, `SourceAssumption` and
`CacheAssumption` give the constants their kinds; `RequestsAssumption` says of a request that ids
are its functions' own, that an entry begins the code and that listings are `CodeOK`; `TopAssumption`, `PlaceholdersAssumption`,
`RecoveryAssumption` and `ReadAssumption` say that an address space has an end, that an absent text is
not a placeholder, that sizes are whole words, and that parsing gives lists and numbers that fit their
width; `ExternalsAssumption` says the same of ELF files and maps. `ApksAssumption` says that dex
files, methods and instructions are lists, `StartupAssumption` that limits are numbers. `InputsAssumption` says that blocks are numbered through
and have at most two successors, each a block but for the taken target of a branch.
`NotesAssumption` gives the widths and gates of lines and values their kinds, with a window of at
least one; `BodiesAssumption` says what the emitter gives the annotations (`BodyOK`): passes never
reorder lines (`emit.rs:946`), what a merge was rendered as are lines of the function, and a call is
noted for the line that comes next (`emit.rs:903`).

Only model-checked:

- liveness, which needs fairness: `InstallReturns`, `RecoversFromCrash`, `SourceFinishes`;
- `structured_small`, but for `RegionsAreTheDefinitions`: the walks and the interpretation of the
  text are recursive operators, on which the provers have no hold;
- `EntrypointsAreTheCode`: it compares a fold over the code, in rounds, with a function that is
  recursive along the calls and backwards along the code, and the provers see into neither.

## What the models say of the code

Beside the five counterexamples, met while modelling. Each is an exception that a property states
explicitly, or lies outside what is checked.

- *A walk without an end.* In a loop that no block leaves, every block keeps every block as its
  post-dominator, the follow of a branch may be a block already rendered, and
  `is_repeatable_region` allows it each time, because its budget is for one call
  (`structured.rs:973` says it bounds the duplication). `render_sequence` then repeats without end:
  0 branches to 4 or 1; 1 returns; 2 goes to 3; 3 branches out of the function or to 4; 4 goes
  to 2. `Settles`, a part of `StructureIsTheGraph`, says that only a function with such a loop has no end.
- *Lists that are not exhaustive.* A merge whose predecessor was rendered more than once reads only
  its last state (`latest_block_snapshot`), while `docs/user-guide.md:453` says that every path is
  listed. `ExhaustiveListsEveryPath`, a part of `EvidenceIsTrue`, leaves out exactly these merges.
- *Bindings of inlined helpers.* A helper of a block with one predecessor is walked with the values
  of the function's entry and then written into its caller (`emit.rs:1293`: "A block with one
  predecessor is fine"). `BindingsHold` leaves them out.
- *Cuts that are not told.* An else arm or a jump whose block is already written and cannot be
  written again prints nothing, and what helpers count never reaches the function's summary.
- *Dead branches.* The depth and visit checks of `emit_block` itself, the compaction of an if and
  else with equal returns (the else is hoisted first), and the one that drops a `break` at the end
  of an unwrapped loop, so that an unwrapped loop may leave a stray `break;`. The gate
  `not_recordable_raw` of the annotations refuses nothing either.
- *Repeated regions.* `structured.rs:1` says every reachable block is emitted exactly once; a region
  reached twice is written twice. `StructureIsTheGraph` asks for at least once.
- *A ledger that is not asked.* Where the artifact file is absent, the store answers "not installed"
  before it looks at the ledger, so recovery answers also over one that contradicts the record, which
  is what `broken_install` shows, and over one that cannot be read. `RecoveryIsHonest` leaves out
  exactly these (`BehindAbsence`).
- *Lines taken for others.* A line that the rewriting dropped or changed, while another with its
  signature survives, is aligned with that one, so its annotation stands at another read
  (`emit.rs:1009` says a changed line has none). Of such bodies
  `NotesStandAtTheirReads` says only that an annotation stands on a line of the same text and that
  none crosses another; that it stands at its own read is said under `ChangesAreUnlike`. 64 added lines in a row lose every anchor behind them, and the anchors of
  merges and loops are searched by what a line says (`structured.rs:1436`).
- *Rejections that are not written.* Where a function has filter rejections but neither a placed
  annotation nor an omission of that kind, the audit says nothing of them (`provenance.rs:365`).
  `NothingIsLostSilently`, a part of `AuditIsTheText`, says "if anything of that kind is". Candidates are kept per merge and
  register, so a second rendering of a merge replaces those of the first.
- *Names that depend on the run.* `build_pool_target_symbols` takes the first name of an address in
  the order of a `HashMap` (`symbols.rs:301`), while `docs/how-it-works.md:98` says the symbols are
  deterministic. Names from ELF files and maps are forced to their own quality, so a generic
  `sub_...` replaces a guess; a record without a name at the start of another resets its quality;
  an exact name that becomes canonical is no longer exact. `NamesAreBest` is stated with these rules.
- *Stubs.* An allocation stub keeps a name that a rejected table overwrote (`stubs.rs:195` retains what
  allocates, after the table's names were put over theirs), and takes its effects from a slot it
  loads; `StubsAreNamedRight` leaves out code where one loads a slot (`StubsOnly`).
- *Symbol maps.* `disasm_all` stops at the first word it cannot read, and the sections of one library
  are compared with those of the other in one direction only. A cache entry is registered before the
  report is written, so a run that fails in between leaves it.
- *Bootstrap hints.* The category of a bootstrap hint is `init` (`hints.rs:108`), while the order of
  the seeds has `bootstrap` (`flutterdec-disasm-arm64/src/lib.rs:502`), so these hints never seed a
  function, although `context.md:299` lists `bootstrap` among the categories that do.
- *Stale pool bases.* A base survives a branch to a register and a load or store that moves it, so a later load
  may be given another slot than it reads; `SlotIsRead` says where (`seen`).

## Not modelled

- The scores of the disassembler's ranking and the propagation of pool references: data.
- The bytes of ELF, APK, manifest and dex files and of layout tables: decoding of
  input. What is decoded is modelled from `SnapshotLoader` on.
- The memory and CPU limits, which the kernel enforces by itself, and the frozen file that stands for
  the sealed image on Darwin.
- Expression lifting, the cleanup of expressions and the passes that go by wording: text.
- Reports, manifest, diff, scripts, the command line, the packaged adapter: output, or somebody
  else's program.
- A power loss: it needs a model of which renames and directory entries have reached the disk.

Next, in this order: the walks of structuring as recursive functions, to prove about; a model of
durability under `AdapterStore`; the passes of `compact_lines` that read conditions.
