----------------------------- MODULE ApkStartup -----------------------------
(***************************************************************************)
(* What a decompile run learns from the dex files of an APK (crates/        *)
(* flutterdec-core, pipeline/apk_startup.rs and bootflow_hints.rs): which    *)
(* texts reach the calls that start Dart, along which calls the app comes    *)
(* to the stages of the engine's start, and the hints that this gives for    *)
(* the functions of the model.  Names are not spelled: where the code orders *)
(* by name, any order may be the one; what its reports repeat of that, and   *)
(* how sure they call it, is left out.                                      *)
(***************************************************************************)
EXTENDS Naturals, SequencesExt

\* An APK, unless it is not to be looked at, has its dex files in order, each of which can be read or not, with the
\* superclass, if any, of every class and the methods that have code; the classes
\* that the manifest names as the application, as a launcher or deep link and as
\* any other activity; the classes whose own name ends in Application; and the
\* functions of the model made from it.
CONSTANTS
  Apks,
  MaxPasses,   \* MAX_RETURN_SUMMARY_PASSES
  MaxDepth     \* MAX_STARTUP_REVERSE_DEPTH

ASSUME StartupAssumption == MaxPasses \in Nat /\ MaxDepth \in Nat

IsList(list) == Len(list) \in Nat /\ DOMAIN list = 1 .. Len(list)

ASSUME ApksAssumption ==
  \A a \in Apks :
    /\ IsList(a.dexes)
    /\ \A d \in DOMAIN a.dexes :
         /\ IsList(a.dexes[d].methods)
         /\ \A n \in DOMAIN a.dexes[d].methods : IsList(a.dexes[d].methods[n].code)

VARIABLES
  apk,
  startup,     \* reading, linking, searching, linked or done
  scan,        \* StartupScanResult of all dex files
  terminals,   \* the methods with a stage call that no path was built for yet
  search,      \* from one of them back along the calls
  chains,      \* bootstrap_chain.paths
  hints

startupVars == <<apk, startup, scan, terminals, search, chains, hints>>

-----------------------------------------------------------------------------
(* The embedding.                                                           *)

\* The classes whose calls are looked at by name, and any class under io/flutter/.
Framework == {"activity", "delegate", "engine", "loader", "jni", "executor", "entrypoint"}
Embedding == Framework \union {"embedding"}

Constructs == <<"entrypoint", "<init>">>
Executes   == <<"executor", "executeDartEntrypoint">>
RunsBundle == <<"jni", "runBundleAndSnapshotFromLibrary">>

Attaches == {<<"jni", "attachToNative">>, <<"jni", "nativeAttach">>}

\* jni_stage_for: the calls that are JNI evidence.
JniStages ==
  Attaches \union {<<"loader", "startInitialization">>, <<"loader", "ensureInitializationComplete">>}
    \union {<<"jni", name>> : name \in {"loadLibrary", "init", "nativeInit"}}

\* bootstrap_chain_stage_for_method.
StagesOf(call) ==
  CASE call = <<"delegate", "onAttach">>                   -> {"delegate_on_attach"}
    [] call = <<"engine", "<init>">>                       -> {"flutter_engine_ctor"}
    [] call = <<"loader", "startInitialization">>          -> {"loader_start_initialization"}
    [] call = <<"loader", "ensureInitializationComplete">> -> {"loader_ensure_initialization_complete"}
    [] call \in Attaches                                   -> {"jni_attach"}
    [] call \in {RunsBundle, Executes}                     -> {"dart_entrypoint_execute"}
    [] OTHER                                               -> {}

-----------------------------------------------------------------------------
(* What the registers of a method hold, read in the order of its code.      *)

Unknown    == [is |-> "unknown"]
Text(text) == [is |-> "text", text |-> text]

\* A DartEntrypoint and the texts it was made of, as far as they are known.
Entry(function, library, bundle) ==
  [is |-> "entry", function |-> function, library |-> library, bundle |-> bundle]

Blank == Entry({}, {}, {})

\* The one value there is.
Agreed(values) == IF Cardinality(values) = 1 THEN CHOOSE value \in values : TRUE ELSE Unknown

Held(regs, r) == IF r \in DOMAIN regs THEN regs[r] ELSE Unknown

Put(regs, r, value) == [q \in DOMAIN regs \union {r} |-> IF q = r THEN value ELSE regs[q]]

\* tracked_string of the n-th argument.
TextAt(regs, args, n) ==
  IF n \in DOMAIN args /\ Held(regs, args[n]).is = "text" THEN {Held(regs, args[n]).text} ELSE {}

\* build_tracked_dart_entrypoint: with a library before the function or without.
Constructed(regs, args) ==
  IF Len(args) < 3 THEN Blank
  ELSE IF Len(args) = 3 THEN Entry(TextAt(regs, args, 3), {}, TextAt(regs, args, 2))
  ELSE Entry(TextAt(regs, args, 4), TextAt(regs, args, 3), TextAt(regs, args, 2))

\* build_flutterjni_entrypoint.
Bundled(regs, args) == Entry(TextAt(regs, args, 3), TextAt(regs, args, 4), TextAt(regs, args, 2))

\* The values that executeDartEntrypoint may be given, the receiver not among them.
Executed(regs, args) ==
  LET given == {n \in 2 .. Len(args) : Held(regs, args[n]).is = "entry"}
  IN  {Held(regs, args[n]) : n \in {k \in given : \A j \in given : k <= j}}

\* The entrypoints that a call is evidence of.
Entries(regs, ins) ==
  LET given == CASE ins.call = Constructs -> {Constructed(regs, ins.args)} \ {Blank}
                 [] ins.call = Executes   -> Executed(regs, ins.args)
                 [] ins.call = RunsBundle -> {Bundled(regs, ins.args)} \ {Blank}
                 [] OTHER                 -> {}
  IN  {[by |-> ins.call[2], entry |-> entry] : entry \in given}

\* The registers after an instruction.  A load of nothing is one whose index does
\* not resolve: the summaries forget the register then, the scan leaves it as it is.
Tracked(s, ins, forgets) ==
  CASE ins.op = "move"   -> Put(s.regs, ins.to, Held(s.regs, ins.from))
    [] ins.op = "result" -> Put(s.regs, ins.to, s.result)
    [] ins.op = "load" /\ (ins.value # {} \/ forgets) -> Put(s.regs, ins.to, Agreed(ins.value))
    [] ins.op = "invoke" /\ ins.call = Constructs /\ ins.args # <<>> ->
         Put(s.regs, ins.args[1], Constructed(s.regs, ins.args))
    [] OTHER -> s.regs

\* What a call hands to a move-result right behind it: what the method called is
\* known to return, if it is one of the dex file and not the caller itself.
Result(d, own, sums, ins) ==
  LET key == [dex |-> d, class |-> ins.call[1], name |-> ins.call[2]]
  IN  IF ins.op = "invoke" /\ key # own /\ key \in DOMAIN sums /\ key.name \notin {"<init>", "<clinit>"}
      THEN sums[key] ELSE Unknown

KeyOf(d, m) == [dex |-> d, class |-> m.class, name |-> m.name]

\* The code of a method, from its beginning to where decoding ends.
Read(d, m, sums, forgets) ==
  FoldLeft(LAMBDA s, ins :
             [regs     |-> Tracked(s, ins, forgets),
              result   |-> Result(d, KeyOf(d, m), sums, ins),
              returned |-> s.returned \union (IF ins.op = "return" THEN {Held(s.regs, ins.from)} ELSE {}),
              entries  |-> s.entries \union (IF ins.op = "invoke" THEN Entries(s.regs, ins) ELSE {})],
           [regs |-> <<>>, result |-> Unknown, returned |-> {}, entries |-> {}],
           m.code)

\* Mutant: returns that nothing is known of have no say.
SummaryOfKnown(d, m, sums) == Agreed(Read(d, m, sums, TRUE).returned \ {Unknown})

\* scan_method_return_summary: what all its returns agree on.
Summary(d, m, sums) == Agreed(Read(d, m, sums, TRUE).returned)

Unsummed(d) == [key \in {KeyOf(d, m) : m \in Range(apk.dexes[d].methods)} |-> Unknown]

\* One round over the methods of a dex file.  Overloads have one key, and the last
\* of them has the word.
Round(d, sums) ==
  FoldLeft(LAMBDA t, m : [t EXCEPT ![KeyOf(d, m)] = Summary(d, m, t)], sums, apk.dexes[d].methods)

\* Mutant: one round and no more.
SummariesInOneRound(d) == Round(d, Unsummed(d))

\* collect_method_return_summaries: as many rounds as there are methods, up to a
\* limit.  (The code stops at a round that changes nothing, as no later one would.)
Summaries(d) ==
  LET after[n \in Nat] == IF n = 0 THEN Unsummed(d) ELSE Round(d, after[n - 1])
  IN  after[Min({Len(apk.dexes[d].methods), MaxPasses})]

-----------------------------------------------------------------------------
(* The scan.                                                                *)

ReadDexes == {d \in DOMAIN apk.dexes : apk.dexes[d].reads}

\* The methods that can be read, by dex file and place.
Places == UNION {{d} \X DOMAIN apk.dexes[d].methods : d \in ReadDexes}

MethodAt(p) == apk.dexes[p[1]].methods[p[2]]

KeyAt(p) == KeyOf(p[1], MethodAt(p))

CallsAt(p) == {ins.call : ins \in {i \in Range(MethodAt(p).code) : i.op = "invoke"}}

AllCalls == UNION {{[of |-> KeyAt(p), call |-> call] : call \in CallsAt(p)} : p \in Places}

\* scan_dex_bytes, of every dex file.  A call is one of the app when its class is of
\* the same file, and evidence of a start-up when its class is of the embedding.
Scanned ==
  [defs    |-> {KeyAt(p) : p \in Places},
   refs    |-> {c \in AllCalls : c.call[1] \in Framework},
   invokes |-> {c \in AllCalls : /\ c.call[1] \in DOMAIN apk.dexes[c.of.dex].supers
                                 /\ c.call[2] # "<clinit>"},
   entries |-> UNION {LET sums == Summaries(d) IN
                      UNION {{[of |-> KeyOf(d, m), by |-> e.by, entry |-> e.entry] :
                                e \in Read(d, m, sums, FALSE).entries} :
                               m \in Range(apk.dexes[d].methods)} : d \in ReadDexes}]

\* finalize_android_startup_evidence: a method that makes or executes an entrypoint
\* of which nothing was found is evidence all the same.
Entrypoints ==
  scan.entries \union
    {[of |-> r.of, by |-> r.call[2], entry |-> Blank] :
       r \in {q \in scan.refs : /\ q.call \in {Constructs, Executes}
                                /\ \A e \in scan.entries : <<e.of, e.by>> # <<q.of, q.call[2]>>}}

-----------------------------------------------------------------------------
(* The methods as the search meets them.                                    *)

Classes == UNION {DOMAIN apk.dexes[d].supers : d \in ReadDexes}

\* A class that two dex files have has the superclass of the later one.
Super(class) ==
  LET having == {d \in ReadDexes : class \in DOMAIN apk.dexes[d].supers}
  IN  IF having = {} THEN {} ELSE apk.dexes[Max(having)].supers[class]

\* has_super_class.
IsActivity(class) ==
  LET above[n \in Nat] == IF n = 0 THEN {class} ELSE UNION {Super(c) : c \in above[n - 1]}
  IN  \E n \in 1 .. Cardinality(Classes) : "activity" \in above[n]

OwnStages(key) == UNION {StagesOf(r.call) : r \in {q \in scan.refs : q.of = key}}

\* The methods with a stage call.  Each is a source of the chain too, with the Stages
\* of itself alone.
Terminals == {r.of : r \in {q \in scan.refs : StagesOf(q.call) # {}}}

\* A call is of the method in the first dex file that has code of its class.
Target(call) ==
  LET homes == {k.dex : k \in {key \in scan.defs : key.class = call[1]}}
  IN  IF homes = {} THEN {}
      ELSE {[dex |-> Min(homes), class |-> call[1], name |-> call[2]]} \cap scan.defs

Callers(key) == {i.of : i \in {j \in scan.invokes : key \in Target(j.call)}}

\* is_startup_entry_selector, in two parts.
Lifecycle == {"onCreate", "onStart", "onResume", "onAttach", "attachBaseContext"}
Prompts   == {"onNewIntent", "configureFlutterEngine", "provideFlutterEngine",
              "getDartEntrypointFunctionName", "getAppBundlePath", "getInitialRoute"}

\* startup_path_anchor_for_method: by what a method is known to be where the app
\* starts, the surest first; nothing for 0.
Rank(key) ==
  Max({0} \union
      {n \in 1 .. 5 :
         \/ n = 5 /\ key.class \in apk.application
         \/ n = 4 /\ key.class \in apk.opened
         \/ n = 3 /\ key.class \in apk.activities
         \/ n = 2 /\ IsActivity(key.class)
         \/ n = 1 /\ key.name \in Prompts
         \/ n = 1 /\ key.name \in Lifecycle /\ (key.class \in apk.applications \/ key \in Terminals)})

Stages(keys) ==
  UNION {OwnStages(key) : key \in keys}
    \union {stage \in {"activity_on_create"} :
              \E key \in keys : key.name = "onCreate" /\ IsActivity(key.class)}

-----------------------------------------------------------------------------
(* The paths to the stages.                                                 *)

StartupInit ==
  /\ apk \in Apks
  /\ startup = IF apk.dexes = <<>> THEN "linked" ELSE "reading"
  /\ scan = [defs |-> {}, refs |-> {}, invokes |-> {}, entries |-> {}]
  /\ terminals = {}
  /\ search = <<>>
  /\ chains = {}
  /\ hints = {}

ScanDexes ==
  /\ startup = "reading"
  /\ scan' = Scanned
  /\ terminals' = Terminals'
  /\ startup' = "linking"
  /\ UNCHANGED <<apk, search, chains, hints>>

\* A path is held backwards, from the method with the stage to the one reached.
StartSearch ==
  /\ startup = "linking"
  /\ \E terminal \in terminals :
       /\ search' = [terminal |-> terminal, queue |-> <<<<terminal>>>>, visited |-> {terminal}, best |-> <<>>]
       /\ terminals' = terminals \ {terminal}
  /\ startup' = "searching"
  /\ UNCHANGED <<apk, scan, chains, hints>>

\* Mutant: the last of the paths that are as sure.
SurerOrAsSure(path, best) ==
  /\ Rank(Last(path)) > 0
  /\ best # <<>> => Rank(Last(path)) >= Rank(Last(best))

\* A path from a surer place, or a shorter one from a place as sure.
Surer(path, best) ==
  /\ Rank(Last(path)) > 0
  /\ best # <<>> => \/ Rank(Last(path)) > Rank(Last(best))
                    \/ Rank(Last(path)) = Rank(Last(best)) /\ Len(path) < Len(best)

\* The next of the queue, then those that call it, in any order.
Visit ==
  /\ startup = "searching"
  /\ search.queue # <<>> /\ Len(Head(search.queue)) <= MaxDepth
  /\ LET path  == Head(search.queue)
         at    == Last(path)
         fresh == Callers(at) \ search.visited
     IN  \E order \in SetToSeqs(fresh) :
           search' = [search EXCEPT
             !.queue   = Tail(@) \o [i \in DOMAIN order |-> Append(path, order[i])],
             !.visited = @ \union fresh,
             !.best    = IF at # search.terminal /\ Surer(path, @) THEN path ELSE @]
  /\ UNCHANGED <<apk, startup, scan, terminals, chains, hints>>

TurnBack ==
  /\ startup = "searching"
  /\ search.queue # <<>> /\ Len(Head(search.queue)) > MaxDepth
  /\ search' = [search EXCEPT !.queue = Tail(@)]
  /\ UNCHANGED <<apk, startup, scan, terminals, chains, hints>>

\* With nowhere to come from, the terminal stands for itself.
Chain ==
  LET back == IF search.best = <<>> THEN <<search.terminal>> ELSE search.best
  IN  [keys |-> Reverse(back), stages |-> Stages(Range(back))]

\* The dex file of the end does not tell two paths apart.
SamePath(c, d) ==
  /\ c.keys[1] = d.keys[1] /\ c.stages = d.stages
  /\ Last(c.keys).class = Last(d.keys).class /\ Last(c.keys).name = Last(d.keys).name

KeepPath ==
  /\ startup = "searching" /\ search.queue = <<>>
  /\ chains' = chains \union {c \in {Chain} : \A d \in chains : ~SamePath(c, d)}
  /\ startup' = "linking"
  /\ search' = <<>>
  /\ UNCHANGED <<apk, scan, terminals, hints>>

\* startup_owner_kind goes by the prefix.
OfTheApp(c) == c.keys[1].class \notin Embedding

\* Mutant: when there is one of the app, whatever that one comes to.
RetainedOfTheApp(paths) ==
  {c \in paths : OfTheApp(c) \/ ~\E d \in paths : OfTheApp(d)}

\* A path of the embedding goes when those of the app come to all its stages.
Retained(paths) ==
  LET covered == UNION {c.stages : c \in {d \in paths : OfTheApp(d)}}
  IN  {c \in paths : covered = {} \/ OfTheApp(c) \/ ~(c.stages \subseteq covered)}

Link ==
  /\ startup = "linking" /\ terminals = {}
  /\ chains' = Retained(chains)
  /\ startup' = "linked"
  /\ UNCHANGED <<apk, scan, terminals, search, hints>>

-----------------------------------------------------------------------------
(* The hints.                                                               *)

DeepLinks == {"onNewIntent", "handleIntent", "didPushRoute", "didPushRouteInformation", "didPopRoute",
              "setNewRoutePath", "parseRouteInformation", "onGenerateRoute", "onUnknownRoute"}

Intents   == {"onNewIntent", "handleIntent"}
Callbacks == {"onCreate", "onStart", "onResume", "onPause", "onStop", "onActivityResult"}

Initializers == {"nativeEnsureInitialized", "startInitialization", "ensureInitializationComplete"}

\* hint_kinds_for_selector: what the name of a function and where it stands suggest.
KindsOf(f) ==
  {kind \in {"entry", "main", "runapp", "deeplink", "activity", "init"} :
     \/ kind \in {"entry", "main"}   /\ f.name = "main"
     \/ kind \in {"entry", "runapp"} /\ f.name = "runApp"
     \/ kind = "deeplink" /\ f.name \in DeepLinks
     \/ kind = "activity" /\ f.name \in Intents
     \/ kind = "activity" /\ f.name \in Callbacks /\ f.place = "activity"
     \/ kind = "init" /\ f.name \in Initializers
     \/ kind = "init" /\ f.name = "ensureInitialized" /\ f.place = "bootstrap"}

\* What the dex files are evidence of, by the calls of the embedding and the names of
\* the methods that make them.
Licensed ==
  LET calls == {r.call : r \in scan.refs}
      names == {r.of.name : r \in scan.refs}
  IN  {kind \in {"entry", "main", "runapp"} : \/ Entrypoints # {}
                                              \/ calls \cap {Constructs, Executes, RunsBundle} # {}}
        \union {kind \in {"deeplink"} : names \cap DeepLinks # {}}
        \union {kind \in {"activity"} : \/ names \cap (Intents \union Callbacks) # {}
                                        \/ \E class \in Classes : IsActivity(class)}
        \union {kind \in {"init"} :
                  calls \cap (JniStages \union {<<"delegate", "onAttach">>, <<"engine", "<init>">>}) # {}}

\* collect_model_name_hints.
NameHints ==
  UNION {{[kind |-> kind, origin |-> "name", at |-> {f.entry}] : kind \in KindsOf(f)} : f \in apk.functions}

\* At the functions of the model that evidence and name agree on; and, for what no
\* function is found for, at none.  Only a function is ever an entry point.
StartupHints ==
  LET anchored == UNION {{[kind |-> kind, origin |-> "apk", at |-> {f.entry}] :
                            kind \in KindsOf(f) \cap Licensed} : f \in apk.functions}
      loose    == Licensed \ ({h.kind : h \in anchored} \union {"entry"})
  IN  anchored \union {[kind |-> kind, origin |-> "apk", at |-> {}] : kind \in loose}

CollectHints ==
  /\ startup = "linked"
  /\ hints' = NameHints \union StartupHints
  /\ startup' = "done"
  /\ UNCHANGED <<apk, scan, terminals, search, chains>>

StartupNext ==
  \/ ScanDexes
  \/ StartSearch \/ Visit \/ TurnBack \/ KeepPath \/ Link
  \/ CollectHints

StartupSpec == StartupInit /\ [][StartupNext]_startupVars

-----------------------------------------------------------------------------
(* What the code of a method says, read backwards.                          *)

Writes(ins, r) ==
  \/ ins.op \in {"move", "result", "load", "get"} /\ ins.to = r
  \/ ins.op = "invoke" /\ ins.call = Constructs /\ ins.args # <<>> /\ ins.args[1] = r

Callees(p) ==
  {q \in Places : /\ q[1] = p[1] /\ KeyAt(q) # KeyAt(p)
                  /\ <<MethodAt(q).class, MethodAt(q).name>> \in CallsAt(p)}

\* The methods that p comes to call.
Below(p) ==
  LET level[n \in Nat] == IF n = 0 THEN Callees(p) ELSE UNION {Callees(q) : q \in level[n - 1]}
  IN  UNION {level[n] : n \in 0 .. Cardinality(Places)}

\* What register r holds before the at-th instruction of p: what the last instruction
\* that writes it put there, be it what the returns of a called method agree on.
Holds(start, end, reg) ==
  LET holds[p \in Places, at \in Nat, r \in Nat] ==
        LET code    == MethodAt(p).code
            writers == {j \in 1 .. at - 1 : Writes(code[j], r)}
            last    == Max(writers)
            ins     == code[last]
            called  == {q \in Callees(p) :
                          /\ last > 1 /\ code[last - 1].op = "invoke"
                          /\ code[last - 1].call = <<MethodAt(q).class, MethodAt(q).name>>
                          /\ MethodAt(q).name \notin {"<init>", "<clinit>"}}
            returns(q) == {k \in DOMAIN MethodAt(q).code : MethodAt(q).code[k].op = "return"}
        IN  CASE writers = {}       -> Unknown
              [] ins.op = "move"    -> holds[p, last, ins.from]
              [] ins.op = "load"    -> Agreed(ins.value)
              [] ins.op = "get"     -> Unknown
              [] ins.op = "invoke"  -> Constructed([q \in Range(ins.args) |-> holds[p, last, q]], ins.args)
              [] ins.op = "result"  ->
                   Agreed(UNION {{holds[q, k, MethodAt(q).code[k].from] : k \in returns(q)} : q \in called})
  IN  holds[start, end, reg]

\* The code says all there is to know: every name is one method's, every text resolves
\* and no register is written unseen, calls do not come back to where they began, and
\* there are rounds enough for what they return.
Plain(d) ==
  /\ Len(apk.dexes[d].methods) <= MaxPasses + 1
  /\ \A p, q \in Places : p[1] = d /\ KeyAt(p) = KeyAt(q) => p = q
  /\ \A p \in Places :
       p[1] = d => /\ p \notin Below(p)
                   /\ \A ins \in Range(MethodAt(p).code) :
                        ins.op # "get" /\ (ins.op = "load" => ins.value # {})

TextsOf(entry) == entry.function \union entry.library \union entry.bundle

LoadedAt(p) ==
  {value.text : value \in {v \in UNION {ins.value : ins \in {i \in Range(MethodAt(p).code) : i.op = "load"}} :
                             v.is = "text"}}

-----------------------------------------------------------------------------
(* Properties.                                                              *)

\* A text that is reported for an entrypoint is one of the method's own or of a method
\* it comes to call; and of a file whose code says all there is to know, exactly the
\* entrypoints are reported that each call gets, read back from the call, whatever
\* the order of the methods and the moves, calls and returns it came through.
EntrypointsAreTheCode ==
  startup # "reading" =>
    /\ \A e \in scan.entries : \E p \in Places :
         /\ KeyAt(p) = e.of
         /\ TextsOf(e.entry) \subseteq UNION {LoadedAt(q) : q \in {p} \union Below(p)}
    /\ \A d \in {f \in ReadDexes : Plain(f)} :
         {e \in scan.entries : e.of.dex = d} =
           UNION {LET code == MethodAt(p).code IN
                  UNION {{[of |-> KeyAt(p), by |-> e.by, entry |-> e.entry] :
                            e \in Entries([r \in Range(code[j].args) |-> Holds(p, j, r)], code[j])} :
                           j \in {k \in DOMAIN code : code[k].op = "invoke"}} :
                  p \in {q \in Places : q[1] = d}}

\* The methods from which n calls, one after the other, lead to key.
Before(key, n) ==
  LET before[k \in Nat] == IF k = 0 THEN {key} ELSE UNION {Callers(c) : c \in before[k - 1]}
  IN  before[n]

\* A path is made of calls, and from the surest place that comes to its stage within
\* the depth: no path from one as sure is shorter.  It has the stages that its methods
\* call, and no stage that a method calls is left without a path to it.
ChainsAreTheCalls ==
  startup \in {"linked", "done"} =>
    /\ \A c \in chains :
         LET last == Last(c.keys)
             size == Len(c.keys)
         IN  /\ last \in Terminals
             /\ \A i \in 1 .. size - 1 : c.keys[i] \in Callers(c.keys[i + 1])
             /\ c.stages = Stages(Range(c.keys))
             /\ \A n \in 1 .. MaxDepth - 1 : \A key \in Before(last, n) \ {last} :
                  Rank(key) > 0 => /\ size > 1
                                   /\ \/ Rank(key) < Rank(c.keys[1])
                                      \/ Rank(key) = Rank(c.keys[1]) /\ size <= n + 1
             /\ size <= Max({1, MaxDepth})
    /\ \A key \in Terminals : OwnStages(key) \subseteq UNION {c.stages : c \in chains}
=============================================================================
