------------------------- MODULE MCFunctionPipeline -------------------------
EXTENDS FunctionPipeline

CONSTANT Length

Instructions(targets) ==
  [op : {"plain", "push", "trap", "return"}, to : {0}]
    \union [op : {"branch"}, to : targets]
    \union [op : {"jump"}, to : targets \union {0}]
    \union [op : {"check"}, to : targets]

\* A function may have no frame and decoding may stop anywhere, so up to Length
\* instructions a body is any; a longer one opens a frame and ends a path.  Of the longer
\* ones only those whose guard comes first have slow paths that are not their own.
Bodies(n) ==
  {code \in [1 .. n -> Instructions(1 .. n)] :
     \/ n < Length \/ OwnSlowPaths(code)
     \/ code[1].op = "check" /\ code[1].to > 2}

FramedBodies(n) ==
  {code \in [1 .. n -> Instructions(1 .. n)] :
     code[1].op = "push" /\ code[n].op \in {"return", "jump"} /\ OwnSlowPaths(code)}

FirstCalls == 1 .. Length + 1

Rec(id, code) ==
  [id |-> id, entry |-> Min(DOMAIN code), code |-> code, name |-> NoName, owner |-> 0]

\* Second comes a record of three functions and a raising stub, after whose trap the
\* second of them begins in the middle of a block.
Stubs ==
  [a \in 21 .. 28 |->
     [op |-> CASE a \in {21, 25, 27} -> "push" [] a \in {22, 26, 28} -> "return"
               [] a = 23 -> "plain" [] a = 24 -> "trap",
      to |-> 0]]

\* Two records, split.
CodeRequests ==
  [functions : {<<Rec(7, code), Rec(3, Stubs)>> :
                  code \in UNION {Bodies(n) : n \in 1 .. Length} \union FramedBodies(Length + 1)},
   scope : {{3, 7}}, focus : {{3, 7}}, flow : {{}}, target : {{}}, max : {{}}, split : {TRUE}]

-----------------------------------------------------------------------------
(* What is chosen among functions of one instruction.                       *)

\* Four candidates, whose ranks are their ids.
Ranks == 4

\* Sequences that name their values in the order they appear.
Growing(values) ==
  {seq \in [1 .. Ranks -> values] :
     \A i \in 1 .. Ranks : \A v \in 1 .. seq[i] - 1 : \E j \in 1 .. i - 1 : seq[j] = v}

\* At most one address is the entry of two.
EntryLists == {seq \in Growing(1 .. Ranks) : Cardinality({seq[i] : i \in 1 .. Ranks}) >= Ranks - 1}

\* Three owners of one name, and functions without one.
Owners == Growing(0 .. 3)

\* Three of five categories get a seed of their own.
Flows ==
  {{}, {<<2, "main">>, <<3, "main">>, <<3, "runapp">>, <<2, "activity">>, <<4, "bootstrap">>}}

Candidate(id, at, owner, decodes) ==
  [id |-> id, entry |-> at,
   code |-> IF decodes THEN at :> [op |-> "return", to |-> 0] ELSE <<>>,
   name |-> IF owner = 0 THEN NoName ELSE "a", owner |-> owner]

CapRequests ==
  [functions : {<<Candidate(1, entries[1], owners[1], 1 \in decoded),
                  Candidate(2, entries[2], owners[2], 2 \in decoded),
                  Candidate(3, entries[3], owners[3], 3 \in decoded),
                  Candidate(4, entries[4], owners[4], 4 \in decoded)>> :
                  entries \in EntryLists, owners \in Owners,
                  decoded \in {d \in SUBSET (1 .. Ranks) : Cardinality(d) >= Ranks - 2}},
   scope : {1 .. Ranks}, focus : {1 .. Ranks}, flow : Flows, target : {{}},
   max : {{n} : n \in 1 .. 3}, split : {FALSE}]

\* Ids and entries that meet, a scope, a focus, a target.
ScopeRequests ==
  [functions : {<<Candidate(2, 1, 0, TRUE), Candidate(1, 3, 1, TRUE), Candidate(3, at, 1, TRUE)>> :
                  at \in 1 .. 3},
   scope : SUBSET (1 .. 3), focus : {{1, 3}, {2}}, flow : {{}},
   target : {{}} \union {{t} : t \in [by : {"id", "va", "any"}, value : 1 .. 4]},
   max : {{}, {1}}, split : BOOLEAN]

Trivial ==
  [functions |-> <<Candidate(1, 1, 0, TRUE)>>, scope |-> {1}, focus |-> {1}, flow |-> {}, target |-> {},
   max |-> {}, split |-> FALSE]

SmallRequests == {Trivial} \union CodeRequests \union CapRequests \union ScopeRequests

-----------------------------------------------------------------------------
(* What is scanned: up to four methods of one class, in either order.       *)

Load(r, value) == [op |-> "load", to |-> r, value |-> value]
Ins(op, to, from) == [op |-> op, to |-> to, from |-> from]
Invoke(class, name, args) == [op |-> "invoke", call |-> <<class, name>>, args |-> args]

Method(class, name, code) == [class |-> class, name |-> name, code |-> code]

Gets(name, r) == <<Invoke("App", name, <<>>), Ins("result", r, 0)>>
Gives(r) == <<Ins("return", 0, r)>>

\* Registers 1 and 2, of two texts, of what a method gives, or of nothing known.
Chunks ==
  {<<Load(r, {Text(text)})>> : r \in {1, 2}, text \in {"a", "b"}}
    \union {<<Load(2, {})>>, <<Load(2, {Unknown})>>, <<Ins("get", 2, 0)>>,
            <<Ins("move", 2, 1)>>, <<Ins("move", 1, 3)>>}
    \union {Gets(name, 2) : name \in {"f", "g", "h"}}
    \union {<<Invoke("App", "g", <<>>), Invoke("Other", "x", <<>>), Ins("result", 2, 0)>>}

Makers ==
  {a \o b \o <<Load(3, {Blank}), Invoke("entrypoint", "<init>", args)>> \o last :
     a \in Chunks, b \in Chunks, args \in {<<3, 1, 2>>, <<3, 1, 2, 1>>},
     last \in {<<Invoke("executor", "executeDartEntrypoint", <<0, 3>>)>>,
               <<Invoke("jni", "runBundleAndSnapshotFromLibrary", <<0, 1, 2>>)>>}}

Givers ==
  {c \o Gives(2) : c \in Chunks} \union {Gets("h", 2) \o Gives(2) \o c \o Gives(2) : c \in Chunks}

OneText == <<Load(2, {Text("a")})>> \o Gives(2)

Maker == Gets("g", 1) \o Gets("g", 2) \o <<Load(3, {Blank}), Invoke("entrypoint", "<init>", <<3, 1, 2>>)>>

\* f makes, g and h give; a fourth is another g or what h asks.
Scans ==
  {<<Method("App", "f", maker), Method("App", "g", Gets("h", 2) \o Gives(2)), Method("App", "h", OneText)>> : maker \in Makers}
    \union {<<Method("App", "f", Maker), Method("App", "g", giver), Method("App", "h", last)>> :
              giver \in Givers, last \in {c \o Gives(2) : c \in Chunks}}
    \union {<<Method("App", "f", Maker), Method("App", "g", giver), Method("App", "h", Gets("k", 2) \o Gives(2)),
              Method("App", name, OneText)>> : giver \in Givers, name \in {"g", "k"}}

Apk(dexes) ==
  [dexes |-> dexes, application |-> {"App"}, opened |-> {"Main"}, activities |-> {"Deep"},
   applications |-> {"App"},
   functions |-> {[entry |-> 1, name |-> "main", place |-> "app"],
                  [entry |-> 2, name |-> "onCreate", place |-> "activity"],
                  [entry |-> 3, name |-> "ensureInitialized", place |-> "app"]}]

NoApk == Apk(<<>>)

ScanApks ==
  {Apk(<<[reads |-> TRUE, supers |-> [c \in {"App"} |-> {}], methods |-> methods]>>) :
     methods \in Scans \union {Reverse(methods) : methods \in Scans}}

-----------------------------------------------------------------------------
(* What is linked: four methods and up to four calls among them.            *)

M(dex, class, name, stages) == [dex |-> dex, class |-> class, name |-> name, stages |-> stages]

Start  == <<"loader", "startInitialization">>
Attach == <<"jni", "attachToNative">>

\* One of the embedding beside an application, a launcher and an activity; two of the
\* embedding beside an activity and its superclass; two classes that both of two dex
\* files have; and a heuristic entry.
Casts ==
  {<<M(1, "App", "onCreate", {}), M(1, "Main", "onStart", {}), M(1, "Deep", "x", {}),
     M(1, "engine", "spawn", {Attach})>>,
   <<M(1, "Main", "onCreate", {}), M(1, "Base", "x", {Start}), M(1, "embedding", "spawn", {Attach}),
     M(1, "loader", "y", {Start})>>,
   <<M(1, "App", "x", {}), M(1, "Main", "x", {}), M(2, "App", "x", {Attach}), M(2, "Main", "x", {Start})>>,
   <<M(1, "Other", "onNewIntent", {}), M(1, "Base", "x", {Attach}), M(1, "Base", "y", {}),
     M(1, "Main", "x", {Attach, Start})>>}

Dex(cast, calls, dex) ==
  LET here == {i \in DOMAIN cast : cast[i].dex = dex}
      made(i) == {<<cast[c[2]].class, cast[c[2]].name>> : c \in {d \in calls : d[1] = i}} \union cast[i].stages
      code(i) == SetToSeq({Invoke(call[1], call[2], <<>>) : call \in made(i)})
  IN  [reads   |-> TRUE,
       supers  |-> [class \in {cast[i].class : i \in here} |->
                      CASE class = "Main" -> {"Base"} [] class = "Base" -> {"activity"} [] OTHER -> {}],
       methods |-> SetToSeq({Method(cast[i].class, cast[i].name, code(i)) : i \in here})]

Unread == [reads |-> FALSE, supers |-> <<>>, methods |-> <<>>]

LinkApks ==
  {Apk(<<Dex(cast, calls, 1), Dex(cast, calls, 2), Unread>>) :
     cast \in Casts,
     calls \in UNION {kSubset(n, {c \in (1 .. 4) \X (1 .. 4) : c[1] # c[2]}) : n \in 0 .. 4}}

SmallApks == {NoApk} \union ScanApks \union LinkApks

\* Every request without an APK, every APK with one request.
MCInit == (apk = NoApk \/ request = Trivial) /\ RunInit

MCSpec == MCInit /\ [][RunNext]_runVars

=============================================================================
