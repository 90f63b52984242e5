-------------------------- MODULE MCDecompileRun ---------------------------
(* Libraries, models, symbol files and bodies for checking DecompileRun, and *)
(* beside it the symbol cache that decompile runs share with map-symbols.   *)
EXTENDS DecompileRun, MCSymbolMapCache

Header1 == [length |-> 3, hex |-> TRUE, room |-> 2, printable |-> TRUE, kind |-> "full_aot",
            hash |-> "h1", features |-> {"arm64", "compressed"}]

Seg(vaddr, memsz, filesz, offset) ==
  [vaddr |-> vaddr, memsz |-> memsz, filesz |-> filesz, offset |-> offset]
Sym(name, value, size) == [name |-> name, value |-> value, size |-> size]

Plain == [o \in 0..23 |-> <<"plain">>]

\* Data at its file offset, text four addresses further on.
Library ==
  [machine |-> "aarch64", len |-> 20,
   headers |-> <<Seg(0, 8, 8, 0), Seg(12, 12, 12, 8)>>,
   dyn |-> <<Sym("vm_data", 0, 4), Sym("isolate_data", 4, 4), Sym("vm_instructions", 12, 4),
             Sym("isolate_instructions", 16, 8)>>,
   sym |-> <<>>,
   magics |-> (0 :> Header1), hashes |-> <<>>, seam |-> {}, code |-> Plain]

LibraryBundle == Bundle(Library)

F(id, start, size, section) ==
  [id |-> id, name |-> Nothing, nameProv |-> Nothing, confidence |-> Nothing, owner |-> None,
   start |-> start, size |-> size, section |-> section, prov |-> "exact"]
C(id, super) == [id |-> id, name |-> "C", library |-> 1, super |-> super, prov |-> "exact"]
E(index, kind, target) ==
  [index |-> index, kind |-> kind, target |-> target, value |-> "v", prov |-> "exact",
   confidence |-> Nothing]

\* A model with something in every domain.
Model ==
  [version |-> Version, producer |-> "adapter", identity |-> LibraryBundle.identity,
   binding |-> "record", regions |-> Observed(LibraryBundle.spans),
   libraries |-> <<[id |-> 1, name |-> "l", prov |-> "exact"]>>,
   classes |-> <<C(1, None), C(2, 1), C(3, 2)>>,
   functions |-> <<F(1, 16, 4, 16), [F(2, 20, 4, 16) EXCEPT !.name = "f", !.nameProv = "exact", !.owner = 2]>>,
   pool |-> [space |-> "hardware", word |-> 2, entries_offset |-> 2, entries |-> <<E(0, "string", None)>>],
   caps |-> [d \in Domains |-> "partial"], explained |-> {}]

Other == [Library EXCEPT !.machine = "other"]

\* Archives: the wanted ABI, another one, none.
Entry(path, libapp) == [path |-> path, libapp |-> libapp]
Archives ==
  {<<"archive", e>> : e \in {<<Entry("lib/x86/libapp.so", TRUE), Entry(p, TRUE)>> :
              p \in {Preferred[1], Preferred[2], "lib/armeabi/libapp.so"}}
           \union {<<Entry("classes.dex", FALSE), Entry("lib/x86/libapp.so", TRUE)>>,
                   <<Entry("classes.dex", FALSE)>>}}

\* Containers: memory beyond the file, headers in any order or sharing addresses, symbols
\* anywhere, in both tables, missing, empty, and at the end of the address space.
Containers ==
  {[Library EXCEPT !.headers = h] :
     h \in {<<Seg(0, 8, 8, 0), Seg(12, 16, 12, 8)>>, <<Seg(12, 12, 12, 8), Seg(0, 14, 8, 0)>>,
            <<Seg(0, 14, 8, 0), Seg(12, 12, 12, 8)>>, <<Seg(4, 4, 4, 4), Seg(0, 8, 8, 0), Seg(12, 12, 12, 8)>>,
            <<Seg(0, 8, 8, 0), Seg(12, 12, 6, 8)>>, <<Seg(0, 8, 8, 0), Seg(12, 8, 12, 8)>>, <<Seg(0, 8, 8, 0)>>, <<Seg(0, 8, 8, 0), Seg(12, 12, 12, 10)>>}}
  \union
  {[Library EXCEPT !.sym = <<Sym("isolate_instructions", v, s)>>] : v \in {12, 15, 16, 18, 23, 24}, s \in {0, 1, 3, 6, 8, 12, Top - 1}}
  \union
  {[Library EXCEPT !.headers[2] = Seg(Top - 10, 12, 12, 8),
                   !.sym = <<Sym("vm_instructions", Top - 10, 4), Sym("isolate_instructions", Top - 6, s)>>] :
     s \in {4, 5, 6, 8}}
  \union {[Library EXCEPT !.dyn = Tail(Library.dyn)]}

\* Snapshot headers, and hashes where there is no header.
Snapshots ==
  {[Library EXCEPT !.magics = m] :
     m \in {<<>>, (4 :> Header1), (1 :> Header1) @@ (4 :> Header1), (2 :> Header1) @@ (5 :> Header1)}
           \union {(0 :> [Header1 EXCEPT !.length = n, !.room = r]) : n \in {0, 4, 5}, r \in {None, 3, 4}}
           \union {(0 :> [Header1 EXCEPT !.kind = "full_jit"]), (0 :> [Header1 EXCEPT !.hex = FALSE]),
                   (0 :> [Header1 EXCEPT !.printable = FALSE])}
           \union {(0 :> [Header1 EXCEPT !.features = s]) : s \in SUBSET {"arm64", "x64", "compressed", "uncompressed"}}}
  \union
  {[Library EXCEPT !.magics = <<>>, !.hashes = h, !.seam = s] :
     s \in {{}, {[hash |-> "c", product |-> FALSE]}, {[hash |-> "c", product |-> TRUE]}},
     h \in {(0 :> [hash |-> "a", product |-> FALSE]) @@ (5 :> [hash |-> "b", product |-> TRUE]),
            (3 :> [hash |-> "a", product |-> FALSE])}}

\* Code of four instructions, with calls between them.
CodeOf(c) == [o \in 0..23 |-> IF o \in 12..18 /\ o % 2 = 0 THEN c[(o - 12) \div 2 + 1] ELSE <<"plain">>]
Streams ==
  [1..4 -> {<<"plain">>, <<"prologue">>, <<"bad">>} \union {<<"bl", n>> : n \in -1..2}]
  \union {[k \in 1..4 |-> IF k = at THEN <<"epilogue">> ELSE <<"plain">>] : at \in 1..4}

\* Walks over pool loads, with a base that may be overwritten in every way.
Loads ==
  {<<"page", 0, 2>>, <<"page", 1, 4>>, <<"ldr", 0, 0, 2>>, <<"ldr", 1, 1, 1>>, <<"ldr", 1, PP, 4>>,
   <<"ldp", 1, 0>>, <<"alu", 1, 0>>, <<"bl", 0>>, <<"br">>}
WriteBacks == {<<"next", 1, 0>>, <<"nexts", 1, 26, 0>>, <<"put", 1, 0>>}
Walks ==
  {w \in [1..4 -> Loads \union WriteBacks] :
     /\ w[3] \notin WriteBacks
     /\ w[1] \in {<<"page", 0, 2>>, <<"page", 1, 4>>, <<"ldr", 1, PP, 4>>}
     /\ w[4][1] \in {"ldr", "ldp"}}

\* Models, each wrong in some way or in none.
Supers == {None, 1, 2, 3, 4}
Models ==
  {[Model EXCEPT !.classes = <<C(1, a), C(2, b), C(3, c)>>] : a, b, c \in Supers}
  \union {[Model EXCEPT !.classes[1].library = l, !.functions[2].owner = o] : l \in {None, 2}, o \in {None, 1, 4}}
  \union {[Model EXCEPT !.functions = <<F(1, s, n, b)>>] :
            s \in {0, 11, 12, 14, 16, 17, 20, 23, 24, Top - 2}, n \in {0, 1, 2, 4, 8, 9}, b \in {0, 12, 16}}
  \union {[Model EXCEPT !.functions = <<F(a, 16, 4, 16), F(2, 20, 4, 16)>>] : a \in {2, 3}}
  \union {[Model EXCEPT !.pool.word = w, !.pool.entries_offset = o, !.pool.space = s,
                        !.pool.entries = <<E(i, "string", None), E(3, "string", None)>>] :
            w \in {None, 0, 1, 2, 3, 4, 16}, o \in {0, 2, 3}, s \in {"hardware", "ordinal"}, i \in {0, 2, 3, Top - 1}}
  \union {[Model EXCEPT !.pool.entries = <<[E(1, k, t) EXCEPT !.value = v]>>] :
            k \in {"string", "code", "selector", "undecoded"}, t \in {None, 11, 12, 23, 24}, v \in {"v", "?", Nothing}}
  \union {[Model EXCEPT !.caps[d] = l, !.explained = e] :
            d \in Domains, l \in {"complete", "unavailable"}, e \in {{}, Domains}}
  \union {[Model EXCEPT !.caps = [d \in Domains |-> "unavailable"], !.explained = Domains, !.libraries = <<>>,
                        !.classes = <<>>, !.functions = fs, !.pool = [@ EXCEPT !.space = "ordinal", !.word = None, !.entries = <<>>]] :
            fs \in {<<>>, <<F(1, 16, 4, 16)>>}}
  \union {[Model EXCEPT !.functions[2].nameProv = p, !.functions[2].confidence = c] :
            p \in {"exact", "heuristic"}, c \in {Nothing, "in range", "out of range"}}
  \union {[Model EXCEPT !.functions[2].name = "?"], [Model EXCEPT !.version = 3], [Model EXCEPT !.producer = "x"],
          [Model EXCEPT !.regions = Tail(@)], [Model EXCEPT !.regions[1].size = 5],
          [Model EXCEPT !.regions = <<@[2], @[1], @[3], @[4]>>], [Model EXCEPT !.regions[4].executable = FALSE]}

OneFunction == [Model EXCEPT !.functions = <<F(1, 16, 8, 16)>>]

---------------------------------------------------------------------------
(* Names.                                                                   *)

Uris == {"l", "dart:core", "package:flutter", "package:app", "other"}
TheUriKind ==
  [u \in Uris |-> CASE u = "dart:core" -> "stdlib" [] u = "package:flutter" -> "framework"
                    [] u = "package:app" -> "app" [] OTHER -> "unknown"]
ThePackage == [u \in Uris |-> IF TheUriKind[u] = "app" THEN "app" ELSE Nothing]
TheSegment == [u \in Uris |-> IF TheUriKind[u] = "unknown" THEN Nothing ELSE "seg"]

TheTexts == {"C", "Cls", "f", "g", "sub", "sign", "s", "longer", "mark", "v", "?"}
TheToken == [t \in TheTexts |-> IF t = "sign" THEN Nothing ELSE t]
TheNormal == [t \in TheTexts |-> IF t = "sign" THEN Nothing ELSE t]
TheLengths == [t \in TheTexts |-> IF t = "longer" THEN 6 ELSE 1]

Lib(id, uri) == [id |-> id, name |-> uri, prov |-> "exact"]
Cls(id, library) == [id |-> id, name |-> "Cls", library |-> library, super |-> None, prov |-> "exact"]

\* A class in each kind of library, and two functions.
NamedModel ==
  [Model EXCEPT !.libraries = <<Lib(1, "dart:core"), Lib(2, "package:flutter"), Lib(3, "package:app"), Lib(4, "other")>>,
                !.classes = <<Cls(1, 1), Cls(2, 2), Cls(3, 3), Cls(4, 4), Cls(5, None)>>,
                !.functions = <<[F(1, 16, 4, 16) EXCEPT !.name = "f", !.nameProv = "exact", !.owner = 1],
                                [F(2, 20, 4, 16) EXCEPT !.name = "g", !.nameProv = "derived", !.owner = 3]>>]

NoRequest == [scope |-> "all", packages |-> {}, target |-> NoTarget, canonical |-> TRUE, pool |-> TRUE, nearest |-> FALSE]
Requests ==
  {[NoRequest EXCEPT !.scope = s, !.packages = p] : s \in {"all", "app", "app-unknown"}, p \in {{}, {"app"}, {"x"}}}
  \union {[NoRequest EXCEPT !.target = <<k, n>>, !.scope = s] :
            k \in {"id", "va", "any"}, n \in {1, 16, 20, 50}, s \in {"all", "app"}}

Sy(va, kind, name) == [va |-> va, kind |-> kind, name |-> name]
ElfOf(sym, dyn) == [reads |-> TRUE, machine |-> "aarch64", sym |-> sym, dyn |-> dyn, sections |-> <<>>]
Section(addr, code) == [addr |-> addr, size |-> Len(code) * Word, exec |-> TRUE, fits |-> TRUE, code |-> code]
Symbolled ==
  ElfOf(<<Sy(16, "func", "s"), Sy(20, "object", "s"), Sy(0, "func", "s")>>, <<Sy(16, "notype", "longer"), Sy(18, "func", "sub")>>)

\* Two libraries and how they are compared: calls to 16, 18 and 24, and one behind a word that is none.
Pairs ==
  {[stripped |-> [ElfOf(<<>>, <<>>) EXCEPT !.sections = <<Section(10, c)>>],
    unstripped |-> [Symbolled EXCEPT !.sections = <<Section(10, <<<<"bl", 3>>, <<"bl", 3>>>>)>>, !.sym = y],
    reach |-> r, branches |-> b, mustMatch |-> m] :
     c \in {<<<<"bl", 3>>, <<"bl", 3>>>>, <<<<"bl", 5>>, <<"bad">>, <<"bl", 1>>>>, <<<<"b", 3>>, <<"bl", 6>>>>, <<<<"bl", -6>>>>},
     y \in {<<>>, <<Sy(16, "func", "s")>>, <<Sy(22, "func", "f"), Sy(14, "func", "mark")>>}, r \in {0, 2, 6},
     b \in BOOLEAN, m \in BOOLEAN}
OddPairs ==
  LET p == CHOOSE q \in Pairs : ~q.mustMatch
  IN  {[p EXCEPT !.stripped.machine = "other"], [p EXCEPT !.unstripped.dyn = <<>>, !.unstripped.sym = <<Sy(16, "func", "mark")>>],
       [p EXCEPT !.stripped.sections = <<[Section(10, <<<<"bl", 3>>>>) EXCEPT !.exec = FALSE]>>],
       [p EXCEPT !.mustMatch = TRUE, !.stripped.sections = @ \o @], [p EXCEPT !.stripped.reads = FALSE]}

Elf(elf) == [kind |-> "elf", elf |-> elf]
Map(pair) == [kind |-> "map", pair |-> pair]
External1 == Elf(ElfOf(<<Sy(16, "func", "s"), Sy(24, "func", "sign")>>, <<>>))
External2 == Elf(ElfOf(<<Sy(16, "func", "longer"), Sy(20, "func", "sub")>>, <<>>))

\* Cases: a model, a request, hints and externals.
Case(m, r, h, x) == [model |-> m, request |-> r, hints |-> h, externals |-> x]
AHint == <<[target |-> 20, selector |-> "v", owner |-> "Cls", library |-> "package:app"]>>
NameCases ==
  {Case([NamedModel EXCEPT !.functions[1].name = n, !.functions[1].nameProv = IF n = Nothing THEN Nothing ELSE p,
                           !.functions[1].owner = o],
        [NoRequest EXCEPT !.canonical = c], <<>>, x) :
     n \in {Nothing, "f", "sub", "sign"}, p \in {"exact", "derived", "heuristic"}, o \in {None, 1, 3, 4},
     c \in BOOLEAN, x \in {<<>>, <<External1, External2>>, <<External2, External1>>}}
  \union {Case([NamedModel EXCEPT !.pool.entries = <<[E(1, k, t) EXCEPT !.value = v], [E(2, "selector", 20) EXCEPT !.value = w]>>,
                                  !.functions[2].name = n, !.functions[2].nameProv = IF n = Nothing THEN Nothing ELSE "heuristic",
                                  !.functions[2].owner = o],
               [NoRequest EXCEPT !.pool = b], h, <<>>) :
            k \in {"string", "code", "selector"}, t \in {16, 20}, v \in {"v", Nothing}, w \in {"Cls", "v"},
            n \in {Nothing, "g"}, o \in {None, 3}, b \in BOOLEAN, h \in {<<>>, AHint}}
  \union {Case([NamedModel EXCEPT !.functions[2].start = 16, !.functions[2].name = n,
                                  !.functions[2].nameProv = IF n = Nothing THEN Nothing ELSE "heuristic"],
               NoRequest, <<>>, <<External1>>) : n \in {Nothing, "g"}}
  \union {Case(NamedModel, [NoRequest EXCEPT !.nearest = n], <<>>, <<Map(p)>>) : n \in BOOLEAN, p \in Pairs \union OddPairs}
  \union {Case(NamedModel, NoRequest, <<>>, x) :
            x \in {<<Elf(Symbolled), External1>>, <<External1, Elf([Symbolled EXCEPT !.reads = FALSE])>>}}
  \union {Case([NamedModel EXCEPT !.functions[1].id = i], r, <<>>, <<>>) : r \in Requests, i \in {1}}
  \union {Case([NamedModel EXCEPT !.functions[2].id = 16, !.functions[2].owner = 1], r, <<>>, <<>>) : r \in Requests}

---------------------------------------------------------------------------
(* Stubs: two functions of four instructions, with one of a few slots that  *)
(* are in the one table, the other, or both.                                *)

Plainly(k) == [i \in 1..k |-> <<"plain">>]
StubBodies(slot) ==
  LET load == <<"ldr", 0, THR, slot>>
  IN  {<<<<"push", 1>>, load, <<"plain">>, <<"plain">>>>,
       <<load, <<"ldr", 1, 0, 7>>, <<"br">>, <<"plain">>>>,
       <<load, <<"plain">>, <<"br">>, <<"plain">>>>,
       <<<<"push", 1>>, <<"plain">>, <<"plain">>, load>>}
Allocator(low) == <<<<"mov", 0, low>>, <<"movk", 0, 1, TRUE>>, <<"plain">>, <<"br">>>>
SomeSlots == {\hC8, \h100, \hE8, \h158, \h1C8}
Bodies ==
  UNION {StubBodies(s) : s \in SomeSlots}
  \union {Allocator(4096), <<<<"mov", 0, 1>>, <<"movk", 1, 1, TRUE>>, <<"plain">>, <<"plain">>>>,
          <<<<"push", 1>>, <<"ldr", 0, THR, 8>>, <<"plain">>, <<"plain">>>>,
          <<<<"mov", 0, 4096>>, <<"movk", 0, 1, TRUE>>, <<"push", 1>>, <<"ldr", 0, THR, \h158>>>>}

StubLibrary(a, b) ==
  [Library EXCEPT !.len = 28, !.headers[2] = Seg(12, 20, 20, 8), !.dyn[4] = Sym("isolate_instructions", 16, 16),
                  !.code = [o \in 0..30 |-> IF o \in 12..27 /\ o % 2 = 0 THEN (a \o b)[(o - 12) \div 2 + 1] ELSE <<"plain">>]]
StubModel ==
  [Model EXCEPT !.functions = <<F(1, 16, 8, 16), F(2, 24, 8, 16)>>,
                !.regions = Observed(Bundle(StubLibrary(Plainly(4), Plainly(4))).spans)]
Versions == {"3.5", "3.12"}
\* The second function is a stub, a trampoline or an allocator, of a few of the slots.
Seconds == {b \in Bodies \ UNION {StubBodies(s) : s \in {\hC8, \hE8}} : b[2][1] \in {"ldr", "movk"} /\ b[4][1] # "ldr"}
StubCases == [a : Bodies, b : Seconds, claimed : Versions, true : Versions]
             \union [a : {Allocator(4096)}, b : Bodies, claimed : {Nothing}, true : {"3.5"}]

---------------------------------------------------------------------------
(* Bodies.                                                                  *)

Codes == {"x", "y", "xy", "xx", "n"}
TheReads ==
  [c \in Codes |-> CASE c = "x" -> <<"x">> [] c = "y" -> <<"y">> [] c = "xy" -> <<"x", "y">>
                     [] c = "xx" -> <<"x", "x">> [] OTHER -> <<>>]
Values == {"a", "b", "long", "opaque", "absent"}
TheGate == [v \in Values |-> CASE v = "opaque" -> "opaque_after_rename" [] v = "absent" -> "names_absent_identifier"
                               [] OTHER -> "free"]
TheWidth == [w \in Codes \union Values |-> IF w = "long" THEN 3 ELSE 1]

\* A rendered line is kept, is gone, is kept behind a new one, or becomes another.
Became(line, code, edit) ==
  CASE edit = "keep" -> <<[code |-> code, from |-> line]>>
    [] edit = "drop" -> <<>>
    [] edit = "add" -> <<[code |-> "n", from |-> 0], [code |-> code, from |-> line]>>
    [] OTHER -> <<[code |-> edit, from |-> line]>>
Finished(rendered, edits) == FoldLeftDomain(LAMBDA text, l : text \o Became(l, rendered[l], edits[l]), <<>>, rendered)

\* A call before each line that reads something.
CallsOf(rendered) ==
  LET lines == SetToSortSeq({l \in DOMAIN rendered : TheReads[rendered[l]] # <<>>}, <)
  IN  [k \in DOMAIN lines |-> [va |-> k, reg |-> TheReads[rendered[lines[k]]][1], value |-> "a", line |-> lines[k]]]

Rewritten ==
  UNION {{[rendered |-> r, finished |-> Finished(r, e), candidates |-> <<>>, loops |-> {}, anchors |-> <<>>,
           calls |-> CallsOf(r)] :
            r \in [1..n -> IF n = 4 THEN {"x", "n"} ELSE {"x", "y", "xy", "n"}],
            e \in [1..n -> {"keep", "drop", "add"} \union CASE n = 4 -> {} [] n = 3 -> {"xy"} [] OTHER -> {"xy", "xx"}]} : n \in 1..4}

\* Two merges that share lines, one rendered twice, and a call.
Anchor(site, regs, first, last) == [site |-> site, regs |-> regs, first |-> first, last |-> last]
Merged ==
  {[rendered |-> r, finished |-> Finished(r, e), loops |-> l,
    candidates |-> [k \in {<<1, "x">>, <<1, "y">>, <<2, "x">>} |-> IF k[1] = 1 THEN c ELSE [values |-> <<"b">>, complete |-> FALSE]],
    anchors |-> <<Anchor(1, {"x", "y"}, 1, 2), Anchor(2, {"x"}, 3, 3), Anchor(1, {"x"}, 1, 2)>>,
    calls |-> <<[va |-> 9, reg |-> "x", value |-> v, line |-> at]>>] :
     r \in {q \in [1..3 -> {"x", "xy", "xx"}] : q[2] # "xx"}, e \in [1..3 -> {"keep", "drop"}],
     c \in [values : {<<"a">>, <<"a", "b">>, <<"long">>, <<"a", "opaque">>, <<"absent">>}, complete : BOOLEAN],
     l \in {{}, {1}}, v \in {"b", "opaque"}, at \in {1, 3}}

---------------------------------------------------------------------------
\* What an input is made of.
Plain1(f) ==
  [archive |-> FALSE, entries |-> <<>>, files |-> <<f>>, adapter |-> Model, request |-> NoRequest,
   sdk |-> [claimed |-> Nothing, true |-> "3.5"], hints |-> <<>>, externals |-> <<>>, bodies |-> {}]

Made(i) ==
  LET of == i[2]
  IN  CASE i[1] = "archive" ->
             [Plain1(Library) EXCEPT !.archive = TRUE, !.entries = of, !.files = <<Other, Library>>]
        [] i[1] = "file" -> Plain1(of)
        [] i[1] = "stream" -> Plain1([Library EXCEPT !.code = CodeOf(of), !.magics = <<>>])
        [] i[1] = "walk" -> [Plain1([Library EXCEPT !.code = CodeOf(of)]) EXCEPT !.adapter = OneFunction]
        [] i[1] = "model" -> [Plain1(Library) EXCEPT !.adapter = of]
        [] i[1] = "names" -> [Plain1(Library) EXCEPT !.adapter = of.model, !.request = of.request,
                                                     !.hints = of.hints, !.externals = of.externals]
        [] i[1] = "stubs" -> [Plain1(StubLibrary(of.a, of.b)) EXCEPT !.adapter = StubModel,
                                !.sdk = [claimed |-> of.claimed, true |-> of.true]]
        [] i[1] = "text" -> [Plain1(Library) EXCEPT !.bodies = Rewritten \union Merged]

\* The cache is raced beside inputs that are not read meanwhile: what is looked for in the
\* cache is an engine of `Libraries`, and not one of the input.  Two engines at a time.
Raced == {<<"archive", <<>>, {l, [build |-> 1, version |-> 1]}>> : l \in {e \in OneVersion : e.build # 1}}

SmallInputs ==
  Archives
  \union ({"file"} \X (Containers \union Snapshots)) \union ({"stream"} \X Streams)
  \union ({"walk"} \X Walks) \union ({"model"} \X Models) \union ({"names"} \X NameCases)
  \union ({"stubs"} \X StubCases) \union {<<"text", "bodies">>} \union Raced

MCInit == RunInit /\ CacheInit

Engines == input[3] \union {NoLibrary}

MCNext ==
  \/ input \notin Raced /\ RunNext /\ UNCHANGED cacheVars
  \/ /\ input \in Raced
     /\ CacheNext
     /\ \A r \in Runs : lib'[r] \in Engines
     /\ \A q \in Readers : wanted'[q] \in Engines
     /\ UNCHANGED runVars

MCSpec == MCInit /\ [][MCNext]_<<runVars, cacheVars>>
=============================================================================
