------------------------ MODULE SymbolMapCacheProofs ------------------------
(* Theorems about SymbolMapCache, for any runs, readers and libraries.       *)
EXTENDS SymbolMapCache, FiniteSetTheorems, SequenceTheorems, TLAPS

Places == {"idle", "buildOpen", "buildFill", "versionOpen", "versionFill",
           "load", "open", "write"}

\* The file of a key holds the summary of a library that has this key.
Keyed(k, file) ==
  file.is = "full" => \E l \in Libraries : file.text = <<l>> /\ k \in {BuildKey(l), VersionKey(l)}

FilesInv ==
  /\ DOMAIN summary = Keys
  /\ \A k \in Keys : Keyed(k, summary[k])

RunsInv ==
  /\ pc \in [Runs -> Places]
  /\ DOMAIN lib = Runs
  /\ \A r \in Runs : pc[r] # "idle" => lib[r] \in Libraries

LookInv ==
  /\ rpc \in [Readers -> {"idle", "ingest"}]
  /\ DOMAIN wanted = Readers /\ DOMAIN ingested = Readers
  /\ \A q \in Readers : rpc[q] = "ingest" => wanted[q] \in Libraries

CacheInv == FilesInv /\ RunsInv /\ LookInv /\ IngestedIsAskedFor

LEMMA KeysOfLibrary ==
  ASSUME NEW l \in Libraries
  PROVE  BuildKey(l) \in Keys /\ VersionKey(l) \in Keys /\ Wanted(l) \in Keys
BY DEF Keys, Wanted

\* One key is of the build ids or of the versions, never both.
LEMMA KeysApart ==
  ASSUME NEW l, NEW m
  PROVE  /\ BuildKey(l) # VersionKey(m)
         /\ BuildKey(l) = BuildKey(m) => l.build = m.build
         /\ VersionKey(l) = VersionKey(m) => l.version = m.version
BY DEF BuildKey, VersionKey

LEMMA RunsStep ==
  ASSUME RunsInv, NEW r \in Runs, RunStep(r)
  PROVE  RunsInv'
<1>1. CASE Register(r)
  BY <1>1 DEF Register, RunsInv, Goto, Places, Entries
<1>2. CASE CopySummaries(r)
  BY <1>2 DEF CopySummaries, CopyOpen, CopyFill, RunsInv, Goto, Places
<1>3. CASE Load(r)
  BY <1>3 DEF Load, Finish, RunsInv, Goto, Places
<1>4. CASE OpenManifest(r) \/ WriteManifest(r) \/ Stop(r)
  BY <1>4 DEF OpenManifest, WriteManifest, Stop, Finish, RunsInv, Goto, Places
<1>5. QED
  BY <1>1, <1>2, <1>3, <1>4 DEF RunStep

LEMMA FilesStep ==
  ASSUME FilesInv, RunsInv, NEW r \in Runs, RunStep(r)
  PROVE  FilesInv'
<1>1. ASSUME NEW k \in Keys, NEW file, Keyed(k, file),
             summary' = [summary EXCEPT ![k] = file]
      PROVE  FilesInv'
  BY <1>1 DEF FilesInv, Keyed
<1>2. \A k, is : is # "full" => Keyed(k, Blank(is))
  BY DEF Keyed, Blank
<1>3. ASSUME NEW here, NEW next, NEW k \in {BuildKey(lib[r]), VersionKey(lib[r])},
             pc[r] # "idle", CopyOpen(r, here, k, next)
      PROVE  FilesInv'
  <2>1. k \in Keys
    BY <1>3, KeysOfLibrary DEF RunsInv
  <2>2. QED
    BY <1>1, <1>2, <1>3, <2>1 DEF CopyOpen
<1>4. ASSUME NEW here, NEW next, NEW k \in {BuildKey(lib[r]), VersionKey(lib[r])},
             pc[r] # "idle", CopyFill(r, here, k, next)
      PROVE  FilesInv'
  <2>1. k \in Keys /\ lib[r] \in Libraries
    BY <1>4, KeysOfLibrary DEF RunsInv
  <2>2. PICK file \in Fill(summary[k], <<lib[r]>>) : summary' = [summary EXCEPT ![k] = file]
    BY <1>4 DEF CopyFill
  <2>3. file = Full(<<lib[r]>>) \/ file = Blank("mixed")
    BY <2>2 DEF Fill
  <2>4. Keyed(k, Full(<<lib[r]>>))
    BY <1>4, <2>1 DEF Keyed, Full
  <2>5. QED
    BY <1>1, <1>2, <2>1, <2>2, <2>3, <2>4
<1>5. CASE CopySummaries(r)
  <2>1. pc[r] # "idle"
    BY <1>5 DEF CopySummaries, CopyOpen, CopyFill
  <2>2. QED
    BY <1>3, <1>4, <1>5, <2>1 DEF CopySummaries
<1>6. CASE UNCHANGED summary
  BY <1>6 DEF FilesInv
<1>7. QED
  BY <1>5, <1>6 DEF RunStep, Register, Load, OpenManifest, WriteManifest, Stop

LEMMA ReadStep ==
  ASSUME FilesInv, LookInv, IngestedIsAskedFor, NEW q \in Readers, Look(q) \/ Ingest(q)
  PROVE  LookInv' /\ IngestedIsAskedFor'
<1>1. CASE Look(q)
  BY <1>1 DEF Look, LookInv, IngestedIsAskedFor, Blank
<1>2. CASE Ingest(q)
  <2>1. /\ wanted[q] \in Libraries
        /\ UNCHANGED wanted
        /\ rpc' = [rpc EXCEPT ![q] = "idle"]
    BY <1>2 DEF Ingest, LookInv
  <2>2. CASE summary[Wanted(wanted[q])].is # "full"
    BY <1>2, <2>1, <2>2 DEF Ingest, LookInv, IngestedIsAskedFor, Blank
  <2>3. CASE summary[Wanted(wanted[q])].is = "full"
    <3>1. PICK l \in Libraries :
            /\ summary[Wanted(wanted[q])].text = <<l>>
            /\ Wanted(wanted[q]) \in {BuildKey(l), VersionKey(l)}
      BY <2>1, <2>3, KeysOfLibrary DEF FilesInv, Keyed
    <3>2. IF wanted[q].build # Unknown THEN l.build = wanted[q].build
                                    ELSE l.version = wanted[q].version
      BY <3>1, KeysApart DEF Wanted
    <3>3. ingested' = [ingested EXCEPT ![q] = summary[Wanted(wanted[q])]]
      BY <1>2, <2>3 DEF Ingest
    <3>4. QED
      BY <2>1, <3>1, <3>2, <3>3 DEF LookInv, IngestedIsAskedFor
  <2>4. QED
    BY <2>2, <2>3
<1>3. QED
  BY <1>1, <1>2

LEMMA CacheStep == CacheInv /\ [CacheNext]_cacheVars => CacheInv'
<1> SUFFICES ASSUME CacheInv, [CacheNext]_cacheVars PROVE CacheInv'
  OBVIOUS
<1>1. ASSUME NEW r \in Runs, RunStep(r), UNCHANGED readerVars PROVE CacheInv'
  BY <1>1, RunsStep, FilesStep DEF CacheInv, readerVars, LookInv, IngestedIsAskedFor
<1>2. ASSUME NEW q \in Readers, Look(q) \/ Ingest(q),
             UNCHANGED <<summary, manifest, registerVars, registered>>
      PROVE  CacheInv'
  BY <1>2, ReadStep DEF CacheInv, FilesInv, RunsInv, registerVars
<1>3. CASE UNCHANGED cacheVars
  BY <1>3 DEF cacheVars, registerVars, readerVars, CacheInv, FilesInv, RunsInv, LookInv,
              IngestedIsAskedFor
<1>4. QED
  BY <1>1, <1>2, <1>3 DEF CacheNext

\* Whatever map-symbols runs write, die or fail beside it, a decompile run takes no
\* symbols but those of the build it asked for, or of the version if it knew no build.
THEOREM NoForeignSymbols == CacheSpec => []IngestedIsAskedFor
<1>1. CacheInit => CacheInv
  BY DEF CacheInit, CacheInv, FilesInv, RunsInv, LookInv, IngestedIsAskedFor, Keyed, Blank,
         Places
<1>2. CacheInv /\ [CacheNext]_cacheVars => CacheInv'
  BY CacheStep
<1>3. CacheInv => IngestedIsAskedFor
  BY DEF CacheInv
<1>4. QED
  BY <1>1, <1>2, <1>3, PTL DEF CacheSpec

-----------------------------------------------------------------------------
(* The sort of the manifest loses nothing and adds nothing.                  *)

LEMMA ElementsOf ==
  ASSUME NEW S, NEW s \in Seq(S)
  PROVE  \A i \in DOMAIN s : s[i] \in S /\ i \in Nat
OBVIOUS

LEMMA SeqOfElements ==
  ASSUME NEW S, NEW T, NEW s \in Seq(S), \A i \in DOMAIN s : s[i] \in T
  PROVE  s \in Seq(T)
OBVIOUS

\* Equal entries apart, the order is strict and total.
LEMMA BeforeOrders ==
  ASSUME NEW a, NEW b, NEW c,
         a.build \in Nat, b.build \in Nat, c.build \in Nat,
         a.version \in Nat, b.version \in Nat, c.version \in Nat
  PROVE  /\ SortsBefore(a, b) => ~SortsBefore(b, a)
         /\ ~SortsBefore(b, a) /\ ~SortsBefore(c, b) => ~SortsBefore(c, a)
         /\ SortsBefore(a, b) /\ ~SortsBefore(c, b) => SortsBefore(a, c)
         /\ ~SortsBefore(b, a) /\ SortsBefore(b, c) => SortsBefore(a, c)
BY DEF SortsBefore

\* A sequence as long as n takes each place once: the places are one to one, and
\* one to one from 1 .. n into 1 .. n is onto.
LEMMA EveryPlaceIsTaken ==
  ASSUME NEW s \in Seq([build : Nat, version : Nat]), NEW k \in DOMAIN s
  PROVE  \E i \in DOMAIN s : SortPlace(s, i) = k
<1> DEFINE D == DOMAIN s
<1>1. IsFiniteSet(D) /\ D = 1 .. Len(s) /\ Len(s) \in Nat
  BY FS_Interval
<1>2. ASSUME NEW i \in D
      PROVE  IsFiniteSet(Upto(s, i)) /\ SortPlace(s, i) \in D
  <2>1. Upto(s, i) \subseteq D /\ i \in Upto(s, i)
    BY DEF Upto, SortsBefore
  <2>2. IsFiniteSet(Upto(s, i)) /\ Cardinality(Upto(s, i)) <= Cardinality(D)
    BY <1>1, <2>1, FS_Subset
  <2>3. Cardinality(D) = Len(s)
    <3>1. Cardinality(1 .. Len(s)) = IF 1 > Len(s) THEN 0 ELSE Len(s) - 1 + 1
      BY <1>1, FS_Interval
    <3>2. QED
      BY <1>1, <3>1
  <2>4. Cardinality(Upto(s, i)) \in Nat /\ Cardinality(Upto(s, i)) # 0
    BY <2>1, <2>2, FS_CardinalityType, FS_EmptySet
  <2>5. QED
    BY <1>1, <2>2, <2>3, <2>4 DEF SortPlace
<1>3. ASSUME NEW i \in D, NEW j \in D, i # j
      PROVE  SortPlace(s, i) # SortPlace(s, j)
  <2>0. \A x \in D : s[x].build \in Nat /\ s[x].version \in Nat /\ x \in Nat
    <3>1. \A x \in D : s[x] \in [build : Nat, version : Nat] /\ x \in Nat
      BY ElementsOf
    <3>2. QED
      BY <3>1
  <2> DEFINE Under(x, y) == SortsBefore(s[x], s[y]) \/ (~SortsBefore(s[y], s[x]) /\ x <= y)
  <2>a. \A x, y \in D : Under(x, y) \/ Under(y, x)
    BY <2>0 DEF SortsBefore
  <2>b. \A x, y \in D : Under(x, y) /\ Under(y, x) => x = y
    <3> TAKE x, y \in D
    <3>1. SortsBefore(s[x], s[y]) => ~SortsBefore(s[y], s[x])
      BY <2>0, BeforeOrders
    <3>2. x <= y /\ y <= x => x = y
      BY <2>0
    <3>3. QED
      BY <3>1, <3>2, Zenon
  <2>c. \A x, y, z \in D : Under(x, y) /\ Under(y, z) => Under(x, z)
    <3> TAKE x, y, z \in D
    <3>1. /\ SortsBefore(s[x], s[y]) => ~SortsBefore(s[y], s[x])
          /\ SortsBefore(s[y], s[z]) => ~SortsBefore(s[z], s[y])
          /\ ~SortsBefore(s[y], s[x]) /\ ~SortsBefore(s[z], s[y]) => ~SortsBefore(s[z], s[x])
          /\ SortsBefore(s[x], s[y]) /\ ~SortsBefore(s[z], s[y]) => SortsBefore(s[x], s[z])
          /\ ~SortsBefore(s[y], s[x]) /\ SortsBefore(s[y], s[z]) => SortsBefore(s[x], s[z])
      BY <2>0, BeforeOrders
    <3>2. x <= y /\ y <= z => x <= z
      BY <2>0
    <3>3. QED
      BY <3>1, <3>2, Zenon
  <2>d. \A x, y \in D : x \in Upto(s, y) <=> Under(x, y)
    BY DEF Upto
  <2>e. Upto(s, i) \subseteq D /\ Upto(s, j) \subseteq D
    BY DEF Upto
  <2> HIDE DEF Under
  <2>1. Upto(s, i) \subseteq Upto(s, j) \/ Upto(s, j) \subseteq Upto(s, i)
    BY <2>a, <2>c, <2>d, <2>e
  <2>2. Upto(s, i) # Upto(s, j)
    BY <1>3, <2>a, <2>b, <2>d
  <2>3. QED
    BY <1>2, <2>1, <2>2, FS_Subset DEF SortPlace
<1> DEFINE f == [i \in D |-> SortPlace(s, i)]
<1>4. f \in Injection(D, D)
  BY <1>2, <1>3 DEF Injection, IsInjective
<1>5. f \in Surjection(D, D)
  BY <1>1, <1>4, FS_Injection
<1>6. QED
  BY <1>5 DEF Surjection

LEMMA SortKeepsTheEntries ==
  ASSUME NEW s \in Seq([build : Nat, version : Nat])
  PROVE  /\ DOMAIN Sorted(s) = DOMAIN s
         /\ Sorted(s) \in Seq([build : Nat, version : Nat])
         /\ \A k \in DOMAIN s : \E i \in DOMAIN s : Sorted(s)[k] = s[i]
<1>1. \A k \in DOMAIN s : \E i \in DOMAIN s : SortPlace(s, i) = k
  BY EveryPlaceIsTaken
<1>2. DOMAIN Sorted(s) = DOMAIN s /\ \A k \in DOMAIN s : \E i \in DOMAIN s : Sorted(s)[k] = s[i]
  BY <1>1 DEF Sorted
<1>3. Sorted(s) \in Seq([build : Nat, version : Nat])
  BY <1>2 DEF Sorted
<1>4. QED
  BY <1>2, <1>3

\* What a run writes back are the entries it read and its own.
LEMMA UpdateKeepsTheEntries ==
  ASSUME NEW s \in Seq(Libraries), NEW l \in Libraries
  PROVE  /\ UpdateEntry(s, l) \in Seq(Libraries)
         /\ \A k \in DOMAIN UpdateEntry(s, l) :
              \/ UpdateEntry(s, l)[k] = l
              \/ \E i \in DOMAIN s : UpdateEntry(s, l)[k] = s[i]
<1> DEFINE at == SelectInSeq(s, LAMBDA c : SameEntry(c, l))
           t  == IF at = 0 THEN Append(s, l) ELSE ReplaceAt(s, at, l)
<1>1. t \in Seq(Libraries) /\ \A k \in DOMAIN t : t[k] = l \/ \E i \in DOMAIN s : t[k] = s[i]
  <2>1. \A n : ReplaceAt(s, n, l) = [s EXCEPT ![n] = l]
    BY DEF ReplaceAt
  <2>2. \A n : /\ [s EXCEPT ![n] = l] \in Seq(Libraries)
               /\ \A k \in DOMAIN [s EXCEPT ![n] = l] :
                    \/ [s EXCEPT ![n] = l][k] = l
                    \/ \E i \in DOMAIN s : [s EXCEPT ![n] = l][k] = s[i]
    <3> TAKE n
    <3>1. CASE n \in DOMAIN s
      BY <3>1
    <3>2. CASE n \notin DOMAIN s
      <4>1. [s EXCEPT ![n] = l] = s
        BY <3>2
      <4>2. QED
        BY <4>1
    <3>3. QED
      BY <3>1, <3>2
  <2>3. /\ Append(s, l) \in Seq(Libraries)
        /\ \A k \in DOMAIN Append(s, l) :
             Append(s, l)[k] = l \/ \E i \in DOMAIN s : Append(s, l)[k] = s[i]
    OBVIOUS
  <2> HIDE DEF at
  <2>4. QED
    BY <2>1, <2>2, <2>3
<1>2. UpdateEntry(s, l) = Sorted(t)
  BY DEF UpdateEntry
<1> HIDE DEF t
<1>3. t \in Seq([build : Nat, version : Nat])
  <2>1. \A i \in 1 .. Len(t) : t[i] \in Libraries
    BY <1>1
  <2>2. \A i \in DOMAIN t : t[i] \in [build : Nat, version : Nat]
    BY <1>1, <2>1, CacheAssumption DEF CacheAssumption
  <2>3. QED
    BY <1>1, <2>2, SeqOfElements
<1>4. /\ DOMAIN Sorted(t) = DOMAIN t
      /\ \A k \in DOMAIN t : \E i \in DOMAIN t : Sorted(t)[k] = t[i]
      /\ Sorted(t) \in Seq([build : Nat, version : Nat])
  BY <1>3, SortKeepsTheEntries
<1>5. \A k \in DOMAIN Sorted(t) : Sorted(t)[k] = l \/ \E i \in DOMAIN s : Sorted(t)[k] = s[i]
  BY <1>1, <1>4
<1>6. Sorted(t) \in Seq(Libraries)
  <2>1. \A k \in DOMAIN Sorted(t) : Sorted(t)[k] \in Libraries
    BY <1>5
  <2>2. QED
    BY <1>4, <2>1
<1>7. QED
  BY <1>2, <1>5, <1>6

-----------------------------------------------------------------------------
(* The manifest names what exists.                                           *)

\* The summaries an entry for the library points to are there, in whatever state.
Present(files, l) ==
  /\ l.build   # Unknown => files[BuildKey(l)].is   # "absent"
  /\ l.version # Unknown => files[VersionKey(l)].is # "absent"

AllPresent(files, entries) ==
  /\ entries \in Seq(Libraries)
  /\ \A i \in DOMAIN entries : Present(files, entries[i])

\* A run has copied its summaries when it comes to the manifest, and the one of the
\* build when it comes to the one of the version.
Copied(files, place, l) ==
  /\ place \in {"load", "open", "write"} => Present(files, l)
  /\ place \in {"versionOpen", "versionFill"} /\ l.build # Unknown =>
       files[BuildKey(l)].is # "absent"

PresentInv ==
  /\ AllPresent(summary, manifest.text)
  /\ DOMAIN loaded = Runs
  /\ \A r \in Runs : AllPresent(summary, loaded[r]) /\ Copied(summary, pc[r], lib[r])

LEMMA UpdateIsPresent ==
  ASSUME NEW files, NEW l \in Libraries, NEW s, AllPresent(files, s), Present(files, l)
  PROVE  AllPresent(files, UpdateEntry(s, l))
<1>1. /\ UpdateEntry(s, l) \in Seq(Libraries)
      /\ \A k \in DOMAIN UpdateEntry(s, l) :
           UpdateEntry(s, l)[k] = l \/ \E i \in DOMAIN s : UpdateEntry(s, l)[k] = s[i]
  BY UpdateKeepsTheEntries DEF AllPresent
<1>2. QED
  BY <1>1 DEF AllPresent

\* No summary goes.
Grows(old, new) == \A k \in Keys : old[k].is # "absent" => new[k].is # "absent"

LEMMA PresentKept ==
  ASSUME NEW old, NEW new, Grows(old, new)
  PROVE  /\ \A l \in Libraries : Present(old, l) => Present(new, l)
         /\ \A s : AllPresent(old, s) => AllPresent(new, s)
         /\ \A place, l : l \in Libraries /\ Copied(old, place, l) => Copied(new, place, l)
<1>1. \A l \in Libraries : Present(old, l) => Present(new, l)
  BY KeysOfLibrary DEF Present, Grows
<1>2. \A s : AllPresent(old, s) => AllPresent(new, s)
  BY <1>1 DEF AllPresent
<1>3. \A place, l : l \in Libraries /\ Copied(old, place, l) => Copied(new, place, l)
  BY <1>1, KeysOfLibrary DEF Copied, Grows
<1>4. QED
  BY <1>1, <1>2, <1>3

\* A step of a copy: the file of the key is there, with all that was.
LEMMA CopyStep ==
  ASSUME FilesInv, RunsInv, NEW r \in Runs, CopySummaries(r)
  PROVE  /\ Grows(summary, summary')
         /\ UNCHANGED <<manifest, lib, loaded>>
         /\ lib[r] \in Libraries
         /\ \E next : /\ pc' = [pc EXCEPT ![r] = next]
                      /\ Copied(summary, pc[r], lib[r]) => Copied(summary', next, lib[r])
<1>1. /\ pc[r] # "idle" => lib[r] \in Libraries
      /\ DOMAIN summary = Keys
  BY DEF RunsInv, FilesInv
<1>2. ASSUME NEW k \in Keys, NEW file, file.is # "absent",
             summary' = [summary EXCEPT ![k] = file]
      PROVE  Grows(summary, summary') /\ summary'[k].is # "absent"
  BY <1>1, <1>2 DEF Grows
<1>3. ASSUME NEW here, NEW next, NEW k \in Keys, pc[r] # "idle",
             CopyOpen(r, here, k, next) \/ CopyFill(r, here, k, next)
      PROVE  /\ Grows(summary, summary') /\ summary'[k].is # "absent"
             /\ UNCHANGED <<manifest, lib, loaded>>
             /\ pc[r] = here /\ pc' = [pc EXCEPT ![r] = next]
  <2>1. Blank("empty").is # "absent" /\ \A file \in Fill(summary[k], <<lib[r]>>) : file.is # "absent"
    BY DEF Blank, Fill, Full
  <2>2. PICK file : file.is # "absent" /\ summary' = [summary EXCEPT ![k] = file]
    BY <1>3, <2>1 DEF CopyOpen, CopyFill
  <2>3. QED
    BY <1>2, <1>3, <2>2 DEF CopyOpen, CopyFill, Goto
<1>4. pc[r] # "idle" /\ lib[r] \in Libraries
  BY <1>1 DEF CopySummaries, CopyOpen, CopyFill
<1>5. BuildKey(lib[r]) \in Keys /\ VersionKey(lib[r]) \in Keys
  BY <1>4, KeysOfLibrary
<1>6. CASE CopyOpen(r, "buildOpen", BuildKey(lib[r]), "buildFill")
  BY <1>3, <1>4, <1>5, <1>6 DEF Copied
<1>7. CASE CopyFill(r, "buildFill", BuildKey(lib[r]),
                    IF lib[r].version # Unknown THEN "versionOpen" ELSE "load")
  BY <1>3, <1>4, <1>5, <1>7 DEF Copied, Present
<1>8. CASE CopyOpen(r, "versionOpen", VersionKey(lib[r]), "versionFill")
  BY <1>3, <1>4, <1>5, <1>8 DEF Copied, Grows
<1>9. CASE CopyFill(r, "versionFill", VersionKey(lib[r]), "load")
  BY <1>3, <1>4, <1>5, <1>9 DEF Copied, Present, Grows
<1>10. QED
  BY <1>6, <1>7, <1>8, <1>9 DEF CopySummaries

LEMMA PresentRun ==
  ASSUME FilesInv, RunsInv, PresentInv, NEW r \in Runs, RunStep(r)
  PROVE  PresentInv'
<1>1. AllPresent(summary, <<>>)
  BY DEF AllPresent
<1>2. ASSUME NEW place \in {"idle", "buildOpen", "versionOpen"}, NEW l, place = "versionOpen" => l.build = Unknown
      PROVE  Copied(summary, place, l)
  BY <1>2 DEF Copied
<1>3. CASE CopySummaries(r)
  <2>1. /\ Grows(summary, summary')
        /\ UNCHANGED <<manifest, lib, loaded>>
        /\ lib[r] \in Libraries
    BY <1>3, CopyStep
  <2>2. PICK next : /\ pc' = [pc EXCEPT ![r] = next]
                    /\ Copied(summary, pc[r], lib[r]) => Copied(summary', next, lib[r])
    BY <1>3, CopyStep
  <2>3. ASSUME NEW q \in Runs PROVE Copied(summary', pc'[q], lib'[q])
    <3>1. CASE q = r
      BY <2>1, <2>2, <3>1 DEF PresentInv, RunsInv
    <3>2. CASE q # r /\ pc[q] = "idle"
      BY <2>2, <3>2 DEF Copied, RunsInv
    <3>3. CASE q # r /\ pc[q] # "idle"
      BY <2>1, <2>2, <3>3, PresentKept DEF PresentInv, RunsInv
    <3>4. QED
      BY <3>1, <3>2, <3>3
  <2>4. QED
    BY <2>1, <2>3, PresentKept DEF PresentInv
<1>4. ASSUME UNCHANGED summary, DOMAIN loaded' = Runs,
             AllPresent(summary, manifest'.text),
             \A q \in Runs : AllPresent(summary, loaded'[q]) /\ Copied(summary, pc'[q], lib'[q])
      PROVE  PresentInv'
  BY <1>4 DEF PresentInv
<1>5. CASE Register(r)
  <2>1. /\ UNCHANGED <<summary, manifest, loaded>>
        /\ \A q \in Runs \ {r} : pc'[q] = pc[q] /\ lib'[q] = lib[q]
        /\ pc'[r] \in {"buildOpen", "versionOpen"}
        /\ pc'[r] = "versionOpen" => lib'[r].build = Unknown
    BY <1>5 DEF Register, Goto, RunsInv
  <2>2. QED
    BY <1>2, <1>4, <2>1 DEF PresentInv
<1>6. ASSUME Finish(r), UNCHANGED summary, AllPresent(summary, manifest'.text)
      PROVE  PresentInv'
  <2>1. /\ \A q \in Runs \ {r} : pc'[q] = pc[q] /\ lib'[q] = lib[q] /\ loaded'[q] = loaded[q]
        /\ pc'[r] = "idle" /\ loaded'[r] = <<>> /\ DOMAIN loaded' = Runs
    BY <1>6 DEF Finish, Goto, RunsInv, PresentInv
  <2>2. QED
    BY <1>1, <1>2, <1>4, <1>6, <2>1 DEF PresentInv
<1>7. CASE Load(r)
  <2>1. CASE Finish(r)
    BY <1>6, <1>7, <2>1 DEF Load, PresentInv
  <2>2. CASE ~Finish(r)
    <3>1. /\ pc[r] = "load"
          /\ loaded' = [loaded EXCEPT ![r] = UpdateEntry(manifest.text, lib[r])]
          /\ pc' = [pc EXCEPT ![r] = "open"]
          /\ UNCHANGED <<lib, summary, manifest>>
      BY <1>7, <2>2 DEF Load, Goto
    <3>2. lib[r] \in Libraries /\ Present(summary, lib[r])
      BY <3>1 DEF RunsInv, PresentInv, Copied
    <3>3. AllPresent(summary, UpdateEntry(manifest.text, lib[r]))
      BY <3>2, UpdateIsPresent DEF PresentInv
    <3>4. Copied(summary, "open", lib[r])
      BY <3>2 DEF Copied
    <3>5. /\ \A q \in Runs \ {r} : pc'[q] = pc[q] /\ lib'[q] = lib[q] /\ loaded'[q] = loaded[q]
          /\ pc'[r] = "open" /\ loaded'[r] = UpdateEntry(manifest.text, lib[r])
          /\ lib'[r] = lib[r] /\ DOMAIN loaded' = Runs
      BY <3>1 DEF RunsInv, PresentInv
    <3>6. QED
      BY <1>4, <3>1, <3>3, <3>4, <3>5 DEF PresentInv
  <2>3. QED
    BY <2>1, <2>2
<1>8. CASE OpenManifest(r)
  <2>1. /\ pc[r] = "open" /\ UNCHANGED <<summary, lib, loaded>>
        /\ manifest'.text = <<>>
        /\ pc'[r] = "write" /\ \A q \in Runs \ {r} : pc'[q] = pc[q]
    BY <1>8 DEF OpenManifest, Goto, Blank, RunsInv
  <2>2. Copied(summary, "write", lib[r])
    BY <2>1 DEF PresentInv, Copied
  <2>3. QED
    BY <1>1, <1>4, <2>1, <2>2 DEF PresentInv
<1>9. CASE WriteManifest(r)
  <2>1. manifest'.text \in {<<>>, loaded[r]}
    BY <1>9 DEF WriteManifest, Fill, Full, Blank
  <2>2. QED
    BY <1>1, <1>6, <1>9, <2>1 DEF WriteManifest, PresentInv
<1>10. CASE Stop(r)
  BY <1>6, <1>10 DEF Stop, PresentInv
<1>11. QED
  BY <1>3, <1>5, <1>7, <1>8, <1>9, <1>10 DEF RunStep

\* Whatever runs, dies or fails beside it, and whichever runs write over each other,
\* the manifest names no summary that was not copied before, and what a decompile run
\* takes by way of it is of the engine it asked for.
THEOREM ManifestHolds == CacheSpec => []ManifestIsTrue
<1>1. CacheInit => CacheInv /\ PresentInv
  <2>1. CacheInit => CacheInv
    BY DEF CacheInit, CacheInv, FilesInv, RunsInv, LookInv, IngestedIsAskedFor, Keyed, Blank,
           Places
  <2>2. CacheInit => PresentInv
    BY DEF CacheInit, PresentInv, AllPresent, Copied, Blank
  <2>3. QED
    BY <2>1, <2>2
<1>2. CacheInv /\ PresentInv /\ [CacheNext]_cacheVars => (CacheInv /\ PresentInv)'
  <2> SUFFICES ASSUME CacheInv, PresentInv, [CacheNext]_cacheVars PROVE CacheInv' /\ PresentInv'
    OBVIOUS
  <2>1. CacheInv'
    BY CacheStep
  <2>2. ASSUME NEW r \in Runs, RunStep(r) PROVE PresentInv'
    BY <2>2, PresentRun DEF CacheInv
  <2>3. ASSUME UNCHANGED <<summary, manifest, registerVars>> PROVE PresentInv'
    BY <2>3 DEF registerVars, PresentInv
  <2>4. QED
    BY <2>1, <2>2, <2>3 DEF CacheNext, cacheVars
<1>3. CacheInv /\ PresentInv => ManifestIsTrue
  BY DEF CacheInv, PresentInv, AllPresent, Present, ManifestIsTrue, NamesWhatExists
<1>4. QED
  BY <1>1, <1>2, <1>3, PTL DEF CacheSpec
=============================================================================
