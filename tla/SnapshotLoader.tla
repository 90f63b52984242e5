--------------------------- MODULE SnapshotLoader ---------------------------
(***************************************************************************)
(* flutterdec-loader/src/lib.rs and identity.rs: from an APK or an ELF     *)
(* file to the four regions of a snapshot and what is known of it.         *)
(*                                                                         *)
(* A file is a record:                                                     *)
(*   machine   the ELF header's                                            *)
(*   len       how many bytes it has                                       *)
(*   headers   program headers, in order: vaddr, memsz, filesz, offset     *)
(*   dyn, sym  the two symbol tables, in order: name, value, size          *)
(*   magics    file offset of each snapshot magic |-> what follows it      *)
(*   hashes    file offset of each run of 32 hex digits |-> what it spells *)
(*   seam      what such a run spells that ends the data of the VM and goes *)
(*             on in the isolate's, of which there is one at most          *)
(* Bytes have no other content here: a byte is told by its file offset.    *)
(***************************************************************************)
EXTENDS Integers, Sequences, FiniteSetsExt, Functions

CONSTANTS Top,        \* how many addresses there are (2^64)
          ScanLimit   \* how much of each data region is scanned for a hash

ASSUME TopAssumption == Top \in Nat \ {0} /\ ScanLimit \in Nat

None == -1
Nothing == "none"

\* checked_add: None where the sum is not an address.
Plus(a, b) == IF a + b < Top THEN a + b ELSE None

\* saturating_add.
Saturated(a, b) == IF a + b < Top THEN a + b ELSE Top - 1

---------------------------------------------------------------------------
(* The archive.                                                            *)

\* find_libapp_in_apk_session: the ABI it wants, else the first library there is. An entry has
\* a path and says whether it is a libapp.so.
Preferred == <<"lib/arm64-v8a/libapp.so", "base/lib/arm64-v8a/libapp.so">>

Libapp(entries) ==
  LET named(want) == {i \in DOMAIN entries : entries[i].path = want}
      any == {i \in DOMAIN entries : entries[i].libapp}
      wanted == {k \in DOMAIN Preferred : named(Preferred[k]) # {}}
  IN  IF wanted # {} THEN Min(named(Preferred[Min(wanted)]))
      ELSE IF any # {} THEN Min(any) ELSE None

---------------------------------------------------------------------------
(* The container.                                                          *)

\* va_to_offset: the first header whose memory holds the address.
Holding(file, va) ==
  {i \in DOMAIN file.headers :
     va >= file.headers[i].vaddr /\ va < Saturated(file.headers[i].vaddr, file.headers[i].memsz)}

\* Mutant: the end of a header's memory is not looked at.
VaToOffsetFromStart(file, va) ==
  LET from == {i \in DOMAIN file.headers : va >= file.headers[i].vaddr}
  IN  IF from = {} THEN None
      ELSE Saturated(file.headers[Min(from)].offset, va - file.headers[Min(from)].vaddr)

VaToOffset(file, va) ==
  IF Holding(file, va) = {} THEN None
  ELSE LET ph == file.headers[Min(Holding(file, va))]
       IN  Saturated(ph.offset, va - ph.vaddr)

\* collect_symbols: a later entry of a name replaces an earlier one, and .symtab is read last.
Symbols(file) == file.dyn \o file.sym
Named(file, name) == {i \in DOMAIN Symbols(file) : Symbols(file)[i].name = name}
Symbol(file, name) == Symbols(file)[Max(Named(file, name))]

\* Why read_symbol_span refuses a name, or "ok".  The end of the span is added up
\* unchecked: where it is no address the run panics, here or when the bytes are taken.
SpanRefusal(file, name) ==
  IF Named(file, name) = {} THEN "missing symbol"
  ELSE LET sym == Symbol(file, name)
           at == VaToOffset(file, sym.value)
       IN  IF at = None THEN "unmapped symbol"
           ELSE IF sym.size = 0 THEN "stripped"
           ELSE IF at >= file.len THEN "out of bounds"
           ELSE IF Plus(at, sym.size) = None THEN "panic"
           ELSE IF at + sym.size > file.len THEN "out of bounds"
           ELSE "ok"

\* read_symbol_span, where it does not refuse.
Span(file, name) ==
  [va |-> Symbol(file, name).value, offset |-> VaToOffset(file, Symbol(file, name).value),
   size |-> Symbol(file, name).size]

---------------------------------------------------------------------------
(* The snapshot's header. A magic is followed by a claimed length, a kind, *)
(* 32 bytes that may be hex digits, and, after room bytes from the magic,  *)
(* the zero that ends the features (None for one too far away to count).   *)

In(span, o) == o >= span.offset /\ o < span.offset + span.size

\* parse_snapshot_header: only the first magic of a region is ever tried.
Header(file, span) ==
  LET at == {o \in DOMAIN file.magics : In(span, o)}
      h == file.magics[Min(at)]
      rest == span.offset + span.size - Min(at)
  IN  IF at = {} THEN Nothing
      ELSE IF h.length > 0 /\ h.length <= rest /\ h.hex /\ h.room # None /\ h.room < rest /\ h.printable
           THEN "header" ELSE Nothing

HeaderOf(file, span) == file.magics[Min({o \in DOMAIN file.magics : In(span, o)})]

\* detect_snapshot_hash: one with the product features beside it, else the first of any,
\* in the beginnings of both data regions, put together.
Scanned(file, spans) ==
  LET seen(s)  == {o \in DOMAIN file.hashes : In(s, o) /\ o < s.offset + ScanLimit}
      runs     == {<<1, o, file.hashes[o]>> : o \in seen(spans["vm_data"])}
                    \union {<<2, 0, run>> : run \in file.seam}
                    \union {<<3, o, file.hashes[o]>> : o \in seen(spans["isolate_data"])}
      first(S) == CHOOSE r \in S : \A q \in S : r[1] < q[1] \/ (r[1] = q[1] /\ r[2] <= q[2])
      beside   == {r \in runs : r[3].product}
  IN  IF runs = {} THEN Nothing
      ELSE first(IF beside # {} THEN beside ELSE runs)[3].hash

\* SnapshotIdentity::from_header and without_header.
FromHeader(h) ==
  [hash |-> h.hash, source |-> "header", kind |-> h.kind, arch |-> "arm64", features |-> h.features]

WithoutHeader(hash) ==
  [hash |-> hash, source |-> IF hash = Nothing THEN "unavailable" ELSE "scan", kind |-> Nothing,
   arch |-> "arm64", features |-> {}]

\* FeatureEvidence::pointer_compression.
PointerCompression(identity) ==
  CASE {"compressed", "uncompressed"} \subseteq identity.features -> "conflicting"
    [] "compressed" \in identity.features -> "compressed"
    [] "uncompressed" \in identity.features -> "uncompressed"
    [] OTHER -> "unavailable"

\* FeatureEvidence::declared_target_tokens.
DeclaredTargets(identity) == identity.features \cap {"arm64", "x64"}

\* exact_selection_key: whether this identity may ask the registry for a parser.
MaySelect(identity) ==
  /\ identity.source = "header"
  /\ identity.kind = "full_aot"
  /\ identity.arch = "arm64"
  /\ DeclaredTargets(identity) \subseteq {identity.arch}
  /\ PointerCompression(identity) \in {"compressed", "uncompressed"}

---------------------------------------------------------------------------
(* from_elf.                                                               *)

RegionNames == <<"vm_data", "isolate_data", "vm_instructions", "isolate_instructions">>
Executable(name) == name \in {"vm_instructions", "isolate_instructions"}

\* The first of its refusals, in the order it meets them.
LoadRefusal(file) ==
  LET bad == {i \in DOMAIN RegionNames : SpanRefusal(file, RegionNames[i]) # "ok"}
  IN  IF file.machine # "aarch64" THEN "machine"
      ELSE IF bad = {} THEN "ok" ELSE SpanRefusal(file, RegionNames[Min(bad)])

Spans(file) == [name \in Range(RegionNames) |-> Span(file, name)]

Identity(file) ==
  LET spans == Spans(file)
      data == {name \in {"vm_data", "isolate_data"} : Header(file, spans[name]) # Nothing}
  IN  IF "vm_data" \in data THEN FromHeader(HeaderOf(file, spans["vm_data"]))
      ELSE IF data # {} THEN FromHeader(HeaderOf(file, spans["isolate_data"]))
      ELSE WithoutHeader(Scanned(file, spans))

Bundle(file) == [spans |-> Spans(file), identity |-> Identity(file)]

=============================================================================
