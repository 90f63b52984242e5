---------------------------- MODULE ProgramRead ----------------------------
(***************************************************************************)
(* From an input to the instructions of its functions: the loader carves   *)
(* the regions, an adapter or core gives a model of them, validate accepts *)
(* or refuses it, and decode_function reads the code of each function out  *)
(* of the isolate instructions, annotating its loads from the pool.        *)
(*                                                                         *)
(* Contents of an input: whether it is an archive, its entries, the ELF    *)
(* files they hold, and what an adapter answers for it. Which of adapter   *)
(* and core answers, and how an adapter is run, is ProgramSource; in which *)
(* order functions are decoded, FunctionSelection.                         *)
(***************************************************************************)
EXTENDS PoolRefs, TargetScope

CONSTANTS Inputs, Contents(_)

\* What parsing gives: lists, numbers that are not negative, and a file, its addresses and a
\* displacement that fit an address, with some instruction or none at each offset.
Address == 0..Top - 1
List(s) == s \in Seq(Range(s))

OpOK(op) ==
  /\ op[1] = "page" => op[2] \in Regs /\ op[3] \in Address
  /\ op[1] = "ldr" => op[3] \in Regs \union {PP} /\ op[4] \in IF op[3] = PP THEN Address ELSE Nat

FileOK(f) ==
  /\ f.len \in Address
  /\ List(f.dyn) /\ List(f.sym) /\ List(f.headers)
  /\ \A s \in Range(f.dyn) \union Range(f.sym) : s.value \in Address /\ s.size \in Address
  /\ \A ph \in Range(f.headers) :
       ph.vaddr \in Address /\ ph.memsz \in Address /\ ph.filesz \in Address /\ ph.offset \in Address
  /\ \A o \in 0..f.len - 1 : OpOK(f.code[o])

ModelOK(m) ==
  /\ List(m.regions) /\ List(m.classes) /\ List(m.functions)
  /\ \A f \in Range(m.functions) : f.start \in Address /\ f.size \in Address /\ f.section \in Address
  /\ \A c \in Range(m.classes) : c.id \in Nat /\ c.super \in Nat \union {None}
  /\ m.pool.word \in Nat \union {None} /\ m.pool.entries_offset \in Address
  /\ \A e \in Range(m.pool.entries) : e.index \in Address

ASSUME ReadAssumption ==
  \A i \in Inputs :
    LET of == Contents(i)
    IN  /\ \A f \in Range(of.files) : FileOK(f)
        /\ IF of.archive THEN List(of.entries) /\ DOMAIN of.entries \subseteq DOMAIN of.files
                         ELSE 1 \in DOMAIN of.files
        /\ ModelOK(of.adapter)

VARIABLES
  input,    \* what is being read
  phase,    \* where the pipeline is
  file,     \* the ELF file it found
  bundle,   \* what the loader made of it
  by,       \* who gave the model
  model,    \* the model
  left,     \* positions of the functions not decoded yet
  listing,  \* position of a decoded function |-> its instructions, as va and file offset
  cursor,   \* where in its function the decoder is: fn, offset, bases; the machine's registers,
            \* and whether the resolver saw all that changed them since it forgot its bases
  note      \* the last load annotated: the displacement it was said to read, the slot named,
            \* and the displacement it reads

loadVars == <<input, file, bundle, by, model, left, listing, cursor, note>>
readVars == <<phase, loadVars>>

NoCursor == [fn |-> None, offset |-> None, bases |-> NoBases, regs |-> NoBases, seen |-> TRUE]
NoNote == [said |-> None, slot |-> None, reads |-> None, seen |-> TRUE]

ReadInit ==
  /\ input \in Inputs
  /\ phase = "open"
  /\ file = Nothing /\ bundle = Nothing /\ by = Nothing /\ model = Nothing
  /\ left = {} /\ listing = <<>>
  /\ cursor = NoCursor /\ note = NoNote

\* load_snapshot_bundle: an archive is searched, any other file is the library.
Open ==
  /\ phase = "open"
  /\ LET at == IF Contents(input).archive THEN Libapp(Contents(input).entries) ELSE 1
     IN  IF at = None THEN phase' = "failed" /\ UNCHANGED file
         ELSE phase' = "load" /\ file' = Contents(input).files[at]
  /\ UNCHANGED <<input, bundle, by, model, left, listing, cursor, note>>

\* from_elf.
Carve ==
  /\ phase = "load"
  /\ IF LoadRefusal(file) = "ok" THEN bundle' = Bundle(file) /\ phase' = "answer"
     ELSE phase' = "failed" /\ UNCHANGED bundle
  /\ UNCHANGED <<input, file, by, model, left, listing, cursor, note>>

\* An adapter answers where the identity may select one; core answers wherever none does.
Answered ==
  /\ phase = "answer"
  /\ \/ MaySelect(bundle.identity) /\ by' = "adapter" /\ model' = Contents(input).adapter
     \/ by' = "core" /\ model' = RecoveredModel(file, bundle)
  /\ phase' = "validate"
  /\ UNCHANGED <<input, file, bundle, left, listing, cursor, note>>

Host ==
  IF by = "core" THEN HostContext(bundle, "core", Nothing) ELSE HostContext(bundle, "adapter", "record")

Validate ==
  /\ phase = "validate"
  /\ IF Verdict(model, Host) = "accepted"
     THEN phase' = "select"
     ELSE phase' = "refused"
  /\ UNCHANGED <<input, file, bundle, by, model, left, listing, cursor, note>>

\* run_decompile: what the run is about, or nothing matched.
Chosen == Selected(model, Contents(input).request)

Select ==
  /\ phase = "select"
  /\ IF SelectionRefused(model, Contents(input).request)
     THEN phase' = "failed" /\ UNCHANGED left
     ELSE phase' = "decode" /\ left' = Chosen
  /\ UNCHANGED <<input, file, bundle, by, model, listing, cursor, note>>

---------------------------------------------------------------------------
(* decode_function. A function outside the isolate instructions has no     *)
(* listing; capstone stops at the first word that is no instruction, and   *)
(* where it read none the words are listed raw.                            *)

Isolate == bundle.spans["isolate_instructions"]
Fn(i) == model.functions[i]
Clipped(f) == Min({f.size, Isolate.size - (f.start - Isolate.va)})
OffsetOf(f) == Isolate.offset + (f.start - Isolate.va)

Outside(f) == f.start < Isolate.va \/ f.start - Isolate.va >= Isolate.size \/ Clipped(f) < Word

Skip ==
  /\ phase = "decode" /\ cursor.fn = None
  /\ \E i \in left : i = Min(left) /\ Outside(Fn(i)) /\ left' = left \ {i}
  /\ UNCHANGED <<input, phase, file, bundle, by, model, listing, cursor, note>>

StartFunction ==
  /\ phase = "decode" /\ cursor.fn = None
  /\ \E i \in left :
       /\ i = Min(left) /\ ~Outside(Fn(i))
       /\ cursor' = [NoCursor EXCEPT !.fn = i, !.offset = 0]
       /\ listing' = [k \in DOMAIN listing \union {i} |-> IF k = i THEN <<>> ELSE listing[k]]
  /\ UNCHANGED <<input, phase, file, bundle, by, model, left, note>>

At(i, o) == [va |-> Fn(i).start + o, offset |-> OffsetOf(Fn(i)) + o]
Op == file.code[OffsetOf(Fn(cursor.fn)) + cursor.offset]
More == cursor.offset + Word <= Clipped(Fn(cursor.fn)) /\ Op[1] # "bad"

Decode ==
  /\ phase = "decode" /\ cursor.fn # None /\ More
  /\ listing' = [listing EXCEPT ![cursor.fn] = Append(@, At(cursor.fn, cursor.offset))]
  /\ note' = IF Displacement(cursor.bases, Op) = None THEN NoNote
             ELSE [said |-> Displacement(cursor.bases, Op),
                   slot |-> Slot(model.pool, Displacement(cursor.bases, Op)),
                   reads |-> Reads(cursor.regs, Op), seen |-> cursor.seen]
  /\ cursor' = [cursor EXCEPT !.offset = @ + Word, !.bases = BasesAfter(@, Op),
                              !.regs = RegistersAfter(@, Op),
                              !.seen = Resets(Op) \/ (@ /\ ~Unseen(Op))]
  /\ UNCHANGED <<input, phase, file, bundle, by, model, left>>

RawWords(i) == [k \in 1..(Clipped(Fn(i)) \div Word) |-> At(i, (k - 1) * Word)]

FinishFunction ==
  /\ phase = "decode" /\ cursor.fn # None /\ ~More
  /\ listing' = [listing EXCEPT ![cursor.fn] = IF @ = <<>> THEN RawWords(cursor.fn) ELSE @]
  /\ left' = left \ {cursor.fn}
  /\ cursor' = NoCursor /\ note' = NoNote
  /\ UNCHANGED <<input, phase, file, bundle, by, model>>

Done ==
  /\ phase = "decode" /\ left = {}
  /\ phase' = "done"
  /\ UNCHANGED <<input, file, bundle, by, model, left, listing, cursor, note>>

ReadNext ==
  \/ Open \/ Carve \/ Answered \/ Validate \/ Select
  \/ Skip \/ StartFunction \/ Decode \/ FinishFunction \/ Done

ReadSpec == ReadInit /\ [][ReadNext]_readVars

---------------------------------------------------------------------------
(* The image the file stands for: what the kernel maps.                    *)

Mapped(va, o) ==
  \E i \in DOMAIN file.headers :
    LET ph == file.headers[i]
    IN  va >= ph.vaddr /\ va < ph.vaddr + ph.filesz /\ o = ph.offset + (va - ph.vaddr)

\* Headers that share an address agree on it, none has more in the file than in memory, each
\* region is file-backed by one of them, and the two with code start at addresses of their own.
WellFormed ==
  /\ \A va \in 0..Top - 1 : \A i, j \in Holding(file, va) :
       file.headers[i].offset - file.headers[i].vaddr = file.headers[j].offset - file.headers[j].vaddr
  /\ \A i \in DOMAIN file.headers : file.headers[i].filesz <= file.headers[i].memsz
  /\ \A name \in Range(RegionNames) : \E i \in DOMAIN file.headers :
       LET span == bundle.spans[name]
           ph == file.headers[i]
       IN  span.va >= ph.vaddr /\ span.va + span.size <= ph.vaddr + ph.filesz
  /\ bundle.spans["vm_instructions"].va # Isolate.va

Accepted == phase \in {"select", "decode", "done"}

\* The listing of a function is its code as the image has it: every instruction stands at the
\* address it would run at, in order and without a gap, and where the region it declares is the
\* one decoded, up to its last word or the first that is no instruction.
CodeIsTheImage ==
  Accepted /\ WellFormed =>
    /\ \A i \in DOMAIN listing : \A k \in DOMAIN listing[i] :
         /\ Mapped(listing[i][k].va, listing[i][k].offset)
         /\ listing[i][k].va = Fn(i).start + (k - 1) * Word
    /\ \A i \in Chosen :
         phase = "done" /\ Fn(i).section = Isolate.va /\ Fn(i).size >= Word =>
           /\ i \in DOMAIN listing
           /\ \/ Len(listing[i]) = Fn(i).size \div Word
              \/ file.code[OffsetOf(Fn(i)) + Len(listing[i]) * Word][1] = "bad"

\* A model that was accepted can be followed: superclass chains end, every function's bytes are
\* in the region it declares, and a slot of the pool and its displacement are each other's.
AcceptedIsSound ==
  Accepted =>
    /\ \A S \in SUBSET {c.id : c \in Range(model.classes)} :
         S # {} => \E c \in S : SuperOf(model, c) \notin S
    /\ \A f \in Range(model.functions) :
         \A va \in f.start..f.start + f.size - 1 :
           \E name \in {n \in Range(RegionNames) : Executable(n)} :
             LET r == bundle.spans[name] IN r.va = f.section /\ va >= r.va /\ va < r.va + r.size
    /\ model.pool.word # None =>
         \A e \in Range(model.pool.entries) :
           /\ DisplacementOf(model.pool, e.index) # None
           /\ IndexAt(model.pool, DisplacementOf(model.pool, e.index)) = e.index

Holders(va) == {i \in DOMAIN model.functions : va >= Fn(i).start /\ va < Fn(i).start + Fn(i).size}

\* What core recovers is refused only for a region that runs off the address space; its
\* candidates never cut an instruction or share one, start at every prologue, and leave out
\* nothing but what lies beyond the reach of one.
RecoveryIsSound ==
  by = "core" /\ (Accepted \/ phase = "refused") =>
    /\ phase = "refused" =>
         \E name \in Range(RegionNames) :
           Executable(name) /\ bundle.spans[name].va + bundle.spans[name].size >= Top
    /\ phase # "refused" =>
         \A c \in Chunks(Isolate) :
           LET va == Isolate.va + c
           IN  /\ Holders(va) = Holders(va + Word - 1) /\ Cardinality(Holders(va)) <= 1
               /\ Holders(va) = {} =>
                    \E f \in Range(model.functions) : f.size = MaxCandidateSize /\ f.start + f.size <= va
               /\ Instruction(file, Isolate, c)[1] = "prologue" =>
                    \E f \in Range(model.functions) : f.start = va

\* A load that is annotated reads what the annotation says, where it runs because the
\* instruction before it did: no base outlives the value it was made from, if no branch to a
\* register and no load that moves its base came since the bases were last forgotten.
SlotIsRead ==
  note.said # None /\ note.seen =>
    /\ note.said = note.reads
    /\ note.slot # None => DisplacementOf(model.pool, note.slot) = note.reads
=============================================================================
