----------------------------- MODULE SymbolMap ------------------------------
(***************************************************************************)
(* map-symbols (core, pipeline/symbol_map): the direct calls of a stripped  *)
(* library, each with the symbol its unstripped twin has where it goes; and *)
(* what a decompile run takes from such a map, or from an ELF file itself.  *)
(*                                                                         *)
(* An ELF file: reads, whether it is there and parses; machine; sym and     *)
(* dyn, sequences of va, kind and name; sections, a sequence of addr, size, *)
(* exec and code, the words at its file offset; and fits, whether its bytes *)
(* are in the file.  Words are those of CoreRecovery.                       *)
(***************************************************************************)
EXTENDS CoreRecovery

CONSTANTS
  Useless,    \* symbol names that are empty, mapping symbols or local labels
  NameLength  \* symbol name |-> its length

---------------------------------------------------------------------------
(* elf.rs.                                                                  *)

ExecSections(elf) == {s \in Range(elf.sections) : s.exec /\ s.size > 0 /\ s.fits}

\* compare_exec_layouts: each section of the one is in the other, and there are as many.
Twin(s, sections) == {u \in sections : u.addr = s.addr /\ u.size = s.size}
LayoutMatches(a, b) ==
  /\ Cardinality(a) = Cardinality(b)
  /\ \A s \in a : Twin(s, b) # {}
BytesMatch(a, b) == LayoutMatches(a, b) /\ \A s \in a : \A u \in Twin(s, b) : u.code = s.code

\* maybe_insert_symbol: the symbols that may name an address.
BothTables(elf) == elf.sym \o elf.dyn
UsableAt(elf) ==
  LET all == BothTables(elf)
  IN  {i \in DOMAIN all : all[i].va # 0 /\ all[i].kind \in {"func", "notype"} /\ all[i].name \notin Useless}
Usable(elf) == {BothTables(elf)[i] : i \in UsableAt(elf)}

\* collect_symbols: address |-> the longest name there, the first of several.
ElfSymbols(elf) ==
  LET all == BothTables(elf)
      there(va) == {i \in UsableAt(elf) : all[i].va = va}
      longest(va) == {i \in there(va) : \A k \in there(va) : NameLength[all[k].name] <= NameLength[all[i].name]}
  IN  [va \in {s.va : s \in Usable(elf)} |-> all[Min(longest(va))].name]

---------------------------------------------------------------------------
(* analysis.rs.                                                             *)

\* The instructions decoded of a section: up to the first that is none.
Decoded(s) ==
  LET bad == {k \in DOMAIN s.code : s.code[k][1] = "bad"} IN 1..(IF bad = {} THEN Len(s.code) ELSE Min(bad) - 1)

\* parse_target_va: where a branch goes, as it is spelled, which wraps around.
SpelledTarget(pc, word) == (pc + word[2] * Word) % Top

\* scan_direct_calls: where each call is, and where it goes.
DirectCalls(sections, branches) ==
  UNION {{[at |-> s.addr + (k - 1) * Word, to |-> SpelledTarget(s.addr + (k - 1) * Word, s.code[k])] :
            k \in {i \in Decoded(s) : s.code[i][1] = "bl" \/ (branches /\ s.code[i][1] = "b")}} : s \in sections}

\* Mutant: the nearest symbol, whether it is below or above.
ResolveAround(symbols, va, reach) ==
  LET near == {s \in DOMAIN symbols : s <= va + reach /\ va <= s + reach}
  IN  IF va \in DOMAIN symbols THEN [kind |-> "exact", name |-> symbols[va]]
      ELSE IF near = {} THEN [kind |-> "unresolved", name |-> Nothing]
      ELSE [kind |-> "nearest", name |-> symbols[CHOOSE s \in near : TRUE]]

\* resolve_target: the symbol there, or the last one below it and not too far.
Resolve(symbols, va, reach) ==
  LET below == {s \in DOMAIN symbols : s <= va}
  IN  IF va \in DOMAIN symbols THEN [kind |-> "exact", name |-> symbols[va]]
      ELSE IF below = {} \/ va - Max(below) > reach THEN [kind |-> "unresolved", name |-> Nothing]
      ELSE [kind |-> "nearest", name |-> symbols[Max(below)]]

---------------------------------------------------------------------------
(* run.rs. A pair: stripped and unstripped, reach, branches and whether     *)
(* the code must match.                                                     *)

MapRefused(pair) ==
  \/ ~pair.stripped.reads \/ ~pair.unstripped.reads
  \/ pair.stripped.machine # "aarch64" \/ pair.unstripped.machine # "aarch64"
  \/ pair.mustMatch /\ ~BytesMatch(ExecSections(pair.stripped), ExecSections(pair.unstripped))
  \/ DOMAIN ElfSymbols(pair.unstripped) = {}

\* The summary it writes: target |-> how often it is called, and what was found there.
Summary(pair) ==
  LET calls == DirectCalls(ExecSections(pair.stripped), pair.branches)
  IN  [to \in {c.to : c \in calls} |->
         [count |-> Cardinality({c \in calls : c.to = to}),
          found |-> Resolve(ElfSymbols(pair.unstripped), to, pair.reach)]]

\* load_symbol_target_symbols: what a run takes of a summary.
Taken(summary, nearest) ==
  [to \in {t \in DOMAIN summary : summary[t].found.kind = "exact" \/ (nearest /\ summary[t].found.kind = "nearest")} |->
     summary[to].found.name]
=============================================================================
