------------------------------ MODULE PoolRefs ------------------------------
(***************************************************************************)
(* PoolRefResolver and annotation_for (flutterdec-disasm-arm64/src/lib.rs):*)
(* which slot of the object pool a load reads, told while walking the      *)
(* instructions of one function.                                           *)
(*                                                                         *)
(* An instruction is a tuple:                                              *)
(*   <<"page", d, k>>     add xd, x27, #k                                  *)
(*   <<"ldr", d, b, off>> ldr xd, [xb, #off], where b may be PP            *)
(*   <<"ldp", d, e>>      a load pair                                      *)
(*   <<"alu", d, s>>      d from s and something else                      *)
(*   <<"store", s>>       a store of s; <<"push", s>> one that moves x15   *)
(*   <<"mov", d, n>>, <<"movk", d, n, up>>  a constant, all or half of it  *)
(*   <<"next", d, b>>     ldr xd, [xb], #off, which moves b as well;       *)
(*   <<"nexts", d, e, b>> a load pair and <<"put", s, b>> a store that do   *)
(*   <<"bl", n>>          a call n instructions on; "ret", "b", "cond"     *)
(*   <<"br">>             a branch to a register                           *)
(*   <<"plain">>, <<"prologue">>  nothing of the above                     *)
(* A base is the displacement from PP a register holds, or None.           *)
(***************************************************************************)
EXTENDS CoreRecovery

CONSTANT Regs         \* registers an instruction may name

PP == 27
NoBases == [r \in Regs |-> None]

\* annotation_for: what forgets every base. A branch to a register is not in its list.
Resets(op) == op[1] \in {"bl", "ret", "b", "cond"}

\* Mutant: a load pair is taken to write one register.
DroppedFirst(op) ==
  CASE op[1] \in {"ldr", "alu", "store", "put", "next", "nexts", "ldp", "push", "mov", "movk"} -> {op[2]}
    [] OTHER -> {}

\* invalidate_written_registers: the registers before the first two commas.
Dropped(op) ==
  CASE op[1] \in {"ldp", "nexts", "alu"} -> {op[2], op[3]}
    [] op[1] \in {"ldr", "store", "put", "next", "push", "mov", "movk"} -> {op[2]}
    [] OTHER -> {}

\* observe, and the resets around it: the bases after an instruction.
BasesAfter(bases, op) ==
  IF Resets(op) THEN NoBases
  ELSE IF op[1] = "page" THEN [bases EXCEPT ![op[2]] = op[3]]
  ELSE [r \in Regs |-> IF r \in Dropped(op) THEN None ELSE bases[r]]

\* observe: the displacement a load is said to read, resolved before its destination is dropped.
Displacement(bases, op) ==
  IF op[1] # "ldr" THEN None
  ELSE IF op[3] = PP THEN op[4]
  ELSE IF bases[op[3]] = None THEN None ELSE Plus(bases[op[3]], op[4])

\* render: the slot named, where the pool has a geometry and one there; a displacement otherwise.
Slot(pool, displacement) == IF pool.word = None THEN None ELSE IndexAt(pool, displacement)

---------------------------------------------------------------------------
(* The machine, where an instruction runs because the one before it did:   *)
(* what is in each register, as a displacement from PP, or None.           *)

RegistersAfter(regs, op) ==
  CASE Resets(op) \/ op[1] = "br" -> NoBases
    [] op[1] = "page" -> [regs EXCEPT ![op[2]] = op[3]]
    [] op[1] \in {"ldr", "alu", "mov", "movk"} -> [regs EXCEPT ![op[2]] = None]
    [] op[1] \in {"ldp", "next"} -> [regs EXCEPT ![op[2]] = None, ![op[3]] = None]
    [] op[1] = "nexts" -> [regs EXCEPT ![op[2]] = None, ![op[3]] = None, ![op[4]] = None]
    [] op[1] = "put" -> [regs EXCEPT ![op[3]] = None]
    [] OTHER -> regs

\* What the resolver does not see: a branch that is not in its list, a base moved by the
\* load or store that goes through it.
Unseen(op) == op[1] \in {"br", "next", "nexts", "put"}

\* The displacement a load really reads.
Reads(regs, op) == IF op[3] = PP THEN op[4] ELSE IF regs[op[3]] = None THEN None ELSE Plus(regs[op[3]], op[4])

=============================================================================
