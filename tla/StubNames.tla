----------------------------- MODULE StubNames ------------------------------
(***************************************************************************)
(* shared_stub_names (core, pipeline/runners/stubs.rs): the runtime stubs   *)
(* among the decoded functions, told by the Thread slot their prologue      *)
(* loads.  A slot means another stub in another SDK, so the table of the    *)
(* version the input claims is used only where it explains the code best.   *)
(*                                                                         *)
(* Code is a function from the address of a function to its instructions,  *)
(* which are those of PoolRefs, where a base may be the thread register,   *)
(* and                                                                     *)
(*   <<"push", s>>            a store through x15 that moves it            *)
(*   <<"mov", d, n>>          mov xd, #n                                   *)
(*   <<"movk", d, n, up>>     movk xd, #n, in the upper half if up         *)
(***************************************************************************)
EXTENDS PoolRefs

CONSTANT PrologueWindow   \* PROLOGUE_WINDOW

THR == 26

---------------------------------------------------------------------------
(* The tables: slot |-> the stub, whether it returns, writes x0, and keeps  *)
(* the registers.                                                           *)

Slot35Names == <<"lateInitializationError", "nullError", "nullArgError", "nullCastError", "rangeError", "writeError">>

Stub(name, returns, writes, preserves) ==
  [name |-> name, returns |-> returns, writes |-> writes, preserves |-> preserves]

\* Families that raise, each without and with the FPU registers, from some slot on.
RaisingSlots(first, families) == {first + 8 * k : k \in 0..2 * Len(families) - 1}
Raising(first, families, o) ==
  Stub(<<families[(o - first) \div 16 + 1], IF (o - first) % 16 = 0 THEN "without" ELSE "with">>, FALSE, FALSE, TRUE)

Mint(fpu) == Stub(<<"allocateMint", fpu>>, TRUE, TRUE, TRUE)
Overflow(fpu) == Stub(<<"stackOverflow", fpu>>, TRUE, FALSE, TRUE)
SlowTypeTest == Stub(<<"slowTypeTest", "">>, TRUE, FALSE, FALSE)

Slots35 ==
  [o \in RaisingSlots(\hC8, Slot35Names) \union {\h128, \h130, \h178, \h180, \h1C8} |->
     CASE o = \h128 -> Mint("with") [] o = \h130 -> Mint("without")
       [] o = \h178 -> Overflow("without") [] o = \h180 -> Overflow("with")
       [] o = \h1C8 -> SlowTypeTest
       [] OTHER -> Raising(\hC8, Slot35Names, o)]

Slot312Names == Append(Slot35Names, "fieldAccessError")
Slots312 ==
  [o \in RaisingSlots(\hE8, Slot312Names) \union {\hD0, \h158, \h160, \h190, \h198, \h1D8} |->
     CASE o = \hD0 -> Stub(<<"invokeDartCode", "">>, TRUE, TRUE, FALSE)
       [] o = \h158 -> Mint("with") [] o = \h160 -> Mint("without")
       [] o = \h190 -> Overflow("without") [] o = \h198 -> Overflow("with")
       [] o = \h1D8 -> SlowTypeTest
       [] OTHER -> Raising(\hE8, Slot312Names, o)]

\* stub_slots: the table of a version, by its major and minor, in compressed-pointer builds.
Tables == [v \in {"3.5", "3.12"} |-> IF v = "3.5" THEN Slots35 ELSE Slots312]
Known(version, compressed) == compressed /\ version \in DOMAIN Tables

---------------------------------------------------------------------------
(* One function.                                                            *)

\* prologue_stub_hit: the first load in the window from a slot of the table, 0 for none.
Hit(ops, table) ==
  LET hits == {k \in DOMAIN ops : k <= PrologueWindow /\ ops[k][1] = "ldr" /\ ops[k][3] = THR /\ ops[k][4] \in DOMAIN table}
  IN  IF hits = {} THEN 0 ELSE Min(hits)

Saved(ops, at) == \E k \in 1..at - 1 : ops[k][1] = "push"

\* tail_calls_immediately.
HandsOff(ops, at) ==
  /\ at + 2 <= Len(ops)
  /\ ops[at + 1][1] = "ldr" /\ ops[at + 1][4] = 7
  /\ ops[at + 2][1] = "br"

SlotHit(ops, table) == table[ops[Hit(ops, table)][4]]
IsStub(ops, table) == Hit(ops, table) # 0 /\ Saved(ops, Hit(ops, table))
IsThunk(ops, table) == Hit(ops, table) # 0 /\ ~Saved(ops, Hit(ops, table)) /\ HandsOff(ops, Hit(ops, table))

\* prologue_stub_name.
StubName(ops, table) ==
  IF IsStub(ops, table) THEN <<"stub", SlotHit(ops, table).name>> ELSE <<"thunk", SlotHit(ops, table).name>>

\* The class id in a tag word of two halves.
ClassId(low, high) == ((low + high * 2^16) \div 2^12) % 2^20

\* allocation_stub_class_id: 0 for none.
AllocatedClass(ops) ==
  IF Len(ops) >= 2 /\ ops[1][1] = "mov" /\ ops[2][1] = "movk" /\ ops[2][2] = ops[1][2] /\ ops[2][4]
  THEN ClassId(ops[1][3], ops[2][3]) ELSE 0

---------------------------------------------------------------------------
(* The program.                                                             *)

\* What one says of an address, and where it says nothing, the other.
Over(f, g) == [x \in DOMAIN f \union DOMAIN g |-> IF x \in DOMAIN f THEN f[x] ELSE g[x]]

\* A function's address |-> the name a table gives it.
Explained(code, table) ==
  [va \in {a \in DOMAIN code : IsStub(code[a], table) \/ IsThunk(code[a], table)} |-> StubName(code[va], table)]

Allocating(code) == {va \in DOMAIN code : AllocatedClass(code[va]) # 0}
AllocationNames(code) == [va \in Allocating(code) |-> <<"allocate", AllocatedClass(code[va])>>]

\* Mutant: a tie is taken for agreement.
BestByCount(code, table) ==
  \A v \in DOMAIN Tables : Cardinality(DOMAIN Explained(code, Tables[v])) <= Cardinality(DOMAIN Explained(code, table))

\* is_best_scoring: every other table explains fewer functions, or the same with the same names.
Best(code, table) ==
  \A v \in DOMAIN Tables :
    \/ Cardinality(DOMAIN Explained(code, Tables[v])) < Cardinality(DOMAIN Explained(code, table))
    \/ Explained(code, Tables[v]) = Explained(code, table)

Status(code, version, compressed) ==
  IF ~Known(version, compressed) THEN "unknown_key"
  ELSE IF DOMAIN Explained(code, Tables[version]) = {} THEN "no_stub_prologues"
  ELSE IF ~Best(code, Tables[version]) THEN "table_disagreement"
  ELSE "named"

\* A name from the table replaces that of an allocation stub, also in what a
\* disagreement keeps, which is whatever allocates.
NamesGiven(code, version, compressed) ==
  LET found == Over(Explained(code, Tables[version]), AllocationNames(code))
  IN  CASE Status(code, version, compressed) = "named" -> found
        [] Status(code, version, compressed) = "table_disagreement" -> [va \in Allocating(code) |-> found[va]]
        [] OTHER -> AllocationNames(code)

NonReturning(code, version, compressed) ==
  IF Status(code, version, compressed) # "named" THEN {}
  ELSE {va \in DOMAIN code : IsStub(code[va], Tables[version]) /\ ~SlotHit(code[va], Tables[version]).returns}

Allocates == [writes |-> TRUE, preserves |-> FALSE]

\* What a call to a named function does: that of the slot it loads, whether or not it is named for it.
Effects(code, version, compressed) ==
  [va \in DOMAIN NamesGiven(code, version, compressed) |->
     IF Status(code, version, compressed) = "named" /\ Hit(code[va], Tables[version]) # 0
     THEN LET s == SlotHit(code[va], Tables[version]) IN [writes |-> s.writes, preserves |-> s.preserves]
     ELSE Allocates]

StubNaming(code, version, compressed) ==
  [status |-> Status(code, version, compressed),
   names |-> NamesGiven(code, version, compressed),
   nonReturning |-> NonReturning(code, version, compressed),
   effects |-> Effects(code, version, compressed)]
=============================================================================
