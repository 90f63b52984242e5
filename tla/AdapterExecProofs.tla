-------------------------- MODULE AdapterExecProofs --------------------------
(* Theorems about AdapterExec, for every limit, pipe size and process tree. *)
EXTENDS AdapterExec, TLAPS

\* What a stream has delivered and still holds was written, so it is bounded.
BytesBounded == \A s \in Streams : seen[s] + pipe[s] <= MaxOutput

\* Only what was forked can be in the group.
GroupIsBorn == \A p \in group : proc[p] # "unborn"

TypeInv == ExecTypeOK /\ BytesBounded /\ KeepsTheFirstBytes /\ GroupIsBorn

(***************************************************************************)
(* The leader's life against the host's place: no process before the spawn  *)
(* or after a refusal, no reaping before the waits, no reuse before the     *)
(* reaping, no killing before a limit.                                      *)
(***************************************************************************)
Unreaped == {"spawn", "poll", "limits", "signal", "kill", "wait",
             "abort", "abortKill", "abortWait"}

Unborn ==
  /\ pc = "spawn" \/ completion = "refused" => \A p \in Procs : proc[p] = "unborn"
  /\ completion = "refused" => pc = "returned"

PidIsHeld ==
  /\ pc \in Unreaped    => proc[Leader] # "gone"
  /\ stranger # "none"  => proc[Leader] = "gone"

FateIsFinal ==
  /\ proc[Leader] \in {"unborn", "running"} <=> fate = "none"
  /\ pc \in {"spawn", "poll", "limits"} => fate # "killed"

LifeInv == Unborn /\ PidIsHeld /\ FateIsFinal

\* Which completion belongs to which place.
VerdictByPlace ==
  /\ completion = "none" =>
       pc \in {"spawn", "poll", "limits", "abort", "abortKill", "abortWait"}
  /\ completion \in {"exited", "signalled"} =>
       proc[Leader] = "gone" /\ pc \in {"sweep", "join", "returned"}
  /\ completion \in {"refused", "io"} => pc = "returned"
  /\ completion \in {"stdoutLimit", "stderrLimit", "timeout"} =>
       pc \in {"signal", "kill", "wait", "join", "returned"}
  /\ terminated => pc \in {"signal", "kill", "wait", "join", "returned"}

HostInv == VerdictByPlace /\ VerdictIsTrue /\ LimitHitsOnlyTheTree

-----------------------------------------------------------------------------
\* A read that straddles the limit fills the buffer exactly up to it.
LEMMA TakeFills ==
  ASSUME NEW before \in Nat, NEW read \in Nat,
         NEW held, held = IF before < Limit THEN before ELSE Limit
  PROVE  held + Take(before + read, read)
           = IF before + read < Limit THEN before + read ELSE Limit
BY ExecAssumption DEF Take

LEMMA LeaderIsAProc == Leader \in Procs /\ Descendants \subseteq Procs /\ Leader \notin Descendants
BY ExecAssumption DEF Procs

\* Ending processes keeps the types and leaves every other process alone.
LEMMA EndEffect ==
  ASSUME TypeInv, NEW S \in SUBSET Procs, End(S)
  PROVE  /\ proc'  \in [Procs -> {"unborn", "running", "zombie", "gone"}]
         /\ holds' \in [Streams -> SUBSET Procs]
         /\ \A p \in Procs \ S : proc'[p] = proc[p]
         /\ \A p \in S : proc'[p] = IF p = Leader THEN "zombie" ELSE "gone"
         /\ \A p \in group : proc'[p] # "unborn"
BY DEF End, TypeInv, ExecTypeOK, GroupIsBorn

\* A group that was signalled has nobody left.
LEMMA KillTreeEffect ==
  ASSUME TypeInv, KillTree
  PROVE  /\ proc'  \in [Procs -> {"unborn", "running", "zombie", "gone"}]
         /\ holds' \in [Streams -> SUBSET Procs]
         /\ LivingInGroup' = {}
         /\ GroupIsBorn'
         /\ \A p \in Procs : proc[p] \in {"unborn", "zombie", "gone"} => proc'[p] = proc[p]
         /\ proc[Leader] = "running" => proc'[Leader] \in {"running", "zombie"}
         /\ proc'[Leader] # proc[Leader] => proc'[Leader] = "zombie" /\ fate' = "killed"
         /\ proc'[Leader] = proc[Leader] => fate' = fate
<1>1. LivingInGroup \in SUBSET Procs /\ End(LivingInGroup)
  BY DEF LivingInGroup, KillTree, TypeInv, ExecTypeOK
<1>2. /\ proc'  \in [Procs -> {"unborn", "running", "zombie", "gone"}]
      /\ holds' \in [Streams -> SUBSET Procs]
      /\ \A p \in Procs \ LivingInGroup : proc'[p] = proc[p]
      /\ \A p \in LivingInGroup : proc'[p] = IF p = Leader THEN "zombie" ELSE "gone"
      /\ \A p \in group : proc'[p] # "unborn"
  BY <1>1, EndEffect
<1>3. GroupIsBorn'
  BY <1>2 DEF KillTree, GroupIsBorn
<1>4. \A p \in group : p \in Procs /\ (p \in LivingInGroup <=> proc[p] = "running")
  BY DEF LivingInGroup, Running, TypeInv, ExecTypeOK
<1>5. LivingInGroup' = {}
  <2>1. \A p \in group : proc'[p] # "running"
    BY <1>2, <1>4
  <2>2. QED
    BY <2>1 DEF LivingInGroup, Running, KillTree
<1>6. \A p \in Procs : proc[p] \in {"unborn", "zombie", "gone"} => p \notin LivingInGroup
  BY DEF LivingInGroup, Running
<1>7. Leader \in LivingInGroup => proc[Leader] = "running"
  BY DEF LivingInGroup, Running
<1>8. fate' = IF Leader \in LivingInGroup THEN "killed" ELSE fate
  BY DEF KillTree
<1>9. QED
  BY <1>2, <1>3, <1>5, <1>6, <1>7, <1>8, LeaderIsAProc

-----------------------------------------------------------------------------
LEMMA TypeInit == ExecInit => TypeInv
<1> SUFFICES ASSUME ExecInit PROVE TypeInv
  OBVIOUS
<1>1. /\ proc = [p \in Procs |-> "unborn"]
      /\ \A s \in Streams : seen[s] = 0 /\ pipe[s] = 0 /\ kept[s] = 0
  BY DEF ExecInit
<1>2. BytesBounded /\ KeepsTheFirstBytes
  BY <1>1, ExecAssumption DEF BytesBounded, KeepsTheFirstBytes, GroupIsBorn
<1>3. /\ pipe \in [Streams -> 0 .. PipeCap]
      /\ seen \in [Streams -> 0 .. MaxOutput]
      /\ kept \in [Streams -> 0 .. Limit]
  BY ExecAssumption DEF ExecInit
<1>4. /\ proc  \in [Procs -> {"unborn", "running", "zombie", "gone"}]
      /\ holds \in [Streams -> SUBSET Procs]
      /\ group \in SUBSET Procs /\ drained \in SUBSET Streams
  BY DEF ExecInit
<1>5. QED
  BY <1>2, <1>3, <1>4 DEF ExecInit, TypeInv, ExecTypeOK, GroupIsBorn, Places, Completions

LEMMA DrainTypes ==
  ASSUME TypeInv, NEW s \in Streams, Drain(s)
  PROVE  TypeInv'
<1>1. CASE UNCHANGED <<pipe, seen, kept>>
  BY <1>1 DEF Drain, TypeInv, ExecTypeOK, BytesBounded, KeepsTheFirstBytes, GroupIsBorn
<1>2. ASSUME NEW read \in 1 .. pipe[s],
             pipe' = [pipe EXCEPT ![s] = @ - read],
             seen' = [seen EXCEPT ![s] = @ + read],
             kept' = [kept EXCEPT ![s] = @ + Take(seen[s] + read, read)],
             UNCHANGED drained
      PROVE  TypeInv'
  <2>1. /\ pipe[s] \in Nat /\ pipe[s] <= PipeCap
        /\ seen[s] \in Nat /\ seen[s] + pipe[s] <= MaxOutput
        /\ kept[s] = IF seen[s] < Limit THEN seen[s] ELSE Limit
    BY ExecAssumption DEF TypeInv, ExecTypeOK, BytesBounded, KeepsTheFirstBytes, GroupIsBorn
  <2>2. kept[s] + Take(seen[s] + read, read)
          = IF seen[s] + read < Limit THEN seen[s] + read ELSE Limit
    BY <1>2, <2>1, TakeFills
  <2>3. /\ pipe' \in [Streams -> 0 .. PipeCap]
        /\ seen' \in [Streams -> 0 .. MaxOutput]
        /\ \A t \in Streams : seen'[t] + pipe'[t] <= MaxOutput
    BY <1>2, <2>1, ExecAssumption DEF TypeInv, ExecTypeOK, BytesBounded
  <2>4. /\ kept' \in [Streams -> 0 .. Limit]
        /\ \A t \in Streams : kept'[t] = IF seen'[t] < Limit THEN seen'[t] ELSE Limit
    BY <1>2, <2>1, <2>2, ExecAssumption DEF TypeInv, ExecTypeOK, KeepsTheFirstBytes
  <2>5. QED
    BY <1>2, <2>3, <2>4 DEF Drain, TypeInv, ExecTypeOK, BytesBounded, KeepsTheFirstBytes, GroupIsBorn
<1>3. QED
  BY <1>1, <1>2 DEF Drain

LEMMA TreeTypes ==
  ASSUME TypeInv, Tree
  PROVE  TypeInv'
<1> USE LeaderIsAProc DEF treeKeeps
<1>1. ASSUME NEW p \in Procs, NEW d \in Descendants, Fork(p, d)
      PROVE  TypeInv'
  BY <1>1 DEF Fork, TypeInv, ExecTypeOK, BytesBounded, KeepsTheFirstBytes, GroupIsBorn
<1>2. ASSUME NEW p \in Procs, NEW s \in Streams, Write(p, s)
      PROVE  TypeInv'
  BY <1>2, ExecAssumption DEF Write, TypeInv, ExecTypeOK, BytesBounded, KeepsTheFirstBytes, GroupIsBorn
<1>3. ASSUME NEW p \in Procs, NEW s \in Streams, Close(p, s)
      PROVE  TypeInv'
  BY <1>3 DEF Close, TypeInv, ExecTypeOK, BytesBounded, KeepsTheFirstBytes, GroupIsBorn
<1>4. ASSUME NEW p \in Procs, Exit(p)
      PROVE  TypeInv'
  <2>1. /\ proc'  \in [Procs -> {"unborn", "running", "zombie", "gone"}]
        /\ holds' \in [Streams -> SUBSET Procs]
        /\ GroupIsBorn'
    BY <1>4, EndEffect DEF Exit, GroupIsBorn
  <2>2. fate' \in {"none", "exit", "signal", "killed"}
    BY <1>4 DEF Exit, TypeInv, ExecTypeOK
  <2>3. QED
    BY <1>4, <2>1, <2>2 DEF Exit, TypeInv, ExecTypeOK, BytesBounded, KeepsTheFirstBytes
<1>5. ASSUME NEW d \in Descendants, Escape(d)
      PROVE  TypeInv'
  BY <1>5 DEF Escape, TypeInv, ExecTypeOK, BytesBounded, KeepsTheFirstBytes, GroupIsBorn
<1>6. QED
  BY <1>1, <1>2, <1>3, <1>4, <1>5 DEF Tree

LEMMA HostTypes ==
  ASSUME TypeInv, Host
  PROVE  TypeInv'
<1> USE DEF hostKeeps, Goto
<1>1. CASE Spawn
  BY <1>1, LeaderIsAProc DEF Spawn, RecordWritten, TypeInv, ExecTypeOK, BytesBounded, KeepsTheFirstBytes, GroupIsBorn, Places, Completions
<1>2. CASE TryWait
  BY <1>2, LeaderIsAProc DEF TryWait, TypeInv, ExecTypeOK, BytesBounded, KeepsTheFirstBytes, GroupIsBorn,
     Places, Completions
<1>3. CASE CheckLimits
  BY <1>3 DEF CheckLimits, TypeInv, ExecTypeOK, BytesBounded, KeepsTheFirstBytes, GroupIsBorn,
     Places, Completions
<1>4. CASE Sweep \/ Signal \/ Abort
  <2>1. KillTree
    BY <1>4 DEF Sweep, Signal, Abort
  <2>2. /\ proc'  \in [Procs -> {"unborn", "running", "zombie", "gone"}]
        /\ holds' \in [Streams -> SUBSET Procs]
        /\ GroupIsBorn'
    BY <2>1, KillTreeEffect
  <2>3. /\ fate' \in {"none", "exit", "signal", "killed"}
        /\ stranger' \in {"none", "alive", "killed"}
        /\ group' = group
    BY <2>1 DEF KillTree, TypeInv, ExecTypeOK
  <2>4. QED
    BY <1>4, <2>2, <2>3 DEF Sweep, Signal, Abort, TypeInv, ExecTypeOK, BytesBounded, KeepsTheFirstBytes, Places
<1>5. ASSUME NEW here \in Places, NEW next \in Places, KillChild(here, next)
      PROVE  TypeInv'
  <2>1. {Leader} \cap {p \in Procs : Running(p)} \in SUBSET Procs
    OBVIOUS
  <2>2. /\ proc'  \in [Procs -> {"unborn", "running", "zombie", "gone"}]
        /\ holds' \in [Streams -> SUBSET Procs]
        /\ GroupIsBorn'
    BY <1>5, <2>1, EndEffect DEF KillChild, GroupIsBorn
  <2>3. fate' \in {"none", "exit", "signal", "killed"}
    BY <1>5 DEF KillChild, TypeInv, ExecTypeOK
  <2>4. QED
    BY <1>5, <2>2, <2>3 DEF KillChild, TypeInv, ExecTypeOK, BytesBounded, KeepsTheFirstBytes
<1>6. ASSUME NEW here \in Places, NEW next \in Places, WaitChild(here, next)
      PROVE  TypeInv'
  BY <1>6, LeaderIsAProc DEF WaitChild, TypeInv, ExecTypeOK, BytesBounded, KeepsTheFirstBytes, GroupIsBorn,
     Completions
<1>7. CASE Join
  BY <1>7 DEF Join, TypeInv, ExecTypeOK, BytesBounded, KeepsTheFirstBytes, GroupIsBorn, Places
<1>8. {"kill", "wait", "join", "abortKill", "abortWait", "returned"} \subseteq Places
  BY DEF Places
<1>9. QED
  BY <1>1, <1>2, <1>3, <1>4, <1>5, <1>6, <1>7, <1>8 DEF Host

LEMMA TypeStep == TypeInv /\ [ExecNext]_execVars => TypeInv'
<1> SUFFICES ASSUME TypeInv, [ExecNext]_execVars
             PROVE  TypeInv'
  OBVIOUS
<1>1. CASE Host \/ Tree
  BY <1>1, HostTypes, TreeTypes
<1>2. CASE Expire
  BY <1>2 DEF Expire, TypeInv, ExecTypeOK, BytesBounded, KeepsTheFirstBytes, GroupIsBorn
<1>3. CASE Reuse
  BY <1>3 DEF Reuse, TypeInv, ExecTypeOK, BytesBounded, KeepsTheFirstBytes, GroupIsBorn
<1>4. ASSUME NEW s \in Streams, Drain(s)
      PROVE  TypeInv'
  BY <1>4, DrainTypes
<1>5. CASE UNCHANGED execVars
  BY <1>5 DEF execVars, TypeInv, ExecTypeOK, BytesBounded, KeepsTheFirstBytes, GroupIsBorn
<1>6. QED
  BY <1>1, <1>2, <1>3, <1>4, <1>5 DEF ExecNext

\* The variables stay in their domains: no process is counted that was not
\* forked, no byte kept beyond the limit, for every tree, limit and pipe.
THEOREM TypeCorrect == ExecSpec => []ExecTypeOK
<1>1. TypeInv => ExecTypeOK
  BY DEF TypeInv
<1>2. QED
  BY TypeInit, TypeStep, <1>1, PTL DEF ExecSpec

\* For every limit, pipe size and cutting of the reads, a drain thread has kept
\* exactly the first Limit bytes of what it has seen (drain, exec.rs:71).
THEOREM FirstBytesAreKept == ExecSpec => []KeepsTheFirstBytes
<1>1. TypeInv => KeepsTheFirstBytes
  BY DEF TypeInv
<1>2. QED
  BY TypeInit, TypeStep, <1>1, PTL DEF ExecSpec

-----------------------------------------------------------------------------
(* The processes of the tree: what they may do to each other's lives.       *)

\* A step of the tree reaps nobody, starts only what is forked by somebody who
\* runs, and settles the leader's fate exactly when the leader ends.
LEMMA TreeEffect ==
  ASSUME TypeInv, Tree
  PROVE  /\ UNCHANGED <<pc, seen, expired, completion, terminated, stranger>>
         /\ \E p \in Procs : Running(p)
         /\ LivingInGroup = {} => LivingInGroup' = {}
         /\ \/ proc'[Leader] = proc[Leader] /\ fate' = fate
            \/ proc[Leader] = "running" /\ proc'[Leader] = "zombie" /\ fate' \in {"exit", "signal"}
<1> USE LeaderIsAProc DEF treeKeeps, Running
<1>1. ASSUME NEW p \in Procs, NEW d \in Descendants, Fork(p, d)
      PROVE  /\ UNCHANGED <<pc, seen, expired, completion, terminated, stranger>>
             /\ Running(p)
             /\ LivingInGroup = {} => LivingInGroup' = {}
             /\ proc'[Leader] = proc[Leader] /\ fate' = fate
  <2>1. \A q \in Procs \ {d} : proc'[q] = proc[q]
    BY <1>1 DEF Fork, TypeInv, ExecTypeOK
  <2>2. group \in SUBSET Procs /\ d \notin group
    BY <1>1 DEF Fork, TypeInv, ExecTypeOK, GroupIsBorn
  <2>3. LivingInGroup = {} => LivingInGroup' = {}
    <3> SUFFICES ASSUME LivingInGroup = {} PROVE LivingInGroup' = {}
      OBVIOUS
    <3>1. p \notin group /\ group' = group
      BY <1>1 DEF Fork, LivingInGroup
    <3>2. QED
      BY <2>1, <2>2, <3>1 DEF LivingInGroup
  <2>4. QED
    BY <1>1, <2>1, <2>3 DEF Fork
<1>2. ASSUME NEW p \in Procs, NEW s \in Streams, Write(p, s) \/ Close(p, s)
      PROVE  /\ UNCHANGED <<pc, seen, expired, completion, terminated, stranger>>
             /\ Running(p)
             /\ LivingInGroup = {} => LivingInGroup' = {}
             /\ proc'[Leader] = proc[Leader] /\ fate' = fate
  BY <1>2 DEF Write, Close, LivingInGroup
<1>3. ASSUME NEW p \in Procs, Exit(p)
      PROVE  /\ UNCHANGED <<pc, seen, expired, completion, terminated, stranger>>
             /\ Running(p)
             /\ LivingInGroup = {} => LivingInGroup' = {}
             /\ \/ proc'[Leader] = proc[Leader] /\ fate' = fate
                \/ proc[Leader] = "running" /\ proc'[Leader] = "zombie" /\ fate' \in {"exit", "signal"}
  <2>1. /\ \A q \in Procs \ {p} : proc'[q] = proc[q]
        /\ proc'[p] = IF p = Leader THEN "zombie" ELSE "gone"
    BY <1>3, EndEffect DEF Exit
  <2>2. group \in SUBSET Procs /\ group' = group
    BY <1>3 DEF Exit, TypeInv, ExecTypeOK
  <2>3. LivingInGroup = {} => LivingInGroup' = {}
    BY <2>1, <2>2 DEF LivingInGroup
  <2>4. QED
    BY <1>3, <2>1, <2>3 DEF Exit
<1>4. ASSUME NEW d \in Descendants, Escape(d)
      PROVE  /\ UNCHANGED <<pc, seen, expired, completion, terminated, stranger>>
             /\ Running(d)
             /\ LivingInGroup = {} => LivingInGroup' = {}
             /\ proc'[Leader] = proc[Leader] /\ fate' = fate
  BY <1>4 DEF Escape, LivingInGroup
<1>5. QED
  BY <1>1, <1>2, <1>3, <1>4 DEF Tree

\* What is neither the tree nor the host decides nothing about either.
LEMMA OtherEffect ==
  ASSUME TypeInv, Expire \/ Reuse \/ (\E s \in Streams : Drain(s)) \/ UNCHANGED execVars
  PROVE  /\ UNCHANGED <<pc, proc, group, fate, completion, terminated>>
         /\ stranger' # stranger => proc[Leader] = "gone" /\ stranger' = "alive"
         /\ expired => expired'
         /\ \A s \in Streams : seen[s] \in Nat /\ seen'[s] \in Nat /\ seen[s] <= seen'[s]
<1>1. \A s \in Streams : seen[s] \in Nat /\ seen[s] + pipe[s] <= MaxOutput
  BY ExecAssumption DEF TypeInv, ExecTypeOK, BytesBounded
<1>2. CASE Expire
  BY <1>1, <1>2 DEF Expire
<1>3. CASE Reuse
  BY <1>1, <1>3 DEF Reuse
<1>4. ASSUME NEW s \in Streams, Drain(s)
      PROVE  /\ UNCHANGED <<pc, proc, group, fate, completion, terminated, stranger, expired>>
             /\ \A t \in Streams : seen'[t] \in Nat /\ seen[t] <= seen'[t]
  <2>1. pipe[s] \in Nat
    BY ExecAssumption DEF TypeInv, ExecTypeOK
  <2>2. \/ UNCHANGED seen
        \/ \E read \in 1 .. pipe[s] : seen' = [seen EXCEPT ![s] = @ + read]
    BY <1>4 DEF Drain
  <2>3. \A t \in Streams : seen'[t] \in Nat /\ seen[t] <= seen'[t]
    BY <1>1, <2>1, <2>2 DEF TypeInv, ExecTypeOK
  <2>4. QED
    BY <1>4, <2>3 DEF Drain
<1>5. CASE UNCHANGED execVars
  BY <1>1, <1>5 DEF execVars
<1>6. QED
  BY <1>1, <1>2, <1>3, <1>4, <1>5

-----------------------------------------------------------------------------
LEMMA LifeInit == ExecInit => LifeInv
BY LeaderIsAProc DEF ExecInit, LifeInv, Unborn, PidIsHeld, FateIsFinal, Unreaped

\* The host starts the leader, reaps it where it waits, and kills it only on the
\* ways out of a limit or a failed wait.
LEMMA HostLife ==
  ASSUME TypeInv, LifeInv, Host
  PROVE  LifeInv'
<1> USE LeaderIsAProc DEF LifeInv, Unborn, PidIsHeld, FateIsFinal, Unreaped, Goto
<1>1. CASE Spawn
  BY <1>1 DEF Spawn, TypeInv, ExecTypeOK
<1>2. CASE TryWait
  BY <1>2 DEF TryWait, TypeInv, ExecTypeOK, Running
<1>3. CASE CheckLimits
  BY <1>3 DEF CheckLimits
<1>4. CASE Sweep \/ Signal \/ Abort
  <2>1. KillTree
    BY <1>4 DEF Sweep, Signal, Abort
  <2>2. /\ \A p \in Procs : proc[p] \in {"unborn", "zombie", "gone"} => proc'[p] = proc[p]
        /\ proc[Leader] = "running" => proc'[Leader] \in {"running", "zombie"}
        /\ proc'[Leader] # proc[Leader] => proc'[Leader] = "zombie" /\ fate' = "killed"
        /\ proc'[Leader] = proc[Leader] => fate' = fate
    BY <2>1, KillTreeEffect
  <2>3. proc[Leader] \in {"unborn", "running", "zombie", "gone"}
    BY DEF TypeInv, ExecTypeOK
  <2>4. /\ pc \in {"sweep", "signal", "abort"}
        /\ pc' \in {"join", "kill", "abortKill"}
        /\ pc' # "join" => pc \in Unreaped
        /\ completion' = completion
        /\ stranger' # "none" => stranger # "none"
    BY <1>4, <2>1 DEF Sweep, Signal, Abort, KillTree
  <2>5. QED
    BY <2>2, <2>3, <2>4
<1>5. ASSUME NEW here \in {"kill", "abortKill"}, NEW next \in {"wait", "abortWait"},
             KillChild(here, next)
      PROVE  LifeInv'
  <2>1. /\ \A p \in Procs : proc[p] # "running" => proc'[p] = proc[p]
        /\ proc'[Leader] = IF Running(Leader) THEN "zombie" ELSE proc[Leader]
    BY <1>5, EndEffect DEF KillChild, Running
  <2>2. fate' = IF Running(Leader) THEN "killed" ELSE fate
    BY <1>5 DEF KillChild
  <2>3. proc[Leader] \in {"unborn", "running", "zombie", "gone"}
    BY DEF TypeInv, ExecTypeOK
  <2>4. /\ pc = here /\ pc' = next
        /\ UNCHANGED <<completion, stranger>>
    BY <1>5 DEF KillChild
  <2>5. QED
    BY <2>1, <2>2, <2>3, <2>4 DEF Running
<1>6. ASSUME NEW here \in {"wait", "abortWait"}, NEW next \in {"join", "returned"},
             WaitChild(here, next)
      PROVE  LifeInv'
  BY <1>6 DEF WaitChild, TypeInv, ExecTypeOK
<1>7. CASE Join
  BY <1>7 DEF Join
<1>8. QED
  BY <1>1, <1>2, <1>3, <1>4, <1>5, <1>6, <1>7 DEF Host

LEMMA LifeStep == TypeInv /\ LifeInv /\ [ExecNext]_execVars => LifeInv'
<1> SUFFICES ASSUME TypeInv, LifeInv, [ExecNext]_execVars
             PROVE  LifeInv'
  OBVIOUS
<1>1. CASE Host
  BY <1>1, HostLife
<1>2. CASE Tree
  BY <1>2, TreeEffect, LeaderIsAProc DEF LifeInv, Unborn, PidIsHeld, FateIsFinal, Running
<1>3. CASE Expire \/ Reuse \/ (\E s \in Streams : Drain(s)) \/ UNCHANGED execVars
  BY <1>3, OtherEffect DEF LifeInv, Unborn, PidIsHeld, FateIsFinal
<1>4. QED
  BY <1>1, <1>2, <1>3 DEF ExecNext

-----------------------------------------------------------------------------
LEMMA SurvivalStep ==
  TypeInv /\ LifeInv /\ NothingSurvives /\ [ExecNext]_execVars => NothingSurvives'
<1> SUFFICES ASSUME TypeInv, LifeInv, NothingSurvives, [ExecNext]_execVars
             PROVE  NothingSurvives'
  OBVIOUS
<1>1. CASE Spawn
  <2>1. pc' # "poll" => LivingInGroup = {} /\ LivingInGroup' = {}
    BY <1>1 DEF Spawn, LifeInv, Unborn, LivingInGroup, Running, TypeInv, ExecTypeOK
  <2>2. QED
    BY <1>1, <2>1 DEF Spawn, NothingSurvives
<1>2. CASE TryWait \/ CheckLimits
  BY <1>2 DEF TryWait, CheckLimits, NothingSurvives
<1>3. CASE Sweep \/ Signal \/ Abort
  BY <1>3, KillTreeEffect DEF Sweep, Signal, Abort, NothingSurvives
<1>4. ASSUME NEW here \in {"kill", "abortKill"}, NEW next \in {"wait", "abortWait"},
             KillChild(here, next)
      PROVE  NothingSurvives'
  <2>1. /\ LivingInGroup = {}
        /\ group' = group /\ group \in SUBSET Procs
    BY <1>4 DEF KillChild, NothingSurvives, TypeInv, ExecTypeOK
  <2>2. \A p \in Procs : proc'[p] = "running" => proc[p] = "running"
    BY <1>4, EndEffect DEF KillChild, Running
  <2>3. QED
    BY <2>1, <2>2 DEF LivingInGroup, Running, NothingSurvives
<1>5. ASSUME NEW here \in {"wait", "abortWait"}, NEW next \in {"join", "returned"},
             WaitChild(here, next)
      PROVE  NothingSurvives'
  BY <1>5, LeaderIsAProc DEF WaitChild, NothingSurvives, LivingInGroup, Running, TypeInv, ExecTypeOK
<1>6. CASE Join
  BY <1>6 DEF Join, NothingSurvives, LivingInGroup, Running
<1>7. CASE Tree
  BY <1>7, TreeEffect DEF NothingSurvives
<1>8. CASE Expire \/ Reuse \/ (\E s \in Streams : Drain(s)) \/ UNCHANGED execVars
  BY <1>8, OtherEffect DEF NothingSurvives, LivingInGroup, Running
<1>9. QED
  BY <1>1, <1>2, <1>3, <1>4, <1>5, <1>6, <1>7, <1>8 DEF ExecNext, Host

-----------------------------------------------------------------------------
LEMMA HostInvInit == ExecInit => HostInv
BY LeaderIsAProc DEF ExecInit, HostInv, VerdictByPlace, VerdictIsTrue, LimitHitsOnlyTheTree

\* A signal to the group of a leader that was not reaped hits no stranger.
LEMMA SignalHits ==
  ASSUME TypeInv, LifeInv, KillTree, pc \in Unreaped
  PROVE  stranger' = "none"
BY DEF KillTree, LifeInv, PidIsHeld, TypeInv, ExecTypeOK

LEMMA HostVerdict ==
  ASSUME TypeInv, LifeInv, HostInv, Host
  PROVE  HostInv'
<1> USE LeaderIsAProc DEF HostInv, VerdictByPlace, VerdictIsTrue, LimitHitsOnlyTheTree, Goto, hostKeeps
<1>1. CASE Spawn
  BY <1>1 DEF Spawn, LifeInv, Unborn, FateIsFinal, PidIsHeld, Unreaped, TypeInv, ExecTypeOK
<1>2. CASE TryWait
  BY <1>2 DEF TryWait, LifeInv, FateIsFinal, PidIsHeld, Unreaped, TypeInv, ExecTypeOK
<1>3. CASE CheckLimits
  BY <1>3 DEF CheckLimits, Exceeded, LifeInv, FateIsFinal, PidIsHeld, Unreaped, TypeInv, ExecTypeOK
<1>4. CASE Sweep
  <2>1. /\ proc[Leader] = "gone" => proc'[Leader] = "gone"
        /\ proc'[Leader] = proc[Leader] => fate' = fate
    BY <1>4, KillTreeEffect DEF Sweep
  <2>2. pc = "sweep" /\ pc' = "join" /\ UNCHANGED <<completion, terminated, expired, seen>>
    BY <1>4 DEF Sweep
  <2>3. completion \in {"exited", "signalled"} /\ ~terminated
    BY <2>2 DEF TypeInv, ExecTypeOK, Completions
  <2>4. QED
    BY <2>1, <2>2, <2>3
<1>5. CASE Signal
  <2>1. stranger' = "none"
    BY <1>5, SignalHits DEF Signal, Unreaped
  <2>2. pc = "signal" /\ pc' = "kill" /\ UNCHANGED <<completion, terminated, expired, seen>>
    BY <1>5 DEF Signal
  <2>3. completion \in {"stdoutLimit", "stderrLimit", "timeout"}
    BY <2>2 DEF TypeInv, ExecTypeOK, Completions
  <2>4. QED
    BY <2>1, <2>2, <2>3
<1>6. CASE Abort
  <2>1. stranger' = "none"
    BY <1>6, SignalHits DEF Abort, Unreaped
  <2>2. pc = "abort" /\ pc' = "abortKill" /\ UNCHANGED <<completion, terminated, expired, seen>>
    BY <1>6 DEF Abort
  <2>3. completion = "none"
    BY <2>2 DEF TypeInv, ExecTypeOK, Completions
  <2>4. QED
    BY <2>1, <2>2, <2>3
<1>7. CASE KillChild("kill", "wait")
  <2>1. /\ pc = "kill" /\ pc' = "wait"
        /\ UNCHANGED <<completion, terminated, expired, seen, stranger>>
    BY <1>7 DEF KillChild
  <2>2. completion \in {"stdoutLimit", "stderrLimit", "timeout"}
    BY <2>1 DEF TypeInv, ExecTypeOK, Completions
  <2>3. QED
    BY <2>1, <2>2
<1>8. CASE KillChild("abortKill", "abortWait")
  <2>1. /\ pc = "abortKill" /\ pc' = "abortWait"
        /\ UNCHANGED <<completion, terminated, expired, seen, stranger>>
    BY <1>8 DEF KillChild
  <2>2. completion = "none"
    BY <2>1 DEF TypeInv, ExecTypeOK, Completions
  <2>3. QED
    BY <2>1, <2>2
<1>9. CASE WaitChild("wait", "join") \/ WaitChild("abortWait", "returned")
  BY <1>9 DEF WaitChild, TypeInv, ExecTypeOK, Completions
<1>10. CASE Join
  <2>1. /\ pc = "join" /\ pc' = "returned"
        /\ UNCHANGED <<completion, terminated, expired, seen, stranger, fate, proc>>
    BY <1>10 DEF Join
  <2>2. completion \in {"exited", "signalled", "stdoutLimit", "stderrLimit", "timeout"}
    BY <2>1 DEF TypeInv, ExecTypeOK, Completions
  <2>3. QED
    BY <2>1, <2>2
<1>11. QED
  BY <1>1, <1>2, <1>3, <1>4, <1>5, <1>6, <1>7, <1>8, <1>9, <1>10 DEF Host

LEMMA HostInvStep == TypeInv /\ LifeInv /\ HostInv /\ [ExecNext]_execVars => HostInv'
<1> SUFFICES ASSUME TypeInv, LifeInv, HostInv, [ExecNext]_execVars
             PROVE  HostInv'
  OBVIOUS
<1>1. CASE Host
  BY <1>1, HostVerdict
<1>2. CASE Tree
  <2>1. /\ UNCHANGED <<pc, seen, expired, completion, terminated, stranger>>
        /\ \E p \in Procs : Running(p)
        /\ \/ proc'[Leader] = proc[Leader] /\ fate' = fate
           \/ proc[Leader] = "running" /\ proc'[Leader] = "zombie" /\ fate' \in {"exit", "signal"}
    BY <1>2, TreeEffect
  <2>2. VerdictByPlace'
    BY <2>1 DEF HostInv, VerdictByPlace
  <2>3. completion \in {"exited", "signalled"} => fate' = fate
    BY <2>1 DEF HostInv, VerdictByPlace
  <2>4. VerdictIsTrue' /\ LimitHitsOnlyTheTree'
    BY <2>1, <2>3 DEF HostInv, VerdictIsTrue, LimitHitsOnlyTheTree
  <2>5. QED
    BY <2>2, <2>4 DEF HostInv
<1>3. CASE Expire \/ Reuse \/ (\E s \in Streams : Drain(s)) \/ UNCHANGED execVars
  <2>1. /\ UNCHANGED <<pc, proc, fate, completion, terminated>>
        /\ stranger' # stranger => stranger' = "alive"
        /\ expired => expired'
    BY <1>3, OtherEffect
  <2>2. \A s \in Streams : seen[s] > Limit => seen'[s] > Limit
    BY <1>3, OtherEffect, ExecAssumption
  <2>3. QED
    BY <2>1, <2>2 DEF HostInv, VerdictByPlace, VerdictIsTrue, LimitHitsOnlyTheTree, Streams
<1>4. QED
  BY <1>1, <1>2, <1>3 DEF ExecNext

-----------------------------------------------------------------------------
\* Once the group has been signalled nothing of it runs, and nothing of it can
\* start again, whatever the tree forks, closes or leaves (kill_tree, sandbox.rs:756).
THEOREM SweepIsFinal == ExecSpec => []NothingSurvives
<1>1. ExecInit => NothingSurvives
  BY DEF ExecInit, NothingSurvives
<1>2. QED
  BY TypeInit, TypeStep, LifeInit, LifeStep, SurvivalStep, <1>1, PTL DEF ExecSpec

\* The completion run() reports is what really ended the child (exec.rs:154-197).
THEOREM VerdictIsRight == ExecSpec => []VerdictIsTrue
<1>1. HostInv => VerdictIsTrue
  BY DEF HostInv
<1>2. QED
  BY TypeInit, TypeStep, LifeInit, LifeStep, HostInvInit, HostInvStep, <1>1, PTL DEF ExecSpec

\* The group a limit signals is still the unreaped leader's (exec.rs:193-197).
THEOREM SignalIsAimed == ExecSpec => []LimitHitsOnlyTheTree
<1>1. HostInv => LimitHitsOnlyTheTree
  BY DEF HostInv
<1>2. QED
  BY TypeInit, TypeStep, LifeInit, LifeStep, HostInvInit, HostInvStep, <1>1, PTL DEF ExecSpec

\* Both at once: what the host says of the end, and what it did to bring it about.
THEOREM EndIsRight == ExecSpec => []EndIsTheTrees
<1>1. VerdictIsTrue /\ LimitHitsOnlyTheTree => EndIsTheTrees
  BY DEF EndIsTheTrees
<1>2. QED
  BY VerdictIsRight, SignalIsAimed, <1>1, PTL
=============================================================================
