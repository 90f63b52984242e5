---------------------------- MODULE AdapterExec -----------------------------
(***************************************************************************)
(* exec::run of crates/flutterdec-adapter/src/host/exec.rs: one adapter     *)
(* child, the processes it forks, the two threads that drain its output,    *)
(* and the poll loop that holds it to a deadline and to its output limits.  *)
(*                                                                          *)
(* Bytes are counted in units of what one write delivers.  The child is     *)
(* always its own session and group leader: setsid cannot fail in a process *)
(* that was just forked.  A SIGKILL takes effect when it is sent.           *)
(***************************************************************************)
EXTENDS Naturals, FiniteSets

CONSTANTS
  Leader,        \* the process the host spawned
  Descendants,   \* the processes its tree may fork
  Limit,         \* max_stdout_bytes and max_stderr_bytes
  PipeCap,       \* what a pipe holds before a writer blocks
  MaxOutput,     \* bound of the model: what the tree writes to one stream
  MayEscape,     \* a descendant may leave the group (setsid, setpgid)
  MayFailWait    \* try_wait may report an error

Streams == {"stdout", "stderr"}
Procs   == {Leader} \union Descendants

ASSUME ExecAssumption ==
  /\ Leader \notin Descendants
  /\ Limit \in Nat /\ PipeCap \in Nat \ {0} /\ MaxOutput \in Nat
  /\ MayEscape \in BOOLEAN /\ MayFailWait \in BOOLEAN

VARIABLES
  pc,          \* where run() is
  proc,        \* "unborn", "running", "zombie" (the leader, not reaped) or "gone"
  group,       \* the members of the leader's process group
  holds,       \* who has the write end of each stream open
  pipe,        \* unread bytes of each stream
  seen,        \* bytes each drain thread has read
  kept,        \* bytes it kept
  drained,     \* the drain threads that saw end of file
  expired,     \* the deadline has passed
  fate,        \* how the leader ended
  completion,  \* how run() says it ended
  terminated,  \* process_tree_terminated of the report
  record,      \* the child wrote its containment record
  stranger     \* an unrelated process group that got the leader's pid

execVars == <<pc, proc, group, holds, pipe, seen, kept, drained, expired,
              fate, completion, terminated, record, stranger>>

Places      == {"spawn", "poll", "limits", "sweep", "abort", "abortKill", "abortWait",
                "signal", "kill", "wait", "join", "returned"}
Completions == {"none", "refused", "io", "exited", "signalled",
                "stdoutLimit", "stderrLimit", "timeout"}

ExecTypeOK ==
  /\ pc         \in Places
  /\ proc       \in [Procs -> {"unborn", "running", "zombie", "gone"}]
  /\ group      \in SUBSET Procs
  /\ holds      \in [Streams -> SUBSET Procs]
  /\ pipe       \in [Streams -> 0 .. PipeCap]
  /\ seen       \in [Streams -> 0 .. MaxOutput]
  /\ kept       \in [Streams -> 0 .. Limit]
  /\ drained    \in SUBSET Streams
  /\ expired    \in BOOLEAN
  /\ fate       \in {"none", "exit", "signal", "killed"}
  /\ completion \in Completions
  /\ terminated \in BOOLEAN
  /\ record     \in BOOLEAN
  /\ stranger   \in {"none", "alive", "killed"}

ExecInit ==
  /\ pc         = "spawn"
  /\ proc       = [p \in Procs |-> "unborn"]
  /\ group      = {}
  /\ holds      = [s \in Streams |-> {}]
  /\ pipe       = [s \in Streams |-> 0]
  /\ seen       = [s \in Streams |-> 0]
  /\ kept       = [s \in Streams |-> 0]
  /\ drained    = {}
  /\ expired    = FALSE
  /\ fate       = "none"
  /\ completion = "none"
  /\ terminated = FALSE
  /\ record     = FALSE
  /\ stranger   = "none"

Running(p)     == proc[p] = "running"
LivingInGroup  == {p \in group : Running(p)}

-----------------------------------------------------------------------------
(* The tree: whatever the adapter and its descendants may do.               *)

treeKeeps == <<pc, seen, kept, drained, expired, completion, terminated, record, stranger>>

\* A fork inherits the group and the open write ends.
Fork(p, d) ==
  /\ Running(p)
  /\ proc[d] = "unborn"
  /\ proc'  = [proc EXCEPT ![d] = "running"]
  /\ group' = IF p \in group THEN group \union {d} ELSE group
  /\ holds' = [s \in Streams |-> IF p \in holds[s] THEN holds[s] \union {d} ELSE holds[s]]
  /\ UNCHANGED <<treeKeeps, pipe, fate>>

Write(p, s) ==
  /\ Running(p)
  /\ p \in holds[s]
  /\ pipe[s] < PipeCap
  /\ seen[s] + pipe[s] < MaxOutput
  /\ pipe' = [pipe EXCEPT ![s] = @ + 1]
  /\ UNCHANGED <<treeKeeps, proc, group, holds, fate>>

Close(p, s) ==
  /\ Running(p)
  /\ p \in holds[s]
  /\ holds' = [holds EXCEPT ![s] = @ \ {p}]
  /\ UNCHANGED <<treeKeeps, proc, group, pipe, fate>>

\* Only a session leader cannot leave its group.
Escape(d) ==
  /\ MayEscape
  /\ d \in LivingInGroup \ {Leader}
  /\ group' = group \ {d}
  /\ UNCHANGED <<treeKeeps, proc, holds, pipe, fate>>

\* The processes of S end: their write ends close; init reaps all but the leader.
End(S) ==
  /\ proc'  = [p \in Procs |-> IF p \notin S THEN proc[p]
                               ELSE IF p = Leader THEN "zombie" ELSE "gone"]
  /\ holds' = [s \in Streams |-> holds[s] \ S]

\* A process exits or dies of its own: a fault, or a resource limit's signal.
Exit(p) ==
  /\ Running(p)
  /\ End({p})
  /\ fate' \in IF p = Leader THEN {"exit", "signal"} ELSE {fate}
  /\ UNCHANGED <<treeKeeps, group, pipe>>

Tree ==
  \/ \E p \in Procs :
       \/ \E d \in Descendants : Fork(p, d)
       \/ \E s \in Streams : Write(p, s) \/ Close(p, s)
       \/ Exit(p)
  \/ \E d \in Descendants : Escape(d)

\* Once the leader is reaped and its group is empty the kernel may give the pid
\* to an unrelated process, which may lead a group of that number.
Reuse ==
  /\ proc[Leader] = "gone"
  /\ LivingInGroup = {}
  /\ stranger = "none"
  /\ stranger' = "alive"
  /\ UNCHANGED <<pc, proc, group, holds, pipe, seen, kept, drained, expired,
                 fate, completion, terminated, record>>

Expire ==
  /\ proc[Leader] # "unborn"
  /\ ~expired
  /\ expired' = TRUE
  /\ UNCHANGED <<pc, proc, group, holds, pipe, seen, kept, drained,
                 fate, completion, terminated, record, stranger>>

-----------------------------------------------------------------------------
(* drain(): read to end of file, keep at most Limit.                        *)

\* Mutant: whatever was read is kept.
TakeAll(total, read) == read

\* Mutant: the room left is computed from the total that includes this read.
TakeAfter(total, read) == LET room == IF Limit > total THEN Limit - total ELSE 0
                          IN IF room < read THEN room ELSE read

\* How much of a read is kept, when `total` bytes have been seen with it.
Take(total, read) ==
  LET before == total - read
      room   == IF Limit > before THEN Limit - before ELSE 0
  IN IF room < read THEN room ELSE read

\* Mutant: a drain thread that stops reading at the limit.
DrainToLimit(s) ==
  /\ s \notin drained
  /\ pc # "spawn"
  /\ seen[s] <= Limit
  /\ \/ \E read \in 1 .. pipe[s] :
          /\ pipe' = [pipe EXCEPT ![s] = @ - read]
          /\ seen' = [seen EXCEPT ![s] = @ + read]
          /\ kept' = [kept EXCEPT ![s] = @ + Take(seen[s] + read, read)]
          /\ UNCHANGED drained
     \/ /\ pipe[s] = 0
        /\ holds[s] = {}
        /\ drained' = drained \union {s}
        /\ UNCHANGED <<pipe, seen, kept>>
  /\ UNCHANGED <<pc, proc, group, holds, expired, fate, completion, terminated, record, stranger>>

Drain(s) ==
  /\ s \notin drained
  /\ pc # "spawn"
  /\ \/ \E read \in 1 .. pipe[s] :
          /\ pipe' = [pipe EXCEPT ![s] = @ - read]
          /\ seen' = [seen EXCEPT ![s] = @ + read]
          /\ kept' = [kept EXCEPT ![s] = @ + Take(seen[s] + read, read)]
          /\ UNCHANGED drained
     \/ /\ pipe[s] = 0
        /\ holds[s] = {}
        /\ drained' = drained \union {s}
        /\ UNCHANGED <<pipe, seen, kept>>
  /\ UNCHANGED <<pc, proc, group, holds, expired, fate, completion, terminated, record, stranger>>

-----------------------------------------------------------------------------
(* run(): the host thread.                                                  *)

hostKeeps == <<pipe, seen, kept, drained, expired>>

\* Mutant: only the child itself is signalled.
KillLeaderOnly ==
  /\ End(LivingInGroup \cap {Leader})
  /\ fate' = IF Leader \in LivingInGroup THEN "killed" ELSE fate
  /\ UNCHANGED <<group, stranger>>

\* kill_tree: SIGKILL to the group the leader's pid names, whoever is in it.
KillTree ==
  /\ End(LivingInGroup)
  /\ fate' = IF Leader \in LivingInGroup THEN "killed" ELSE fate
  /\ stranger' = IF stranger = "alive" THEN "killed" ELSE stranger
  /\ UNCHANGED group

Goto(place) ==
  /\ pc' = place
  /\ UNCHANGED <<completion, terminated, record>>

\* apply_plan gives up before its record when it cannot move the status pipe.
RecordWritten == BOOLEAN

\* The child becomes the image, whether or not it could report its limits; or no
\* child exists (a busy text file that stayed busy included).
Spawn ==
  /\ pc = "spawn"
  /\ \/ /\ proc'    = [proc EXCEPT ![Leader] = "running"]
        /\ group'   = {Leader}
        /\ holds'   = [s \in Streams |-> {Leader}]
        /\ record' \in RecordWritten
        /\ pc'      = "poll"
        /\ UNCHANGED completion
     \/ /\ pc' = "returned"
        /\ completion' = "refused"
        /\ UNCHANGED <<proc, group, holds, record>>
  /\ UNCHANGED <<hostKeeps, fate, terminated, stranger>>

\* try_wait: the leader is reaped if it has ended.
TryWait ==
  /\ pc = "poll"
  /\ \/ /\ proc[Leader] = "zombie"
        /\ proc' = [proc EXCEPT ![Leader] = "gone"]
        /\ completion' = IF fate = "exit" THEN "exited" ELSE "signalled"
        /\ pc' = "sweep"
     \/ /\ Running(Leader)
        /\ pc' = "limits"
        /\ UNCHANGED <<proc, completion>>
     \/ /\ MayFailWait
        /\ pc' = "abort"
        /\ UNCHANGED <<proc, completion>>
  /\ UNCHANGED <<hostKeeps, group, holds, fate, terminated, record, stranger>>

\* Mutant: a full buffer counts as an exceeded one.
Reached(s) == seen[s] >= Limit

Exceeded(s) == seen[s] > Limit

\* Output first, then the deadline; nothing exceeded means another round.
CheckLimits ==
  /\ pc = "limits"
  /\ completion' = IF Exceeded("stdout") THEN "stdoutLimit"
                   ELSE IF Exceeded("stderr") THEN "stderrLimit"
                   ELSE IF expired THEN "timeout" ELSE "none"
  /\ pc' = IF completion' = "none" THEN "poll" ELSE "signal"
  /\ terminated' = (completion' # "none")
  /\ UNCHANGED <<hostKeeps, proc, group, holds, fate, record, stranger>>

\* The leader was reaped: sweep what it abandoned.
Sweep == pc = "sweep" /\ KillTree /\ Goto("join") /\ UNCHANGED hostKeeps

\* A limit was reached: the group, then the child, and only then reap it.
Signal == pc = "signal" /\ KillTree /\ Goto("kill") /\ UNCHANGED hostKeeps

\* child.kill(): a no-op on a child that has ended.
KillChild(here, next) ==
  /\ pc = here
  /\ End({Leader} \cap {p \in Procs : Running(p)})
  /\ fate' = IF Running(Leader) THEN "killed" ELSE fate
  /\ Goto(next)
  /\ UNCHANGED <<hostKeeps, group, stranger>>

\* child.wait() blocks until the child is a zombie.
WaitChild(here, next) ==
  /\ pc = here
  /\ proc[Leader] = "zombie"
  /\ proc' = [proc EXCEPT ![Leader] = "gone"]
  /\ pc' = next
  /\ completion' = IF next = "returned" THEN "io" ELSE completion
  /\ UNCHANGED <<hostKeeps, group, holds, fate, terminated, record, stranger>>

\* try_wait failed: kill, reap and give up without joining the drain threads.
Abort == pc = "abort" /\ KillTree /\ Goto("abortKill") /\ UNCHANGED hostKeeps

\* Both drain threads are joined, then the record is read: its write end closed
\* when the child became the image.
Join ==
  /\ pc = "join"
  /\ drained = Streams
  /\ Goto("returned")
  /\ UNCHANGED <<hostKeeps, proc, group, holds, fate, stranger>>

\* Mutant: on a limit the child is killed and reaped before its group is.
HostReapsFirst ==
  \/ Spawn \/ TryWait \/ CheckLimits
  \/ Sweep \/ Join
  \/ KillChild("signal", "wait") \/ WaitChild("wait", "kill")
  \/ pc = "kill" /\ KillTree /\ Goto("join") /\ UNCHANGED hostKeeps
  \/ Abort \/ KillChild("abortKill", "abortWait") \/ WaitChild("abortWait", "returned")

Host ==
  \/ Spawn \/ TryWait \/ CheckLimits
  \/ Sweep \/ Join
  \/ Signal \/ KillChild("kill", "wait") \/ WaitChild("wait", "join")
  \/ Abort \/ KillChild("abortKill", "abortWait") \/ WaitChild("abortWait", "returned")

ExecNext == Host \/ Tree \/ Expire \/ Reuse \/ \E s \in Streams : Drain(s)

ExecSpec == ExecInit /\ [][ExecNext]_execVars

(***************************************************************************)
(* The host thread and its drain threads are scheduled and time passes.     *)
(* The tree owes nothing: it may hang, flood or never exit.                 *)
(***************************************************************************)
ExecFairness ==
  /\ WF_execVars(Host)
  /\ WF_execVars(Expire)
  /\ \A s \in Streams : WF_execVars(Drain(s))

ExecFairSpec == ExecSpec /\ ExecFairness

-----------------------------------------------------------------------------
(* Properties.                                                              *)

\* Once the group has been swept nothing of it runs any more, on every way out:
\* the child's own exit, a limit, the deadline or a failed wait, and whatever it
\* forked meanwhile.
NothingSurvives ==
  pc \in {"kill", "wait", "join", "abortKill", "abortWait", "returned"} => LivingInGroup = {}

\* However the reads are cut, a drain thread has kept exactly the first Limit
\* bytes of what it has seen.
KeepsTheFirstBytes ==
  \A s \in Streams : kept[s] = IF seen[s] < Limit THEN seen[s] ELSE Limit

\* run() never blames the adapter for the host's own SIGKILL nor the other way
\* round, and a limit it names was really reached.
VerdictIsTrue ==
  /\ completion = "exited"      => fate = "exit"
  /\ completion = "signalled"   => fate = "signal"
  /\ completion = "stdoutLimit" => seen["stdout"] > Limit
  /\ completion = "stderrLimit" => seen["stderr"] > Limit
  /\ completion = "timeout"     => expired
  /\ pc = "returned" /\ fate = "killed" =>
       completion \in {"stdoutLimit", "stderrLimit", "timeout", "io"}

\* On the way out that a limit takes, the group is signalled while its number is
\* still the unreaped leader's, so no unrelated process can be hit (exec.rs:194).
LimitHitsOnlyTheTree == terminated => stranger # "killed"

\* What the host says of the end of a run, and what it did to bring it about.
EndIsTheTrees == VerdictIsTrue /\ LimitHitsOnlyTheTree

\* exec.rs:206: "Both ends of both pipes are closed once the tree is gone, so
\* these joins terminate".  A descendant that left the group is not swept, and
\* may hold a write end for as long as it likes.
JoinsTerminate == pc = "join" ~> pc = "returned"
=============================================================================
