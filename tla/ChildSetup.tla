----------------------------- MODULE ChildSetup -----------------------------
(***************************************************************************)
(* Between the authorized bytes and the process that runs them, on Linux:   *)
(* the sealed image (crates/flutterdec-adapter, host/image.rs), the plan    *)
(* and the status pipe of the host, and what the forked child does to       *)
(* itself before it becomes the image (sandbox.rs).  A descriptor table     *)
(* says what each number is open on.  The limits that are lowered alike     *)
(* (CPU, file size, address space, descriptors) are the members of Lowered. *)
(***************************************************************************)
EXTENDS Integers

CONSTANTS
  Lowered,    \* the resources whose limit is lowered to what was asked
  Ask,        \* Limits: what is asked of each, and of the tree's processes
  Hard,       \* the hard limits a child may inherit
  MaxFd,      \* the highest descriptor the host may have open
  Ceiling,    \* descriptor_scan_ceiling
  Inherited,  \* the descriptors the host may hold that are open across exec
  MaxTasks,   \* bound of the model: tasks of the user
  Isolate     \* isolate_network

VARIABLES
  setup,     \* where the host, then its child, is
  fds,       \* what each descriptor of it is open on
  cloexec,   \* the descriptors that close on exec
  imageFd, statusFd,
  seals,     \* the seals the image carries
  tasks,     \* tasks of the user id, in the host's user namespace
  counted,   \* current_process_count, -1 when /proc could not be read
  confined,  \* userns_is_confined, as the host read it
  hard,      \* the hard limit of each resource
  inForce,   \* the soft limit, which the kernel holds the child to
  netns,     \* "shared" or "empty"
  userns,    \* "host" or "own"
  codes,     \* apply_plan's record, slot by slot, as it is built
  written    \* it was written

setupVars == <<setup, fds, cloexec, imageFd, statusFd, seals, tasks, counted,
               confined, hard, inForce, netns, userns, codes, written>>

Seals     == {"write", "grow", "shrink", "seal"}
StatusFd  == 3
Fds       == 0 .. MaxFd
Objects   == {"free", "stdio", "other", "image", "status", "statusRead", "execError"}
Resources == Lowered \union {"processes"}
Slots     == Resources \union {"session", "descriptors", "network"}
Unlimited == -1
Unset     == [state |-> "notRequested", value |-> Unlimited]

ASSUME SetupAssumption ==
  /\ Lowered \intersect {"processes", "session", "descriptors", "network"} = {}
  /\ Ask \in [Resources -> Nat] /\ Hard \subseteq Nat \union {Unlimited}
  /\ MaxFd \in Nat /\ Ceiling \in Nat /\ StatusFd < Ceiling /\ Ceiling <= MaxFd
  /\ Inherited \subseteq Fds \ (0 .. 2)
  /\ MaxTasks \in Nat /\ Isolate \in BOOLEAN

SetupTypeOK ==
  /\ setup \in {"image", "plan", "fork", "status", "scan", "limits", "network", "budget",
                "record", "become", "running", "refused"}
  /\ fds \in [Fds -> Objects] /\ cloexec \subseteq Fds
  /\ imageFd \in Fds /\ statusFd \in Fds /\ seals \subseteq Seals
  /\ tasks \in 0 .. MaxTasks /\ counted \in -1 .. MaxTasks /\ confined \in BOOLEAN
  /\ hard \in [Resources -> Hard] /\ inForce \in [Resources -> Int]
  /\ netns \in {"shared", "empty"} /\ userns \in {"host", "own"}
  /\ codes \in [Slots -> [state : {"applied", "failed", "notRequested"}, value : Int]]
  /\ written \in BOOLEAN

\* A Rust process has its three standard descriptors open.
SetupInit ==
  /\ setup = "image"
  /\ \E others \in SUBSET Inherited :
       fds = [n \in Fds |-> IF n < 3 THEN "stdio" ELSE IF n \in others THEN "other" ELSE "free"]
  /\ cloexec = {}
  /\ imageFd = 0 /\ statusFd = 0
  /\ seals = {}
  /\ tasks \in 1 .. MaxTasks
  /\ counted = -1
  /\ confined \in BOOLEAN
  /\ hard \in [Resources -> Hard]
  /\ inForce = hard
  /\ netns = "shared" /\ userns = "host"
  /\ codes = [s \in Slots |-> Unset]
  /\ written = FALSE

-----------------------------------------------------------------------------
(* The host.                                                                *)

\* The free descriptors from n on, of which the kernel hands out the lowest, if any.
FreeFrom(n, table) == {m \in Fds : m >= n /\ table[m] = "free"}
Lowest(S) == {m \in S : \A k \in S : m <= k}

keptByHost == <<tasks, confined, hard, inForce, netns, userns, codes, written>>

Refused == setup' = "refused"

\* reserve(): off the numbers the child reassigns, unless no copy could be made.
Reserve(fd, table) ==
  IF fd > StatusFd THEN {fd} ELSE {fd} \union Lowest(FreeFrom(StatusFd + 1, table))

\* verify_seals: what was read back, whatever F_ADD_SEALS said.
Unsealed(read) == ~(Seals \subseteq read)

\* anonymous_image, seal, reserve and verify_seals: whatever fails ends the run.
OpenImage ==
  /\ setup = "image"
  /\ seals' \in SUBSET Seals
  /\ \/ Refused /\ UNCHANGED <<fds, cloexec, imageFd>>
     \/ \E fd \in Lowest(FreeFrom(0, fds)) : \E at \in Reserve(fd, fds) :
          /\ ~Unsealed(seals')
          /\ fds' = [fds EXCEPT ![at] = "image"]
          /\ cloexec' = cloexec \union {at}
          /\ imageFd' = at
          /\ setup' = "plan"
  /\ UNCHANGED <<statusFd, counted, keptByHost>>

\* close_on_exec_pipe.
Pipe ==
  \E in \in Lowest(FreeFrom(0, fds)) : \E out \in Lowest(FreeFrom(0, fds) \ {in}) :
    /\ fds' = [fds EXCEPT ![in] = "statusRead", ![out] = "status"]
    /\ cloexec' = cloexec \union {in, out}
    /\ statusFd' = out

\* current_process_count: every task of the user, or nothing where /proc is not
\* there to be read.
Counts == {-1, tasks}

\* Containment::prepare: the pipe, and what only the host can count or read.
Prepare ==
  /\ setup = "plan"
  /\ \/ Refused /\ UNCHANGED <<fds, cloexec, statusFd, counted>>
     \/ Pipe /\ counted' \in Counts /\ setup' = "fork"
  /\ UNCHANGED <<imageFd, seals, keptByHost>>

\* The standard library's own pipe for an exec that fails, then the fork.
ForkChild ==
  /\ setup = "fork"
  /\ \/ Refused /\ UNCHANGED <<fds, cloexec, tasks>>
     \/ \E error \in Lowest(FreeFrom(0, fds)) :
          /\ tasks < MaxTasks
          /\ tasks' = tasks + 1
          /\ fds' = [fds EXCEPT ![error] = "execError"]
          /\ cloexec' = cloexec \union {error}
          /\ setup' = "status"
  /\ UNCHANGED <<imageFd, statusFd, seals, counted, confined, hard, inForce, netns, userns,
                 codes, written>>

\* Other tasks of the user come and go, until the child has its budget.
OtherTasks ==
  /\ setup \notin {"running", "refused"}
  /\ tasks' \in {tasks - 1, tasks + 1} \intersect (1 .. MaxTasks)
  /\ UNCHANGED <<setup, fds, cloexec, imageFd, statusFd, seals, counted, confined,
                 hard, inForce, netns, userns, codes, written>>

-----------------------------------------------------------------------------
(* The child: apply_plan, then the image's own hook.                        *)

keptByChild == <<imageFd, statusFd, seals, tasks, counted, confined, hard>>

Applied(value) == [state |-> "applied", value |-> value]
Failed         == [state |-> "failed", value |-> Unlimited]

\* Mutant: the flag dup2 clears is not set again.
MoveStatusOpen ==
  /\ setup = "status"
  /\ \/ /\ statusFd # StatusFd
        /\ setup' = "become"
        /\ UNCHANGED <<fds, cloexec>>
     \/ /\ fds' = [fds EXCEPT ![StatusFd] = "status"]
        /\ cloexec' = cloexec \ {StatusFd}
        /\ setup' = "scan"
  /\ codes' = [codes EXCEPT !["session"] = Applied(Unlimited)]
  /\ UNCHANGED <<keptByChild, inForce, netns, userns, written>>

\* setsid, which cannot fail in a process that was just forked, and the pipe to
\* its known number.  Without it there is nothing more to do than to exec.
MoveStatus ==
  /\ setup = "status"
  /\ \/ /\ statusFd # StatusFd
        /\ setup' = "become"
        /\ UNCHANGED <<fds, cloexec>>
     \/ /\ fds' = [fds EXCEPT ![StatusFd] = "status"]
        /\ cloexec' = cloexec \union {StatusFd}
        /\ setup' = "scan"
  /\ codes' = [codes EXCEPT !["session"] = Applied(Unlimited)]
  /\ UNCHANGED <<keptByChild, inForce, netns, userns, written>>

\* Every descriptor up to the ceiling closes on exec.  F_SETFD fails on a number
\* that is not open and on no other.
Scan ==
  /\ setup = "scan"
  /\ cloexec' = cloexec \union {n \in StatusFd + 1 .. Ceiling : fds[n] # "free"}
  /\ codes' = [codes EXCEPT !["descriptors"] = Applied(Ceiling)]
  /\ setup' = "limits"
  /\ UNCHANGED <<keptByChild, fds, inForce, netns, userns, written>>

\* The soft limit lower_limit sets, and reports: never above the hard limit,
\* which it leaves as it was inherited (sandbox.rs:301).
Effective(want, ceiling) == IF ceiling # Unlimited /\ want > ceiling THEN ceiling ELSE want

\* lower_limit on each of R, any of which the kernel may refuse.
Lower(R, want) ==
  \E refused \in SUBSET R :
    /\ inForce' = [r \in Resources |->
                     IF r \in R \ refused THEN Effective(want[r], hard[r]) ELSE inForce[r]]
    /\ codes' = [s \in Slots |->
                   IF s \in refused THEN Failed
                   ELSE IF s \in R THEN Applied(Effective(want[s], hard[s])) ELSE codes[s]]

LowerLimits ==
  /\ setup = "limits"
  /\ Lower(Lowered, Ask)
  /\ setup' = "network"
  /\ UNCHANGED <<keptByChild, fds, cloexec, netns, userns, written>>

\* Either way in may be refused; the second is not tried where it confines.
IsolateNetwork ==
  /\ setup = "network"
  /\ \/ ~Isolate /\ UNCHANGED <<netns, userns, codes>>
     \/ /\ Isolate
        /\ netns' = "empty"
        /\ userns' \in IF confined THEN {"host"} ELSE {"host", "own"}
        /\ codes' = [codes EXCEPT !["network"] = Applied(Unlimited)]
     \/ /\ Isolate
        /\ codes' = [codes EXCEPT !["network"] = Failed]
        /\ UNCHANGED <<netns, userns>>
  /\ setup' = "budget"
  /\ UNCHANGED <<keptByChild, fds, cloexec, inForce, written>>

\* Mutant: the host's count, whichever namespace the limit is counted in.
BudgetOfHost == counted + Ask["processes"]

\* A namespace of its own counts from this task alone.
Budget == IF userns = "own" THEN Ask["processes"] + 1 ELSE counted + Ask["processes"]

BudgetProcesses ==
  /\ setup = "budget"
  /\ IF counted = -1
     THEN UNCHANGED <<inForce, codes>>
     ELSE Lower({"processes"}, [r \in {"processes"} |-> Budget])
  /\ setup' = "record"
  /\ UNCHANGED <<keptByChild, fds, cloexec, netns, userns, written>>

WriteRecord ==
  /\ setup = "record"
  /\ written' = (fds[StatusFd] = "status")
  /\ setup' = "become"
  /\ UNCHANGED <<keptByChild, fds, cloexec, inForce, netns, userns, codes>>

\* ExecImage::exec: the image is kept open for an interpreter, then executed; a
\* descriptor that is not the image is not an executable.
Become ==
  /\ setup = "become"
  /\ cloexec' = cloexec \ {imageFd}
  /\ \/ Refused /\ UNCHANGED fds
     \/ /\ fds[imageFd] = "image"
        /\ fds' = [n \in Fds |-> IF n \in cloexec' THEN "free" ELSE fds[n]]
        /\ setup' = "running"
  /\ UNCHANGED <<keptByChild, inForce, netns, userns, codes, written>>

SetupHost  == OpenImage \/ Prepare \/ ForkChild
SetupChild ==
  MoveStatus \/ Scan \/ LowerLimits \/ IsolateNetwork \/ BudgetProcesses \/ WriteRecord \/ Become

SetupNext == SetupHost \/ SetupChild \/ OtherTasks

SetupSpec == SetupInit /\ [][SetupNext]_setupVars

-----------------------------------------------------------------------------
(* What the host says of the child afterwards, and its properties.          *)

\* Mutant: without a record every slot reads as the zero it was never given.
ClaimedAnyway(s) ==
  IF s = "processes" /\ counted = -1 THEN Unset
  ELSE IF ~written THEN Applied(Unlimited) ELSE codes[s]

\* Containment::collect and ControlState::from_code: a slot nobody reported is
\* not claimed.
Claimed(s) == IF ~written \/ (s = "processes" /\ counted = -1) THEN Unset ELSE codes[s]

Claims(s) == Claimed(s).state = "applied"

\* "The host never says a control is in force unless the control was established
\* in the child that actually ran" (sandbox.rs:4), with the bound it names,
\* whichever steps failed and whatever was inherited.  This is said of the child
\* as it becomes the image: up to the hard limit, which is as high as the host's,
\* the image may raise a soft limit again, and no claim is made of what it does.
ReportIsTrue ==
  setup = "running" =>
    /\ \A r \in Resources : Claims(r) => inForce[r] = Claimed(r).value
    /\ Claims("network") => netns = "empty"
    /\ Claims("descriptors") =>
         \A n \in Fds : n > 2 /\ n <= Claimed("descriptors").value /\ fds[n] # "free" => n = imageFd

\* The limit the image starts with leaves room for no more than the allowance, in
\* whichever namespace the kernel counts it, unless other tasks of the user ended
\* since they were counted.
BudgetBounds ==
  setup = "running" /\ Claims("processes") =>
    LET room == inForce["processes"] - (IF userns = "own" THEN 1 ELSE tasks)
    IN tasks >= counted \/ userns = "own" => room <= Ask["processes"]

\* A limit that is claimed is the one the image starts with, and the processes'
\* one leaves the room it is meant to.
ContainmentIsTrue == ReportIsTrue /\ BudgetBounds

\* What the child becomes is the sealed image, whatever numbers the descriptors
\* had; no copy of the status pipe outlives that, so the host's read of it ends;
\* and a child that cannot become the image still has the pipe that says so.
ImageIsWhatRuns ==
  /\ setup = "running" =>
       fds[imageFd] = "image" /\ seals = Seals /\ \A n \in Fds : fds[n] # "status"
  /\ setup = "become" => \E n \in cloexec : fds[n] = "execError"
=============================================================================
