------------------------- MODULE ContainedExecProofs -------------------------
(***************************************************************************)
(* Theorems about ChildSetup, for every descriptor table, set of limits and *)
(* failure, and about ContainedExec, which is at once a ChildSetup and an   *)
(* AdapterExec.                                                             *)
(***************************************************************************)
EXTENDS ContainedExec, AdapterExecProofs

Applies(s) == codes[s].state = "applied"

\* The places of the child before it becomes the image, and those after the scan.
InChild   == {"status", "scan", "limits", "network", "budget", "record", "become"}
Scanned   == {"limits", "network", "budget", "record", "become"}

(***************************************************************************)
(* The table: the standard descriptors stay open until the exec, so nothing *)
(* is ever handed one of their numbers; the pipe takes number 3 if nothing  *)
(* else has it, so the pipe for a failed exec does not, and moving the      *)
(* status pipe there cannot close it; every status descriptor closes on     *)
(* exec.                                                                    *)
(***************************************************************************)
TableInv ==
  /\ setup # "running" => \A n \in Fds : n < 3 => fds[n] # "free"
  /\ setup \in {"image", "plan"} => \A n \in Fds : fds[n] # "status"
  /\ setup \in {"fork", "status"} => fds[StatusFd] # "free"
  /\ setup \notin {"running", "refused"} => \A n \in Fds : fds[n] = "status" => n \in cloexec
  /\ setup \in InChild => \E n \in cloexec : n # StatusFd /\ fds[n] = "execError"
  /\ setup = "running" => fds[imageFd] = "image" /\ \A n \in Fds : fds[n] # "status"
  /\ setup \notin {"image", "refused"} => seals = Seals

\* Of what is open, all the numbers the scan claims close on exec.
ScanInv ==
  /\ setup = "scan" => StatusFd \in cloexec
  /\ Applies("descriptors") =>
       /\ setup \in Scanned \union {"running", "refused"}
       /\ codes["descriptors"].value = Ceiling
       /\ setup \in Scanned =>
            \A n \in Fds : n > 2 /\ n <= Ceiling /\ fds[n] # "free" => n \in cloexec
       /\ setup = "running" =>
            \A n \in Fds : n > 2 /\ n <= Ceiling /\ fds[n] # "free" => n = imageFd

\* A slot that says applied is so from then on, with the value it names; the
\* processes' limit is the last one set, when nothing it is counted from changes any more.
CodesInv ==
  /\ \A r \in Resources : Applies(r) => inForce[r] = codes[r].value
  /\ Applies("network") => netns = "empty"
  /\ setup \notin {"record", "become", "running", "refused"} => ~Applies("processes")
  /\ Applies("processes") => inForce["processes"] <= Budget

SetupInv == SetupTypeOK /\ TableInv /\ ScanInv /\ CodesInv

-----------------------------------------------------------------------------
LEMMA Numbers ==
  /\ Fds \subseteq Nat /\ StatusFd \in Fds /\ 0 \in Fds /\ Ceiling \in Nat
  /\ "processes" \in Resources /\ Resources \subseteq Slots
  /\ {"session", "descriptors", "network"} \subseteq Slots
  /\ {"session", "descriptors", "network"} \intersect Resources = {}
BY SetupAssumption DEF Fds, StatusFd, Resources, Slots

\* What a slot says.
Code == [state : {"applied", "failed", "notRequested"}, value : Int]

LEMMA CodeTypes ==
  /\ Unlimited \in Int /\ Unset \in Code /\ Failed \in Code
  /\ \A value \in Int : Applied(value) \in Code
BY DEF Code, Unset, Failed, Applied, Unlimited

\* The image gets a free number, and not one that was in use.
LEMMA ImageEffect ==
  ASSUME OpenImage
  PROVE  \/ Refused /\ UNCHANGED <<fds, cloexec, imageFd>>
         \/ \E at \in Fds : /\ fds[at] = "free"
                          /\ Seals \subseteq seals'
                          /\ fds' = [fds EXCEPT ![at] = "image"]
                          /\ cloexec' = cloexec \union {at}
                          /\ imageFd' = at
                          /\ setup' = "plan"
<1> SUFFICES ASSUME NEW fd \in Lowest(FreeFrom(0, fds)), NEW at \in Reserve(fd, fds)
             PROVE  at \in Fds /\ fds[at] = "free"
  BY DEF OpenImage, Unsealed
<1> QED
  BY DEF Reserve, Lowest, FreeFrom

\* The pipe's read end gets the lowest free number, its write end another one.
LEMMA PipeEffect ==
  ASSUME Pipe
  PROVE  \E in \in Fds : \E out \in Fds :
           /\ fds[in] = "free" /\ fds[out] = "free" /\ in # out
           /\ \A m \in Fds : fds[m] = "free" => in <= m
           /\ fds' = [fds EXCEPT ![in] = "statusRead", ![out] = "status"]
           /\ cloexec' = cloexec \union {in, out}
           /\ statusFd' = out
<1>1. \A m \in Fds : m \in Nat
  BY Numbers
<1>2. FreeFrom(0, fds) = {m \in Fds : fds[m] = "free"}
  BY <1>1 DEF FreeFrom
<1>3. QED
  BY <1>2 DEF Pipe, Lowest

\* The pipe for a failed exec gets a free number.
LEMMA ForkEffect ==
  ASSUME ForkChild
  PROVE  \/ Refused /\ UNCHANGED <<fds, cloexec, tasks>>
         \/ \E error \in Fds : /\ fds[error] = "free"
                             /\ tasks < MaxTasks
                             /\ tasks' = tasks + 1
                             /\ fds' = [fds EXCEPT ![error] = "execError"]
                             /\ cloexec' = cloexec \union {error}
                             /\ setup' = "status"
<1> SUFFICES ASSUME NEW error \in Lowest(FreeFrom(0, fds))
             PROVE  error \in Fds /\ fds[error] = "free"
  BY DEF ForkChild
<1> QED
  BY DEF Lowest, FreeFrom

\* What lower_limit leaves in force: never more than was wanted, whatever was inherited.
LEMMA EffectiveBound ==
  ASSUME NEW want \in Int, NEW ceiling \in Nat \union {Unlimited}
  PROVE  Effective(want, ceiling) \in Int /\ Effective(want, ceiling) <= want
BY DEF Effective, Unlimited

\* The limits that lower_limit sets and what it says of them agree, slot by slot.
LEMMA LowerEffect ==
  ASSUME SetupTypeOK, NEW R \in SUBSET Resources, NEW want,
         \A r \in R : want[r] \in Int, Lower(R, want)
  PROVE  /\ inForce' \in [Resources -> Int]
         /\ codes' \in [Slots -> Code]
         /\ \A s \in Slots \ R : codes'[s] = codes[s]
         /\ \A r \in Resources \ R : inForce'[r] = inForce[r]
         /\ \A r \in R : codes'[r].state = "applied" =>
              inForce'[r] = codes'[r].value /\ inForce'[r] <= want[r]
<1>1. PICK refused \in SUBSET R :
        /\ inForce' = [r \in Resources |->
                         IF r \in R \ refused THEN Effective(want[r], hard[r]) ELSE inForce[r]]
        /\ codes' = [s \in Slots |->
                       IF s \in refused THEN Failed
                       ELSE IF s \in R THEN Applied(Effective(want[s], hard[s])) ELSE codes[s]]
  BY DEF Lower
<1>2. \A r \in R : Effective(want[r], hard[r]) \in Int /\ Effective(want[r], hard[r]) <= want[r]
  <2>1. \A r \in R : want[r] \in Int /\ hard[r] \in Nat \union {Unlimited}
    BY SetupAssumption DEF SetupTypeOK
  <2>2. QED
    BY <2>1, EffectiveBound
<1>3. inForce' \in [Resources -> Int]
  BY <1>1, <1>2 DEF SetupTypeOK
<1>4. codes' \in [Slots -> Code]
  BY <1>1, <1>2, CodeTypes DEF SetupTypeOK, Code
<1>5. \A r \in R : codes'[r].state = "applied" =>
        inForce'[r] = codes'[r].value /\ inForce'[r] <= want[r]
  <2> SUFFICES ASSUME NEW r \in R, codes'[r].state = "applied"
               PROVE  inForce'[r] = codes'[r].value /\ inForce'[r] <= want[r]
    OBVIOUS
  <2>1. r \in Resources /\ r \in Slots
    BY Numbers
  <2>2. r \notin refused
    BY <1>1, <2>1 DEF Failed
  <2>3. /\ inForce'[r] = Effective(want[r], hard[r])
        /\ codes'[r] = Applied(Effective(want[r], hard[r]))
    BY <1>1, <2>1, <2>2
  <2>4. QED
    BY <1>2, <2>3 DEF Applied
<1>6. QED
  BY <1>1, <1>3, <1>4, <1>5

\* The budget is an integer, counted in whichever namespace.
LEMMA BudgetIsInt == SetupTypeOK => Budget \in Int
BY SetupAssumption, Numbers DEF Budget, SetupTypeOK

-----------------------------------------------------------------------------
LEMMA SetupTypeInit == SetupInit => SetupTypeOK
<1> SUFFICES ASSUME SetupInit PROVE SetupTypeOK
  OBVIOUS
<1>1. fds \in [Fds -> Objects] /\ cloexec \subseteq Fds /\ imageFd \in Fds /\ statusFd \in Fds
  BY Numbers DEF SetupInit, Objects
<1>2. hard \in [Resources -> Hard] /\ inForce \in [Resources -> Int]
  <2>1. hard \in [Resources -> Hard] /\ inForce = hard
    BY DEF SetupInit
  <2>2. Hard \subseteq Int
    BY SetupAssumption, CodeTypes
  <2>3. QED
    BY <2>1, <2>2
<1>3. codes \in [Slots -> Code]
  BY CodeTypes DEF SetupInit
<1>4. tasks \in 0 .. MaxTasks /\ counted \in -1 .. MaxTasks
  BY SetupAssumption DEF SetupInit
<1>5. QED
  BY <1>1, <1>2, <1>3, <1>4 DEF SetupInit, SetupTypeOK, Code

LEMMA SetupTypeStep == SetupTypeOK /\ [SetupNext]_setupVars => SetupTypeOK'
<1> SUFFICES ASSUME SetupTypeOK, [SetupNext]_setupVars PROVE SetupTypeOK'
  OBVIOUS
<1>1. CASE OpenImage
  <2>1. /\ fds' \in [Fds -> Objects] /\ cloexec' \subseteq Fds /\ imageFd' \in Fds
        /\ setup' \in {"plan", "refused"}
    BY <1>1, ImageEffect DEF Refused, Objects, SetupTypeOK
  <2>2. QED
    BY <1>1, <2>1 DEF OpenImage, keptByHost, SetupTypeOK
<1>2. CASE Prepare
  <2>1. CASE Refused /\ UNCHANGED <<fds, cloexec, statusFd, counted>>
    BY <1>2, <2>1 DEF Prepare, Refused, keptByHost, SetupTypeOK
  <2>2. CASE Pipe /\ counted' \in Counts /\ setup' = "fork"
    <3>1. fds' \in [Fds -> Objects] /\ cloexec' \subseteq Fds /\ statusFd' \in Fds
      BY <2>2, PipeEffect DEF Objects, SetupTypeOK
    <3>2. counted' \in -1 .. MaxTasks
      BY <2>2, SetupAssumption DEF Counts, SetupTypeOK
    <3>3. QED
      BY <1>2, <2>2, <3>1, <3>2 DEF Prepare, keptByHost, SetupTypeOK
  <2>3. QED
    BY <1>2, <2>1, <2>2 DEF Prepare
<1>3. CASE ForkChild
  <2>1. /\ fds' \in [Fds -> Objects] /\ cloexec' \subseteq Fds /\ tasks' \in 0 .. MaxTasks
        /\ setup' \in {"status", "refused"}
    BY <1>3, ForkEffect, SetupAssumption DEF Refused, Objects, SetupTypeOK
  <2>2. QED
    BY <1>3, <2>1 DEF ForkChild, SetupTypeOK
<1>4. CASE MoveStatus
  <2>1. codes' \in [Slots -> Code]
    BY <1>4, CodeTypes DEF MoveStatus, SetupTypeOK, Code
  <2>2. fds' \in [Fds -> Objects] /\ cloexec' \subseteq Fds /\ setup' \in {"become", "scan"}
    BY <1>4, Numbers DEF MoveStatus, Objects, SetupTypeOK
  <2>3. QED
    BY <1>4, <2>1, <2>2 DEF MoveStatus, keptByChild, SetupTypeOK, Code
<1>5. CASE Scan
  <2>1. codes' \in [Slots -> Code]
    BY <1>5, Numbers, CodeTypes DEF Scan, SetupTypeOK, Code
  <2>2. cloexec' \subseteq Fds
    <3>1. \A n \in StatusFd + 1 .. Ceiling : n \in Fds
      BY SetupAssumption DEF Fds, StatusFd
    <3>2. cloexec' = cloexec \union {n \in StatusFd + 1 .. Ceiling : fds[n] # "free"}
      BY <1>5 DEF Scan
    <3>3. QED
      BY <3>1, <3>2 DEF SetupTypeOK
  <2>3. QED
    BY <1>5, <2>1, <2>2 DEF Scan, keptByChild, SetupTypeOK, Code
<1>6. CASE LowerLimits
  <2>1. Lowered \in SUBSET Resources
    BY DEF Resources
  <2>2. \A r \in Lowered : Ask[r] \in Int
    BY <2>1, SetupAssumption
  <2>3. /\ inForce' \in [Resources -> Int]
        /\ codes' \in [Slots -> Code]
    BY <1>6, <2>1, <2>2, LowerEffect DEF LowerLimits
  <2>4. QED
    BY <1>6, <2>3 DEF LowerLimits, keptByChild, SetupTypeOK, Code
<1>7. CASE IsolateNetwork
  <2>1. codes' \in [Slots -> Code]
    BY <1>7, CodeTypes DEF IsolateNetwork, SetupTypeOK, Code
  <2>2. netns' \in {"shared", "empty"} /\ userns' \in {"host", "own"}
    BY <1>7 DEF IsolateNetwork, SetupTypeOK
  <2>3. QED
    BY <1>7, <2>1, <2>2 DEF IsolateNetwork, keptByChild, SetupTypeOK, Code
<1>8. CASE BudgetProcesses
  <2>1. /\ inForce' \in [Resources -> Int]
        /\ codes' \in [Slots -> Code]
    <3>1. CASE counted = -1
      BY <1>8, <3>1 DEF BudgetProcesses, SetupTypeOK, Code
    <3>2. CASE counted # -1
      <4>1. \A r \in {"processes"} : [q \in {"processes"} |-> Budget][r] \in Int
        BY BudgetIsInt
      <4>2. Lower({"processes"}, [r \in {"processes"} |-> Budget])
        BY <1>8, <3>2 DEF BudgetProcesses
      <4>3. QED
        BY <4>1, <4>2, LowerEffect, Numbers
    <3>3. QED
      BY <3>1, <3>2
  <2>2. QED
    BY <1>8, <2>1 DEF BudgetProcesses, keptByChild, SetupTypeOK, Code
<1>9. CASE WriteRecord
  BY <1>9 DEF WriteRecord, keptByChild, SetupTypeOK
<1>10. CASE Become
  <2>1. fds' \in [Fds -> Objects] /\ cloexec' \subseteq Fds /\ setup' \in {"refused", "running"}
    BY <1>10 DEF Become, Refused, Objects, SetupTypeOK
  <2>2. QED
    BY <1>10, <2>1 DEF Become, keptByChild, SetupTypeOK
<1>11. CASE OtherTasks
  BY <1>11, SetupAssumption DEF OtherTasks, SetupTypeOK
<1>12. CASE UNCHANGED setupVars
  BY <1>12 DEF setupVars, SetupTypeOK
<1>13. QED
  BY <1>1, <1>2, <1>3, <1>4, <1>5, <1>6, <1>7, <1>8, <1>9, <1>10, <1>11, <1>12
  DEF SetupNext, SetupHost, SetupChild

-----------------------------------------------------------------------------
LEMMA TableInit == SetupInit => TableInv
BY Numbers DEF SetupInit, TableInv, InChild

LEMMA TableStep == SetupTypeOK /\ TableInv /\ [SetupNext]_setupVars => TableInv'
<1> SUFFICES ASSUME SetupTypeOK, TableInv, [SetupNext]_setupVars PROVE TableInv'
  OBVIOUS
<1> USE Numbers DEF SetupTypeOK
<1>1. CASE OpenImage
  <2>1. UNCHANGED <<fds, cloexec>> /\ setup' = "refused" => TableInv'
    BY <1>1 DEF TableInv, OpenImage, InChild
  <2>2. ASSUME NEW at \in Fds, fds[at] = "free", Seals \subseteq seals',
               fds' = [fds EXCEPT ![at] = "image"], cloexec' = cloexec \union {at},
               setup' = "plan"
        PROVE  TableInv'
    BY <1>1, <2>2 DEF TableInv, OpenImage, InChild
  <2>3. QED
    BY <1>1, <2>1, <2>2, ImageEffect DEF Refused
<1>2. CASE Prepare
  <2>1. setup' = "refused" /\ UNCHANGED <<fds, cloexec, statusFd, counted>> => TableInv'
    BY <1>2 DEF TableInv, Prepare, keptByHost, InChild
  <2>2. CASE Pipe /\ setup' = "fork"
    <3>1. PICK in \in Fds : \E out \in Fds :
           /\ fds[in] = "free" /\ fds[out] = "free" /\ in # out
           /\ \A m \in Fds : fds[m] = "free" => in <= m
           /\ fds' = [fds EXCEPT ![in] = "statusRead", ![out] = "status"]
           /\ cloexec' = cloexec \union {in, out}
           /\ statusFd' = out
      BY <2>2, PipeEffect
    <3>2. PICK out \in Fds :
           /\ fds[in] = "free" /\ fds[out] = "free" /\ in # out
           /\ \A m \in Fds : fds[m] = "free" => in <= m
           /\ fds' = [fds EXCEPT ![in] = "statusRead", ![out] = "status"]
           /\ cloexec' = cloexec \union {in, out}
      BY <3>1
    <3>3. \A n \in Fds : fds'[n] = IF n = in THEN "statusRead" ELSE IF n = out THEN "status" ELSE fds[n]
      BY <3>2
    <3>4. \A n \in Fds : n < 3 => fds'[n] # "free"
      BY <1>2, <3>2, <3>3 DEF TableInv, Prepare
    <3>5. fds'[StatusFd] # "free"
      <4>1. in >= 3
        BY <1>2, <3>2 DEF TableInv, Prepare
      <4>2. fds[StatusFd] = "free" => in = StatusFd
        BY <4>1, <3>2 DEF StatusFd
      <4>3. QED
        BY <3>3, <4>2
    <3>6. \A n \in Fds : fds'[n] = "status" => n \in cloexec'
      BY <1>2, <3>2, <3>3 DEF TableInv, Prepare
    <3>7. seals' = Seals
      BY <1>2 DEF TableInv, Prepare
    <3>8. QED
      BY <2>2, <3>4, <3>5, <3>6, <3>7 DEF TableInv, InChild
  <2>3. QED
    BY <1>2, <2>1, <2>2 DEF Prepare, Refused
<1>3. CASE ForkChild
  <2>1. setup' = "refused" /\ UNCHANGED <<fds, cloexec, tasks>> => TableInv'
    BY <1>3 DEF TableInv, ForkChild, InChild
  <2>2. ASSUME NEW error \in Fds, fds[error] = "free",
               fds' = [fds EXCEPT ![error] = "execError"], cloexec' = cloexec \union {error},
               setup' = "status"
        PROVE  TableInv'
    <3>1. error # StatusFd
      BY <1>3, <2>2 DEF TableInv, ForkChild
    <3>2. QED
      BY <1>3, <2>2, <3>1 DEF TableInv, ForkChild, InChild
  <2>3. QED
    BY <1>3, <2>1, <2>2, ForkEffect DEF Refused
<1>4. CASE MoveStatus
  <2>1. CASE setup' = "become" /\ UNCHANGED <<fds, cloexec>>
    BY <1>4, <2>1 DEF TableInv, MoveStatus, keptByChild, InChild
  <2>2. CASE /\ fds' = [fds EXCEPT ![StatusFd] = "status"]
             /\ cloexec' = cloexec \union {StatusFd}
             /\ setup' = "scan"
    BY <1>4, <2>2 DEF TableInv, MoveStatus, keptByChild, InChild
  <2>3. QED
    BY <1>4, <2>1, <2>2 DEF MoveStatus
<1>5. CASE Scan \/ LowerLimits \/ IsolateNetwork \/ BudgetProcesses \/ WriteRecord
  <2>1. /\ setup  \in {"scan", "limits", "network", "budget", "record"}
        /\ setup' \in Scanned
        /\ UNCHANGED <<fds, seals, imageFd>> /\ cloexec \subseteq cloexec'
    BY <1>5 DEF Scan, LowerLimits, IsolateNetwork, BudgetProcesses, WriteRecord, keptByChild, Scanned
  <2>2. QED
    BY <2>1 DEF TableInv, Scanned, InChild
<1>6. CASE Become
  <2>1. setup' = "refused" /\ UNCHANGED fds => TableInv'
    BY <1>6 DEF TableInv, Become, keptByChild, InChild
  <2>2. CASE /\ fds[imageFd] = "image"
             /\ fds' = [n \in Fds |-> IF n \in cloexec' THEN "free" ELSE fds[n]]
             /\ setup' = "running"
    BY <1>6, <2>2 DEF TableInv, Become, keptByChild, InChild
  <2>3. QED
    BY <1>6, <2>1, <2>2 DEF Become, Refused
<1>7. CASE OtherTasks \/ UNCHANGED setupVars
  <2>1. UNCHANGED <<setup, fds, cloexec, seals, imageFd>>
    BY <1>7 DEF OtherTasks, setupVars
  <2>2. QED
    BY <2>1 DEF TableInv
<1>8. QED
  BY <1>1, <1>2, <1>3, <1>4, <1>5, <1>6, <1>7 DEF SetupNext, SetupHost, SetupChild

-----------------------------------------------------------------------------
LEMMA ScanInit == SetupInit => ScanInv
<1> SUFFICES ASSUME SetupInit PROVE ScanInv
  OBVIOUS
<1>1. ~Applies("descriptors") /\ setup = "image"
  BY Numbers DEF SetupInit, Applies, Unset
<1>2. QED
  BY <1>1 DEF ScanInv

LEMMA ScanStep == SetupTypeOK /\ ScanInv /\ [SetupNext]_setupVars => ScanInv'
<1> SUFFICES ASSUME SetupTypeOK, ScanInv, [SetupNext]_setupVars PROVE ScanInv'
  OBVIOUS
<1> USE Numbers DEF SetupTypeOK
<1>1. CASE OpenImage \/ Prepare \/ ForkChild
  <2>1. /\ setup \in {"image", "plan", "fork"} /\ UNCHANGED codes
        /\ setup' \in {"plan", "fork", "status", "refused"}
    BY <1>1 DEF OpenImage, Prepare, ForkChild, keptByHost, Refused
  <2>2. QED
    BY <2>1 DEF ScanInv, Applies, Scanned
<1>2. CASE MoveStatus
  <2>1. codes'["descriptors"] = codes["descriptors"] /\ setup = "status"
    BY <1>2 DEF MoveStatus
  <2>2. setup' = "scan" => StatusFd \in cloexec'
    BY <1>2 DEF MoveStatus
  <2>3. QED
    BY <2>1, <2>2 DEF ScanInv, Applies, Scanned
<1>3. CASE Scan
  <2>1. \A n \in Fds : n > 2 /\ n <= Ceiling /\ fds'[n] # "free" => n \in cloexec'
    <3> SUFFICES ASSUME NEW n \in Fds, n > 2, n <= Ceiling, fds'[n] # "free"
                 PROVE  n \in cloexec'
      OBVIOUS
    <3>1. n = StatusFd \/ n \in StatusFd + 1 .. Ceiling
      BY DEF StatusFd
    <3>2. QED
      BY <1>3, <3>1 DEF Scan, ScanInv
  <2>2. codes'["descriptors"] = Applied(Ceiling) /\ setup' = "limits"
    BY <1>3 DEF Scan
  <2>3. QED
    BY <2>1, <2>2 DEF ScanInv, Applies, Applied, Scanned
<1>4. CASE LowerLimits \/ IsolateNetwork \/ BudgetProcesses \/ WriteRecord
  <2>1. /\ setup \in {"limits", "network", "budget", "record"} /\ setup' \in Scanned
        /\ UNCHANGED <<fds, cloexec>>
    BY <1>4 DEF LowerLimits, IsolateNetwork, BudgetProcesses, WriteRecord, Scanned
  <2>2. codes'["descriptors"] = codes["descriptors"]
    <3>1. CASE LowerLimits
      <4>1. "descriptors" \notin Lowered
        BY SetupAssumption
      <4>2. QED
        BY <3>1, <4>1 DEF LowerLimits, Lower
    <3>2. CASE IsolateNetwork
      BY <3>2 DEF IsolateNetwork
    <3>3. CASE BudgetProcesses
      BY <3>3 DEF BudgetProcesses, Lower
    <3>4. CASE WriteRecord
      BY <3>4 DEF WriteRecord
    <3>5. QED
      BY <1>4, <3>1, <3>2, <3>3, <3>4
  <2>3. QED
    BY <2>1, <2>2 DEF ScanInv, Applies, Scanned
<1>5. CASE Become
  <2>1. setup = "become" /\ UNCHANGED <<codes, imageFd>> /\ setup' \in {"running", "refused"}
    BY <1>5 DEF Become, Refused, keptByChild
  <2>2. setup' = "running" => \A n \in Fds : fds'[n] # "free" => n = imageFd \/ (n \notin cloexec /\ fds[n] # "free")
    BY <1>5 DEF Become, Refused
  <2>3. QED
    BY <2>1, <2>2 DEF ScanInv, Applies, Scanned
<1>6. CASE OtherTasks \/ UNCHANGED setupVars
  <2>1. UNCHANGED <<setup, fds, cloexec, codes, imageFd>>
    BY <1>6 DEF OtherTasks, setupVars
  <2>2. QED
    BY <2>1 DEF ScanInv, Applies
<1>7. QED
  BY <1>1, <1>2, <1>3, <1>4, <1>5, <1>6 DEF SetupNext, SetupHost, SetupChild

-----------------------------------------------------------------------------
LEMMA CodesInit == SetupInit => CodesInv
<1> SUFFICES ASSUME SetupInit PROVE CodesInv
  OBVIOUS
<1>1. \A s \in Slots : ~Applies(s)
  BY DEF SetupInit, Applies, Unset
<1>2. QED
  BY <1>1, Numbers DEF CodesInv

LEMMA CodesStep == SetupTypeOK /\ CodesInv /\ [SetupNext]_setupVars => CodesInv'
<1> SUFFICES ASSUME SetupTypeOK, CodesInv, [SetupNext]_setupVars PROVE CodesInv'
  OBVIOUS
<1>1. CASE OpenImage \/ Prepare \/ ForkChild
  <2>1. /\ setup \in {"image", "plan", "fork"} /\ UNCHANGED <<codes, inForce, netns>>
    BY <1>1 DEF OpenImage, Prepare, ForkChild, keptByHost
  <2>2. QED
    BY <2>1 DEF CodesInv, Applies
<1>2. CASE MoveStatus \/ Scan
  <2>1. /\ setup \in {"status", "scan"} /\ setup' \in {"become", "scan", "limits"}
        /\ UNCHANGED <<inForce, netns>>
        /\ \A s \in Resources \union {"network"} : codes'[s] = codes[s]
    BY <1>2, Numbers DEF MoveStatus, Scan, SetupTypeOK
  <2>2. QED
    BY <2>1, Numbers DEF CodesInv, Applies
<1>3. CASE LowerLimits
  <2>1. \A r \in Lowered : r \in Resources /\ Ask[r] \in Int
    BY SetupAssumption DEF Resources
  <2>2. /\ \A s \in Slots \ Lowered : codes'[s] = codes[s]
        /\ \A r \in Resources \ Lowered : inForce'[r] = inForce[r]
        /\ \A r \in Lowered : codes'[r].state = "applied" => inForce'[r] = codes'[r].value
    BY <1>3, <2>1, LowerEffect DEF LowerLimits
  <2>3. "processes" \notin Lowered /\ "network" \notin Lowered
    BY SetupAssumption
  <2>4. setup = "limits" /\ setup' = "network" /\ UNCHANGED <<netns, userns, counted>>
    BY <1>3 DEF LowerLimits, keptByChild
  <2>5. QED
    BY <2>2, <2>3, <2>4, Numbers DEF CodesInv, Applies
<1>4. CASE IsolateNetwork
  <2>1. /\ \A r \in Resources : codes'[r] = codes[r]
        /\ codes'["network"].state = "applied" => netns' = "empty"
    BY <1>4, Numbers DEF IsolateNetwork, Failed, CodesInv, Applies, SetupTypeOK
  <2>2. setup = "network" /\ setup' = "budget" /\ UNCHANGED inForce
    BY <1>4 DEF IsolateNetwork
  <2>3. QED
    BY <2>1, <2>2, Numbers DEF CodesInv, Applies
<1>5. CASE BudgetProcesses
  <2>1. setup = "budget" /\ setup' = "record" /\ UNCHANGED <<netns, userns, counted>>
    BY <1>5 DEF BudgetProcesses, keptByChild
  <2>2. CASE UNCHANGED <<inForce, codes>>
    BY <2>1, <2>2 DEF CodesInv, Applies
  <2>3. CASE Lower({"processes"}, [r \in {"processes"} |-> Budget])
    <3> DEFINE budget == [r \in {"processes"} |-> Budget]
    <3>1. \A r \in {"processes"} : budget[r] \in Int /\ budget[r] = Budget
      BY BudgetIsInt
    <3>5. {"processes"} \in SUBSET Resources /\ Lower({"processes"}, budget)
      BY <2>3, Numbers
    <3> HIDE DEF budget
    <3>2. /\ \A s \in Slots \ {"processes"} : codes'[s] = codes[s]
          /\ \A r \in Resources \ {"processes"} : inForce'[r] = inForce[r]
          /\ codes'["processes"].state = "applied" =>
               inForce'["processes"] = codes'["processes"].value /\ inForce'["processes"] <= Budget
      BY <3>1, <3>5, LowerEffect
    <3>3. Budget' = Budget
      BY <2>1 DEF Budget
    <3>4. QED
      BY <2>1, <3>2, <3>3, Numbers DEF CodesInv, Applies
  <2>4. QED
    BY <1>5, <2>2, <2>3 DEF BudgetProcesses
<1>6. CASE WriteRecord \/ Become \/ OtherTasks \/ UNCHANGED setupVars
  <2>1. /\ UNCHANGED <<inForce, netns, userns, counted, codes>>
        /\ setup' = setup \/ setup' \in {"become", "running", "refused"}
    BY <1>6 DEF WriteRecord, Become, Refused, OtherTasks, setupVars, keptByChild
  <2>2. QED
    BY <2>1 DEF CodesInv, Applies, Budget
<1>7. QED
  BY <1>1, <1>2, <1>3, <1>4, <1>5, <1>6 DEF SetupNext, SetupHost, SetupChild

-----------------------------------------------------------------------------
\* What the invariant says of a child that runs.
LEMMA ContainmentFollows == SetupInv => ContainmentIsTrue
<1> SUFFICES ASSUME SetupInv, setup = "running" PROVE ReportIsTrue /\ BudgetBounds
  BY DEF ContainmentIsTrue, ReportIsTrue, BudgetBounds
<1>1. \A s \in Slots : Claimed(s).state = "applied" =>
        codes[s].state = "applied" /\ Claimed(s) = codes[s]
  BY DEF Claimed, Unset
<1>2. ReportIsTrue
  <2>1. \A r \in Resources : Claims(r) => inForce[r] = Claimed(r).value
    BY <1>1, Numbers DEF SetupInv, CodesInv, Claims, Applies
  <2>2. Claims("network") => netns = "empty"
    <3>1. Claims("network") => Applies("network")
      BY <1>1, Numbers DEF Claims, Applies
    <3>2. QED
      BY <3>1 DEF SetupInv, CodesInv
  <2>3. Claims("descriptors") =>
          \A n \in Fds : n > 2 /\ n <= Claimed("descriptors").value /\ fds[n] # "free" => n = imageFd
    <3>1. Claims("descriptors") => Applies("descriptors") /\ Claimed("descriptors") = codes["descriptors"]
      BY <1>1, Numbers DEF Claims, Applies
    <3>2. QED
      BY <3>1 DEF SetupInv, ScanInv
  <2>4. QED
    BY <2>1, <2>2, <2>3 DEF ReportIsTrue
<1>3. BudgetBounds
  <2> SUFFICES ASSUME Claims("processes"), tasks >= counted \/ userns = "own"
               PROVE  inForce["processes"] - (IF userns = "own" THEN 1 ELSE tasks) <= Ask["processes"]
    BY DEF BudgetBounds
  <2>1. inForce["processes"] <= Budget
    <3>1. Applies("processes")
      BY <1>1, Numbers DEF Claims, Applies
    <3>2. QED
      BY <3>1 DEF SetupInv, CodesInv
  <2>2. /\ inForce["processes"] \in Int /\ tasks \in Int /\ counted \in Int
        /\ Ask["processes"] \in Int
    BY Numbers, SetupAssumption DEF SetupInv, SetupTypeOK
  <2>3. CASE userns = "own"
    BY <2>1, <2>2, <2>3 DEF Budget
  <2>4. CASE userns # "own"
    BY <2>1, <2>2, <2>4 DEF Budget
  <2>5. QED
    BY <2>3, <2>4
<1>4. QED
  BY <1>2, <1>3

LEMMA SetupInvHolds == SetupSpec => []SetupInv
<1>1. SetupInit => SetupInv
  BY SetupTypeInit, TableInit, ScanInit, CodesInit DEF SetupInv
<1>2. SetupInv /\ [SetupNext]_setupVars => SetupInv'
  BY SetupTypeStep, TableStep, ScanStep, CodesStep DEF SetupInv
<1>3. QED
  BY <1>1, <1>2, PTL DEF SetupSpec

\* Every behaviour of the execution with its set-up is one of each: the child that
\* run() holds to its limits is the one apply_plan made (exec.rs:108, image.rs:196).
LEMMA ImplementsSetup == ContainedSpec => SetupSpec
<1>1. ContainedInit => SetupInit
  BY DEF ContainedInit
<1>2. [ContainedNext]_containedVars => [SetupNext]_setupVars
  BY DEF ContainedNext, SetUp, NotSpawned, Spawned, Runs, containedVars, SetupNext, SetupHost,
         SetupChild
<1>3. QED
  BY <1>1, <1>2, PTL DEF ContainedSpec, SetupSpec

\* The execution with its set-up implements the execution alone: that one leaves
\* open whether a child is made and whether it wrote a record, this one decides it.
THEOREM ImplementsExec == ContainedSpec => ExecSpec
<1>1. ContainedInit => ExecInit
  BY DEF ContainedInit
<1>2. [ContainedNext]_containedVars => [ExecNext]_execVars
  BY DEF ContainedNext, SetUp, NotSpawned, Spawned, Runs, containedVars, ExecNext, Host
<1>3. QED
  BY <1>1, <1>2, PTL DEF ContainedSpec, ExecSpec

\* The variables stay in their domains for every table, limit and failure.
THEOREM SetupTypeCorrect == ContainedSpec => []SetupTypeOK
<1>1. SetupInv => SetupTypeOK
  BY DEF SetupInv
<1>2. QED
  BY ImplementsSetup, SetupInvHolds, <1>1, PTL

\* Whatever was inherited, whichever steps failed and in whichever namespace the
\* kernel counts, a control the host claims is in force with the bound it names in
\* the child that becomes the image, and the processes' limit it starts with leaves
\* room for no more than was asked (sandbox.rs:4).  The limits are soft: the image
\* may raise them up to the hard ones, which lower_limit leaves (sandbox.rs:301).
THEOREM ContainmentHolds == ContainedSpec => []ContainmentIsTrue
BY ImplementsSetup, SetupInvHolds, ContainmentFollows, PTL

\* Whatever descriptors the host had open, what the child becomes is the image
\* with its seals, without a copy of the status pipe, and a child that could not
\* still has the pipe that says so (image.rs:114, sandbox.rs:560).
THEOREM ImageRuns == ContainedSpec => []ImageIsWhatRuns
<1>1. SetupInv => ImageIsWhatRuns
  BY DEF SetupInv, TableInv, ImageIsWhatRuns, InChild
<1>2. QED
  BY ImplementsSetup, SetupInvHolds, <1>1, PTL

\* What holds of the execution holds of it with its set-up: no process of the
\* group is left once it was signalled.
THEOREM ContainedSurvivesNothing == ContainedSpec => []NothingSurvives
BY ImplementsExec, SweepIsFinal, PTL

\* And the completion it reports is what ended the child.
THEOREM ContainedEndIsTrue == ContainedSpec => []EndIsTheTrees
BY ImplementsExec, EndIsRight, PTL
=============================================================================
