-------------------------- MODULE ProgramSourceProofs --------------------------
(* Theorems about AdapterRun, for every adapter, request, result and limit, and  *)
(* about ProgramSource, for every snapshot, registry and store.             *)
EXTENDS ProgramSource, AdapterExecProofs, FiniteSetTheorems

ExecInv == TypeInv /\ LifeInv /\ NothingSurvives /\ HostInv

RunTypes ==
  /\ stage     \in {"authorize", "workspace", "exec", "result", "model", "cleanup", "finished"}
  /\ error     \in Errors
  /\ workspace \in BOOLEAN
  /\ doc       \in [result : ResultContents, model : ModelContents]
  /\ requested \in Requests
  /\ resolved  \in Backends \union {"none"}

(***************************************************************************)
(* The stage against the place of exec::run: nothing is spawned before the  *)
(* workspace stands, an error ends the run, and one that is_pre_spawn names *)
(* was met before the spawn.                                                *)
(***************************************************************************)
StageByPlace ==
  /\ stage \in {"authorize", "workspace"} => pc = "spawn"
  /\ error \in PreSpawn                   => pc = "spawn"
  /\ error # "none"                       => stage \in {"cleanup", "finished"}
  /\ stage = "finished"                   => ~workspace

-----------------------------------------------------------------------------
LEMMA ExecInvInit == RunInit => ExecInv
<1>1. ExecInit => NothingSurvives
  BY DEF ExecInit, NothingSurvives
<1>2. QED
  BY <1>1, TypeInit, LifeInit, HostInvInit DEF RunInit, ExecInv

\* A step of a run is a step of the execution or leaves it alone.
LEMMA RunStepIsExecStep == [RunNext]_allVars => [ExecNext]_execVars
<1> SUFFICES ASSUME [RunNext]_allVars PROVE [ExecNext]_execVars
  OBVIOUS
<1>1. CASE Authorize \/ BuildWorkspace \/ Completed \/ ReadResult \/ ReadModel \/ Cleanup
  BY <1>1 DEF Authorize, BuildWorkspace, Completed, ReadResult, ReadModel, Cleanup
<1>2. CASE Execute
  BY <1>2 DEF Execute, ExecNext
<1>3. CASE Elsewhere
  BY <1>3 DEF Elsewhere, WriteDocument, ExecNext
<1>4. CASE UNCHANGED allVars
  BY <1>4 DEF allVars
<1>5. QED
  BY <1>1, <1>2, <1>3, <1>4 DEF RunNext, HostRun, HostAuthorized

LEMMA ExecInvStep == ExecInv /\ [RunNext]_allVars => ExecInv'
BY RunStepIsExecStep, TypeStep, LifeStep, SurvivalStep, HostInvStep DEF ExecInv

\* The error of a result is one of its errors, and never one that came before the
\* spawn; without one the result answers what was asked.
LEMMA ResultErrorKind ==
  ASSUME NEW d \in Documents, NEW asked
  PROVE  /\ ResultError(d, asked) \in ResultErrors \union {"none"}
         /\ ResultError(d, asked) = "none" =>
              /\ d.status = "ok" /\ d.model = "requested"
              /\ asked = "auto" \/ asked = d.backend
<1>1. /\ d.status \in {"ok", "unsupported", "failed"} \union Unread
      /\ d.model \in {"none", "requested", "elsewhere"}
  BY DEF Documents
<1>2. QED
  BY <1>1 DEF ResultError, ResultErrors, Unread, Consistent, Answers

\* An execution that returned has an error unless its child exited.
LEMMA CompletionErrorKind ==
  ASSUME ExecInv, pc = "returned", completion # "exited"
  PROVE  CompletionError(completion)
           \in {"Spawn", "Io", "Timeout", "OutputLimitExceeded", "Crashed"}
<1>1. completion \in Completions /\ completion # "none"
  BY DEF ExecInv, HostInv, VerdictByPlace, TypeInv, ExecTypeOK
<1>2. QED
  BY <1>1 DEF Completions, CompletionError

-----------------------------------------------------------------------------
\* Whatever the tree leaves behind is one of the documents.
LEMMA ContentsAreDocuments == ResultContents \subseteq Documents
<1>1. NoResult \in Documents
  BY DEF NoResult, Documents, Unread
<1>2. QED
  BY <1>1, RunAssumption DEF ResultContents

LEMMA RunTypesInit == RunInit => RunTypes
<1> SUFFICES ASSUME RunInit PROVE RunTypes
  OBVIOUS
<1>1. NoResult \in ResultContents /\ "absent" \in ModelContents
  BY DEF ResultContents, ModelContents
<1>2. doc \in [result : ResultContents, model : ModelContents]
  BY <1>1 DEF RunInit
<1>3. QED
  BY <1>2 DEF RunInit, RunTypes, Errors

LEMMA RunTypesStep == ExecInv /\ RunTypes /\ [RunNext]_allVars => RunTypes'
<1> SUFFICES ASSUME ExecInv, RunTypes, [RunNext]_allVars PROVE RunTypes'
  OBVIOUS
<1> USE DEF RunTypes, Fail, Step
<1>1. CASE Authorize
  BY <1>1 DEF Authorize, Errors
<1>2. CASE BuildWorkspace
  BY <1>2 DEF BuildWorkspace, Errors
<1>3. CASE Execute
  BY <1>3 DEF Execute, runVars
<1>4. CASE Completed
  <2>1. completion # "exited" => CompletionError(completion) \in Errors
    BY <1>4, CompletionErrorKind DEF Completed, Errors, GateErrors, DocumentErrors
  <2>2. QED
    BY <1>4, <2>1 DEF Completed
<1>5. CASE ReadResult
  <2>1. doc.result \in Documents
    BY ContentsAreDocuments
  <2>2. ResultError(doc.result, requested) \in Errors
    BY <2>1, ResultErrorKind DEF Errors
  <2>3. doc.result.backend \in Backends \union {"none"}
    BY <2>1 DEF Documents
  <2>4. QED
    BY <1>5, <2>2, <2>3 DEF ReadResult
<1>6. CASE ReadModel
  BY <1>6 DEF ReadModel, Errors, GateErrors, DocumentErrors
<1>7. CASE Cleanup
  BY <1>7 DEF Cleanup
<1>8. ASSUME NEW p \in Procs, WriteDocument(p)
      PROVE  RunTypes'
  BY <1>8 DEF WriteDocument
<1>9. CASE UNCHANGED runVars
  BY <1>9 DEF runVars
<1>10. QED
  BY <1>1, <1>2, <1>3, <1>4, <1>5, <1>6, <1>7, <1>8, <1>9
     DEF RunNext, HostRun, HostAuthorized, Elsewhere, allVars

\* The variables of a run stay in their domains, whatever the adapter writes.
THEOREM RunTypeCorrect == RunSpec => []RunTypeOK
<1>1. ExecInv /\ RunTypes => RunTypeOK
  BY DEF ExecInv, TypeInv, RunTypes, RunTypeOK
<1>2. QED
  BY ExecInvInit, ExecInvStep, RunTypesInit, RunTypesStep, <1>1, PTL DEF RunSpec

-----------------------------------------------------------------------------
LEMMA StageInit == RunInit => StageByPlace
BY DEF RunInit, ExecInit, StageByPlace, PreSpawn, GateErrors

\* What came after the spawn, or may have, is no refusal that came before it.
LEMMA LateErrors ==
  ({"Spawn", "Io", "Timeout", "OutputLimitExceeded", "Crashed", "Workspace", "none"}
   \union ResultErrors \union Flaws) \cap PreSpawn = {}
BY RunAssumption DEF PreSpawn, GateErrors, DocumentErrors, ResultErrors, Unread

LEMMA StageStep ==
  ExecInv /\ RunTypes /\ StageByPlace /\ [RunNext]_allVars => StageByPlace'
<1> SUFFICES ASSUME ExecInv, RunTypes, StageByPlace, [RunNext]_allVars
             PROVE  StageByPlace'
  OBVIOUS
<1> USE DEF StageByPlace, Fail, Step
<1>1. CASE Authorize
  BY <1>1 DEF Authorize, execVars
<1>2. CASE BuildWorkspace
  BY <1>2 DEF BuildWorkspace, execVars
<1>3. CASE Execute
  BY <1>3, LateErrors DEF Execute, runVars
<1>4. CASE Completed
  <2>1. completion # "exited" => CompletionError(completion) \notin PreSpawn
    BY <1>4, CompletionErrorKind, LateErrors DEF Completed
  <2>2. QED
    BY <1>4, <2>1, LateErrors DEF Completed, execVars
<1>5. CASE ReadResult
  <2>1. doc.result \in Documents
    BY ContentsAreDocuments DEF RunTypes
  <2>2. ResultError(doc.result, requested) \notin PreSpawn
    BY <2>1, ResultErrorKind, LateErrors
  <2>3. QED
    BY <1>5, <2>2 DEF ReadResult, execVars
<1>6. CASE ReadModel
  BY <1>6, LateErrors DEF ReadModel, execVars
<1>7. CASE Cleanup
  BY <1>7 DEF Cleanup, execVars
<1>8. ASSUME NEW p \in Procs, WriteDocument(p)
      PROVE  StageByPlace'
  BY <1>8 DEF WriteDocument, execVars
<1>9. CASE Tree /\ UNCHANGED runVars
  BY <1>9, TreeEffect DEF ExecInv, runVars
<1>10. CASE /\ Expire \/ Reuse \/ (\E s \in Streams : Drain(s)) \/ UNCHANGED execVars
            /\ UNCHANGED runVars
  BY <1>10, OtherEffect DEF ExecInv, runVars
<1>11. QED
  BY <1>1, <1>2, <1>3, <1>4, <1>5, <1>6, <1>7, <1>8, <1>9, <1>10
     DEF RunNext, HostRun, HostAuthorized, Elsewhere, allVars

\* An error is_pre_spawn names was returned by a run that had no child, and left
\* no directory behind, for every adapter (host.rs:154-172).
THEOREM PreSpawnIsChildless == RunSpec => []PreSpawnHasNoChild
<1>1. ExecInv /\ StageByPlace => PreSpawnHasNoChild
  BY LeaderIsAProc DEF ExecInv, LifeInv, Unborn, StageByPlace, PreSpawnHasNoChild
<1>2. QED
  BY ExecInvInit, ExecInvStep, RunTypesInit, RunTypesStep, StageInit, StageStep, <1>1, PTL
  DEF RunSpec

-----------------------------------------------------------------------------
(***************************************************************************)
(* Where nothing can leave the group, the sweep leaves nobody at all: what  *)
(* was read of the result and of the model is what the workspace still      *)
(* holds.                                                                   *)
(***************************************************************************)
NobodyOutside == \A p \in Procs : Running(p) => p \in group

EndedByItself == completion \in {"exited", "signalled"} => ~terminated

\* The result has been read; the model has been accepted.
Answered == stage = "model" \/ (stage \in {"cleanup", "finished"} /\ error = "none")
Accepted == stage \in {"cleanup", "finished"} /\ error = "none"

ReadIsKept ==
  /\ stage = "result" \/ Answered => pc = "returned" /\ completion = "exited"
  /\ Answered => ResultError(doc.result, requested) = "none" /\ resolved = doc.result.backend
  /\ Accepted => doc.model = "good"

WholeInv == NobodyOutside /\ EndedByItself /\ ReadIsKept

LEMMA WholeInit == RunInit => WholeInv
BY DEF RunInit, ExecInit, WholeInv, NobodyOutside, EndedByItself, ReadIsKept, Answered, Accepted,
   Running

\* Everybody the tree or the host leaves running is in the group.
LEMMA OutsideStep ==
  ASSUME ~MayEscape, ExecInv, NobodyOutside, [ExecNext]_execVars
  PROVE  NobodyOutside'
<1> USE LeaderIsAProc DEF NobodyOutside, Running
<1>1. /\ proc  \in [Procs -> {"unborn", "running", "zombie", "gone"}]
      /\ group \in SUBSET Procs
      /\ pc = "spawn" => \A p \in Procs : proc[p] = "unborn"
  BY DEF ExecInv, TypeInv, ExecTypeOK, LifeInv, Unborn
<1>2. ASSUME UNCHANGED group, \A p \in Procs : proc'[p] = "running" => proc[p] = "running"
      PROVE  NobodyOutside'
  BY <1>2
<1>3. ASSUME NEW p \in Procs, NEW d \in Descendants, Fork(p, d)
      PROVE  NobodyOutside'
  BY <1>1, <1>3 DEF Fork
<1>4. ASSUME NEW p \in Procs, Exit(p)
      PROVE  NobodyOutside'
  BY <1>2, <1>4, EndEffect DEF Exit, ExecInv
<1>5. CASE Tree
  BY <1>2, <1>3, <1>4, <1>5 DEF Tree, Write, Close, Escape, treeKeeps
<1>6. CASE Spawn
  BY <1>1, <1>6 DEF Spawn
<1>7. CASE TryWait
  BY <1>1, <1>2, <1>7 DEF TryWait
<1>8. CASE CheckLimits \/ Join
  BY <1>2, <1>8 DEF CheckLimits, Join
<1>9. CASE Sweep \/ Signal \/ Abort
  <2>1. KillTree
    BY <1>9 DEF Sweep, Signal, Abort
  <2>2. End(LivingInGroup) /\ LivingInGroup \in SUBSET Procs /\ UNCHANGED group
    BY <1>1, <2>1 DEF KillTree, LivingInGroup
  <2>3. \A p \in Procs : proc'[p] = "running" => proc[p] = "running"
    BY <2>2, EndEffect DEF ExecInv
  <2>4. QED
    BY <1>2, <2>2, <2>3
<1>10. ASSUME NEW here, NEW next, KillChild(here, next)
       PROVE  NobodyOutside'
  BY <1>2, <1>10, EndEffect DEF KillChild, ExecInv
<1>11. ASSUME NEW here, NEW next, WaitChild(here, next)
       PROVE  NobodyOutside'
  BY <1>1, <1>2, <1>11 DEF WaitChild
<1>12. CASE Expire \/ Reuse \/ (\E s \in Streams : Drain(s)) \/ UNCHANGED execVars
  BY <1>2, <1>12, OtherEffect DEF ExecInv
<1>13. QED
  BY <1>5, <1>6, <1>7, <1>8, <1>9, <1>10, <1>11, <1>12 DEF ExecNext, Host

\* A child that was reaped by try_wait was not terminated by a limit.
LEMMA EndedStep ==
  ASSUME ExecInv, EndedByItself, [ExecNext]_execVars
  PROVE  EndedByItself'
<1> USE DEF EndedByItself, Goto
<1>1. CASE TryWait
  BY <1>1 DEF TryWait, ExecInv, HostInv, VerdictByPlace
<1>2. CASE Spawn \/ CheckLimits \/ Sweep \/ Signal \/ Abort \/ Join
  BY <1>2 DEF Spawn, CheckLimits, Sweep, Signal, Abort, Join
<1>3. ASSUME NEW here, NEW next, KillChild(here, next) \/ WaitChild(here, next)
      PROVE  EndedByItself'
  BY <1>3 DEF KillChild, WaitChild
<1>4. CASE Tree
  BY <1>4, TreeEffect DEF ExecInv
<1>5. CASE Expire \/ Reuse \/ (\E s \in Streams : Drain(s)) \/ UNCHANGED execVars
  BY <1>5, OtherEffect DEF ExecInv
<1>6. QED
  BY <1>1, <1>2, <1>3, <1>4, <1>5 DEF ExecNext, Host

\* Where the execution is over nobody runs, so nobody writes.
LEMMA NobodyRuns ==
  ASSUME ExecInv, NobodyOutside, pc = "returned"
  PROVE  \A p \in Procs : ~Running(p)
BY DEF ExecInv, NothingSurvives, NobodyOutside, LivingInGroup

LEMMA KeptStep ==
  ASSUME ExecInv, RunTypes, StageByPlace, WholeInv, [RunNext]_allVars
  PROVE  ReadIsKept'
<1> USE DEF ReadIsKept, Answered, Accepted, Fail, Step
<1>1. CASE Authorize \/ BuildWorkspace
  BY <1>1 DEF Authorize, BuildWorkspace, WholeInv, StageByPlace, GateErrors, DocumentErrors
<1>2. CASE Execute
  BY <1>2 DEF Execute, runVars
<1>3. CASE Completed
  <2>1. completion # "exited" => CompletionError(completion) # "none"
    BY <1>3, CompletionErrorKind DEF Completed
  <2>2. QED
    BY <1>3, <2>1 DEF Completed, execVars, StageByPlace
<1>4. CASE ReadResult
  BY <1>4 DEF ReadResult, WholeInv, StageByPlace, execVars
<1>5. CASE ReadModel
  BY <1>5, RunAssumption DEF ReadModel, WholeInv, StageByPlace, execVars
<1>6. CASE Cleanup
  BY <1>6 DEF Cleanup, WholeInv, execVars
<1>7. ASSUME NEW p \in Procs, WriteDocument(p)
      PROVE  ReadIsKept'
  BY <1>7, NobodyRuns DEF WriteDocument, WholeInv, execVars
<1>8. CASE Tree /\ UNCHANGED runVars
  BY <1>8, TreeEffect DEF ExecInv, WholeInv, runVars
<1>9. CASE /\ Expire \/ Reuse \/ (\E s \in Streams : Drain(s)) \/ UNCHANGED execVars
           /\ UNCHANGED runVars
  BY <1>9, OtherEffect DEF ExecInv, WholeInv, runVars
<1>10. QED
  BY <1>1, <1>2, <1>3, <1>4, <1>5, <1>6, <1>7, <1>8, <1>9
     DEF RunNext, HostRun, HostAuthorized, Elsewhere, allVars

\* Where no descendant may leave the group, a model is accepted only from a child
\* that exited by itself, and the documents that were checked are those the
\* workspace still holds, whatever the tree did before (host.rs:1157-1260).
THEOREM AcceptedModelIsWhole ==
  ASSUME ~MayEscape
  PROVE  RunSpec => []AcceptedIsWhole
<1>1. ExecInv /\ RunTypes /\ StageByPlace /\ WholeInv /\ [RunNext]_allVars => WholeInv'
  BY RunStepIsExecStep, OutsideStep, EndedStep, KeptStep DEF WholeInv
<1>2. ExecInv /\ RunTypes /\ WholeInv => AcceptedIsWhole
  <2> SUFFICES ASSUME ExecInv, RunTypes, WholeInv, stage = "finished", error = "none"
               PROVE  AcceptedIsWhole
    BY DEF AcceptedIsWhole
  <2>1. completion = "exited" /\ fate = "exit" /\ ~terminated
    BY DEF WholeInv, ReadIsKept, Answered, EndedByItself, ExecInv, HostInv, VerdictIsTrue
  <2>2. doc.result \in Documents
    BY ContentsAreDocuments DEF RunTypes
  <2>3. /\ ResultError(doc.result, requested) = "none"
        /\ resolved = doc.result.backend /\ doc.model = "good"
    BY DEF WholeInv, ReadIsKept, Answered, Accepted
  <2>4. QED
    BY <2>1, <2>2, <2>3, ResultErrorKind DEF AcceptedIsWhole
<1>3. QED
  BY ExecInvInit, ExecInvStep, RunTypesInit, RunTypesStep, StageInit, StageStep, WholeInit,
     <1>1, <1>2, PTL DEF RunSpec

-----------------------------------------------------------------------------
(* The source of the program. *)

Deciding == Loading \union Authorizing

(***************************************************************************)
(* The load against the stage of run_adapter: nothing of run_adapter has    *)
(* happened while load_program still decides, and never does where core     *)
(* answered.                                                                *)
(***************************************************************************)
SourcePlace ==
  /\ load \in Deciding    => stage = "authorize" /\ source = "none"
  /\ load = "running"     => stage # "authorize" /\ source = "none"
  /\ stage = "authorize"  => error = "none" /\ ~workspace
  /\ source = "core"      => stage = "authorize" /\ requested \notin External
  /\ source = "adapter"   => stage = "finished" /\ error = "none"

-----------------------------------------------------------------------------
LEMMA PlaceInit == SourceInit => SourcePlace
BY DEF SourceInit, RunInit, SourcePlace, Deciding, Loading

\* A gate of authorize() that refuses is a gate of AdapterRun that does.
LEMMA DenyIsAuthorize ==
  ASSUME SourcePlace, load \in Authorizing, NEW e \in GateErrors, Deny(e)
  PROVE  Authorize
BY DEF SourcePlace, Deciding, Deny, Authorize

\* A gate changes nothing of a run, denies it with one of AdapterRun's errors, or
\* is the last one.
LEMMA GateKinds ==
  ASSUME AuthorizeRecord \/ AuthorizePath \/ AuthorizeBytes \/ AuthorizeClaim
         \/ AuthorizeProfile \/ AuthorizeRequest
  PROVE  /\ load \in Authorizing
         /\ \/ (\E next \in Authorizing : Permit(next))
            \/ (\E e \in GateErrors : Deny(e))
            \/ /\ Step("workspace") /\ Proceed("running")
               /\ snapshot' = Nothing /\ registry' = Nothing /\ store' = Nothing /\ changed' = FALSE
               /\ UNCHANGED <<execVars, workspace, doc, requested, resolved, chosen>>
<1> USE DEF Authorizing, GateErrors, DocumentErrors
<1>1. CASE AuthorizeRecord
  BY <1>1 DEF AuthorizeRecord
<1>2. CASE AuthorizePath
  BY <1>2 DEF AuthorizePath
<1>3. CASE AuthorizeBytes
  BY <1>3 DEF AuthorizeBytes
<1>4. CASE AuthorizeClaim
  BY <1>4 DEF AuthorizeClaim
<1>5. CASE AuthorizeProfile
  BY <1>5 DEF AuthorizeProfile
<1>6. CASE AuthorizeRequest
  BY <1>6 DEF AuthorizeRequest
<1>7. QED
  BY <1>1, <1>2, <1>3, <1>4, <1>5, <1>6

\* Core's model and a refusal end the load where it stands.
LEMMA DecisionEnds ==
  ASSUME NEW e, source = "none",
         RecoverOrRefuse(e) \/ CoreFallback(e) \/ Refuse(e)
  PROVE  load' = "finished" /\ source' \in {"none", "core"}
BY DEF RecoverOrRefuse, CoreFallback, Refuse

LEMMA RecoveryAsked ==
  ASSUME NEW e, source = "none", RecoverOrRefuse(e), source' = "core"
  PROVE  e \in DOMAIN Recoverable /\ requested \notin External
BY DEF RecoverOrRefuse, Refuse

\* What load_program decides before it hands over leaves run_adapter alone.
Decide ==
  \/ CheckIdentity \/ SelectRecord \/ ResolveArtifact \/ AskLedger
  \/ LoadProfile \/ NameProducer \/ ReadMember

LEMMA DecideEffect ==
  ASSUME SourcePlace, Decide
  PROVE  /\ UNCHANGED allVars
         /\ load \in Loading
         /\ \/ load' \in Deciding /\ source' = "none"
            \/ load' = "finished" /\ source' = "none"
            \/ load' = "finished" /\ source' = "core" /\ requested \notin External
<1> USE DecisionEnds, RecoveryAsked DEF SourcePlace, Deciding, Loading, Authorizing, Proceed, Refuse
<1>1. CASE CheckIdentity
  BY <1>1 DEF CheckIdentity, CoreFallback, External
<1>2. CASE SelectRecord
  BY <1>2 DEF SelectRecord
<1>3. CASE ResolveArtifact
  BY <1>3 DEF ResolveArtifact
<1>4. CASE AskLedger
  BY <1>4 DEF AskLedger
<1>5. CASE LoadProfile
  BY <1>5 DEF LoadProfile
<1>6. CASE NameProducer
  BY <1>6 DEF NameProducer
<1>7. CASE ReadMember
  BY <1>7 DEF ReadMember
<1>8. QED
  BY <1>1, <1>2, <1>3, <1>4, <1>5, <1>6, <1>7 DEF Decide

LEMMA GatesOrRest ==
  ASSUME [SourceNext]_sourceVars
  PROVE  \/ Decide
         \/ AuthorizeRecord \/ AuthorizePath \/ AuthorizeBytes \/ AuthorizeClaim
            \/ AuthorizeProfile \/ AuthorizeRequest
         \/ (HostAuthorized \/ Elsewhere) /\ UNCHANGED loadVars
         \/ Answer
         \/ StoreChanges
         \/ UNCHANGED sourceVars
BY DEF SourceNext, LoadProgram, Decide

\* Every step of load_program is one of run_adapter or leaves it alone.
LEMMA SourceStepIsRunStep ==
  ASSUME SourcePlace, [SourceNext]_sourceVars
  PROVE  [RunNext]_allVars
<1>1. CASE Decide
  BY <1>1, DecideEffect
<1>2. CASE AuthorizeRecord \/ AuthorizePath \/ AuthorizeBytes \/ AuthorizeClaim
           \/ AuthorizeProfile \/ AuthorizeRequest
  <2>1. ASSUME NEW next, Permit(next)
        PROVE  UNCHANGED allVars
    BY <2>1 DEF Permit
  <2>2. CASE Step("workspace") /\ UNCHANGED <<execVars, workspace, doc, requested, resolved>>
    BY <1>2, <2>2, GateKinds DEF SourcePlace, Deciding, Authorize, RunNext, HostRun
  <2>3. QED
    BY <1>2, <2>1, <2>2, GateKinds, DenyIsAuthorize DEF RunNext, HostRun
<1>3. CASE HostAuthorized \/ Elsewhere
  BY <1>3 DEF RunNext, HostRun
<1>4. CASE Answer \/ StoreChanges \/ UNCHANGED sourceVars
  BY <1>4 DEF Answer, StoreChanges, sourceVars
<1>5. QED
  BY <1>1, <1>2, <1>3, <1>4, GatesOrRest

\* What run_adapter does once it is authorized.
LEMMA HostEffect ==
  ASSUME HostAuthorized \/ Elsewhere, ExecInv, StageByPlace
  PROVE  /\ stage' = "authorize" <=> stage = "authorize"
         /\ stage = "authorize" => UNCHANGED <<error, workspace>>
         /\ stage = "finished" => UNCHANGED <<stage, error, workspace, resolved>>
         /\ UNCHANGED requested
<1> USE DEF Fail, Step
<1>1. CASE BuildWorkspace \/ Completed \/ ReadResult \/ Cleanup
  BY <1>1 DEF BuildWorkspace, Completed, ReadResult, Cleanup
<1>2. CASE ReadModel
  BY <1>2 DEF ReadModel
<1>3. CASE Execute
  BY <1>3 DEF Execute, runVars
<1>4. CASE Elsewhere
  BY <1>4 DEF Elsewhere, WriteDocument, runVars
<1>5. QED
  BY <1>1, <1>2, <1>3, <1>4 DEF HostAuthorized

LEMMA PlaceStep ==
  ASSUME ExecInv, StageByPlace, SourcePlace, [SourceNext]_sourceVars
  PROVE  SourcePlace'
<1> USE DEF SourcePlace, Deciding
<1>1. CASE Decide
  BY <1>1, DecideEffect DEF allVars, runVars, Loading, Authorizing
<1>2. CASE AuthorizeRecord \/ AuthorizePath \/ AuthorizeBytes \/ AuthorizeClaim
           \/ AuthorizeProfile \/ AuthorizeRequest
  <2>1. ASSUME NEW next \in Authorizing, Permit(next)
        PROVE  SourcePlace'
    BY <1>2, <2>1, GateKinds DEF Permit, Proceed, allVars, runVars, Loading, Authorizing
  <2>2. ASSUME NEW e \in GateErrors, Deny(e)
        PROVE  SourcePlace'
    BY <1>2, <2>2, GateKinds DEF Deny, Fail, Proceed, Loading, Authorizing
  <2>3. CASE Step("workspace") /\ Proceed("running")
             /\ UNCHANGED <<execVars, workspace, doc, requested, resolved>>
    BY <1>2, <2>3, GateKinds DEF Step, Proceed, Loading, Authorizing
  <2>4. QED
    BY <1>2, <2>1, <2>2, <2>3, GateKinds
<1>3. CASE (HostAuthorized \/ Elsewhere) /\ UNCHANGED loadVars
  BY <1>3, HostEffect DEF loadVars
<1>4. CASE Answer
  BY <1>4 DEF Answer, Refuse, allVars, runVars, Loading, Authorizing
<1>5. CASE StoreChanges \/ UNCHANGED sourceVars
  BY <1>5 DEF StoreChanges, sourceVars, allVars, runVars, loadVars
<1>6. QED
  BY <1>1, <1>2, <1>3, <1>4, <1>5, GatesOrRest

SourceInv == ExecInv /\ RunTypes /\ StageByPlace /\ SourcePlace

LEMMA SourceInvInit == SourceInit => SourceInv
BY ExecInvInit, RunTypesInit, StageInit, PlaceInit DEF SourceInit, SourceInv

LEMMA SourceInvStep == SourceInv /\ [SourceNext]_sourceVars => SourceInv'
BY SourceStepIsRunStep, ExecInvStep, RunTypesStep, StageStep, PlaceStep DEF SourceInv

\* What load_program does around it, and whatever changes meanwhile, is a behaviour
\* of run_adapter: every theorem about RunSpec holds of load_program.
THEOREM ImplementsRun == SourceSpec => RunSpec
<1>1. SourceInit => RunInit
  BY DEF SourceInit
<1>2. SourceInv /\ [SourceNext]_sourceVars => [RunNext]_allVars
  BY SourceStepIsRunStep DEF SourceInv
<1>3. QED
  BY SourceInvInit, SourceInvStep, <1>1, <1>2, PTL DEF SourceSpec, RunSpec

\* A model load_program takes from an adapter that cannot leave its group is one
\* that was checked as it stands (model.rs:552, host.rs:1157-1260).
THEOREM LoadedModelIsWhole ==
  ASSUME ~MayEscape
  PROVE  SourceSpec => []AcceptedIsWhole
BY ImplementsRun, AcceptedModelIsWhole, PTL

\* Where core made the model no process existed and nothing had failed that was
\* meant to stay loud, for every registry, store and adapter (model.rs:22).
THEOREM CoreRunsNothing == SourceSpec => []CoreRanNothing
<1>1. SourceInv => CoreRanNothing
  BY LeaderIsAProc
     DEF SourceInv, SourcePlace, StageByPlace, ExecInv, LifeInv, Unborn, CoreRanNothing,
         PreSpawnHasNoChild
<1>2. QED
  BY SourceInvInit, SourceInvStep, <1>1, PTL DEF SourceSpec

-----------------------------------------------------------------------------
\* Once the result was read, whoever was asked for by name has answered.
AnsweredByName == Answered => requested \in {"auto", resolved}

LEMMA NamedInit == RunInit => AnsweredByName
BY DEF RunInit, AnsweredByName, Answered

LEMMA NamedStep ==
  ASSUME ExecInv, RunTypes, StageByPlace, AnsweredByName, [RunNext]_allVars
  PROVE  AnsweredByName'
<1> USE DEF AnsweredByName, Answered, Fail, Step
<1>1. CASE Authorize \/ BuildWorkspace
  BY <1>1 DEF Authorize, BuildWorkspace, StageByPlace, GateErrors, DocumentErrors
<1>2. CASE Execute
  BY <1>2 DEF Execute, runVars
<1>3. CASE Completed
  <2>1. completion # "exited" => CompletionError(completion) # "none"
    BY <1>3, CompletionErrorKind DEF Completed
  <2>2. QED
    BY <1>3, <2>1 DEF Completed, StageByPlace
<1>4. CASE ReadResult
  <2>1. doc.result \in Documents
    BY ContentsAreDocuments DEF RunTypes
  <2>2. QED
    BY <1>4, <2>1, ResultErrorKind DEF ReadResult, StageByPlace
<1>5. CASE ReadModel
  BY <1>5, RunAssumption DEF ReadModel, StageByPlace
<1>6. CASE Cleanup
  BY <1>6 DEF Cleanup
<1>7. CASE Elsewhere \/ UNCHANGED allVars
  BY <1>7 DEF Elsewhere, WriteDocument, runVars, allVars
<1>8. QED
  BY <1>1, <1>2, <1>3, <1>4, <1>5, <1>6, <1>7 DEF RunNext, HostRun, HostAuthorized

\* A backend that was asked for by name answers or nothing does, for every record,
\* store and result (model.rs:187, protocol.rs:459).
THEOREM PinnedIsHonoured == SourceSpec => []PinnedIsNeverSubstituted
<1>1. SourceInit => AnsweredByName
  BY NamedInit DEF SourceInit
<1>2. SourceInv /\ AnsweredByName /\ [SourceNext]_sourceVars => AnsweredByName'
  BY NamedStep, SourceStepIsRunStep DEF SourceInv
<1>3. SourceInv /\ AnsweredByName => PinnedIsNeverSubstituted
  BY DEF SourceInv, SourcePlace, AnsweredByName, Answered, PinnedIsNeverSubstituted, External
<1>4. QED
  BY SourceInvInit, SourceInvStep, <1>1, <1>2, <1>3, PTL DEF SourceSpec

-----------------------------------------------------------------------------
(* What selection finds: one record, sound, that says what the header says.  *)

LEMMA LoadedIsSound ==
  ASSUME NEW reg \in Registries, LoadError(reg) = "none"
  PROVE  \A i \in DOMAIN reg.records : reg.records[i].valid
<1>1. Offending(reg) = {}
  BY DEF LoadError
<1>2. QED
  BY <1>1 DEF Offending

LEMMA SelectedIsExact ==
  ASSUME NEW reg \in Registries, NEW id, SelectError(reg, id) = "none"
  PROVE  /\ Min(Exact(reg, id)) \in Exact(reg, id)
         /\ reg.records[Min(Exact(reg, id))].majors
<1> DEFINE exact == Exact(reg, id)
<1>1. exact # {} /\ ~(Cardinality(exact) > 1) /\ reg.records[Min(exact)].majors
  BY DEF SelectError
<1>2. exact \subseteq 1 .. Len(reg.records) /\ Len(reg.records) \in Nat
  BY SourceAssumption DEF Exact
<1>3. IsFiniteSet(exact)
  <2>1. IsFiniteSet(1 .. Len(reg.records))
    BY <1>2, FS_Interval
  <2>2. QED
    BY <1>2, <2>1, FS_Subset
<1>4. Cardinality(exact) = 1
  BY <1>1, <1>3, FS_EmptySet, FS_CardinalityType
<1>5. PICK x : exact = {x}
  BY <1>3, <1>4, FS_Singleton
<1>6. x \in Nat
  BY <1>2, <1>5
<1>7. Min(exact) = x
  BY <1>5, <1>6 DEF Min
<1>8. QED
  BY <1>1, <1>5, <1>7

\* A selection that fails for want of a record has none for the identity.
LEMMA NothingServes ==
  ASSUME NEW reg, NEW id,
         SelectError(reg, id) \in {"NoRecord", "TargetMismatch", "FeatureMismatch"}
  PROVE  ~Served(reg, id)
<1> DEFINE hash   == {i \in DOMAIN reg.records : reg.records[i].hash = id.hash}
           target == {i \in hash : reg.records[i].target = id.target}
<1>1. hash = {} \/ target = {} \/ Exact(reg, id) = {}
  BY DEF SelectError
<1>2. Exact(reg, id) \subseteq target
  BY DEF Exact, SameKey
<1>3. QED
  BY <1>1, <1>2 DEF Served, Exact

LEMMA ErrorKinds ==
  ASSUME NEW reg, NEW id
  PROVE  /\ LoadError(reg) \in {"Malformed", "UnsupportedVersion", "none", "InvalidRecord", "Ambiguous"}
         /\ SelectError(reg, id) \in {"NoRecord", "TargetMismatch", "FeatureMismatch", "Ambiguous",
                                     "InvalidRecord", "none"}
BY DEF LoadError, SelectError

(***************************************************************************)
(* What has been asked, and still holds of the input, of the record and,    *)
(* while nobody changes it, of the store.                                   *)
(***************************************************************************)
Inputs == load \in Deciding =>
  snapshot \in Snapshots /\ registry \in Registries /\ store \in Stores

Selected == load \in Deciding \ {"identity", "registry"} =>
  /\ MaySelect(snapshot)
  /\ LoadError(registry) = "none"
  /\ \E i \in DOMAIN registry.records :
        chosen = registry.records[i] /\ SameKey(registry.records[i], snapshot)
  /\ chosen.valid /\ chosen.majors

StillHolds ==
  /\ load = "registry" => MaySelect(snapshot)
  /\ load \in Deciding \ {"identity", "registry", "artifact"} =>
       chosen.variant /\ (~changed => store.file = "declared")
  /\ load \in Deciding \ {"identity", "registry", "artifact", "ledger"} =>
       (~changed => store.ledger = "claimed")
  /\ load \in Deciding \ {"identity", "registry", "artifact", "ledger", "profile"} =>
       (~changed => store.profile = "declared")

AskedInv == Inputs /\ Selected /\ StillHolds

LEMMA AskedInit == SourceInit => AskedInv
BY DEF SourceInit, AskedInv, Inputs, Selected, StillHolds, Deciding, Loading, Authorizing

\* Selection is a matter of the registry and the snapshot alone.
LEMMA SelectionStays ==
  ASSUME UNCHANGED <<snapshot, registry>>
  PROVE  /\ MaySelect(snapshot)' <=> MaySelect(snapshot)
         /\ LoadError(registry)' = LoadError(registry)
         /\ Served(registry, snapshot)' <=> Served(registry, snapshot)
BY DEF MaySelect, Declared, Pointers, LoadError, Offending, SameKey, Served

LEMMA DecideAsked ==
  ASSUME SourceInv, AskedInv, Decide
  PROVE  AskedInv'
<1> USE DEF AskedInv, Inputs, Selected, StillHolds, Deciding, Loading, Authorizing, Proceed, Refuse
<1>0. source = "none"
  BY DecideEffect DEF SourceInv, SourcePlace
<1>1. CASE CheckIdentity
  BY <1>1 DEF CheckIdentity, CoreFallback
<1>2. CASE SelectRecord
  <2>1. CASE load' = "finished"
    BY <1>2, <2>1 DEF SelectRecord
  <2>2. CASE load' # "finished"
    <3>1. LoadError(registry) = "none" /\ SelectError(registry, snapshot) = "none"
      BY <1>0, <1>2, <2>2, DecisionEnds DEF SelectRecord
    <3>2. /\ load = "registry" /\ load' = "artifact"
          /\ chosen' = registry.records[Min(Exact(registry, snapshot))]
          /\ UNCHANGED <<snapshot, registry, store, changed>>
      BY <1>2, <3>1 DEF SelectRecord
    <3>3. Min(Exact(registry, snapshot)) \in Exact(registry, snapshot) /\ chosen'.majors
      BY <3>1, <3>2, SelectedIsExact
    <3>4. /\ Min(Exact(registry, snapshot)) \in DOMAIN registry.records
          /\ SameKey(registry.records[Min(Exact(registry, snapshot))], snapshot)
      BY <3>3 DEF Exact
    <3>5. chosen'.valid
      BY <3>1, <3>2, <3>4, LoadedIsSound
    <3>6. MaySelect(snapshot)'
      BY <3>2 DEF MaySelect, Declared, Pointers
    <3>7. LoadError(registry)' = "none"
      BY <3>1, <3>2 DEF LoadError, Offending, SameKey
    <3>8. \E i \in DOMAIN registry'.records :
             chosen' = registry'.records[i] /\ SameKey(registry'.records[i], snapshot')
      BY <3>2, <3>4
    <3>9. QED
      BY <3>2, <3>3, <3>5, <3>6, <3>7, <3>8
  <2>3. QED
    BY <2>1, <2>2
<1>3. ASSUME load \in {"artifact", "ledger", "profile", "producer", "member"},
             UNCHANGED <<snapshot, registry, store, changed, chosen>>,
             \/ load' = "finished"
             \/ /\ load = "artifact" /\ load' = "ledger"
                /\ chosen.variant /\ store.file = "declared"
             \/ load = "ledger"   /\ load' = "profile"  /\ store.ledger = "claimed"
             \/ load = "profile"  /\ load' = "producer" /\ store.profile = "declared"
             \/ load = "producer" /\ load' = "member"
             \/ load = "member"   /\ load' = "gates"
      PROVE  AskedInv'
  <2>1. Selected'
    BY <1>3, SelectionStays DEF Selected
  <2>2. Inputs' /\ StillHolds'
    BY <1>3
  <2>3. QED
    BY <2>1, <2>2
<1>4. CASE ResolveArtifact
  BY <1>0, <1>3, <1>4, DecisionEnds DEF ResolveArtifact
<1>5. CASE AskLedger
  BY <1>0, <1>3, <1>5, DecisionEnds DEF AskLedger
<1>6. CASE LoadProfile
  BY <1>3, <1>6 DEF LoadProfile
<1>7. CASE NameProducer
  BY <1>3, <1>7 DEF NameProducer
<1>8. CASE ReadMember
  BY <1>3, <1>8 DEF ReadMember
<1>9. QED
  BY <1>1, <1>2, <1>4, <1>5, <1>6, <1>7, <1>8 DEF Decide

\* Nothing but load_program's own steps touches what was asked.
LEMMA AskedStep ==
  ASSUME SourceInv, AskedInv, [SourceNext]_sourceVars
  PROVE  AskedInv'
<1> USE DEF AskedInv, Inputs, StillHolds, Deciding, Loading, Authorizing, Proceed
<1>1. CASE Decide
  BY <1>1, DecideAsked
<1>2. ASSUME NEW next \in Authorizing, load \in Authorizing, Permit(next)
      PROVE  AskedInv'
  <2>1. Selected'
    BY <1>2, SelectionStays DEF Permit, Selected
  <2>2. Inputs' /\ StillHolds'
    BY <1>2 DEF Permit
  <2>3. QED
    BY <2>1, <2>2
<1>3. CASE AuthorizeRecord \/ AuthorizePath \/ AuthorizeBytes \/ AuthorizeClaim
           \/ AuthorizeProfile \/ AuthorizeRequest
  <2>1. ASSUME load' = "running" PROVE AskedInv'
    BY <2>1 DEF Selected
  <2>2. ASSUME NEW e, Deny(e) PROVE load' = "running"
    BY <2>2 DEF Deny
  <2>3. QED
    BY <1>2, <1>3, <2>1, <2>2, GateKinds
<1>4. CASE UNCHANGED loadVars
  BY <1>4, SelectionStays DEF loadVars, Selected
<1>5. CASE Answer
  BY <1>5 DEF Answer, Refuse, Selected
<1>6. CASE StoreChanges
  <2>1. Selected'
    BY <1>6, SelectionStays DEF StoreChanges, Selected
  <2>2. Inputs' /\ StillHolds'
    BY <1>6 DEF StoreChanges
  <2>3. QED
    BY <2>1, <2>2
<1>7. QED
  BY <1>1, <1>3, <1>4, <1>5, <1>6, GatesOrRest DEF sourceVars

-----------------------------------------------------------------------------
\* A refusal is what load_program met, and core's answer where it recovers.
LEMMA DecideHonest ==
  ASSUME SourceInv, AskedInv, Decide
  PROVE  RecoveryIsHonest'
<1> DEFINE Gone == \/ ~chosen.variant
                   \/ store.ledger = "none"
                   \/ store.file = "absent" /\ store.ledger = "claimed"
<1> SUFFICES ASSUME source' = "core", requested' = "auto", ~changed', ~BehindAbsence'
             PROVE  \/ ~MaySelect(snapshot)'
                    \/ LoadError(registry)' = "none" /\ ~Served(registry, snapshot)'
                    \/ Served(registry, snapshot)' /\ Gone'
  BY DEF RecoveryIsHonest
<1>1. source = "none" /\ requested = "auto" /\ requested \notin External
  BY DecideEffect DEF SourceInv, SourcePlace, Deciding, allVars, runVars, External
<1>2. UNCHANGED <<snapshot, registry, store, changed>>
  BY DEF Decide, CheckIdentity, SelectRecord, ResolveArtifact, AskLedger, LoadProfile,
         NameProducer, ReadMember
<1>3. ASSUME NEW e, RecoverOrRefuse(e)
      PROVE  e \in DOMAIN Recoverable
  BY <1>1, <1>3, RecoveryAsked
<1>4. DOMAIN Recoverable = {"NoRecord", "TargetMismatch", "FeatureMismatch", "ArtifactAbsent"}
  BY DEF Recoverable
<1>5. CASE CheckIdentity
  BY <1>1, <1>2, <1>5, SelectionStays DEF CheckIdentity, Proceed
<1>6. CASE SelectRecord
  <2>1. LoadError(registry) = "none" /\ SelectError(registry, snapshot) \in DOMAIN Recoverable
    BY <1>1, <1>3, <1>4, <1>6, ErrorKinds DEF SelectRecord, Proceed
  <2>2. SelectError(registry, snapshot) \in {"NoRecord", "TargetMismatch", "FeatureMismatch"}
    BY <2>1, <1>4, ErrorKinds
  <2>3. QED
    BY <1>2, <2>1, <2>2, NothingServes, SelectionStays
<1>7. CASE ResolveArtifact \/ AskLedger
  <2>1. /\ UNCHANGED chosen
        /\ load \in {"artifact", "ledger"}
        /\ ~chosen.variant \/ store.file = "absent" \/ store.ledger = "none"
    BY <1>1, <1>3, <1>4, <1>7 DEF ResolveArtifact, AskLedger, Proceed
  <2>3. Gone
    <3>1. store \in Stores
      BY <2>1 DEF AskedInv, Inputs, Deciding, Loading
    <3>2. ~BehindAbsence
      BY <1>2 DEF BehindAbsence
    <3>3. QED
      BY <2>1, <3>1, <3>2 DEF BehindAbsence, Stores
  <2>2. Served(registry, snapshot)
    BY <2>1 DEF AskedInv, Selected, Served, Deciding, Loading
  <2>4. QED
    BY <1>2, <2>1, <2>2, <2>3, SelectionStays
<1>8. CASE LoadProfile \/ NameProducer \/ ReadMember
  BY <1>1, <1>8 DEF LoadProfile, NameProducer, ReadMember, Proceed, Refuse
<1>9. QED
  BY <1>5, <1>6, <1>7, <1>8 DEF Decide

LEMMA HonestStep ==
  ASSUME SourceInv, AskedInv, RecoveryIsHonest, [SourceNext]_sourceVars
  PROVE  RecoveryIsHonest'
<1>1. CASE Decide
  BY <1>1, DecideHonest
<1>2. CASE AuthorizeRecord \/ AuthorizePath \/ AuthorizeBytes \/ AuthorizeClaim
           \/ AuthorizeProfile \/ AuthorizeRequest
  <2>1. source = "none"
    BY <1>2, GateKinds DEF SourceInv, SourcePlace, Deciding
  <2>2. ASSUME NEW e, Deny(e) \/ Permit(e) PROVE UNCHANGED source
    BY <2>2 DEF Deny, Permit, Proceed
  <2>3. source' = "none"
    BY <1>2, <2>1, <2>2, GateKinds DEF Proceed
  <2>4. QED
    BY <2>3 DEF RecoveryIsHonest
<1>3. CASE (HostAuthorized \/ Elsewhere) /\ UNCHANGED loadVars
  <2>1. UNCHANGED requested
    BY <1>3, HostEffect DEF SourceInv
  <2>2. QED
    BY <1>3, <2>1, SelectionStays DEF loadVars, RecoveryIsHonest, BehindAbsence
<1>4. CASE Answer
  BY <1>4 DEF Answer, Refuse, SourceInv, SourcePlace, RecoveryIsHonest
<1>5. CASE StoreChanges
  BY <1>5 DEF StoreChanges, RecoveryIsHonest
<1>6. CASE UNCHANGED sourceVars
  BY <1>6, SelectionStays DEF sourceVars, allVars, runVars, loadVars, RecoveryIsHonest, BehindAbsence
<1>7. QED
  BY <1>1, <1>2, <1>3, <1>4, <1>5, <1>6, GatesOrRest

\* For every registry, identity and store nobody changes meanwhile, core answers
\* auto only where there is nothing to run (model.rs:412-420), or the artifact is
\* absent and hides a broken ledger.
THEOREM RecoveryHidesNothing == SourceSpec => []RecoveryIsHonest
<1>1. SourceInit => RecoveryIsHonest
  BY DEF SourceInit, RecoveryIsHonest
<1>2. AskedInv /\ SourceInv /\ [SourceNext]_sourceVars => AskedInv'
  BY AskedStep
<1>3. AskedInv /\ SourceInv /\ RecoveryIsHonest /\ [SourceNext]_sourceVars => RecoveryIsHonest'
  BY HonestStep
<1>4. QED
  BY SourceInvInit, SourceInvStep, AskedInit, <1>1, <1>2, <1>3, PTL DEF SourceSpec

\* Both at once: who answered was asked, or may be stood in for.
THEOREM AnswererHolds == SourceSpec => []AnswererIsHonest
<1>1. PinnedIsNeverSubstituted /\ RecoveryIsHonest => AnswererIsHonest
  BY DEF AnswererIsHonest
<1>2. QED
  BY PinnedIsHonoured, RecoveryHidesNothing, <1>1, PTL

-----------------------------------------------------------------------------
\* What fails after the gates is never reported as one of theirs, but for the
\* errors of reading a document.
LEMMA LateRunErrors ==
  ASSUME ExecInv, RunTypes, HostAuthorized \/ Elsewhere
  PROVE  error' = error \/ error' \notin GateErrors \ DocumentErrors
<1> USE DEF Fail, Step
<1>1. ({"Workspace", "ImageNotSealed", "Spawn", "Io", "Timeout", "OutputLimitExceeded", "Crashed"}
       \union ResultErrors \union Flaws) \cap (GateErrors \ DocumentErrors) = {}
  BY RunAssumption DEF GateErrors, DocumentErrors, ResultErrors, Unread
<1>2. CASE BuildWorkspace
  BY <1>1, <1>2 DEF BuildWorkspace
<1>3. CASE Completed
  <2>1. completion # "exited" =>
          CompletionError(completion) \notin GateErrors \ DocumentErrors
    BY <1>1, <1>3, CompletionErrorKind DEF Completed
  <2>2. QED
    BY <1>3, <2>1 DEF Completed
<1>4. CASE ReadResult
  <2>1. doc.result \in Documents
    BY ContentsAreDocuments DEF RunTypes
  <2>2. ResultError(doc.result, requested) = "none"
        \/ ResultError(doc.result, requested) \notin GateErrors \ DocumentErrors
    BY <1>1, <2>1, ResultErrorKind
  <2>3. QED
    BY <1>4, <2>2 DEF ReadResult
<1>5. CASE ReadModel
  BY <1>1, <1>5 DEF ReadModel
<1>6. CASE Execute \/ Cleanup \/ Elsewhere
  BY <1>6 DEF Execute, Cleanup, Elsewhere, WriteDocument, runVars
<1>7. QED
  BY <1>2, <1>3, <1>4, <1>5, <1>6 DEF HostAuthorized

\* Only a gate of authorize() reports one, and those load_program asked too pass.
LEMMA AgreeStep ==
  ASSUME SourceInv, AskedInv, AskedTwiceAnsweredOnce, [SourceNext]_sourceVars
  PROVE  AskedTwiceAnsweredOnce'
<1> DEFINE Unasked == {"ArtifactNotExecutable", "InputRejected", "RequestRejected"}
           Gate == GateErrors \ DocumentErrors
<1>1. CASE Decide
  <2>1. UNCHANGED <<changed, error>>
    BY <1>1, DecideEffect
       DEF Decide, CheckIdentity, SelectRecord, ResolveArtifact, AskLedger, LoadProfile,
           NameProducer, ReadMember, allVars, runVars
  <2>2. QED
    BY <2>1 DEF AskedTwiceAnsweredOnce
<1>2. CASE AuthorizeRecord \/ AuthorizePath \/ AuthorizeBytes \/ AuthorizeClaim
           \/ AuthorizeProfile \/ AuthorizeRequest
  <2>1. load \in Authorizing /\ error = "none"
    BY <1>2, GateKinds DEF SourceInv, SourcePlace, Deciding
  <2>2. chosen.valid /\ chosen.majors /\ chosen.variant /\ MaySelect(snapshot)
    BY <2>1 DEF AskedInv, Selected, StillHolds, Deciding, Loading, Authorizing
  <2>3. /\ chosen.hash = snapshot.hash /\ chosen.target = snapshot.target
        /\ chosen.features = snapshot.features
    BY <2>1 DEF AskedInv, Selected, SameKey, Deciding, Loading, Authorizing
  <2>4. ~changed => /\ store.file = "declared" /\ store.ledger = "claimed"
                    /\ store.profile = "declared"
    BY <2>1 DEF AskedInv, StillHolds, Deciding, Loading, Authorizing
  <2>5. ASSUME NEW e, Deny(e)
        PROVE  error' = e /\ UNCHANGED changed
    BY <2>5 DEF Deny, Fail
  <2>6. ASSUME NEW next, Permit(next)
        PROVE  UNCHANGED <<changed, error>>
    BY <2>6 DEF Permit, allVars, runVars
  <2>7. CASE AuthorizeRecord
    BY <1>1, <2>1, <2>2, <2>3, <2>6, <2>7 DEF AuthorizeRecord, AskedTwiceAnsweredOnce
  <2>8. CASE AuthorizePath \/ AuthorizeBytes \/ AuthorizeClaim \/ AuthorizeProfile
    BY <2>1, <2>4, <2>5, <2>6, <2>8
       DEF AuthorizePath, AuthorizeBytes, AuthorizeClaim, AuthorizeProfile, AskedTwiceAnsweredOnce
  <2>9. CASE AuthorizeRequest
    BY <2>1, <2>5, <2>9 DEF AuthorizeRequest, Step, AskedTwiceAnsweredOnce, GateErrors, DocumentErrors
  <2>10. QED
    BY <1>2, <2>7, <2>8, <2>9
<1>3. CASE (HostAuthorized \/ Elsewhere) /\ UNCHANGED loadVars
  <2>1. error' = error \/ error' \notin Gate
    BY <1>3, LateRunErrors DEF SourceInv
  <2>2. QED
    BY <1>3, <2>1 DEF loadVars, AskedTwiceAnsweredOnce
<1>4. CASE Answer \/ UNCHANGED sourceVars
  BY <1>4 DEF Answer, sourceVars, allVars, runVars, loadVars, AskedTwiceAnsweredOnce
<1>5. CASE StoreChanges
  BY <1>5 DEF StoreChanges, AskedTwiceAnsweredOnce
<1>6. QED
  BY <1>1, <1>2, <1>3, <1>4, <1>5, GatesOrRest

\* load_program and authorize() ask the same questions in two places, and for every
\* registry and input they give the same answers while the store stays as it is.
THEOREM GatesAgree == SourceSpec => []AskedTwiceAnsweredOnce
<1>1. SourceInit => AskedTwiceAnsweredOnce
  BY DEF SourceInit, RunInit, AskedTwiceAnsweredOnce, GateErrors, DocumentErrors
<1>2. AskedInv /\ SourceInv /\ [SourceNext]_sourceVars => AskedInv'
  BY AskedStep
<1>3. AskedInv /\ SourceInv /\ AskedTwiceAnsweredOnce /\ [SourceNext]_sourceVars
      => AskedTwiceAnsweredOnce'
  BY AgreeStep
<1>4. QED
  BY SourceInvInit, SourceInvStep, AskedInit, <1>1, <1>2, <1>3, PTL DEF SourceSpec

-----------------------------------------------------------------------------
Refusals == Reasons \union RegistryErrors \union Errors
            \union {"PinnedBackend", "CoreModelInvalid", "ArtifactChanged", "Member"}

LoadTypes ==
  /\ snapshot \in Snapshots \union {Nothing}
  /\ registry \in Registries \union {Nothing}
  /\ store    \in Stores \union {Nothing}
  /\ changed  \in BOOLEAN
  /\ load     \in Loading \union Authorizing \union {"running", "finished"}
  /\ chosen   \in Records \union {Nothing}
  /\ source   \in {"none", "core", "adapter"}
  /\ refusal  \in Refusals

LEMMA LoadTypesInit == SourceInit => LoadTypes
BY DEF SourceInit, LoadTypes, Loading, Refusals, Errors

LEMMA RefusalKinds ==
  ASSUME LoadTypes, NEW e \in Refusals,
         RecoverOrRefuse(e) \/ Refuse(e) \/ (CoreFallback(e) /\ e \in Reasons)
  PROVE  load' = "finished" /\ source' \in {"none", "core", "adapter"} /\ refusal' \in Refusals
<1>1. ASSUME NEW r \in Reasons, CoreFallback(r)
      PROVE  load' = "finished" /\ source' \in {"none", "core", "adapter"} /\ refusal' \in Refusals
  BY <1>1 DEF CoreFallback, Refuse, LoadTypes, Refusals
<1>2. \A k \in DOMAIN Recoverable : Recoverable[k] \in Reasons
  BY DEF Recoverable, Reasons
<1>3. CASE Refuse(e) \/ Refuse("PinnedBackend")
  BY <1>3 DEF Refuse, LoadTypes, Refusals
<1>4. QED
  BY <1>1, <1>2, <1>3 DEF RecoverOrRefuse

LEMMA DecideTypes ==
  ASSUME SourceInv, AskedInv, LoadTypes, Decide
  PROVE  LoadTypes'
<1> USE RefusalKinds DEF LoadTypes, Proceed, Loading
<1>1. {"PinnedBackend", "Artifact", "ArtifactAbsent", "Profile", "ArtifactChanged", "Member"}
        \subseteq Refusals /\ {"IdentityRejected", "InternalRequested"} \subseteq Reasons
      /\ Reasons \subseteq Refusals
  BY DEF Refusals, Reasons, RegistryErrors
<1>2. CASE CheckIdentity
  BY <1>1, <1>2 DEF CheckIdentity
<1>3. CASE SelectRecord
  <2>1. /\ registry \in Registries
        /\ UNCHANGED <<snapshot, registry, store, changed>>
    BY <1>3 DEF SelectRecord, AskedInv, Inputs, Deciding
  <2>2. LoadError(registry) # "none" => LoadError(registry) \in Refusals
    BY ErrorKinds DEF Refusals, RegistryErrors
  <2>3. SelectError(registry, snapshot) # "none" => SelectError(registry, snapshot) \in Refusals
    BY ErrorKinds DEF Refusals, RegistryErrors
  <2>4. SelectError(registry, snapshot) = "none" =>
          registry.records[Min(Exact(registry, snapshot))] \in Records
    <3> SUFFICES ASSUME SelectError(registry, snapshot) = "none"
                 PROVE  registry.records[Min(Exact(registry, snapshot))] \in Records
      OBVIOUS
    <3>1. Min(Exact(registry, snapshot)) \in DOMAIN registry.records
      BY <2>1, SelectedIsExact DEF Exact
    <3>2. registry.records[Min(Exact(registry, snapshot))]
            \in {registry.records[i] : i \in DOMAIN registry.records}
      BY <3>1
    <3>3. QED
      BY <2>1, <3>2 DEF Records
  <2>5. QED
    BY <1>3, <2>1, <2>2, <2>3, <2>4 DEF SelectRecord
<1>4. CASE ResolveArtifact \/ AskLedger
  BY <1>1, <1>4 DEF ResolveArtifact, AskLedger
<1>5. CASE LoadProfile \/ NameProducer
  BY <1>1, <1>5 DEF LoadProfile, NameProducer
<1>6. CASE ReadMember
  BY <1>1, <1>6 DEF ReadMember, Authorizing
<1>7. QED
  BY <1>2, <1>3, <1>4, <1>5, <1>6 DEF Decide

LEMMA LoadTypesStep ==
  ASSUME SourceInv, AskedInv, LoadTypes, [SourceNext]_sourceVars
  PROVE  LoadTypes'
<1> USE DEF LoadTypes, Proceed
<1>1. CASE Decide
  BY <1>1, DecideTypes
<1>2. CASE AuthorizeRecord \/ AuthorizePath \/ AuthorizeBytes \/ AuthorizeClaim
           \/ AuthorizeProfile \/ AuthorizeRequest
  <2>1. ASSUME NEW next \in Authorizing, Permit(next) PROVE LoadTypes'
    BY <2>1 DEF Permit
  <2>2. ASSUME NEW e, Deny(e) PROVE LoadTypes'
    BY <2>2 DEF Deny
  <2>3. QED
    BY <1>2, <2>1, <2>2, GateKinds
<1>3. CASE Answer
  BY <1>3 DEF Answer, Refuse, Refusals, SourceInv, RunTypes
<1>4. CASE StoreChanges
  BY <1>4 DEF StoreChanges
<1>5. CASE UNCHANGED loadVars
  BY <1>5 DEF loadVars
<1>6. QED
  BY <1>1, <1>2, <1>3, <1>4, <1>5, GatesOrRest DEF sourceVars

\* The variables of a load stay in their domains, and the one record selected is
\* one of the registry's, for every registry.
THEOREM SourceTypeCorrect == SourceSpec => []SourceTypeOK
<1>1. SourceInv /\ LoadTypes => SourceTypeOK
  BY DEF SourceInv, ExecInv, TypeInv, RunTypes, RunTypeOK, LoadTypes, Refusals, SourceTypeOK
<1>2. AskedInv /\ SourceInv /\ [SourceNext]_sourceVars => AskedInv'
  BY AskedStep
<1>3. AskedInv /\ SourceInv /\ LoadTypes /\ [SourceNext]_sourceVars => LoadTypes'
  BY LoadTypesStep
<1>4. QED
  BY SourceInvInit, SourceInvStep, AskedInit, LoadTypesInit, <1>1, <1>2, <1>3, PTL DEF SourceSpec
=============================================================================
