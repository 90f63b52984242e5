----------------------------- MODULE AdapterRun -----------------------------
(***************************************************************************)
(* run_adapter of crates/flutterdec-adapter/src/host.rs on Linux: the gates *)
(* of authorize(), the private workspace, the execution of AdapterExec, and *)
(* the two documents read from the workspace afterwards.  A model is told   *)
(* apart by the error the host answers it with, a result by its fields.     *)
(***************************************************************************)
EXTENDS AdapterExec

CONSTANTS
  Requests,  \* the backends that may be asked for
  Results,   \* the results an adapter may write, those no host can parse among them
  Flaws      \* the ways a model may be wrong

VARIABLES
  stage,      \* where run_adapter is
  error,      \* the HostError it returns, "none" for an accepted model
  workspace,  \* the invocation directory exists
  doc,        \* result.json and the model, as the tree left them
  requested,  \* the backend asked for
  resolved    \* the backend that answered, as the result names it

runVars == <<stage, error, workspace, doc, requested, resolved>>
allVars == <<execVars, runVars>>

(***************************************************************************)
(* The result document of crates/flutterdec-adapter/src/protocol.rs.  A     *)
(* document that cannot be read at all has the error of reading it for its  *)
(* status: read_bounded's own when it is no file, too large or unreadable.  *)
(***************************************************************************)
Backends == {"internal", "blutter", "r2flutter"}

Unread == {"NoResult", "Io", "MalformedDocument", "DocumentTooLarge"}

Documents ==
  [status   : {"ok", "unsupported", "failed"} \union Unread,
   model    : {"none", "requested", "elsewhere"},
   error    : BOOLEAN,
   backend  : Backends \union {"none"},
   fallback : BOOLEAN]

\* result.json does not exist.
NoResult ==
  [status |-> "NoResult", model |-> "none", error |-> FALSE, backend |-> "none", fallback |-> FALSE]

ResultErrors == Unread \union {"ResultMismatch", "AdapterFailed", "ModelPathMismatch"}

\* AdapterResult::validate: exactly an ok result has a model, exactly the others an
\* error, and exactly an ok result says which backend it was.
Consistent(d) ==
  /\ d.status = "ok" <=> d.model # "none"
  /\ d.status = "ok" <=> ~d.error
  /\ d.status = "ok" <=> d.backend # "none"

\* Mutant: any backend may answer for the one asked for.
AnswersAnyone(d, asked) == asked = "auto" \/ ~d.fallback

\* validate_against: who was asked for by name answered, and did not fall back.
Answers(d, asked) ==
  asked = "auto" \/ (d.backend \in {asked, "none"} /\ ~d.fallback)

\* The checks of run_adapter, in their order.
ResultError(d, asked) ==
  IF d.status \in Unread        THEN d.status
  ELSE IF ~Consistent(d)        THEN "MalformedDocument"
  ELSE IF ~Answers(d, asked)    THEN "ResultMismatch"
  ELSE IF d.status # "ok"       THEN "AdapterFailed"
  ELSE IF d.model = "elsewhere" THEN "ModelPathMismatch"
  ELSE "none"

(***************************************************************************)
(* authorize(), gate by gate in the order of the code: the errors each can  *)
(* end the run with.  Reading the artifact is bounded like a document and   *)
(* reports like one.  OutputHandleRejected is not here: both handles are    *)
(* constants of the host and differ.                                        *)
(***************************************************************************)
DocumentErrors == {"Io", "MalformedDocument", "DocumentTooLarge"}

GateErrors ==
  {"IdentityRejected", "RecordInvalid", "RecordDigestMismatch", "UnsupportedMajors",
   "IdentityRecordMismatch", "TargetMismatch", "FeatureMismatch",
   "VariantNotInRecord", "HostVariantMismatch",
   "ArtifactPathRejected", "ArtifactNotExecutable"}
  \union DocumentErrors \union
  {"ArtifactDigestMismatch", "NotInstalled", "ProducerMismatch", "ProfileRejected",
   "BindingMismatch", "InputRejected", "RequestRejected"}

\* is_pre_spawn.
PreSpawn == (GateErrors \ DocumentErrors) \union {"OutputHandleRejected", "ImageNotSealed"}

\* How run() ended, as the error it becomes; an exited child is not one yet.
CompletionError(c) ==
  CASE c = "refused"                        -> "Spawn"
    [] c = "io"                             -> "Io"
    [] c = "timeout"                        -> "Timeout"
    [] c \in {"stdoutLimit", "stderrLimit"} -> "OutputLimitExceeded"
    [] c = "signalled"                      -> "Crashed"

\* What the tree may leave behind.
ResultContents == {NoResult} \union Results
ModelContents  == {"absent", "good"} \union Flaws

Errors == {"none", "Workspace", "ImageNotSealed", "Spawn", "Timeout",
           "OutputLimitExceeded", "Crashed"}
          \union GateErrors \union ResultErrors \union Flaws

ASSUME RunAssumption ==
  /\ Requests \subseteq {"auto"} \union Backends
  /\ Results \subseteq Documents
  /\ Flaws \subseteq {"MalformedDocument", "DocumentTooLarge", "ModelRejected"}

RunTypeOK ==
  /\ ExecTypeOK
  /\ stage     \in {"authorize", "workspace", "exec", "result", "model", "cleanup", "finished"}
  /\ error     \in Errors
  /\ workspace \in BOOLEAN
  /\ doc       \in [result : ResultContents, model : ModelContents]
  /\ requested \in Requests
  /\ resolved  \in Backends \union {"none"}

RunInit ==
  /\ ExecInit
  /\ stage     = "authorize"
  /\ error     = "none"
  /\ workspace = FALSE
  /\ doc       = [result |-> NoResult, model |-> "absent"]
  /\ requested \in Requests
  /\ resolved  = "none"

\* The run is over with this error: its workspace is dropped next.
Fail(e) == stage' = "cleanup" /\ error' = e
Step(next) == stage' = next /\ UNCHANGED error

Authorize ==
  /\ stage = "authorize"
  /\ Step("workspace") \/ \E e \in GateErrors : Fail(e)
  /\ UNCHANGED <<execVars, workspace, doc, requested, resolved>>

\* Workspace::create, the input files and the request, the sealed image, and the
\* rendezvous: each may fail with the directory there or not.
BuildWorkspace ==
  /\ stage = "workspace"
  /\ \/ Step("exec") /\ workspace' = TRUE
     \/ Fail("Workspace") /\ workspace' \in BOOLEAN
     \/ Fail("ImageNotSealed") /\ workspace' = TRUE
  /\ UNCHANGED <<execVars, doc, requested, resolved>>

Execute ==
  /\ stage = "exec"
  /\ Host
  /\ UNCHANGED runVars

\* A member of the tree replaces a document.
WriteDocument(p) ==
  /\ Running(p)
  /\ workspace
  /\ \/ \E c \in ResultContents : doc' = [doc EXCEPT !.result = c]
     \/ \E c \in ModelContents : doc' = [doc EXCEPT !.model = c]
  /\ UNCHANGED <<execVars, stage, error, workspace, requested, resolved>>

\* Only a child that exited, with whatever code, is asked for its result.
Completed ==
  /\ stage = "exec"
  /\ pc = "returned"
  /\ IF completion = "exited" THEN Step("result") ELSE Fail(CompletionError(completion))
  /\ UNCHANGED <<execVars, workspace, doc, requested, resolved>>

ReadResult ==
  /\ stage = "result"
  /\ LET e == ResultError(doc.result, requested) IN
       IF e = "none"
       THEN Step("model") /\ resolved' = doc.result.backend
       ELSE Fail(e) /\ UNCHANGED resolved
  /\ UNCHANGED <<execVars, workspace, doc, requested>>

ReadModel ==
  /\ stage = "model"
  /\ \/ doc.model = "absent" /\ Fail("Io")
     \/ doc.model = "good"   /\ Step("cleanup")
     \/ doc.model \in Flaws  /\ Fail(doc.model)
  /\ UNCHANGED <<execVars, workspace, doc, requested, resolved>>

\* Workspace's Drop runs on every way out.
Cleanup ==
  /\ stage = "cleanup"
  /\ workspace' = FALSE
  /\ Step("finished")
  /\ UNCHANGED <<execVars, doc, requested, resolved>>

HostAuthorized ==
  BuildWorkspace \/ Execute \/ Completed \/ ReadResult \/ ReadModel \/ Cleanup

HostRun == Authorize \/ HostAuthorized

Elsewhere ==
  \/ \E p \in Procs : WriteDocument(p)
  \/ /\ Tree \/ Expire \/ Reuse \/ \E s \in Streams : Drain(s)
     /\ UNCHANGED runVars

RunNext == HostRun \/ Elsewhere

RunSpec == RunInit /\ [][RunNext]_allVars

-----------------------------------------------------------------------------
(* Properties.                                                              *)

\* A pre-spawn refusal guarantees that no child existed and leaves no directory
\* behind (HostError::is_pre_spawn).
PreSpawnHasNoChild ==
  stage = "finished" /\ error \in PreSpawn => proc[Leader] = "unborn" /\ ~workspace

\* A model is accepted only from a child that ended on its own, and only while
\* what was read is what the workspace holds: the sweep left nobody to replace
\* the result or the model between the two reads.  A backend that was asked for
\* by name is the one that answered.
AcceptedIsWhole ==
  stage = "finished" /\ error = "none" =>
    /\ fate = "exit" /\ ~terminated
    /\ doc.result.status = "ok" /\ doc.result.model = "requested"
    /\ doc.model = "good"
    /\ resolved = doc.result.backend
    /\ requested \in {"auto", resolved}
=============================================================================
