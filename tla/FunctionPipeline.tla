-------------------------- MODULE FunctionPipeline --------------------------
(***************************************************************************)
(* From the functions of a model to the graphs the decompiler is given      *)
(* (run_decompile of crates/flutterdec-core, pipeline/runners.rs): selected,  *)
(* decoded, split if that is asked for, built, and cut after the calls that  *)
(* do not return.                                                           *)
(***************************************************************************)
EXTENDS FunctionSelection, CallPruning, ApkStartup

\* The functions of a model have ids of their own and begin with their code (what
\* decode_function reads, validate having accepted the model); there is one target
\* and one cap at most.
Function(c) ==
  /\ c.id \in Nat
  /\ Decodes(c) => CodeOK(c.code) /\ c.entry = Min(DOMAIN c.code)

ASSUME RequestsAssumption ==
  \A r \in Requests :
    /\ Len(r.functions) \in Nat /\ DOMAIN r.functions = 1 .. Len(r.functions)
    /\ \A i \in DOMAIN r.functions : Function(r.functions[i])
    /\ \A i, j \in DOMAIN r.functions : r.functions[i].id = r.functions[j].id => i = j
    /\ \A x, y \in r.target : x = y
    /\ r.max \subseteq Nat /\ \A x, y \in r.max : x = y

pipelineVars == <<selectVars, vars>>

PipelineInit == SelectInit /\ PruneInit

\* decode_function keeps of a function what the rest of the run reads.
Disassembly(c) == [id |-> c.id, declared |-> TRUE, entry |-> c.entry, code |-> c.code]

GiveUp == Refuse /\ UNCHANGED vars

SelectAndSplit ==
  /\ Disassemble
  /\ LET given == [i \in DOMAIN chosen' |-> Disassembly(request.functions[chosen'[i]])] IN
     IF request.split THEN SplitRecords(given) ELSE KeepRecords(given)
  /\ UNCHANGED <<functions, pruned, raising, prune>>

PipelineNext ==
  \/ GiveUp
  \/ SelectAndSplit
  \/ PruneNext /\ UNCHANGED selectVars

PipelineSpec == PipelineInit /\ [][PipelineNext]_pipelineVars

-----------------------------------------------------------------------------
(* The run, from the APK on.  The names of a model hint at all that its APK  *)
(* may hint at, so a request's start-up categories do not hang on it.        *)

runVars == <<startupVars, pipelineVars>>

RunInit == StartupInit /\ PipelineInit

RunNext ==
  \/ StartupNext /\ UNCHANGED pipelineVars
  \/ startup = "done" /\ PipelineNext /\ UNCHANGED startupVars

RunSpec == RunInit /\ [][RunNext]_runVars
=============================================================================
