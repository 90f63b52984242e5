--------------------------- MODULE ContainedExec ----------------------------
(***************************************************************************)
(* ExecImage::prepare and exec::run of crates/flutterdec-adapter: the child *)
(* AdapterExec follows is the one ChildSetup made, or there is none.        *)
(***************************************************************************)
EXTENDS AdapterExec, ChildSetup

containedVars == <<execVars, setupVars>>

ContainedInit == ExecInit /\ SetupInit

\* Neither the image nor the child is there yet.
SetUp ==
  /\ SetupNext
  /\ setup' # "running" /\ (setup' = "refused" => setup = "image")
  /\ UNCHANGED execVars

\* The status pipe, the fork or the exec was refused: HostError::Spawn.
NotSpawned ==
  /\ Prepare \/ ForkChild \/ Become
  /\ setup' = "refused"
  /\ Spawn
  /\ completion' = "refused"

Spawned ==
  /\ Become
  /\ setup' = "running"
  /\ Spawn
  /\ proc'[Leader] = "running"
  /\ record' = written

Runs ==
  /\ pc # "spawn"
  /\ ExecNext
  /\ UNCHANGED setupVars

ContainedNext == SetUp \/ NotSpawned \/ Spawned \/ Runs

ContainedSpec == ContainedInit /\ [][ContainedNext]_containedVars
=============================================================================
