---------------------------- MODULE AdapterStore ----------------------------
(***************************************************************************)
(* The writable adapter store of crates/flutterdec-adapter/src/store.rs:    *)
(* concurrent `adapter install` processes that stage, publish and roll back *)
(* an artifact and the ledger (store.json) under one exclusive flock.       *)
(*                                                                          *)
(* The store directory is `artifact` (one file per declared path), `ledger` *)
(* and `stateOK` (store.json), `tmp` (staged files) and `lock` (the flock). *)
(* Everything else is a local of one install() call.  The host is fixed, so *)
(* the ledger key (snapshot hash, host OS, host architecture) is the hash.  *)
(***************************************************************************)
EXTENDS Naturals, FiniteSets

CONSTANTS
  Installers,    \* operating-system process ids that run `adapter install`
  Records,       \* the compatibility records of the registry
  Unsupported,   \* records whose majors or host variant this build refuses
  Hashes, Targets, Features, Paths, Digests,
  Sources,       \* where the bytes come from: the label the ledger keeps
  Faults,        \* what may happen: "io" an operation fails and says so, "read" the
                 \* check of what is installed cannot read it, "drop" a temporary
                 \* cannot be removed, "crash", "tamper" an edit by hand
  NoEntry,       \* the ledger has no row for a hash
  NoProc         \* nobody holds the flock

(***************************************************************************)
(* File contents are told apart by digest.  Junk is a regular file whose    *)
(* bytes no record declares, Directory stands for anything that is not a    *)
(* regular file, NoFile for an absent one.                                  *)
(***************************************************************************)
NoFile    == "no-file"
Junk      == "junk"
Directory == "directory"
Bytes     == Digests \union {Junk}
Contents  == Bytes \union {NoFile, Directory}
File      == [bytes : Contents, exec : BOOLEAN]

AnyTarget == "any-target"
StateFile == "store.json"

ASSUME RecordsAssumption ==
  /\ Records \subseteq [hash : Hashes, target : Targets, features : Features,
                        path : Paths, sha256 : Digests]
  /\ \A r, s \in Records :
        r.hash = s.hash /\ r.target = s.target /\ r.features = s.features => r = s
  /\ Unsupported \subseteq Records

ASSUME NamesAssumption ==
  /\ {NoFile, Junk, Directory} \cap Digests = {}
  /\ NoProc \notin Installers
  /\ AnyTarget \notin Targets
  /\ StateFile \notin Paths
  /\ Faults \subseteq {"io", "read", "drop", "crash", "tamper"}

Entry(r, s) == [record |-> r, source |-> s]
Entries     == [record : Records, source : Sources]

ASSUME NoEntryAssumption == NoEntry \notin Entries

Ledgers == [Hashes -> Entries \union {NoEntry}]

(***************************************************************************)
(* A temporary name is .<dest>.tmp-<pid>-<counter>: the counter restarts at *)
(* 0 in every process, so a process that reuses a pid reuses the names.     *)
(***************************************************************************)
TempName(p, n, d) == [pid |-> p, n |-> n, dest |-> d]
TempNames         == [pid : Installers, n : 0 .. 2, dest : Paths \union {StateFile}]

VARIABLES
  artifact,   \* the file at each artifact path
  ledger,     \* the rows of store.json; an absent file is an empty ledger
  stateOK,    \* FALSE when store.json does not parse
  tmp,        \* names of the staged files that exist
  lock,       \* the process that holds the flock
  pc,         \* where each install() call is
  req,        \* the ledger entry this install wants: its record and source
  loaded,     \* `state` as load_state returned it
  previous,   \* previous_artifact: the bytes captured before replacing
  staged,     \* the Staged values alive in this call
  outcome,    \* what the last call of this process reported
  before      \* history: the artifact files and ledger when the lock was acquired

storeVars == <<artifact, ledger, stateOK, tmp, lock>>
callVars  == <<pc, req, loaded, previous, staged, outcome, before>>
vars      == <<artifact, ledger, stateOK, tmp, lock,
               pc, req, loaded, previous, staged, outcome, before>>

Idle     == {"idle", "lock"}
Critical == {"load", "decide", "capture", "stageArtifact", "stageState",
             "publishArtifact", "publishState", "restore", "republish", "unwind"}
Outcomes == {"none", "refused", "installed", "already", "failed",
             "rollbackFailed", "crashed"}

TypeOK ==
  /\ artifact \in [Paths -> File]
  /\ ledger   \in Ledgers
  /\ stateOK  \in BOOLEAN
  /\ tmp      \in SUBSET TempNames
  /\ lock     \in Installers \union {NoProc}
  /\ pc       \in [Installers -> Idle \union Critical]
  /\ req      \in [Installers -> Entries \union {NoEntry}]
  /\ loaded   \in [Installers -> Ledgers]
  /\ previous \in [Installers -> Contents]
  /\ staged   \in [Installers -> SUBSET TempNames]
  /\ outcome  \in [Installers -> Outcomes]
  /\ before   \in [Installers -> [artifact : [Paths -> File], ledger : Ledgers]]

-----------------------------------------------------------------------------
(* Checks that read nothing but their arguments.                            *)

\* select_record: the records for the hash, narrowed by --target when given.
Candidates(hash, target) ==
  {r \in Records : r.hash = hash /\ target \in {AnyTarget, r.target}}

\* The file install publishes for a record.
Published(r) == [bytes |-> r.sha256, exec |-> TRUE]

\* artifact_matches: present, regular, executable and the declared bytes.
Matches(f, r) == f = Published(r)

Absent == [bytes |-> NoFile, exec |-> FALSE]

EmptyLedger == [h \in Hashes |-> NoEntry]

EmptyStore == [artifact |-> [q \in Paths |-> Absent], ledger |-> EmptyLedger]

InitCall ==
  /\ pc       = [p \in Installers |-> "idle"]
  /\ req      = [p \in Installers |-> NoEntry]
  /\ loaded   = [p \in Installers |-> EmptyLedger]
  /\ previous = [p \in Installers |-> NoFile]
  /\ staged   = [p \in Installers |-> {}]
  /\ outcome  = [p \in Installers |-> "none"]
  /\ before   = [p \in Installers |-> EmptyStore]

\* A store nothing was ever installed into.
Init ==
  /\ artifact = EmptyStore.artifact
  /\ ledger   = EmptyLedger
  /\ stateOK  = TRUE
  /\ tmp      = {}
  /\ lock     = NoProc
  /\ InitCall

-----------------------------------------------------------------------------
(* Control: moving through install(), leaving it, and what a leaf keeps.    *)

Goto(p, l) == pc' = [pc EXCEPT ![p] = l]

\* The call is over: its locals are gone and `result` is what it reported.
Return(p, result) ==
  /\ pc'       = [pc EXCEPT ![p] = "idle"]
  /\ req'      = [req EXCEPT ![p] = NoEntry]
  /\ loaded'   = [loaded EXCEPT ![p] = EmptyLedger]
  /\ previous' = [previous EXCEPT ![p] = NoFile]
  /\ staged'   = [staged EXCEPT ![p] = {}]
  /\ before'   = [before EXCEPT ![p] = EmptyStore]
  /\ outcome'  = [outcome EXCEPT ![p] = result]

\* `?` under the lock: the result is decided and the locals start to drop.
Leave(p, result) ==
  /\ Goto(p, "unwind")
  /\ outcome' = [outcome EXCEPT ![p] = result]

MayFail == "io" \in Faults

(***************************************************************************)
(* install(): everything decided before the lock.  The request is refused   *)
(* unless exactly one record matches, this build supports it, its profile   *)
(* verifies and the source bytes are the declared ones.                     *)
(***************************************************************************)
Begin(p) ==
  /\ pc[p] = "idle"
  /\ \E hash \in Hashes, target \in Targets \union {AnyTarget}, source \in Sources,
        bytes \in Bytes, profileOK \in BOOLEAN :
       LET found == Candidates(hash, target)
           authorized == {r \in found : /\ found = {r}
                                        /\ r \notin Unsupported
                                        /\ profileOK
                                        /\ bytes = r.sha256}
       IN \/ /\ authorized = {}
             /\ outcome' = [outcome EXCEPT ![p] = "refused"]
             /\ UNCHANGED <<pc, req>>
          \/ \E r \in authorized :
             /\ Goto(p, "lock")
             /\ req' = [req EXCEPT ![p] = Entry(r, source)]
             /\ outcome' = [outcome EXCEPT ![p] = "none"]
  /\ UNCHANGED <<storeVars, loaded, previous, staged, before>>

\* The injected failure before the lock, or no store directory to be had.
FailBeforeLock(p) ==
  /\ pc[p] = "lock"
  /\ MayFail
  /\ Return(p, "failed")
  /\ UNCHANGED storeVars

\* Mutant: a try-lock whose failure is ignored.
AcquireLockUnchecked(p) ==
  /\ pc[p] = "lock"
  /\ lock' = p
  /\ Goto(p, "load")
  /\ before' = [before EXCEPT ![p] = [artifact |-> artifact, ledger |-> ledger]]
  /\ UNCHANGED <<artifact, ledger, stateOK, tmp, req, loaded, previous, staged, outcome>>

\* StoreLock::acquire blocks until the flock is free.
AcquireLock(p) ==
  /\ pc[p] = "lock"
  /\ lock = NoProc
  /\ lock' = p
  /\ Goto(p, "load")
  /\ before' = [before EXCEPT ![p] = [artifact |-> artifact, ledger |-> ledger]]
  /\ UNCHANGED <<artifact, ledger, stateOK, tmp, req, loaded, previous, staged, outcome>>

\* destination() refuses a path that is not a regular file, load_state() a
\* ledger that does not parse; an I/O error ends either.
Load(p) ==
  /\ pc[p] = "load"
  /\ \/ /\ \/ artifact[req[p].record.path].bytes = Directory
           \/ ~stateOK
           \/ MayFail
        /\ Leave(p, "failed")
        /\ UNCHANGED loaded
     \/ /\ artifact[req[p].record.path].bytes # Directory
        /\ stateOK
        /\ loaded' = [loaded EXCEPT ![p] = ledger]
        /\ Goto(p, "decide")
        /\ UNCHANGED outcome
  /\ UNCHANGED <<storeVars, req, previous, staged, before>>

\* Mutant: nothing is ever already installed.
DecideNever(p) ==
  /\ pc[p] = "decide"
  /\ Goto(p, "capture")
  /\ UNCHANGED <<storeVars, req, loaded, previous, staged, outcome, before>>

\* Mutant: the row alone decides, and the bytes on disk are not looked at.
DecideByRow(p) ==
  /\ pc[p] = "decide"
  /\ IF loaded[p][req[p].record.hash] = req[p]
     THEN Leave(p, "already")
     ELSE Goto(p, "capture") /\ UNCHANGED outcome
  /\ UNCHANGED <<storeVars, req, loaded, previous, staged, before>>

\* What the lock holder has loaded and finds on disk is what it wants.
Holds(p) ==
  LET want == req[p] IN
  /\ loaded[p][want.record.hash] = want
  /\ Matches(artifact[want.record.path], want.record)

\* Already installed: the row is the wanted one and the bytes on disk are too.  The
\* check asks artifact_matches(..).is_ok(), so a file it cannot read is installed again.
Decide(p) ==
  /\ pc[p] = "decide"
  /\ \/ Holds(p) /\ Leave(p, "already")
     \/ /\ Holds(p) => "read" \in Faults
        /\ Goto(p, "capture")
        /\ UNCHANGED outcome
  /\ UNCHANGED <<storeVars, req, loaded, previous, staged, before>>

\* The injected failure before staging, then fs::read of what is to be replaced.
Capture(p) ==
  /\ pc[p] = "capture"
  /\ \/ /\ MayFail
        /\ Leave(p, "failed")
        /\ UNCHANGED previous
     \/ /\ previous' = [previous EXCEPT ![p] = artifact[req[p].record.path].bytes]
        /\ Goto(p, "stageArtifact")
        /\ UNCHANGED outcome
  /\ UNCHANGED <<storeVars, req, loaded, staged, before>>

\* Mutant: Staged is built after the open, so a taken name stays taken.
StageAfterOpen(p, name, next, failed) ==
  \/ /\ name \notin tmp
     /\ tmp' = tmp \union {name}
     /\ staged' = [staged EXCEPT ![p] = @ \union {name}]
     /\ Goto(p, next)
     /\ UNCHANGED outcome
  \/ /\ name \in tmp \/ MayFail
     /\ Leave(p, failed)
     /\ UNCHANGED <<tmp, staged>>

\* Staged::drop is `let _ = fs::remove_file`: a removal that fails leaves the file
\* under its name, and nobody is told.
Drop(names) ==
  \E kept \in SUBSET names :
    /\ kept # {} => "drop" \in Faults
    /\ tmp' = (tmp \ names) \union kept

(***************************************************************************)
(* Staged::write: create_new, write, sync.  The Staged value exists before  *)
(* the open, so when the name is taken its Drop removes the file that held  *)
(* it; after a failed write or sync the Drop removes the new file.          *)
(***************************************************************************)
Stage(p, name, next, failed) ==
  \/ /\ name \notin tmp
     /\ tmp' = tmp \union {name}
     /\ staged' = [staged EXCEPT ![p] = @ \union {name}]
     /\ Goto(p, next)
     /\ UNCHANGED outcome
  \/ /\ name \in tmp \/ MayFail
     /\ Drop({name})
     /\ Leave(p, failed)
     /\ UNCHANGED staged

ArtifactTemp(p) == TempName(p, 0, req[p].record.path)
StateTemp(p)    == TempName(p, 1, StateFile)
FourthTemp(p)   == TempName(p, 3, req[p].record.path)   \* Mutant of RestoreTemp
RestoreTemp(p)  == TempName(p, 2, req[p].record.path)

StageArtifact(p) ==
  /\ pc[p] = "stageArtifact"
  /\ Stage(p, ArtifactTemp(p), "stageState", "failed")
  /\ UNCHANGED <<artifact, ledger, stateOK, lock, req, loaded, previous, before>>

StageState(p) ==
  /\ pc[p] = "stageState"
  /\ Stage(p, StateTemp(p), "publishArtifact", "failed")
  /\ UNCHANGED <<artifact, ledger, stateOK, lock, req, loaded, previous, before>>

\* Staged::publish: the rename, after which the name is no longer staged.
Rename(p, name) ==
  /\ tmp' = tmp \ {name}
  /\ staged' = [staged EXCEPT ![p] = @ \ {name}]

\* The injected failure before the artifact rename, or the rename itself.
PublishArtifact(p) ==
  LET r == req[p].record IN
  /\ pc[p] = "publishArtifact"
  /\ \/ /\ MayFail
        /\ Leave(p, "failed")
        /\ UNCHANGED <<artifact, tmp, staged>>
     \/ /\ artifact' = [artifact EXCEPT ![r.path] = Published(r)]
        /\ Rename(p, ArtifactTemp(p))
        /\ Goto(p, "publishState")
        /\ UNCHANGED outcome
  /\ UNCHANGED <<ledger, stateOK, lock, req, loaded, previous, before>>

\* The ledger rename; when it fails the staged ledger is dropped and the
\* artifact is put back.
PublishState(p) ==
  /\ pc[p] = "publishState"
  /\ \/ /\ ledger' = [loaded[p] EXCEPT ![req[p].record.hash] = req[p]]
        /\ Rename(p, StateTemp(p))
        /\ Leave(p, "installed")
     \/ /\ MayFail
        /\ Drop({StateTemp(p)})
        /\ staged' = [staged EXCEPT ![p] = @ \ {StateTemp(p)}]
        /\ Goto(p, "restore")
        /\ UNCHANGED <<ledger, outcome>>
  /\ UNCHANGED <<artifact, stateOK, lock, req, loaded, previous, before>>

\* Mutant: a rollback always removes the artifact.
RestoreByRemoving(p) ==
  /\ pc[p] = "restore"
  /\ artifact' = [artifact EXCEPT ![req[p].record.path] = Absent]
  /\ Leave(p, "failed")
  /\ UNCHANGED <<ledger, stateOK, tmp, lock, req, loaded, previous, staged, before>>

\* restore_artifact: remove a file that was not there, or stage the old bytes.
Restore(p) ==
  LET path == req[p].record.path IN
  /\ pc[p] = "restore"
  /\ IF previous[p] = NoFile
     THEN /\ \/ /\ artifact' = [artifact EXCEPT ![path] = Absent]
                /\ Leave(p, "failed")
             \/ /\ MayFail
                /\ Leave(p, "rollbackFailed")
                /\ UNCHANGED artifact
          /\ UNCHANGED <<tmp, staged>>
     ELSE /\ Stage(p, RestoreTemp(p), "republish", "rollbackFailed")
          /\ UNCHANGED artifact
  /\ UNCHANGED <<ledger, stateOK, lock, req, loaded, previous, before>>

\* The old bytes go back under ARTIFACT_MODE, whatever mode they had.
Republish(p) ==
  /\ pc[p] = "republish"
  /\ \/ /\ artifact' = [artifact EXCEPT ![req[p].record.path] =
                          [bytes |-> previous[p], exec |-> TRUE]]
        /\ Rename(p, RestoreTemp(p))
        /\ Leave(p, "failed")
     \/ /\ MayFail
        /\ Leave(p, "rollbackFailed")
        /\ UNCHANGED <<artifact, tmp, staged>>
  /\ UNCHANGED <<ledger, stateOK, lock, req, loaded, previous, before>>

\* Mutant: nothing removes a staged file that was not published.
UnwindWithoutDrop(p) ==
  /\ pc[p] = "unwind"
  /\ lock' = NoProc
  /\ Return(p, outcome[p])
  /\ UNCHANGED <<artifact, ledger, stateOK, tmp>>

\* Mutant: the lock is not released.
UnwindKeepingLock(p) ==
  /\ pc[p] = "unwind"
  /\ Drop(staged[p])
  /\ Return(p, outcome[p])
  /\ UNCHANGED <<artifact, ledger, stateOK, lock>>

\* The remaining Staged values drop, then the lock, declared first, drops last.
Unwind(p) ==
  /\ pc[p] = "unwind"
  /\ Drop(staged[p])
  /\ lock' = NoProc
  /\ Return(p, outcome[p])
  /\ UNCHANGED <<artifact, ledger, stateOK>>

\* The process dies: no Drop runs and the kernel releases its flock.
Crash(p) ==
  /\ "crash" \in Faults
  /\ pc[p] # "idle"
  /\ lock' = IF lock = p THEN NoProc ELSE lock
  /\ Return(p, "crashed")
  /\ UNCHANGED <<artifact, ledger, stateOK, tmp>>

(***************************************************************************)
(* Someone edits the store between two installs: replaces, removes or       *)
(* chmods an artifact, breaks store.json, or removes it.  An edit while an  *)
(* install holds the lock is left out: nothing in the code defends it.      *)
(***************************************************************************)
Tamper ==
  /\ "tamper" \in Faults
  /\ lock = NoProc
  /\ \/ /\ \E q \in Paths, f \in File :
             /\ f.exec => f.bytes \in Bytes
             /\ artifact' = [artifact EXCEPT ![q] = f]
        /\ UNCHANGED <<ledger, stateOK>>
     \/ /\ stateOK' = FALSE
        /\ UNCHANGED <<artifact, ledger>>
     \/ /\ stateOK' = TRUE
        /\ ledger' = EmptyLedger
        /\ UNCHANGED artifact
  /\ UNCHANGED <<tmp, lock, callVars>>

Install(p) ==
  \/ AcquireLock(p) \/ Load(p) \/ Decide(p) \/ Capture(p)
  \/ StageArtifact(p) \/ StageState(p)
  \/ PublishArtifact(p) \/ PublishState(p)
  \/ Restore(p) \/ Republish(p) \/ Unwind(p)

Next ==
  \/ \E p \in Installers : Begin(p) \/ FailBeforeLock(p) \/ Install(p) \/ Crash(p)
  \/ Tamper

Spec == Init /\ [][Next]_vars

(***************************************************************************)
(* A running install is scheduled until it returns; the kernel hands a      *)
(* released flock to each waiter in turn.  Nobody has to start an install,  *)
(* fail, crash or edit the store.                                           *)
(***************************************************************************)
Fairness == \A p \in Installers : WF_vars(Install(p)) /\ SF_vars(AcquireLock(p))

FairSpec == Spec /\ Fairness

-----------------------------------------------------------------------------
(* Properties.                                                              *)

\* The flock is held by exactly the call that is between acquire and drop, so
\* no two calls decide or publish at once (StoreLock, store.rs header).
LockExclusive == \A p \in Installers : pc[p] \in Critical <=> lock = p

\* Records that share an artifact path declare one digest for it, as the two
\* shipped records do.  An assumption of LedgerBacked, not a property.
PathsAgree == \A r, s \in Records : r.path = s.path => r.sha256 = s.sha256

\* A row of the ledger always has its executable behind it: at every instant,
\* so also for the readers that take no lock, across concurrent installs,
\* rollbacks that remove or rewrite a shared file, and crashes between the two
\* renames.  It is what "reported installed" may rely on.
LedgerBacked ==
  \A h \in Hashes :
    ledger[h] # NoEntry => Matches(artifact[ledger[h].record.path], ledger[h].record)

\* An install that reports success, fresh or idempotent, left the store holding
\* its row and its file when it lets the lock go.
SuccessIsInstalled ==
  \A p \in Installers :
    pc[p] = "unwind" /\ outcome[p] \in {"installed", "already"} =>
      /\ ledger[req[p].record.hash] = req[p]
      /\ Matches(artifact[req[p].record.path], req[p].record)

\* An install that failed has put every artifact's bytes and the ledger back as
\* they were when it took the lock; only a rollback that itself failed, which
\* says so in its error, may leave the new artifact.
FailedInstallUndone ==
  \A p \in Installers :
    pc[p] = "unwind" /\ outcome[p] = "failed" =>
      /\ ledger = before[p].ledger
      /\ \A q \in Paths : artifact[q].bytes = before[p].artifact[q].bytes

\* An install only rewrites a store that does not already hold exactly what it
\* wants, so of two concurrent equal installs one is a no-op: unless the file that is
\* there could not be read when it was to be compared.
NoRedundantRewrite ==
  "read" \notin Faults =>
  \A p \in Installers :
    pc[p] \in {"capture", "stageArtifact", "stageState", "publishArtifact"} =>
      ~ /\ ledger[req[p].record.hash] = req[p]
        /\ Matches(artifact[req[p].record.path], req[p].record)

\* No temporary outlives the call that staged it unless its process died or the
\* removal itself failed.
NoStrayTemps ==
  {"crash", "drop"} \cap Faults = {} => \A t \in tmp : t \in staged[t.pid]

\* A row changes only when an install for that very hash publishes it: nobody's
\* row is lost to a ledger another install had loaded earlier.
RowsChangeOnlyByInstall ==
  \A h \in Hashes : ledger'[h] # ledger[h] =>
    \/ \E p \in Installers : /\ pc[p] = "publishState"
                             /\ req[p].record.hash = h
                             /\ ledger'[h] = req[p]
    \/ Tamper

NoLostRow == [][RowsChangeOnlyByInstall]_vars

\* Every install that waits for the lock returns, whatever the others do.
InstallReturns == \A p \in Installers : pc[p] = "lock" ~> pc[p] = "idle"

\* What Load accepts: store.json parses and no directory sits at a path.
Loadable == stateOK /\ \A q \in Paths : artifact[q].bytes # Directory

\* What ends an attempt whatever the operating system does: a store that cannot be
\* loaded, a temporary whose name is taken.
Doomed(p) ==
  \/ pc[p] = "load" /\ ~(stateOK /\ artifact[req[p].record.path].bytes # Directory)
  \/ pc[p] = "stageArtifact" /\ ArtifactTemp(p) \in tmp
  \/ pc[p] = "stageState" /\ StateTemp(p) \in tmp

\* A step of an install that fails for nothing but an I/O error.
IOError(p) ==
  /\ pc[p] \notin {"idle", "unwind"} /\ ~Doomed(p)
  /\ pc'[p] = "restore" \/ outcome'[p] = "failed"

\* Once no process crashes, no operation fails and nobody edits the store any more, an
\* installer that keeps trying succeeds: the temporaries of dead processes whose pid (and
\* so whose names) it reuses fail it a few times and then are gone, and whatever an
\* edit left that can be loaded at all it installs over.  For a Faults without "drop": a
\* temporary that could not be removed is as one of a dead process, and one that can
\* never be removed keeps its name taken.
RecoversFromCrash ==
  /\ <>[][~Tamper /\ \A p \in Installers : ~Crash(p) /\ ~IOError(p)]_vars
  /\ <>[]Loadable
  =>
    \A p \in Installers :
      []<>(pc[p] = "lock") => []<>(outcome[p] \in {"installed", "already"})

(***************************************************************************)
(* AdapterStore implements AtomicStore.  Between the two renames, and until *)
(* a rollback is over, the abstract file is still the captured one: the     *)
(* ledger rename is the instant an install takes effect.                    *)
(***************************************************************************)
Pending(p, q) ==
  /\ pc[p] \in {"publishState", "restore", "republish"}
  /\ req[p].record.path = q

EffectiveBytes ==
  [q \in Paths |->
     IF \E p \in Installers : Pending(p, q)
     THEN previous[CHOOSE p \in Installers : Pending(p, q)]
     ELSE artifact[q].bytes]

Atomic == INSTANCE AtomicStore WITH
  files   <- EffectiveBytes,
  rows    <- ledger,
  MayTear <- Faults \cap {"io", "crash"} # {}

\* Every behaviour of a store nobody edits by hand is one of the atomic store: no
\* interleaving of installs, failures, rollbacks and crashes shows an effect that
\* an atomic install or a torn one would not.
ImplementsAtomicStore == Atomic!Spec
=============================================================================
