--------------------------- MODULE ProgramSource ---------------------------
(***************************************************************************)
(* load_program of crates/flutterdec-core/src/pipeline/model.rs: what makes *)
(* the program model, an adapter that a compatibility record authorizes or  *)
(* core's own recovery.  It asks the registry, the store and the profile;   *)
(* then authorize() of host.rs asks the store and the profile again, and    *)
(* AdapterRun takes over.  Other processes may change both in between.      *)
(*                                                                          *)
(* A record is told apart by what selection and authorization compare; the  *)
(* store is what it holds for the record selected.                          *)
(***************************************************************************)
EXTENDS AdapterRun, Sequences, FiniteSetsExt

CONSTANTS
  Snapshots,   \* the identities a loader may have read
  Registries,  \* the documents adapters/registry.json may be
  Nothing      \* no record selected; nothing left to ask

VARIABLES
  snapshot,  \* the identity of the input
  registry,  \* the registry document
  store,     \* the store and the profile file, for the selected record
  changed,   \* another process changed them since the call began
  load,      \* where load_program is
  chosen,    \* the selected record
  source,    \* who made the model
  refusal    \* why there is none; why no adapter ran when core made it

\* A document lists its records.
ASSUME SourceAssumption ==
  \A reg \in Registries :
    Len(reg.records) \in Nat /\ DOMAIN reg.records = 1 .. Len(reg.records)

loadVars   == <<snapshot, registry, store, changed, load, chosen, source, refusal>>
sourceVars == <<allVars, loadVars>>

Records == UNION {{reg.records[i] : i \in DOMAIN reg.records} : reg \in Registries}

Stores ==
  [file    : {"absent", "unusable", "other", "declared"},
   exec    : BOOLEAN,
   ledger  : {"unreadable", "none", "contradicted", "claimed"},
   profile : {"unusable", "other", "unparsable", "declared"}]

External == {"blutter", "r2flutter"}

\* CoreFallbackReason.
Reasons == {"IdentityRejected", "InternalRequested", "NoCompatibilityRecord",
            "CompatibilityUnsupported", "AdapterNotInstalled"}

RegistryErrors == {"Malformed", "UnsupportedVersion", "NoRecord", "TargetMismatch",
                   "FeatureMismatch", "Ambiguous", "InvalidRecord", "Profile",
                   "ArtifactAbsent", "Artifact"}

Loading     == {"identity", "registry", "artifact", "ledger", "profile", "producer", "member"}
Authorizing == {"gates", "path", "bytes", "claim", "digest", "request"}

SourceTypeOK ==
  /\ RunTypeOK
  /\ snapshot \in Snapshots \union {Nothing}
  /\ registry \in Registries \union {Nothing}
  /\ store    \in Stores \union {Nothing}
  /\ changed  \in BOOLEAN
  /\ load     \in Loading \union Authorizing \union {"running", "finished"}
  /\ chosen   \in Records \union {Nothing}
  /\ source   \in {"none", "core", "adapter"}
  /\ refusal  \in Reasons \union RegistryErrors \union Errors
                 \union {"PinnedBackend", "CoreModelInvalid", "ArtifactChanged", "Member"}

SourceInit ==
  /\ RunInit
  /\ snapshot \in Snapshots
  /\ registry \in Registries
  /\ store    \in Stores
  /\ changed  = FALSE
  /\ load     = "identity"
  /\ chosen   = Nothing
  /\ source   = "none"
  /\ refusal  = "none"

-----------------------------------------------------------------------------
(* The identity gate and the selection of a record.                         *)

Declared(id) == id.features \cap {"ia32", "x64", "arm", "arm64", "riscv32", "riscv64"}
Pointers(id) == id.features \cap {"compressed-pointers", "no-compressed-pointers"}

\* exact_selection_key: the hash comes from the header of a full AOT snapshot, the
\* features name no other architecture, and exactly one pointer width.
MaySelect(id) ==
  /\ id.source = "header" /\ id.kind = "full_aot" /\ id.target = "arm64"
  /\ Declared(id) \subseteq {id.target}
  /\ Cardinality(Pointers(id)) = 1

SameKey(r, s) == r.hash = s.hash /\ r.target = s.target /\ r.features = s.features

\* The first record that is wrong, or has the key of one before it.
Offending(reg) ==
  {i \in DOMAIN reg.records :
     ~reg.records[i].valid \/ \E j \in 1 .. i - 1 : SameKey(reg.records[i], reg.records[j])}

\* CompatibilityRegistry::load, the errors in their order.
LoadError(reg) ==
  IF ~reg.readable                            THEN "Malformed"
  ELSE IF reg.version # 1                     THEN "UnsupportedVersion"
  ELSE IF Offending(reg) = {}                 THEN "none"
  ELSE IF ~reg.records[Min(Offending(reg))].valid THEN "InvalidRecord"
  ELSE "Ambiguous"

Exact(reg, id) ==
  {i \in DOMAIN reg.records : SameKey(reg.records[i], id)}

\* select_key on a loaded registry.
SelectError(reg, id) ==
  LET hash   == {i \in DOMAIN reg.records : reg.records[i].hash = id.hash}
      target == {i \in hash : reg.records[i].target = id.target}
      exact  == Exact(reg, id)
  IN IF hash = {}                        THEN "NoRecord"
     ELSE IF target = {}                 THEN "TargetMismatch"
     ELSE IF exact = {}                  THEN "FeatureMismatch"
     ELSE IF Cardinality(exact) > 1      THEN "Ambiguous"
     ELSE IF ~reg.records[Min(exact)].majors THEN "InvalidRecord"
     ELSE "none"

-----------------------------------------------------------------------------
(* What a refusal becomes.                                                  *)

\* The refusals that are facts about the snapshot or about what is installed.
Recoverable ==
  [e \in {"NoRecord", "TargetMismatch", "FeatureMismatch", "ArtifactAbsent"} |->
     CASE e = "NoRecord"                              -> "NoCompatibilityRecord"
       [] e \in {"TargetMismatch", "FeatureMismatch"} -> "CompatibilityUnsupported"
       [] e = "ArtifactAbsent"                        -> "AdapterNotInstalled"]

Proceed(next) == load' = next /\ UNCHANGED <<source, refusal>>
Refuse(e)  == load' = "finished" /\ refusal' = e /\ UNCHANGED source

\* load_core_fallback, whose model goes through the checks of an adapter's.
CoreFallback(reason) ==
  \/ load' = "finished" /\ source' = "core" /\ refusal' = reason
  \/ Refuse("CoreModelInvalid")

\* Mutant: a pinned backend is recovered like any other.
RecoverOrRefuseAnyone(e) ==
  IF e \in DOMAIN Recoverable THEN CoreFallback(Recoverable[e]) ELSE Refuse(e)

RecoverOrRefuse(e) ==
  IF e \notin DOMAIN Recoverable  THEN Refuse(e)
  ELSE IF requested \in External  THEN Refuse("PinnedBackend")
  ELSE CoreFallback(Recoverable[e])

-----------------------------------------------------------------------------
(* load_program.                                                            *)

CheckIdentity ==
  /\ load = "identity"
  /\ IF ~MaySelect(snapshot)
     THEN IF requested \in External THEN Refuse("PinnedBackend")
                                    ELSE CoreFallback("IdentityRejected")
     ELSE IF requested = "internal" THEN CoreFallback("InternalRequested")
                                    ELSE Proceed("registry")
  /\ UNCHANGED <<allVars, snapshot, registry, store, changed, chosen>>

SelectRecord ==
  /\ load = "registry"
  /\ LET e == IF LoadError(registry) # "none" THEN LoadError(registry)
                                               ELSE SelectError(registry, snapshot)
     IN IF e # "none"
        THEN RecoverOrRefuse(e) /\ UNCHANGED chosen
        ELSE Proceed("artifact") /\ chosen' = registry.records[Min(Exact(registry, snapshot))]
  /\ UNCHANGED <<allVars, snapshot, registry, store, changed>>

\* resolve_current_artifact: absence is asked before containment and bytes.
ResolveArtifact ==
  /\ load = "artifact"
  /\ IF ~chosen.variant \/ store.file = "absent" THEN RecoverOrRefuse("ArtifactAbsent")
     ELSE IF store.file # "declared"             THEN RecoverOrRefuse("Artifact")
     ELSE Proceed("ledger")
  /\ UNCHANGED <<allVars, snapshot, registry, store, changed, chosen>>

\* Mutant: what the ledger answers is absence, whatever it is.
AskLedgerLeniently ==
  /\ load = "ledger"
  /\ IF store.ledger = "claimed" THEN Proceed("profile") ELSE RecoverOrRefuse("ArtifactAbsent")
  /\ UNCHANGED <<allVars, snapshot, registry, store, changed, chosen>>

\* Mutant: that there is a file is enough.
AskNoLedger ==
  /\ load = "ledger"
  /\ Proceed("profile")
  /\ UNCHANGED <<allVars, snapshot, registry, store, changed, chosen>>

\* installed_for: nothing claimed is nothing installed, anything else is broken.
AskLedger ==
  /\ load = "ledger"
  /\ \/ store.ledger = "claimed" /\ Proceed("profile")
     \/ store.ledger = "none"    /\ RecoverOrRefuse("ArtifactAbsent")
     \/ store.ledger \in {"unreadable", "contradicted"} /\ RecoverOrRefuse("Artifact")
  /\ UNCHANGED <<allVars, snapshot, registry, store, changed, chosen>>

LoadProfile ==
  /\ load = "profile"
  /\ \/ store.profile = "declared" /\ Proceed("producer")
     \/ store.profile = "unusable" /\ Refuse("Artifact")
     \/ store.profile \in {"other", "unparsable"} /\ Refuse("Profile")
  /\ UNCHANGED <<allVars, snapshot, registry, store, changed, chosen>>

\* producer_for reads the artifact once more.
NameProducer ==
  /\ load = "producer"
  /\ IF store.file = "declared" THEN Proceed("member") ELSE Refuse("ArtifactChanged")
  /\ UNCHANGED <<allVars, snapshot, registry, store, changed, chosen>>

\* The binding is the record's own; the library comes out of the APK, if it is one.
ReadMember ==
  /\ load = "member"
  /\ Proceed("gates") \/ Refuse("Member")
  /\ UNCHANGED <<allVars, snapshot, registry, store, changed, chosen>>

-----------------------------------------------------------------------------
(* authorize(), which asks again.                                           *)

\* A gate of authorize() that fails ends run_adapter, and load_program with it.
Deny(e) ==
  /\ Fail(e) /\ Proceed("running")
  /\ snapshot' = Nothing /\ registry' = Nothing /\ store' = Nothing
  /\ UNCHANGED <<execVars, workspace, doc, requested, resolved, changed, chosen>>

Permit(next) ==
  /\ Proceed(next)
  /\ UNCHANGED <<allVars, snapshot, registry, store, changed, chosen>>

\* What the record says against what the header says.
AuthorizeRecord ==
  /\ load = "gates"
  /\ IF ~MaySelect(snapshot)                       THEN Deny("IdentityRejected")
     ELSE IF ~chosen.valid                         THEN Deny("RecordInvalid")
     ELSE IF ~chosen.majors                        THEN Deny("UnsupportedMajors")
     ELSE IF chosen.hash # snapshot.hash           THEN Deny("IdentityRecordMismatch")
     ELSE IF chosen.target # snapshot.target       THEN Deny("TargetMismatch")
     ELSE IF chosen.features # snapshot.features   THEN Deny("FeatureMismatch")
     ELSE IF ~chosen.variant                       THEN Deny("VariantNotInRecord")
     ELSE Permit("path")

AuthorizePath ==
  /\ load = "path"
  /\ IF store.file \in {"absent", "unusable"} THEN Deny("ArtifactPathRejected")
     ELSE IF ~store.exec                      THEN Deny("ArtifactNotExecutable")
     ELSE Permit("bytes")

\* The bytes read here are those that run.
AuthorizeBytes ==
  /\ load = "bytes"
  /\ \/ store.file = "declared" /\ Permit("claim")
     \/ store.file = "other"    /\ (Deny("ArtifactDigestMismatch") \/ Deny("DocumentTooLarge"))
     \/ store.file = "absent"   /\ Deny("Io")
     \/ store.file = "unusable" /\ (Deny("MalformedDocument") \/ Deny("Io"))

\* The producer named is the record's, with the digest of the bytes just read.
AuthorizeClaim ==
  /\ load = "claim"
  /\ IF store.ledger = "claimed" THEN Permit("digest") ELSE Deny("NotInstalled")

AuthorizeProfile ==
  /\ load = "digest"
  /\ IF store.profile \in {"declared", "unparsable"} THEN Permit("request")
                                                     ELSE Deny("ProfileRejected")

\* build_request: the regions may be empty or too large, or not fit their addresses.
\* From here nothing is asked again.
AuthorizeRequest ==
  /\ load = "request"
  /\ \/ Deny("InputRejected") \/ Deny("RequestRejected")
     \/ /\ Step("workspace") /\ Proceed("running")
        /\ snapshot' = Nothing /\ registry' = Nothing /\ store' = Nothing /\ changed' = FALSE
        /\ UNCHANGED <<execVars, workspace, doc, requested, resolved, chosen>>

-----------------------------------------------------------------------------
\* Mutant: a run that failed is answered by core.
AnswerOrRecover ==
  /\ load = "running" /\ stage = "finished"
  /\ IF error = "none"
     THEN load' = "finished" /\ source' = "adapter" /\ UNCHANGED refusal
     ELSE CoreFallback("AdapterNotInstalled")
  /\ UNCHANGED <<allVars, snapshot, registry, store, changed, chosen>>

\* The adapter answered, or its run failed: there is nothing to fall back to.
Answer ==
  /\ load = "running" /\ stage = "finished"
  /\ IF error = "none"
     THEN load' = "finished" /\ source' = "adapter" /\ UNCHANGED refusal
     ELSE Refuse(error)
  /\ UNCHANGED <<allVars, snapshot, registry, store, changed, chosen>>

\* An install, a removal, an edit, between the first look and the last.
StoreChanges ==
  /\ load \in (Loading \union Authorizing) \ {"identity", "registry", "artifact"}
  /\ store' \in Stores \ {store}
  /\ changed' = TRUE
  /\ UNCHANGED <<allVars, snapshot, registry, load, chosen, source, refusal>>

LoadProgram ==
  \/ CheckIdentity \/ SelectRecord \/ ResolveArtifact \/ AskLedger
  \/ LoadProfile \/ NameProducer \/ ReadMember
  \/ AuthorizeRecord \/ AuthorizePath \/ AuthorizeBytes \/ AuthorizeClaim
  \/ AuthorizeProfile \/ AuthorizeRequest
  \/ HostAuthorized /\ UNCHANGED loadVars
  \/ Answer

SourceNext == LoadProgram \/ StoreChanges \/ (Elsewhere /\ UNCHANGED loadVars)

SourceSpec == SourceInit /\ [][SourceNext]_sourceVars

\* As AdapterRun's: the host's threads run and time passes.
SourceFairSpec ==
  /\ SourceSpec
  /\ WF_sourceVars(LoadProgram)
  /\ WF_sourceVars(Expire /\ UNCHANGED <<runVars, loadVars>>)
  /\ \A s \in Streams : WF_sourceVars(Drain(s) /\ UNCHANGED <<runVars, loadVars>>)

-----------------------------------------------------------------------------
(* Properties.                                                              *)

\* "May fail; may not be quietly answered by something else" (model.rs:187): a
\* backend asked for by name answers or nothing does, in the refusals before the
\* registry, in those after it, and in what the adapter claims to be.
PinnedIsNeverSubstituted ==
  requested \in External =>
    /\ source # "core"
    /\ source = "adapter" => resolved = requested

\* "Some means zero adapter processes existed" (model.rs:22): where core made the
\* model no child was born, and nothing had failed that was meant to stay loud.  A
\* refusal that says it came before the spawn tells the truth as well.
CoreRanNothing ==
  /\ source = "core" => proc[Leader] = "unborn" /\ ~workspace /\ error = "none"
  /\ PreSpawnHasNoChild

\* A registry that loads has one record at most for an identity.
Served(reg, id) ==
  /\ LoadError(reg) = "none"
  /\ \E i \in DOMAIN reg.records : SameKey(reg.records[i], id)

\* A broken ledger that load_program does not get to ask: the artifact's absence is
\* asked, and answered, before it.
BehindAbsence == store.file = "absent" /\ store.ledger \in {"unreadable", "contradicted"}

\* Heuristic recovery hides nothing that could have run or was meant to stay loud, where
\* the ledger was there to be asked: with nobody changing the store, core answers auto
\* only where the identity may select nothing, a sound registry has no record for it,
\* nothing is installed for the one it has, or what was installed is gone.
RecoveryIsHonest ==
  source = "core" /\ requested = "auto" /\ ~changed /\ ~BehindAbsence =>
    \/ ~MaySelect(snapshot)
    \/ LoadError(registry) = "none" /\ ~Served(registry, snapshot)
    \/ /\ Served(registry, snapshot)
       /\ \/ ~chosen.variant
          \/ store.ledger = "none"
          \/ store.file = "absent" /\ store.ledger = "claimed"

\* model.rs:412: "A ledger that contradicts the record is a broken installation, which
\* stays loud."  While nobody changes the store, core never answers over such a ledger.
BrokenInstallIsLoud ==
  source = "core" /\ requested = "auto" /\ ~changed /\ chosen # Nothing =>
    store.ledger # "contradicted"

\* Who answered was asked, or may be stood in for.
AnswererIsHonest == PinnedIsNeverSubstituted /\ RecoveryIsHonest

\* What load_program checks is what authorize() checks: with nobody changing the
\* store in between, no gate refuses but those it did not ask about itself.
AskedTwiceAnsweredOnce ==
  error \in GateErrors \ DocumentErrors /\ ~changed =>
    error \in {"ArtifactNotExecutable", "InputRejected", "RequestRejected"}

\* However the adapter behaves and whatever changes meanwhile, load_program returns.
SourceFinishes == <>(load = "finished")
=============================================================================
