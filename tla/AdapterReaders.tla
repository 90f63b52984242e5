--------------------------- MODULE AdapterReaders ---------------------------
(***************************************************************************)
(* The two readers of the store, which take no lock: `adapter list`         *)
(* (inspect, store.rs) loads the ledger and then looks at each artifact;    *)
(* authorize (host.rs) looks at the artifact and then loads the ledger.     *)
(* Both run beside the installers of AdapterStore.  One call of a reader    *)
(* answers for one record: the rows of inspect share nothing but the ledger *)
(* it loaded, so any one of them stands for all.                            *)
(***************************************************************************)
EXTENDS AdapterStore

CONSTANT Readers

VARIABLES
  rpc,        \* where each reader is
  asked,      \* the record it answers for
  view,       \* the ledger inspect loaded
  answer,     \* what it last answered
  listed,     \* history: records this reader saw listed as verified
  committed   \* history: records some install published a row for

readerVars == <<rpc, asked, view, answer, listed, committed>>

Verdicts == {"none", "verified", "missing", "corrupt", "incompatible",
             "unavailable", "error", "authorized", "artifactRejected"}

ReadersTypeOK ==
  /\ rpc       \in [Readers -> {"idle", "row", "read", "ledger"}]
  /\ asked     \in [Readers -> Records]
  /\ view      \in [Readers -> Ledgers]
  /\ answer    \in [Readers -> Verdicts]
  /\ listed    \in [Readers -> SUBSET Records]
  /\ committed \in SUBSET Records

(***************************************************************************)
(* ledger_claim: keyed by the hash, compared by digest, size and path, and  *)
(* by nothing else of the record.                                           *)
(***************************************************************************)
LedgerClaim(rows, r) ==
  LET row == rows[r.hash] IN
  IF row = NoEntry THEN "unavailable"
  ELSE IF row.record.sha256 = r.sha256 /\ row.record.path = r.path
       THEN "claimed"
       ELSE "corrupt"

\* The state artifact_matches gives a claimed row.
ArtifactState(f, r) ==
  IF f.bytes = NoFile THEN "missing"
  ELSE IF Matches(f, r) THEN "verified" ELSE "corrupt"

\* One row of inspect(): the record's own compatibility comes first.
Row(rows, r) ==
  IF r \in Unsupported THEN "incompatible"
  ELSE IF LedgerClaim(rows, r) # "claimed" THEN LedgerClaim(rows, r)
  ELSE ArtifactState(artifact[r.path], rows[r.hash].record)

Answer(q, verdict) ==
  /\ rpc'    = [rpc EXCEPT ![q] = "idle"]
  /\ view'   = [view EXCEPT ![q] = EmptyLedger]
  /\ answer' = [answer EXCEPT ![q] = verdict]
  /\ listed' = [listed EXCEPT ![q] =
                  IF verdict = "verified" THEN @ \union {asked'[q]} ELSE @]

ListLoad(q) ==
  /\ rpc[q] = "idle"
  /\ \E r \in Records : asked' = [asked EXCEPT ![q] = r]
  /\ IF stateOK
     THEN /\ rpc'    = [rpc EXCEPT ![q] = "row"]
          /\ view'   = [view EXCEPT ![q] = ledger]
          /\ answer' = [answer EXCEPT ![q] = "none"]
          /\ UNCHANGED listed
     ELSE Answer(q, "error")

ListRow(q) ==
  /\ rpc[q] = "row"
  /\ UNCHANGED asked
  /\ Answer(q, Row(view[q], asked[q]))

\* authorize_artifact: the declared path is a regular, executable file.
AuthorizePath(q) ==
  /\ rpc[q] = "idle"
  /\ \E r \in Records \ Unsupported :
       /\ asked' = [asked EXCEPT ![q] = r]
       /\ IF artifact[r.path].bytes \in Bytes /\ artifact[r.path].exec
          THEN /\ rpc'    = [rpc EXCEPT ![q] = "read"]
               /\ answer' = [answer EXCEPT ![q] = "none"]
               /\ UNCHANGED <<view, listed>>
          ELSE Answer(q, "artifactRejected")

\* The artifact is read once; what is digested is what will run.
AuthorizeBytes(q) ==
  /\ rpc[q] = "read"
  /\ UNCHANGED asked
  /\ IF artifact[asked[q].path].bytes = asked[q].sha256
     THEN rpc' = [rpc EXCEPT ![q] = "ledger"] /\ UNCHANGED <<view, answer, listed>>
     ELSE Answer(q, "artifactRejected")

\* Mutant: the file decides, the ledger is not asked.
AuthorizeByFile(q) ==
  /\ rpc[q] = "ledger"
  /\ UNCHANGED asked
  /\ Answer(q, "authorized")

\* Mutant: the claim is reported as it is.
AuthorizeByClaim(q) ==
  /\ rpc[q] = "ledger"
  /\ UNCHANGED asked
  /\ Answer(q, LedgerClaim(ledger, asked[q]))

\* installed_for: the ledger must claim the record.
AuthorizeLedger(q) ==
  /\ rpc[q] = "ledger"
  /\ UNCHANGED asked
  /\ Answer(q, IF ~stateOK THEN "corrupt"
               ELSE IF LedgerClaim(ledger, asked[q]) = "claimed" THEN "authorized"
               ELSE LedgerClaim(ledger, asked[q]))

ReadersInit ==
  /\ Init
  /\ rpc       = [q \in Readers |-> "idle"]
  /\ asked     \in [Readers -> Records]
  /\ view      = [q \in Readers |-> EmptyLedger]
  /\ answer    = [q \in Readers |-> "none"]
  /\ listed    = [q \in Readers |-> {}]
  /\ committed = {}

ReaderStep(q) ==
  /\ \/ ListLoad(q) \/ ListRow(q)
     \/ AuthorizePath(q) \/ AuthorizeBytes(q) \/ AuthorizeLedger(q)
  /\ UNCHANGED <<vars, committed>>

StoreStep ==
  /\ Next
  /\ committed' = committed \union
       {req[p].record : p \in {i \in Installers : /\ pc[i] = "publishState"
                                                  /\ pc'[i] = "unwind"}}
  /\ UNCHANGED <<rpc, asked, view, answer, listed>>

ReadersNext == StoreStep \/ \E q \in Readers : ReaderStep(q)

ReadersSpec == ReadersInit /\ [][ReadersNext]_<<vars, readerVars>>

-----------------------------------------------------------------------------
\* Where records that share a path agree on its digest and nobody edits the
\* store, a lock-free listing never raises a false alarm: whatever installs,
\* rollbacks and crashes it runs beside, a row is verified or unavailable.
NoFalseAlarm ==
  \A q \in Readers : answer[q] \notin {"missing", "corrupt", "error"}

\* "What an operator is shown and what may run cannot disagree" (host.rs:748):
\* a record a reader saw listed as verified is not refused when it then asks to
\* run it, although the two read file and ledger in opposite orders.
ListedIsRunnable ==
  \A q \in Readers :
    answer[q] \in {"artifactRejected", "unavailable", "corrupt"} =>
      asked[q] \notin listed[q]

\* A reader that takes no lock is told the truth, whatever it runs beside.
ListingIsTrue == NoFalseAlarm /\ ListedIsRunnable

\* A file with the right name and bytes is not an install: nothing is listed as
\* verified or authorized to run unless an install for its snapshot hash, with
\* this very digest, published its ledger row.
ExistenceIsNotInstallation ==
  \A q \in Readers :
    answer[q] \in {"verified", "authorized"} =>
      \E r \in committed : r.hash = asked[q].hash /\ r.sha256 = asked[q].sha256

\* flutterdec-cli/tests/adapter_store.rs:884: "Installing for one record must not authorize a
\* different record that names identical artifact bytes".
AuthorizedRecordWasInstalled ==
  \A q \in Readers : answer[q] \in {"verified", "authorized"} => asked[q] \in committed
=============================================================================
