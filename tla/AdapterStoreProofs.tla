------------------------- MODULE AdapterStoreProofs -------------------------
(* Theorems about AdapterStore and AdapterReaders, for every registry and number of
   installers and readers. *)
EXTENDS AdapterReaders, TLAPS

\* A call that has been let past the checks wants a row for a registry record.
Requested == \A p \in Installers : pc[p] # "idle" => req[p] \in Entries

TypeInv == TypeOK /\ Requested

LEMMA RecordTypes ==
  ASSUME NEW r \in Records
  PROVE  /\ r.hash \in Hashes
         /\ r.path \in Paths
         /\ r.sha256 \in Digests
         /\ Published(r) \in File
BY RecordsAssumption DEF Published, File, Contents, Bytes

LEMMA EmptyTypes ==
  /\ EmptyLedger \in Ledgers
  /\ EmptyStore \in [artifact : [Paths -> File], ledger : Ledgers]
  /\ Absent \in File
  /\ NoFile \in Contents
BY DEF EmptyLedger, Ledgers, EmptyStore, Absent, File, Contents

LEMMA TempTypes ==
  ASSUME NEW p \in Installers, req[p] \in Entries
  PROVE  /\ ArtifactTemp(p) \in TempNames
         /\ StateTemp(p) \in TempNames
         /\ RestoreTemp(p) \in TempNames
<1>1. req[p].record.path \in Paths
  BY RecordTypes DEF Entries
<1>2. QED
  BY <1>1 DEF ArtifactTemp, StateTemp, RestoreTemp, TempName, TempNames

LEMMA ReturnTypes ==
  ASSUME TypeInv, NEW p \in Installers, NEW o \in Outcomes, Return(p, o)
  PROVE  /\ pc'       \in [Installers -> Idle \union Critical]
         /\ req'      \in [Installers -> Entries \union {NoEntry}]
         /\ loaded'   \in [Installers -> Ledgers]
         /\ previous' \in [Installers -> Contents]
         /\ staged'   \in [Installers -> SUBSET TempNames]
         /\ outcome'  \in [Installers -> Outcomes]
         /\ before'   \in [Installers -> [artifact : [Paths -> File], ledger : Ledgers]]
         /\ Requested'
<1>1. /\ pc'       \in [Installers -> Idle \union Critical]
      /\ req'      \in [Installers -> Entries \union {NoEntry}]
      /\ outcome'  \in [Installers -> Outcomes]
  BY DEF TypeInv, TypeOK, Return, Idle
<1>2. /\ loaded'   \in [Installers -> Ledgers]
      /\ previous' \in [Installers -> Contents]
      /\ staged'   \in [Installers -> SUBSET TempNames]
      /\ before'   \in [Installers -> [artifact : [Paths -> File], ledger : Ledgers]]
  BY EmptyTypes DEF TypeInv, TypeOK, Return
<1>3. Requested'
  BY DEF TypeInv, TypeOK, Return, Requested
<1>4. QED
  BY <1>1, <1>2, <1>3

LEMMA TypeInit == Init => TypeInv
BY EmptyTypes DEF Init, InitCall, TypeInv, TypeOK, Requested, EmptyStore, Idle, Outcomes, TempNames

\* Leaving or moving on inside a call keeps the types of pc and outcome.
LEMMA MoveTypes ==
  ASSUME TypeInv, NEW p \in Installers, pc[p] # "idle", UNCHANGED req,
         \/ \E o \in Outcomes : Leave(p, o)
         \/ \E l \in Critical : Goto(p, l) /\ UNCHANGED outcome
  PROVE  /\ pc'      \in [Installers -> Idle \union Critical]
         /\ outcome' \in [Installers -> Outcomes]
         /\ Requested'
<1>1. PICK l \in Critical, o \in Outcomes :
        /\ pc' = [pc EXCEPT ![p] = l]
        /\ outcome' = [outcome EXCEPT ![p] = o] \/ outcome' = outcome
  BY DEF Leave, Goto, Critical, Outcomes, TypeInv, TypeOK
<1>2. /\ pc'      \in [Installers -> Idle \union Critical]
      /\ outcome' \in [Installers -> Outcomes]
  BY <1>1 DEF TypeInv, TypeOK
<1>3. Requested'
  BY <1>1 DEF TypeInv, TypeOK, Requested
<1>4. QED
  BY <1>2, <1>3

\* Dropping temporaries removes them or leaves them where they are.
LEMMA DropTypes ==
  ASSUME TypeInv, NEW names \in SUBSET TempNames, Drop(names)
  PROVE  tmp' \in SUBSET TempNames
BY DEF Drop, TypeInv, TypeOK

\* Staging moves on or leaves, and touches only this call's own names.
LEMMA StageTypes ==
  ASSUME TypeInv, NEW p \in Installers, pc[p] # "idle", UNCHANGED req,
         NEW name \in TempNames, NEW next \in Critical, NEW o \in Outcomes,
         Stage(p, name, next, o)
  PROVE  /\ pc'      \in [Installers -> Idle \union Critical]
         /\ outcome' \in [Installers -> Outcomes]
         /\ Requested'
         /\ tmp'     \in SUBSET TempNames
         /\ staged'  \in [Installers -> SUBSET TempNames]
<1>1. /\ tmp'     \in SUBSET TempNames
      /\ staged'  \in [Installers -> SUBSET TempNames]
  <2>1. CASE tmp' = tmp \union {name} /\ staged' = [staged EXCEPT ![p] = @ \union {name}]
    BY <2>1 DEF TypeInv, TypeOK
  <2>2. CASE Drop({name}) /\ UNCHANGED staged
    BY <2>2, DropTypes DEF TypeInv, TypeOK
  <2>3. QED
    BY <2>1, <2>2 DEF Stage
<1>2. \/ \E x \in Outcomes : Leave(p, x)
      \/ \E l \in Critical : Goto(p, l) /\ UNCHANGED outcome
  BY DEF Stage
<1>3. QED
  BY <1>1, <1>2, MoveTypes

LEMMA RenameTypes ==
  ASSUME TypeInv, NEW p \in Installers, NEW name, Rename(p, name)
  PROVE  tmp' \in SUBSET TempNames /\ staged' \in [Installers -> SUBSET TempNames]
BY DEF Rename, TypeInv, TypeOK

LEMMA TypeStep == TypeInv /\ [Next]_vars => TypeInv'
<1> SUFFICES ASSUME TypeInv, [Next]_vars PROVE TypeInv'
  OBVIOUS
<1> USE DEF TypeInv
<1>a. ASSUME NEW p \in Installers, pc[p] # "idle"
      PROVE  /\ req[p] \in Entries
             /\ req[p].record \in Records
             /\ req[p].record.path \in Paths
             /\ req[p].record.hash \in Hashes
             /\ Published(req[p].record) \in File
  <2>1. req[p] \in Entries /\ req[p].record \in Records
    BY <1>a DEF Requested, Entries
  <2>2. QED
    BY <2>1, RecordTypes
<1>1. ASSUME NEW p \in Installers, Begin(p) PROVE TypeInv'
  <2>1. \/ outcome' = [outcome EXCEPT ![p] = "refused"] /\ UNCHANGED <<pc, req>>
        \/ \E r \in Records, s \in Sources :
             /\ Goto(p, "lock")
             /\ req' = [req EXCEPT ![p] = Entry(r, s)]
             /\ outcome' = [outcome EXCEPT ![p] = "none"]
    BY <1>1 DEF Begin, Candidates
  <2>2. UNCHANGED <<artifact, ledger, stateOK, tmp, lock, loaded, previous, staged, before>>
    BY <1>1 DEF Begin, storeVars
  <2>3. CASE outcome' = [outcome EXCEPT ![p] = "refused"] /\ UNCHANGED <<pc, req>>
    BY <2>2, <2>3 DEF TypeOK, Requested, Outcomes
  <2>4. ASSUME NEW r \in Records, NEW s \in Sources,
               Goto(p, "lock"),
               req' = [req EXCEPT ![p] = Entry(r, s)],
               outcome' = [outcome EXCEPT ![p] = "none"]
        PROVE TypeInv'
    <3>1. Entry(r, s) \in Entries
      BY DEF Entry, Entries
    <3>2. TypeOK'
      BY <2>2, <2>4, <3>1 DEF TypeOK, Outcomes, Goto, Idle
    <3>3. Requested'
      BY <2>4, <3>1 DEF TypeOK, Goto, Requested
    <3>4. QED
      BY <3>2, <3>3
  <2>5. QED
    BY <2>1, <2>3, <2>4
<1>2. ASSUME NEW p \in Installers, FailBeforeLock(p) PROVE TypeInv'
  BY <1>2, ReturnTypes DEF FailBeforeLock, storeVars, TypeOK, Outcomes
<1>3. ASSUME NEW p \in Installers, AcquireLock(p) PROVE TypeInv'
  <2>1. before' \in [Installers -> [artifact : [Paths -> File], ledger : Ledgers]]
    BY <1>3 DEF AcquireLock, TypeOK
  <2>2. /\ pc' \in [Installers -> Idle \union Critical]
        /\ Requested'
    BY <1>3 DEF AcquireLock, TypeOK, Goto, Requested, Critical
  <2>3. QED
    BY <1>3, <2>1, <2>2 DEF AcquireLock, TypeOK
<1>4. ASSUME NEW p \in Installers, Load(p) PROVE TypeInv'
  <2>1. \/ \E o \in Outcomes : Leave(p, o)
        \/ \E l \in Critical : Goto(p, l) /\ UNCHANGED outcome
    BY <1>4 DEF Load, Outcomes, Critical
  <2>2. loaded' \in [Installers -> Ledgers]
    BY <1>4 DEF Load, TypeOK
  <2>3. QED
    BY <1>4, <2>1, <2>2, MoveTypes DEF Load, TypeOK, storeVars
<1>5. ASSUME NEW p \in Installers, Decide(p) PROVE TypeInv'
  <2>1. \/ \E o \in Outcomes : Leave(p, o)
        \/ \E l \in Critical : Goto(p, l) /\ UNCHANGED outcome
    BY <1>5 DEF Decide, Outcomes, Critical
  <2>2. QED
    BY <1>5, <2>1, MoveTypes DEF Decide, TypeOK, storeVars
<1>6. ASSUME NEW p \in Installers, Capture(p) PROVE TypeInv'
  <2>1. \/ \E o \in Outcomes : Leave(p, o)
        \/ \E l \in Critical : Goto(p, l) /\ UNCHANGED outcome
    BY <1>6 DEF Capture, Outcomes, Critical
  <2>2. artifact[req[p].record.path].bytes \in Contents
    BY <1>6, <1>a DEF Capture, TypeOK, File
  <2>3. previous' \in [Installers -> Contents]
    BY <1>6, <2>2 DEF Capture, TypeOK
  <2>4. QED
    BY <1>6, <2>1, <2>3, MoveTypes DEF Capture, TypeOK, storeVars
<1>7. ASSUME NEW p \in Installers, StageArtifact(p) PROVE TypeInv'
  <2>1. ArtifactTemp(p) \in TempNames
    BY <1>7, <1>a, TempTypes DEF StageArtifact
  <2>2. "stageState" \in Critical /\ "failed" \in Outcomes
    BY DEF Critical, Outcomes
  <2>3. QED
    BY <1>7, <2>1, <2>2, StageTypes DEF StageArtifact, TypeOK
<1>8. ASSUME NEW p \in Installers, StageState(p) PROVE TypeInv'
  <2>1. StateTemp(p) \in TempNames
    BY <1>8, <1>a, TempTypes DEF StageState
  <2>2. "publishArtifact" \in Critical /\ "failed" \in Outcomes
    BY DEF Critical, Outcomes
  <2>3. QED
    BY <1>8, <2>1, <2>2, StageTypes DEF StageState, TypeOK
<1>9. ASSUME NEW p \in Installers, PublishArtifact(p) PROVE TypeInv'
  <2>1. \/ \E o \in Outcomes : Leave(p, o)
        \/ \E l \in Critical : Goto(p, l) /\ UNCHANGED outcome
    BY <1>9 DEF PublishArtifact, Outcomes, Critical
  <2>2. artifact' \in [Paths -> File]
    BY <1>9, <1>a DEF PublishArtifact, TypeOK
  <2>3. tmp' \in SUBSET TempNames /\ staged' \in [Installers -> SUBSET TempNames]
    BY <1>9, RenameTypes DEF PublishArtifact, TypeOK
  <2>4. QED
    BY <1>9, <2>1, <2>2, <2>3, MoveTypes DEF PublishArtifact, TypeOK
<1>10. ASSUME NEW p \in Installers, PublishState(p) PROVE TypeInv'
  <2>1. \/ \E o \in Outcomes : Leave(p, o)
        \/ \E l \in Critical : Goto(p, l) /\ UNCHANGED outcome
    BY <1>10 DEF PublishState, Outcomes, Critical
  <2>2. ledger' \in Ledgers
    <3>1. /\ loaded[p] \in Ledgers
          /\ req[p] \in Entries
          /\ req[p].record.hash \in Hashes
      BY <1>10, <1>a DEF PublishState, TypeOK
    <3>2. [loaded[p] EXCEPT ![req[p].record.hash] = req[p]] \in Ledgers
      BY <3>1 DEF Ledgers
    <3>3. QED
      BY <1>10, <3>2 DEF PublishState, TypeOK
  <2>3. tmp' \in SUBSET TempNames /\ staged' \in [Installers -> SUBSET TempNames]
    <3>1. CASE Rename(p, StateTemp(p))
      BY <3>1, RenameTypes
    <3>2. CASE /\ Drop({StateTemp(p)})
               /\ staged' = [staged EXCEPT ![p] = @ \ {StateTemp(p)}]
      <4>1. {StateTemp(p)} \in SUBSET TempNames
        BY <1>10, <1>a, TempTypes DEF PublishState
      <4>2. QED
        BY <3>2, <4>1, DropTypes DEF TypeOK
    <3>3. QED
      BY <1>10, <3>1, <3>2 DEF PublishState
  <2>4. QED
    BY <1>10, <2>1, <2>2, <2>3, MoveTypes DEF PublishState, TypeOK
<1>11. ASSUME NEW p \in Installers, Restore(p) PROVE TypeInv'
  <2>1. CASE previous[p] = NoFile
    <3>1. \E o \in Outcomes : Leave(p, o)
      BY <1>11, <2>1 DEF Restore, Outcomes
    <3>2. artifact' \in [Paths -> File]
      BY <1>11, <1>a, <2>1, EmptyTypes DEF Restore, TypeOK
    <3>3. QED
      BY <1>11, <2>1, <3>1, <3>2, MoveTypes DEF Restore, TypeOK
  <2>2. CASE previous[p] # NoFile
    <3>1. RestoreTemp(p) \in TempNames
      BY <1>11, <1>a, TempTypes DEF Restore
    <3>2. "republish" \in Critical /\ "rollbackFailed" \in Outcomes
      BY DEF Critical, Outcomes
    <3>3. Stage(p, RestoreTemp(p), "republish", "rollbackFailed") /\ UNCHANGED artifact
      BY <1>11, <2>2 DEF Restore
    <3>4. pc[p] # "idle" /\ UNCHANGED <<ledger, stateOK, lock, req, loaded, previous, before>>
      BY <1>11 DEF Restore
    <3>5. QED
      BY <3>1, <3>2, <3>3, <3>4, StageTypes DEF TypeOK
  <2>3. QED
    BY <2>1, <2>2
<1>12. ASSUME NEW p \in Installers, Republish(p) PROVE TypeInv'
  <2>1. \E o \in Outcomes : Leave(p, o)
    BY <1>12 DEF Republish, Outcomes
  <2>2. artifact' \in [Paths -> File]
    <3>1. [bytes |-> previous[p], exec |-> TRUE] \in File
      BY DEF TypeOK, File
    <3>2. QED
      BY <1>12, <1>a, <3>1 DEF Republish, TypeOK
  <2>3. tmp' \in SUBSET TempNames /\ staged' \in [Installers -> SUBSET TempNames]
    BY <1>12, RenameTypes DEF Republish, TypeOK
  <2>4. QED
    BY <1>12, <2>1, <2>2, <2>3, MoveTypes DEF Republish, TypeOK
<1>13. ASSUME NEW p \in Installers, Unwind(p) PROVE TypeInv'
  <2>1. outcome[p] \in Outcomes
    BY DEF TypeOK
  <2>2. tmp' \in SUBSET TempNames /\ lock' \in Installers \union {NoProc}
    BY <1>13, DropTypes DEF Unwind, TypeOK
  <2>3. QED
    BY <1>13, <2>1, <2>2, ReturnTypes DEF Unwind, TypeOK
<1>14. ASSUME NEW p \in Installers, Crash(p) PROVE TypeInv'
  BY <1>14, ReturnTypes DEF Crash, TypeOK, Outcomes
<1>15. CASE Tamper
  <2>1. artifact' \in [Paths -> File] /\ ledger' \in Ledgers /\ stateOK' \in BOOLEAN
    BY <1>15, EmptyTypes DEF Tamper, TypeOK
  <2>2. QED
    BY <1>15, <2>1 DEF Tamper, TypeOK, Requested, callVars
<1>16. CASE UNCHANGED vars
  BY <1>16 DEF vars, TypeOK, Requested
<1>17. QED
  BY <1>1, <1>2, <1>3, <1>4, <1>5, <1>6, <1>7, <1>8, <1>9, <1>10, <1>11, <1>12,
     <1>13, <1>14, <1>15, <1>16 DEF Next, Install

LEMMA TypeInvariant == Spec => []TypeInv
<1>1. Init => TypeInv
  BY TypeInit
<1>2. TypeInv /\ [Next]_vars => TypeInv'
  BY TypeStep
<1>3. QED
  BY <1>1, <1>2, PTL DEF Spec

\* Type correctness: every variable stays in its domain.
THEOREM TypeCorrect == Spec => []TypeOK
<1>1. TypeInv => TypeOK
  BY DEF TypeInv
<1>2. QED
  BY <1>1, TypeInvariant, PTL

-----------------------------------------------------------------------------
(* The lock.                                                                *)

\* A step inside the critical section of one call keeps the lock where it is.
LEMMA InsideStep ==
  ASSUME TypeInv, LockExclusive, NEW p \in Installers, pc[p] \in Critical,
         UNCHANGED lock,
         NEW l \in Critical, Goto(p, l)
  PROVE  LockExclusive'
BY DEF LockExclusive, TypeInv, TypeOK, Goto

\* A call that returns without holding the lock, or that gives it up.
LEMMA ReturnStep ==
  ASSUME TypeInv, LockExclusive, NEW p \in Installers, NEW o, Return(p, o),
         lock' = IF lock = p THEN NoProc ELSE lock
  PROVE  LockExclusive'
<1>1. "idle" \notin Critical
  BY DEF Critical
<1>2. QED
  BY <1>1, NamesAssumption DEF LockExclusive, TypeInv, TypeOK, Return

LEMMA LockStep == TypeInv /\ LockExclusive /\ [Next]_vars => LockExclusive'
<1> SUFFICES ASSUME TypeInv, LockExclusive, [Next]_vars PROVE LockExclusive'
  OBVIOUS
<1>1. ASSUME NEW p \in Installers, Begin(p) PROVE LockExclusive'
  BY <1>1 DEF Begin, Goto, LockExclusive, Critical, storeVars, TypeInv, TypeOK
<1>2. ASSUME NEW p \in Installers, FailBeforeLock(p) PROVE LockExclusive'
  <2>1. lock # p
    BY <1>2 DEF FailBeforeLock, LockExclusive, Critical
  <2>2. QED
    BY <1>2, <2>1, ReturnStep DEF FailBeforeLock, storeVars
<1>3. ASSUME NEW p \in Installers, AcquireLock(p) PROVE LockExclusive'
  BY <1>3, NamesAssumption DEF AcquireLock, Goto, LockExclusive, Critical, TypeInv, TypeOK
<1>4. ASSUME NEW p \in Installers,
             \/ Load(p) \/ Decide(p) \/ Capture(p) \/ StageArtifact(p)
             \/ StageState(p) \/ PublishArtifact(p) \/ PublishState(p)
             \/ Restore(p) \/ Republish(p)
      PROVE LockExclusive'
  <2>1. UNCHANGED lock /\ pc[p] \in Critical
    BY <1>4 DEF Load, Decide, Capture, StageArtifact, StageState, PublishArtifact,
                PublishState, Restore, Republish, storeVars, Critical
  <2>2. \E l \in Critical : Goto(p, l)
    BY <1>4 DEF Load, Decide, Capture, StageArtifact, StageState, PublishArtifact,
                PublishState, Restore, Republish, Stage, Leave, Critical
  <2>3. QED
    BY <2>1, <2>2, InsideStep
<1>5. ASSUME NEW p \in Installers, Unwind(p) PROVE LockExclusive'
  <2>1. lock = p
    BY <1>5 DEF Unwind, LockExclusive, Critical
  <2>2. QED
    BY <1>5, <2>1, ReturnStep DEF Unwind
<1>6. ASSUME NEW p \in Installers, Crash(p) PROVE LockExclusive'
  BY <1>6, ReturnStep DEF Crash
<1>7. CASE Tamper
  BY <1>7 DEF Tamper, LockExclusive, callVars
<1>8. CASE UNCHANGED vars
  BY <1>8 DEF vars, LockExclusive
<1>9. QED
  BY <1>1, <1>2, <1>3, <1>4, <1>5, <1>6, <1>7, <1>8 DEF Next, Install

\* Mutual exclusion: the flock is held by exactly the call inside install()'s
\* locked section, so at most one call decides or publishes at any time.
THEOREM LockIsExclusive == Spec => []LockExclusive
<1>1. Init => LockExclusive
  BY NamesAssumption DEF Init, InitCall, LockExclusive, Critical
<1>2. TypeInv /\ LockExclusive /\ [Next]_vars => LockExclusive'
  BY LockStep
<1>3. QED
  BY <1>1, <1>2, TypeInvariant, PTL DEF Spec
-----------------------------------------------------------------------------
(* What the lock holder knows.  Nobody else writes the store, so what it    *)
(* loaded and captured stays true until it changes the store itself.        *)

BeforeRename == {"load", "decide", "capture", "stageArtifact", "stageState",
                 "publishArtifact"}
HoldsLedger  == {"decide", "capture", "stageArtifact", "stageState",
                 "publishArtifact", "publishState"}
HoldsBytes   == {"stageArtifact", "stageState", "publishArtifact", "publishState",
                 "restore", "republish"}
Unsettled    == {"publishState", "restore", "republish"}
Rewriting    == {"capture", "stageArtifact", "stageState", "publishArtifact"}

Wanted(p) == /\ ledger[req[p].record.hash] = req[p]
             /\ Matches(artifact[req[p].record.path], req[p].record)

Undone(p) == /\ ledger = before[p].ledger
             /\ \A q \in Paths : artifact[q].bytes = before[p].artifact[q].bytes

CallInv(p) ==
  /\ pc[p] \in HoldsLedger => loaded[p] = ledger
  /\ pc[p] \in BeforeRename => artifact = before[p].artifact
  /\ pc[p] \in BeforeRename \union Unsettled => ledger = before[p].ledger
  /\ pc[p] \in HoldsBytes =>
       previous[p] = before[p].artifact[req[p].record.path].bytes
  /\ pc[p] \in Unsettled =>
       \A q \in Paths \ {req[p].record.path} : artifact[q] = before[p].artifact[q]
  /\ pc[p] = "publishState" =>
       Matches(artifact[req[p].record.path], req[p].record)
  /\ pc[p] \in Rewriting /\ "read" \notin Faults => ~Wanted(p)
  /\ pc[p] = "unwind" /\ outcome[p] \in {"installed", "already"} => Wanted(p)
  /\ pc[p] = "unwind" /\ outcome[p] = "failed" => Undone(p)

CallsInv == \A p \in Installers : CallInv(p)

LEMMA OutsideCall ==
  ASSUME NEW p \in Installers, pc[p] \notin Critical
  PROVE  CallInv(p)
BY DEF CallInv, Critical, BeforeRename, HoldsLedger, HoldsBytes, Unsettled, Rewriting

\* While one call is in the critical section, its own invariant is all there is.
LEMMA HolderOnly ==
  ASSUME TypeInv, LockExclusive, LockExclusive', TypeInv',
         NEW p \in Installers, pc[p] \in Critical,
         \A q \in Installers \ {p} : pc'[q] = pc[q],
         pc'[p] \in Critical => CallInv(p)'
  PROVE  CallsInv'
<1> SUFFICES ASSUME NEW q \in Installers PROVE CallInv(q)'
  BY DEF CallsInv
<1>1. CASE q = p
  <2>1. CASE pc'[p] \in Critical
    BY <1>1, <2>1
  <2>2. CASE pc'[p] \notin Critical
    BY <1>1, <2>2 DEF CallInv, Critical, BeforeRename, HoldsLedger, HoldsBytes,
                     Unsettled, Rewriting
  <2>3. QED
    BY <2>1, <2>2
<1>2. CASE q # p
  <2>1. pc'[q] \notin Critical
    BY <1>2 DEF LockExclusive
  <2>2. QED
    BY <2>1 DEF CallInv, Critical, BeforeRename, HoldsLedger, HoldsBytes,
                Unsettled, Rewriting
<1>3. QED
  BY <1>1, <1>2

LEMMA CallsStep ==
  TypeInv /\ LockExclusive /\ CallsInv /\ [Next]_vars => CallsInv'
<1> SUFFICES ASSUME TypeInv, LockExclusive, CallsInv, [Next]_vars PROVE CallsInv'
  OBVIOUS
<1>t. TypeInv' /\ LockExclusive'
  BY TypeStep, LockStep
<1> USE DEF TypeInv
<1>a. ASSUME NEW p \in Installers, pc[p] # "idle"
      PROVE  /\ req[p] \in Entries
             /\ req[p].record \in Records
             /\ req[p].record.path \in Paths
             /\ req[p].record.hash \in Hashes
  BY <1>a, RecordTypes DEF Requested, Entries
<1>o. \A q \in Installers : pc'[q] \notin Critical => CallInv(q)'
  BY DEF CallInv, Critical, BeforeRename, HoldsLedger, HoldsBytes, Unsettled, Rewriting
<1>1. ASSUME NEW p \in Installers, Begin(p) PROVE CallsInv'
  <2>1. \A q \in Installers : pc'[q] \in Critical => pc'[q] = pc[q] /\ q # p
    BY <1>1 DEF Begin, Goto, Critical, TypeOK
  <2>2. ASSUME NEW q \in Installers, pc'[q] \in Critical PROVE CallInv(q)'
    <3>1. /\ q # p /\ pc'[q] = pc[q] /\ req'[q] = req[q] /\ outcome'[q] = outcome[q]
          /\ UNCHANGED <<artifact, ledger, loaded, previous, before>>
      BY <1>1, <2>1, <2>2 DEF Begin, TypeOK, storeVars
    <3>2. CallInv(q)
      BY DEF CallsInv
    <3>3. QED
      BY <3>1, <3>2 DEF CallInv, Wanted, Undone
  <2>3. QED
    BY <2>2, <1>o DEF CallsInv
<1>2. ASSUME NEW p \in Installers, NEW o, Return(p, o), UNCHANGED <<artifact, ledger>>
      PROVE CallsInv'
  <2>1. ASSUME NEW q \in Installers, pc'[q] \in Critical PROVE CallInv(q)'
    <3>1. /\ q # p /\ pc'[q] = pc[q] /\ req'[q] = req[q] /\ outcome'[q] = outcome[q]
          /\ loaded'[q] = loaded[q] /\ previous'[q] = previous[q] /\ before'[q] = before[q]
      BY <1>2, <2>1 DEF Return, TypeOK, Critical
    <3>2. CallInv(q)
      BY DEF CallsInv
    <3>3. QED
      BY <1>2, <3>1, <3>2 DEF CallInv, Wanted, Undone
  <2>2. QED
    BY <2>1, <1>o DEF CallsInv
<1>3. ASSUME NEW p \in Installers, AcquireLock(p) PROVE CallsInv'
  <2>1. \A q \in Installers \ {p} : pc'[q] \notin Critical
    BY <1>3, <1>t, NamesAssumption DEF AcquireLock, LockExclusive
  <2>2. CallInv(p)'
    BY <1>3 DEF AcquireLock, Goto, TypeOK, CallInv, BeforeRename, HoldsLedger,
                HoldsBytes, Unsettled, Rewriting
  <2>3. QED
    BY <2>1, <2>2, <1>o DEF CallsInv
<1>4. ASSUME NEW p \in Installers, Load(p) PROVE CallInv(p)'
  BY <1>4 DEF Load, Leave, Goto, CallsInv, CallInv, storeVars, TypeOK, Undone, Wanted,
              BeforeRename, HoldsLedger, HoldsBytes, Unsettled, Rewriting
<1>5. ASSUME NEW p \in Installers, Decide(p) PROVE CallInv(p)'
  BY <1>5 DEF Decide, Holds, Leave, Goto, CallsInv, CallInv, storeVars, TypeOK, Undone, Wanted,
              BeforeRename, HoldsLedger, HoldsBytes, Unsettled, Rewriting
<1>6. ASSUME NEW p \in Installers, Capture(p) PROVE CallInv(p)'
  BY <1>6 DEF Capture, Leave, Goto, CallsInv, CallInv, storeVars, TypeOK, Undone, Wanted,
              BeforeRename, HoldsLedger, HoldsBytes, Unsettled, Rewriting
<1>7. ASSUME NEW p \in Installers, StageArtifact(p) PROVE CallInv(p)'
  BY <1>7 DEF StageArtifact, Stage, Leave, Goto, CallsInv, CallInv, TypeOK, Undone, Wanted,
              BeforeRename, HoldsLedger, HoldsBytes, Unsettled, Rewriting
<1>8. ASSUME NEW p \in Installers, StageState(p) PROVE CallInv(p)'
  BY <1>8 DEF StageState, Stage, Leave, Goto, CallsInv, CallInv, TypeOK, Undone, Wanted,
              BeforeRename, HoldsLedger, HoldsBytes, Unsettled, Rewriting
<1>9. ASSUME NEW p \in Installers, PublishArtifact(p) PROVE CallInv(p)'
  BY <1>9, <1>a DEF PublishArtifact, Leave, Goto, CallsInv, CallInv, TypeOK, Undone, Wanted,
              Matches, BeforeRename, HoldsLedger, HoldsBytes, Unsettled, Rewriting
<1>10. ASSUME NEW p \in Installers, PublishState(p) PROVE CallInv(p)'
  BY <1>10, <1>a DEF PublishState, Leave, Goto, CallsInv, CallInv, TypeOK, Undone, Wanted,
              Ledgers, BeforeRename, HoldsLedger, HoldsBytes, Unsettled, Rewriting
<1>11. ASSUME NEW p \in Installers, Restore(p) PROVE CallInv(p)'
  BY <1>11, <1>a DEF Restore, Stage, Leave, Goto, CallsInv, CallInv, TypeOK, Undone, Wanted,
              Absent, BeforeRename, HoldsLedger, HoldsBytes, Unsettled, Rewriting
<1>12. ASSUME NEW p \in Installers, Republish(p) PROVE CallInv(p)'
  BY <1>12, <1>a DEF Republish, Leave, Goto, CallsInv, CallInv, TypeOK, Undone, Wanted,
              BeforeRename, HoldsLedger, HoldsBytes, Unsettled, Rewriting
<1>13. ASSUME NEW p \in Installers,
             \/ Load(p) \/ Decide(p) \/ Capture(p) \/ StageArtifact(p)
             \/ StageState(p) \/ PublishArtifact(p) \/ PublishState(p)
             \/ Restore(p) \/ Republish(p)
      PROVE CallsInv'
  <2>1. pc[p] \in Critical /\ \E l \in Critical : Goto(p, l)
    BY <1>13 DEF Load, Decide, Capture, StageArtifact, StageState, PublishArtifact,
                 PublishState, Restore, Republish, Stage, Leave, Critical
  <2>2. \A q \in Installers \ {p} : pc'[q] = pc[q]
    BY <2>1 DEF Goto, TypeOK
  <2>3. CallInv(p)'
    BY <1>13, <1>4, <1>5, <1>6, <1>7, <1>8, <1>9, <1>10, <1>11, <1>12
  <2>4. QED
    BY <1>t, <2>1, <2>2, <2>3, HolderOnly
<1>14. CASE Tamper
  <2>1. \A q \in Installers : pc'[q] \notin Critical
    BY <1>14, NamesAssumption DEF Tamper, LockExclusive, callVars
  <2>2. QED
    BY <2>1, <1>o DEF CallsInv
<1>15. CASE UNCHANGED vars
  BY <1>15 DEF vars, CallsInv, CallInv, Wanted, Undone
<1>16. QED
  BY <1>1, <1>2, <1>3, <1>13, <1>14, <1>15
     DEF Next, Install, FailBeforeLock, Unwind, Crash, storeVars

LEMMA CallsInvariant == Spec => []CallsInv
<1>1. Init => CallsInv
  <2>1. Init => \A p \in Installers : pc[p] \notin Critical
    BY DEF Init, InitCall, Critical
  <2>2. QED
    BY <2>1, OutsideCall DEF CallsInv
<1>2. TypeInv /\ LockExclusive /\ CallsInv /\ [Next]_vars => CallsInv'
  BY CallsStep
<1>3. QED
  BY <1>1, <1>2, TypeInvariant, LockIsExclusive, PTL DEF Spec

\* An install that reports success has its row and its file in the store when it
\* drops the lock, whatever failed or was edited before.
THEOREM SuccessMeansInstalled == Spec => []SuccessIsInstalled
<1>1. CallsInv => SuccessIsInstalled
  BY DEF CallsInv, CallInv, Wanted, SuccessIsInstalled
<1>2. QED
  BY <1>1, CallsInvariant, PTL

\* A failed install has undone itself, in bytes, when it drops the lock.
THEOREM FailureUndoesItself == Spec => []FailedInstallUndone
<1>1. CallsInv => FailedInstallUndone
  BY DEF CallsInv, CallInv, Undone, FailedInstallUndone
<1>2. QED
  BY <1>1, CallsInvariant, PTL

\* Where the check of what is installed can read it, a store that already holds what an
\* install wants is not rewritten by it, whatever else fails, crashes or was edited.
THEOREM RewritesOnlyWhenNeeded == Spec => []NoRedundantRewrite
<1>1. CallsInv => NoRedundantRewrite
  BY DEF CallsInv, CallInv, Rewriting, Wanted, NoRedundantRewrite
<1>2. QED
  BY <1>1, CallsInvariant, PTL

-----------------------------------------------------------------------------
(* Lost updates.                                                            *)

\* The only step that writes rows writes the one it publishes, because the
\* ledger it loaded is still the ledger.
LEMMA RowsStep == TypeInv /\ CallsInv /\ [Next]_vars => [RowsChangeOnlyByInstall]_vars
<1> SUFFICES ASSUME TypeInv, CallsInv, [Next]_vars,
                    NEW h \in Hashes, ledger'[h] # ledger[h], ~Tamper
             PROVE  \E p \in Installers : /\ pc[p] = "publishState"
                                         /\ req[p].record.hash = h
                                         /\ ledger'[h] = req[p]
  BY DEF RowsChangeOnlyByInstall
<1>1. PICK p \in Installers : PublishState(p) /\ ~UNCHANGED ledger
  BY DEF Next, Install, Begin, FailBeforeLock, AcquireLock, Load, Decide, Capture,
         StageArtifact, StageState, PublishArtifact, PublishState, Restore, Republish,
         Unwind, Crash, storeVars, vars
<1>2. loaded[p] = ledger /\ loaded[p] \in Ledgers
  BY <1>1 DEF PublishState, CallsInv, CallInv, HoldsLedger, TypeInv, TypeOK
<1>3. ledger' = [ledger EXCEPT ![req[p].record.hash] = req[p]]
  BY <1>1, <1>2 DEF PublishState
<1>4. QED
  BY <1>1, <1>2, <1>3 DEF PublishState, Ledgers

\* A ledger row changes only when an install for its own hash publishes it or
\* someone edits the store: nobody's row is lost.
THEOREM NoRowIsLost == Spec => NoLostRow
<1>1. TypeInv /\ CallsInv /\ [Next]_vars => [RowsChangeOnlyByInstall]_vars
  BY RowsStep
<1>2. QED
  BY <1>1, TypeInvariant, CallsInvariant, PTL DEF Spec, NoLostRow

-----------------------------------------------------------------------------
(* Every row has its executable.                                            *)

\* What an install captured is what every row at that path declares, so putting
\* it back, or removing a file that was not there, breaks no row.
CapturedTrue ==
  \A p \in Installers : pc[p] \in HoldsBytes =>
    \A h \in Hashes :
      ledger[h] # NoEntry /\ ledger[h].record.path = req[p].record.path =>
        previous[p] = ledger[h].record.sha256

LEMMA BackedStep ==
  ASSUME PathsAgree, "tamper" \notin Faults,
         TypeInv, LockExclusive, CallsInv, LedgerBacked, CapturedTrue, [Next]_vars
  PROVE  LedgerBacked' /\ CapturedTrue'
<1>t. LockExclusive'
  BY LockStep
<1>r. ASSUME NEW h \in Hashes, ledger[h] # NoEntry
      PROVE  /\ ledger[h].record \in Records
             /\ ledger[h].record.path \in Paths
             /\ ledger[h].record.sha256 \in Digests
  BY <1>r, RecordTypes DEF TypeInv, TypeOK, Ledgers, Entries
<1>a. ASSUME NEW p \in Installers, pc[p] # "idle"
      PROVE  /\ req[p] \in Entries
             /\ req[p].record \in Records
             /\ req[p].record.path \in Paths
             /\ req[p].record.hash \in Hashes
  BY <1>a, RecordTypes DEF TypeInv, Requested, Entries
<1>b. ASSUME NEW p \in Installers, UNCHANGED <<artifact, ledger>>,
             \A q \in Installers : pc'[q] \in HoldsBytes =>
               pc[q] \in HoldsBytes /\ req'[q] = req[q] /\ previous'[q] = previous[q]
      PROVE  LedgerBacked' /\ CapturedTrue'
  BY <1>b DEF LedgerBacked, CapturedTrue, Matches
\* A step of the lock holder: the others capture nothing.
<1>h. ASSUME NEW p \in Installers, pc'[p] \in Critical,
             pc'[p] \in HoldsBytes =>
               \A h \in Hashes :
                 ledger'[h] # NoEntry /\ ledger'[h].record.path = req'[p].record.path =>
                   previous'[p] = ledger'[h].record.sha256
      PROVE  CapturedTrue'
  <2>1. ASSUME NEW q \in Installers, pc'[q] \in HoldsBytes PROVE q = p
    BY <1>h, <1>t, <2>1 DEF LockExclusive, HoldsBytes, Critical
  <2>2. QED
    BY <1>h, <2>1 DEF CapturedTrue
<1>1. ASSUME NEW p \in Installers, Begin(p) PROVE LedgerBacked' /\ CapturedTrue'
  BY <1>1, <1>b DEF Begin, Goto, storeVars, TypeInv, TypeOK, HoldsBytes
<1>2. ASSUME NEW p \in Installers, NEW o, Return(p, o), UNCHANGED <<artifact, ledger>>
      PROVE LedgerBacked' /\ CapturedTrue'
  BY <1>2, <1>b DEF Return, TypeInv, TypeOK, HoldsBytes
<1>3. ASSUME NEW p \in Installers, AcquireLock(p) \/ Load(p) \/ Decide(p)
      PROVE LedgerBacked' /\ CapturedTrue'
  BY <1>3, <1>b DEF AcquireLock, Load, Decide, Leave, Goto, storeVars, TypeInv, TypeOK,
                    HoldsBytes
<1>4. ASSUME NEW p \in Installers, Capture(p) PROVE LedgerBacked' /\ CapturedTrue'
  <2>1. LedgerBacked'
    BY <1>4 DEF Capture, storeVars, LedgerBacked, Matches
  <2>2. pc'[p] \in Critical
    BY <1>4 DEF Capture, Leave, Goto, TypeInv, TypeOK, Critical
  <2>3. pc'[p] \in HoldsBytes => previous'[p] = artifact[req[p].record.path].bytes
    BY <1>4 DEF Capture, Leave, Goto, TypeInv, TypeOK, HoldsBytes
  <2>4. UNCHANGED <<ledger, req>>
    BY <1>4 DEF Capture, storeVars
  <2>5. \A h \in Hashes : ledger[h] # NoEntry =>
          artifact[ledger[h].record.path].bytes = ledger[h].record.sha256
    <3>1. \A r : Published(r).bytes = r.sha256
      BY DEF Published
    <3>2. QED
      BY <3>1, Zenon DEF LedgerBacked, Matches
  <2>6. CapturedTrue'
    BY <1>h, <2>2, <2>3, <2>4, <2>5
  <2>7. QED
    BY <2>1, <2>6
<1>5. ASSUME NEW p \in Installers, StageArtifact(p) \/ StageState(p)
      PROVE LedgerBacked' /\ CapturedTrue'
  BY <1>5, <1>b DEF StageArtifact, StageState, Stage, Leave, Goto, TypeInv, TypeOK,
                    HoldsBytes
<1>6. ASSUME NEW p \in Installers, PublishArtifact(p) PROVE LedgerBacked' /\ CapturedTrue'
  <2>1. CapturedTrue'
    BY <1>6, <1>h DEF PublishArtifact, Leave, Goto, TypeInv, TypeOK, HoldsBytes, Critical,
                      CapturedTrue
  <2>2. ASSUME NEW h \in Hashes, ledger'[h] # NoEntry
        PROVE  Matches(artifact'[ledger'[h].record.path], ledger'[h].record)
    <3>1. ledger' = ledger /\ req[p].record \in Records
      BY <1>6, <1>a DEF PublishArtifact
    <3>2. CASE ledger[h].record.path = req[p].record.path
      <4>1. ledger[h].record.sha256 = req[p].record.sha256
        BY <1>r, <2>2, <3>1, <3>2 DEF PathsAgree
      <4>2. artifact'[ledger[h].record.path] \in
              {artifact[ledger[h].record.path], Published(req[p].record)}
        BY <1>6, <1>a, <3>2 DEF PublishArtifact, TypeInv, TypeOK
      <4>3. QED
        BY <2>2, <3>1, <4>1, <4>2 DEF LedgerBacked, Matches, Published
    <3>3. CASE ledger[h].record.path # req[p].record.path
      <4>1. artifact'[ledger[h].record.path] = artifact[ledger[h].record.path]
        BY <1>6, <1>r, <2>2, <3>1, <3>3 DEF PublishArtifact, TypeInv, TypeOK
      <4>2. QED
        BY <2>2, <3>1, <4>1 DEF LedgerBacked
    <3>4. QED
      BY <3>2, <3>3
  <2>3. QED
    BY <2>1, <2>2 DEF LedgerBacked
<1>7. ASSUME NEW p \in Installers, PublishState(p) PROVE LedgerBacked' /\ CapturedTrue'
  <2>1. CASE UNCHANGED ledger
    <3>1. CapturedTrue'
      BY <1>7, <1>h, <2>1 DEF PublishState, Leave, Goto, TypeInv, TypeOK, HoldsBytes,
                              Critical, CapturedTrue
    <3>2. LedgerBacked'
      BY <1>7, <2>1 DEF PublishState, LedgerBacked
    <3>3. QED
      BY <3>1, <3>2
  <2>2. CASE ledger' = [loaded[p] EXCEPT ![req[p].record.hash] = req[p]] /\ Leave(p, "installed")
    <3>1. pc'[p] = "unwind"
      BY <1>7, <2>2 DEF Leave, Goto, TypeInv, TypeOK
    <3>2. CapturedTrue'
      BY <3>1, <1>h DEF HoldsBytes, Critical
    <3>3. /\ loaded[p] = ledger
          /\ ledger \in Ledgers
          /\ Matches(artifact[req[p].record.path], req[p].record)
      BY <1>7 DEF PublishState, CallsInv, CallInv, HoldsLedger, TypeInv, TypeOK
    <3>4. LedgerBacked'
      BY <1>7, <2>2, <3>3 DEF PublishState, LedgerBacked, Ledgers
    <3>5. QED
      BY <3>2, <3>4
  <2>3. QED
    BY <1>7, <2>1, <2>2 DEF PublishState
<1>8. ASSUME NEW p \in Installers, Restore(p) PROVE LedgerBacked' /\ CapturedTrue'
  <2>1. CapturedTrue'
    BY <1>8, <1>h DEF Restore, Stage, Leave, Goto, TypeInv, TypeOK, HoldsBytes, Critical,
                      CapturedTrue
  <2>2. CASE UNCHANGED artifact
    BY <1>8, <2>1, <2>2 DEF Restore, LedgerBacked
  <2>3. CASE ~UNCHANGED artifact
    <3>1. /\ previous[p] = NoFile
          /\ artifact' = [artifact EXCEPT ![req[p].record.path] = Absent]
          /\ ledger' = ledger
      BY <1>8, <2>3 DEF Restore
    <3>2. ASSUME NEW h \in Hashes, ledger[h] # NoEntry
          PROVE  ledger[h].record.path # req[p].record.path
      BY <1>8, <1>r, <3>1, <3>2, NamesAssumption DEF CapturedTrue, Restore, HoldsBytes
    <3>3. LedgerBacked'
      BY <1>r, <3>1, <3>2 DEF LedgerBacked, TypeInv, TypeOK
    <3>4. QED
      BY <2>1, <3>3
  <2>4. QED
    BY <2>2, <2>3
<1>9. ASSUME NEW p \in Installers, Republish(p) PROVE LedgerBacked' /\ CapturedTrue'
  <2>1. CapturedTrue'
    BY <1>9, <1>h DEF Republish, Leave, Goto, TypeInv, TypeOK, HoldsBytes, Critical
  <2>2. CASE UNCHANGED artifact
    BY <1>9, <2>1, <2>2 DEF Republish, LedgerBacked
  <2>3. CASE ~UNCHANGED artifact
    <3>1. /\ artifact' = [artifact EXCEPT ![req[p].record.path] =
                             [bytes |-> previous[p], exec |-> TRUE]]
          /\ ledger' = ledger
      BY <1>9, <2>3 DEF Republish
    <3>2. ASSUME NEW h \in Hashes, ledger[h] # NoEntry,
                 ledger[h].record.path = req[p].record.path
          PROVE  [bytes |-> previous[p], exec |-> TRUE] = Published(ledger[h].record)
      BY <1>9, <3>2 DEF CapturedTrue, Republish, HoldsBytes, Published
    <3>3. LedgerBacked'
      BY <1>9, <1>a, <1>r, <3>1, <3>2 DEF Republish, LedgerBacked, Matches, TypeInv, TypeOK
    <3>4. QED
      BY <2>1, <3>3
  <2>4. QED
    BY <2>2, <2>3
<1>10. CASE UNCHANGED vars
  BY <1>10 DEF vars, LedgerBacked, CapturedTrue, Matches
<1>11. QED
  BY <1>1, <1>2, <1>3, <1>4, <1>5, <1>6, <1>7, <1>8, <1>9, <1>10
     DEF Next, Install, FailBeforeLock, Unwind, Crash, Tamper, storeVars

\* Where records that share a path agree on its digest and nobody edits the
\* store by hand, every ledger row has its executable behind it at every instant,
\* through concurrent installs, failures, rollbacks and crashes.
THEOREM RowsAreBacked ==
  ASSUME PathsAgree, "tamper" \notin Faults
  PROVE  Spec => []LedgerBacked
<1>1. Init => LedgerBacked /\ CapturedTrue
  BY DEF Init, InitCall, EmptyLedger, LedgerBacked, CapturedTrue, HoldsBytes
<1>2. /\ TypeInv /\ LockExclusive /\ CallsInv
      /\ LedgerBacked /\ CapturedTrue /\ [Next]_vars
      => LedgerBacked' /\ CapturedTrue'
  BY BackedStep
<1>3. QED
  BY <1>1, <1>2, TypeInvariant, LockIsExclusive, CallsInvariant, PTL DEF Spec

-----------------------------------------------------------------------------
(* Temporary files.                                                         *)

\* Names are only staged inside the critical section, under one's own pid.
StagedInside == \A p \in Installers : pc[p] \in Idle => staged[p] = {}

TempsInv == NoStrayTemps /\ StagedInside

LEMMA TempsStep ==
  ASSUME {"crash", "drop"} \cap Faults = {}, TypeInv, TempsInv, [Next]_vars
  PROVE  TempsInv'
<1>t. /\ tmp \in SUBSET TempNames
      /\ staged \in [Installers -> SUBSET TempNames]
      /\ pc \in [Installers -> Idle \union Critical]
  BY DEF TypeInv, TypeOK
<1>a. ASSUME NEW p \in Installers
      PROVE  /\ ArtifactTemp(p).pid = p
             /\ StateTemp(p).pid = p
             /\ RestoreTemp(p).pid = p
  BY DEF ArtifactTemp, StateTemp, RestoreTemp, TempName
\* Every name that exists is staged by its own process, so what p stages or drops
\* concerns the names of p alone.
<1>k. ASSUME NEW names, Drop(names) PROVE tmp' = tmp \ names
  BY <1>k DEF Drop
<1>b. ASSUME NEW t \in tmp PROVE t.pid \in Installers /\ t \in staged[t.pid]
  BY <1>b, <1>t DEF TempsInv, NoStrayTemps, TempNames
<1>c. ASSUME NEW p \in Installers,
             \A i \in Installers \ {p} : staged'[i] = staged[i],
             \A t \in tmp' : IF t.pid = p THEN t \in staged'[p] ELSE t \in tmp
      PROVE  NoStrayTemps'
  BY <1>b, <1>c, <1>t DEF NoStrayTemps
<1>d. ASSUME NEW p \in Installers, pc'[p] \in Critical,
             \A i \in Installers \ {p} : pc'[i] = pc[i] /\ staged'[i] = staged[i]
      PROVE  StagedInside'
  BY <1>d, <1>t DEF StagedInside, TempsInv, Critical, Idle
<1>1. ASSUME NEW p \in Installers, Begin(p) PROVE TempsInv'
  BY <1>1, <1>t DEF Begin, Goto, storeVars, TempsInv, NoStrayTemps, StagedInside, Idle
<1>2. ASSUME NEW p \in Installers, NEW o, Return(p, o), tmp' = tmp \ staged[p]
      PROVE TempsInv'
  <2>1. NoStrayTemps'
    <3>1. \A i \in Installers \ {p} : staged'[i] = staged[i]
      BY <1>2, <1>t DEF Return
    <3>2. \A t \in tmp' : t \in tmp /\ t.pid # p
      BY <1>2, <1>b
    <3>3. QED
      BY <1>c, <3>1, <3>2
  <2>2. StagedInside'
    BY <1>2, <1>t DEF Return, StagedInside, TempsInv
  <2>3. QED
    BY <2>1, <2>2 DEF TempsInv
<1>3. ASSUME NEW p \in Installers,
             AcquireLock(p) \/ Load(p) \/ Decide(p) \/ Capture(p)
      PROVE  TempsInv'
  BY <1>3, <1>d, <1>t DEF AcquireLock, Load, Decide, Capture, Leave, Goto, storeVars, Critical,
                    TempsInv, NoStrayTemps
<1>4. ASSUME NEW p \in Installers, NEW name, NEW next \in Critical, NEW failed,
             name.pid = p, Stage(p, name, next, failed)
      PROVE  TempsInv'
  <2>1. StagedInside'
    BY <1>4, <1>d, <1>t DEF Stage, Leave, Goto, Critical
  <2>2. CASE tmp' = tmp \union {name} /\ staged' = [staged EXCEPT ![p] = @ \union {name}]
    <3>1. /\ \A i \in Installers \ {p} : staged'[i] = staged[i]
          /\ staged'[p] = staged[p] \union {name}
      BY <2>2, <1>t
    <3>2. \A t \in tmp' : IF t.pid = p THEN t \in staged'[p] ELSE t \in tmp
      BY <1>4, <1>b, <2>2, <3>1
    <3>3. QED
      BY <1>c, <2>1, <2>2, <3>1, <3>2 DEF TempsInv
  <2>3. CASE Drop({name}) /\ UNCHANGED staged
    BY <1>k, <2>1, <2>3 DEF TempsInv, NoStrayTemps
  <2>4. QED
    BY <1>4, <2>2, <2>3 DEF Stage
<1>5. ASSUME NEW p \in Installers, NEW name, NEW l \in Critical,
             name.pid = p, Rename(p, name), Goto(p, l)
      PROVE  TempsInv'
  <2>1. StagedInside'
    BY <1>5, <1>d, <1>t DEF Rename, Goto
  <2>2. NoStrayTemps'
    <3>1. /\ tmp' = tmp \ {name}
          /\ staged'[p] = staged[p] \ {name}
          /\ \A i \in Installers \ {p} : staged'[i] = staged[i]
      BY <1>5, <1>t DEF Rename
    <3>2. \A t \in tmp' : IF t.pid = p THEN t \in staged'[p] ELSE t \in tmp
      BY <1>b, <3>1
    <3>3. QED
      BY <1>c, <3>1, <3>2
  <2>3. QED
    BY <2>1, <2>2 DEF TempsInv
<1>6. ASSUME NEW p \in Installers, NEW l \in Critical, Goto(p, l), UNCHANGED <<tmp, staged>>
      PROVE  TempsInv'
  BY <1>6, <1>d, <1>t DEF Goto, TempsInv, NoStrayTemps
<1>7. ASSUME NEW p \in Installers, StageArtifact(p) \/ StageState(p) PROVE TempsInv'
  BY <1>7, <1>a, <1>4 DEF StageArtifact, StageState, Critical
<1>8. ASSUME NEW p \in Installers,
             PublishArtifact(p) \/ PublishState(p) \/ Republish(p)
      PROVE  TempsInv'
  <2>1. \E l \in Critical : Goto(p, l)
    BY <1>8 DEF PublishArtifact, PublishState, Republish, Leave, Critical
  <2>2. \/ \E name : name.pid = p /\ Rename(p, name)
        \/ UNCHANGED <<tmp, staged>>
    BY <1>8, <1>a, <1>k DEF PublishArtifact, PublishState, Republish, Rename
  <2>3. QED
    BY <1>5, <1>6, <2>1, <2>2
<1>9. ASSUME NEW p \in Installers, Restore(p) PROVE TempsInv'
  BY <1>9, <1>a, <1>4, <1>6 DEF Restore, Leave, Critical
<1>10. ASSUME NEW p \in Installers, FailBeforeLock(p) \/ Unwind(p) PROVE TempsInv'
  BY <1>2, <1>k, <1>10 DEF FailBeforeLock, Unwind, storeVars, TempsInv, StagedInside, Idle
<1>11. CASE Tamper \/ UNCHANGED vars
  BY <1>11, <1>t DEF Tamper, vars, callVars, TempsInv, NoStrayTemps, StagedInside
<1>12. QED
  BY <1>1, <1>3, <1>7, <1>8, <1>9, <1>10, <1>11 DEF Next, Install, Crash

\* Where no process dies and every removal of a temporary succeeds, no temporary
\* outlives the call that staged it, whatever else fails and however the calls are
\* interleaved.
THEOREM NothingStaysStaged ==
  ASSUME {"crash", "drop"} \cap Faults = {}
  PROVE  Spec => []NoStrayTemps
<1>1. Init => TempsInv
  BY DEF Init, InitCall, TempsInv, NoStrayTemps, StagedInside
<1>2. TypeInv /\ TempsInv /\ [Next]_vars => TempsInv'
  BY TempsStep
<1>3. TempsInv => NoStrayTemps
  BY DEF TempsInv
<1>4. QED
  BY <1>1, <1>2, <1>3, TypeInvariant, PTL DEF Spec

(***************************************************************************)
(* AdapterStore implements AtomicStore, for every registry and any          *)
(* installers.                                                              *)
(***************************************************************************)
\* From its first rename to the end of its rollback a call has its own file in
\* place, and only a failed rename takes it to the rollback.
FilePlaced ==
  \A p \in Installers :
    /\ pc[p] \in Unsettled => Matches(artifact[req[p].record.path], req[p].record)
    /\ pc[p] \in {"restore", "republish"} => MayFail

LEMMA PlacedStep ==
  TypeInv /\ LockExclusive /\ FilePlaced /\ [Next]_vars => FilePlaced'
<1> SUFFICES ASSUME TypeInv, LockExclusive, FilePlaced, [Next]_vars,
                    NEW p \in Installers, pc'[p] \in Unsettled
             PROVE  /\ Matches(artifact'[req'[p].record.path], req'[p].record)
                    /\ pc'[p] \in {"restore", "republish"} => MayFail
  BY DEF FilePlaced, Unsettled
<1> USE DEF TypeInv
\* What the lock holder leaves alone.
<1>1. CASE pc'[p] = pc[p] /\ req'[p] = req[p] /\ artifact' = artifact
  BY <1>1 DEF FilePlaced, Unsettled
<1>2. ASSUME NEW q \in Installers, q # p, pc[p] \in Unsettled, pc[q] \in Critical
      PROVE  FALSE
  BY <1>2 DEF LockExclusive, Unsettled, Critical
<1>3. ASSUME NEW q \in Installers,
             Begin(q) \/ FailBeforeLock(q) \/ AcquireLock(q) \/ Load(q) \/ Decide(q)
               \/ Capture(q) \/ StageArtifact(q) \/ StageState(q) \/ Unwind(q) \/ Crash(q)
      PROVE  pc'[p] = pc[p] /\ req'[p] = req[p] /\ artifact' = artifact
  BY <1>3 DEF Begin, FailBeforeLock, AcquireLock, Load, Decide, Capture, StageArtifact,
              StageState, Unwind, Crash, Stage, Return, Leave, Goto, storeVars, TypeOK,
              Unsettled
<1>4. ASSUME PublishArtifact(p)
      PROVE  /\ Matches(artifact'[req'[p].record.path], req'[p].record)
             /\ pc'[p] \in {"restore", "republish"} => MayFail
  <2>1. req[p].record.path \in Paths
    BY <1>4, RecordTypes DEF PublishArtifact, Requested, Entries
  <2>2. QED
    BY <1>4, <2>1 DEF PublishArtifact, Leave, Goto, TypeOK, Unsettled, Matches
<1>5. ASSUME PublishState(p) \/ Restore(p) \/ Republish(p)
      PROVE  /\ Matches(artifact'[req'[p].record.path], req'[p].record)
             /\ pc'[p] \in {"restore", "republish"} => MayFail
  BY <1>5 DEF PublishState, Restore, Republish, Stage, Leave, Goto, TypeOK, Unsettled,
              FilePlaced, Matches
<1>6. ASSUME NEW q \in Installers, q # p,
             PublishArtifact(q) \/ PublishState(q) \/ Restore(q) \/ Republish(q)
      PROVE  FALSE
  <2>1. pc[q] \in Critical
    BY <1>6 DEF PublishArtifact, PublishState, Restore, Republish, Critical
  <2>2. pc'[p] = pc[p]
    BY <1>6 DEF PublishArtifact, PublishState, Restore, Republish, Stage, Leave, Goto, TypeOK
  <2>3. QED
    BY <1>2, <1>6, <2>1, <2>2
<1>7. CASE Tamper
  <2>1. pc'[p] \notin Critical
    BY <1>7, NamesAssumption DEF Tamper, LockExclusive, callVars
  <2>2. QED
    BY <2>1 DEF Unsettled, Critical
<1>8. CASE UNCHANGED vars
  BY <1>1, <1>8 DEF vars
<1>9. QED
  BY <1>1, <1>3, <1>4, <1>5, <1>6, <1>7, <1>8 DEF Next, Install

LEMMA PlacedInvariant == Spec => []FilePlaced
<1>1. Init => FilePlaced
  BY DEF Init, InitCall, FilePlaced, Unsettled
<1>2. TypeInv /\ LockExclusive /\ FilePlaced /\ [Next]_vars => FilePlaced'
  BY PlacedStep
<1>3. QED
  BY <1>1, <1>2, TypeInvariant, LockIsExclusive, PTL DEF Spec

-----------------------------------------------------------------------------
(* What the mapping sees.                                                   *)

\* The files as the mapping shows them when nobody but p can be in between.
Seen(p) ==
  [q \in Paths |-> IF pc[p] \in Unsettled /\ q = req[p].record.path
                   THEN previous[p] ELSE artifact[q].bytes]

SeenAlone ==
  \A p \in Installers :
    (\A i \in Installers \ {p} : pc[i] \notin Critical) => EffectiveBytes = Seen(p)

SeenSettled ==
  (\A i \in Installers : pc[i] \notin Unsettled) =>
    EffectiveBytes = [q \in Paths |-> artifact[q].bytes]

LEMMA SeenOfOne == SeenAlone
<1> SUFFICES ASSUME NEW p \in Installers, \A i \in Installers \ {p} : pc[i] \notin Critical
             PROVE  EffectiveBytes = Seen(p)
  BY DEF SeenAlone
<1>1. ASSUME NEW i \in Installers, NEW q \in Paths
      PROVE  Pending(i, q) <=> i = p /\ pc[p] \in Unsettled /\ q = req[p].record.path
  BY <1>1 DEF Pending, Unsettled, Critical
<1>2. ASSUME NEW q \in Paths
      PROVE  (IF \E i \in Installers : Pending(i, q)
              THEN previous[CHOOSE i \in Installers : Pending(i, q)] ELSE artifact[q].bytes)
             = (IF pc[p] \in Unsettled /\ q = req[p].record.path
                THEN previous[p] ELSE artifact[q].bytes)
  <2>1. CASE pc[p] \in Unsettled /\ q = req[p].record.path
    <3>1. Pending(p, q) /\ \A i \in Installers : Pending(i, q) => i = p
      BY <1>1, <1>2, <2>1
    <3>2. (CHOOSE i \in Installers : Pending(i, q)) = p
      BY <3>1
    <3>3. QED
      BY <2>1, <3>1, <3>2
  <2>2. CASE ~(pc[p] \in Unsettled /\ q = req[p].record.path)
    BY <1>1, <1>2, <2>2
  <2>3. QED
    BY <2>1, <2>2
<1>3. QED
  BY <1>2, Zenon DEF EffectiveBytes, Seen

LEMMA SeenOfNone == SeenSettled
BY DEF SeenSettled, EffectiveBytes, Pending, Unsettled

\* Both lemmas hold of the state after a step as well.
LEMMA SeenNext == SeenAlone' /\ SeenSettled'
<1>1. SeenAlone
  BY SeenOfOne
<1>2. SeenSettled
  BY SeenOfNone
<1>3. QED
  BY <1>1, <1>2, PTL

\* A step of the call that is in the critical section.
LEMMA HolderSeen ==
  ASSUME TypeInv, LockExclusive, NEW p \in Installers, pc[p] \in Critical,
         \A i \in Installers \ {p} : pc'[i] = pc[i]
  PROVE  /\ EffectiveBytes = Seen(p)
         /\ EffectiveBytes' = Seen(p)'
<1>1. \A i \in Installers \ {p} : pc[i] \notin Critical /\ pc'[i] \notin Critical
  BY DEF LockExclusive
<1>2. QED
  BY <1>1, SeenOfOne, SeenNext DEF SeenAlone

\* A step that writes no file and moves no call into or out of being unsettled.
LEMMA QuietStep ==
  ASSUME LockExclusive, LockExclusive', UNCHANGED artifact,
         \A i \in Installers :
           /\ pc'[i] \in Unsettled <=> pc[i] \in Unsettled
           /\ pc[i] \in Unsettled => req'[i] = req[i] /\ previous'[i] = previous[i]
  PROVE  UNCHANGED EffectiveBytes
<1>1. CASE \A i \in Installers : pc[i] \notin Unsettled
  BY <1>1, SeenOfNone, SeenNext DEF SeenSettled
<1>2. ASSUME NEW p \in Installers, pc[p] \in Unsettled PROVE UNCHANGED EffectiveBytes
  <2>1. \A i \in Installers \ {p} : pc[i] \notin Critical /\ pc'[i] \notin Critical
    BY <1>2 DEF LockExclusive, Unsettled, Critical
  <2>2. EffectiveBytes = Seen(p) /\ EffectiveBytes' = Seen(p)'
    BY <2>1, SeenOfOne, SeenNext DEF SeenAlone
  <2>3. Seen(p)' = Seen(p)
    BY <1>2 DEF Seen
  <2>4. QED
    BY <2>2, <2>3
<1>3. QED
  BY <1>1, <1>2

-----------------------------------------------------------------------------
(* Every step is an atomic install, a torn one, or nothing.                 *)

LEMMA RefinementInit == Init => Atomic!Init
<1> SUFFICES ASSUME Init PROVE Atomic!Init
  OBVIOUS
<1>1. EffectiveBytes = [q \in Paths |-> artifact[q].bytes]
  BY SeenOfNone DEF SeenSettled, Init, InitCall, Unsettled
<1>2. EffectiveBytes = [q \in Paths |-> NoFile]
  BY <1>1 DEF Init, EmptyStore, Absent
<1>3. QED
  BY <1>2 DEF Init, EmptyLedger, Atomic!Init

LEMMA RefinementStep ==
  ASSUME "tamper" \notin Faults,
         TypeInv, LockExclusive, CallsInv, FilePlaced, [Next]_vars
  PROVE  [Atomic!Next]_<<EffectiveBytes, ledger>>
<1>t. TypeInv' /\ LockExclusive'
  BY TypeStep, LockStep
<1>a. ASSUME NEW p \in Installers, pc[p] # "idle"
      PROVE  /\ req[p].record \in Records
             /\ req[p].source \in Sources
             /\ req[p] = Entry(req[p].record, req[p].source)
             /\ req[p].record.path \in Paths
             /\ req[p].record.hash \in Hashes
  BY <1>a, RecordTypes DEF TypeInv, Requested, Entries, Entry
\* The torn install: the file stays and the row was never written.
<1>b. ASSUME NEW p \in Installers, pc[p] \in Unsettled, pc'[p] \notin Unsettled,
             \A i \in Installers \ {p} : pc'[i] = pc[i],
             UNCHANGED <<artifact, ledger>>,
             Faults \cap {"io", "crash"} # {}
      PROVE  Atomic!Next
  <2>1. /\ EffectiveBytes = Seen(p)
        /\ EffectiveBytes' = Seen(p)'
        /\ Matches(artifact[req[p].record.path], req[p].record)
    BY <1>b, HolderSeen DEF FilePlaced, Unsettled, Critical
  <2>2. Seen(p)' = [Seen(p) EXCEPT ![req[p].record.path] = req[p].record.sha256]
    BY <1>b, <2>1 DEF Seen, Matches, Published
  <2>3. Atomic!Tear(req[p].record)
    BY <1>b, <2>1, <2>2 DEF Atomic!Tear
  <2>4. QED
    BY <1>a, <1>b, <2>3 DEF Atomic!Next, Unsettled
<1>1. ASSUME NEW p \in Installers,
             \/ Begin(p) \/ FailBeforeLock(p) \/ AcquireLock(p) \/ Load(p) \/ Decide(p)
             \/ Capture(p) \/ StageArtifact(p) \/ StageState(p) \/ Unwind(p)
             \/ Crash(p) /\ pc[p] \notin Unsettled
      PROVE  UNCHANGED <<EffectiveBytes, ledger>>
  <2>1. /\ UNCHANGED <<artifact, ledger>>
        /\ \A i \in Installers \ {p} :
             pc'[i] = pc[i] /\ req'[i] = req[i] /\ previous'[i] = previous[i]
        /\ pc[p] \notin Unsettled /\ pc'[p] \notin Unsettled
    BY <1>1 DEF Begin, FailBeforeLock, AcquireLock, Load, Decide, Capture, StageArtifact,
                StageState, Unwind, Crash, Stage, Return, Leave, Goto, storeVars,
                TypeInv, TypeOK, Unsettled
  <2>2. QED
    BY <1>t, <2>1, QuietStep
<1>2. ASSUME NEW p \in Installers, PublishArtifact(p)
      PROVE  UNCHANGED <<EffectiveBytes, ledger>>
  <2>1. /\ EffectiveBytes = Seen(p)
        /\ EffectiveBytes' = Seen(p)'
    BY <1>2, HolderSeen DEF PublishArtifact, Leave, Goto, TypeInv, TypeOK, Critical
  <2>2. previous[p] = artifact[req[p].record.path].bytes
    BY <1>2 DEF PublishArtifact, CallsInv, CallInv, HoldsBytes, BeforeRename
  <2>3. Seen(p)' = Seen(p)
    BY <1>a, <1>2, <2>2 DEF PublishArtifact, Seen, Leave, Goto, TypeInv, TypeOK, Unsettled
  <2>4. QED
    BY <1>2, <2>1, <2>3 DEF PublishArtifact
<1>3. ASSUME NEW p \in Installers, PublishState(p)
      PROVE  [Atomic!Next]_<<EffectiveBytes, ledger>>
  <2>1. /\ EffectiveBytes = Seen(p)
        /\ EffectiveBytes' = Seen(p)'
        /\ UNCHANGED <<artifact, req, previous>>
        /\ pc[p] \in Unsettled /\ pc[p] # "idle"
    BY <1>3, HolderSeen DEF PublishState, Leave, Goto, TypeInv, TypeOK, Critical, Unsettled
  <2>2. CASE pc'[p] = "restore" /\ UNCHANGED ledger
    BY <2>1, <2>2 DEF Seen, Unsettled
  <2>3. CASE /\ pc'[p] = "unwind"
             /\ ledger' = [loaded[p] EXCEPT ![req[p].record.hash] = req[p]]
    <3>1. Matches(artifact[req[p].record.path], req[p].record) /\ loaded[p] = ledger
      BY <1>3 DEF PublishState, CallsInv, CallInv, HoldsLedger
    <3>2. Seen(p)' = [Seen(p) EXCEPT ![req[p].record.path] = req[p].record.sha256]
      BY <2>1, <2>3, <3>1 DEF Seen, Matches, Published, Unsettled
    <3>3. Atomic!Entry(req[p].record, req[p].source) = req[p]
      BY <1>a, <2>1 DEF Entry, Atomic!Entry
    <3>4. Atomic!Install(req[p].record, req[p].source)
      BY <2>1, <2>3, <3>1, <3>2, <3>3 DEF Atomic!Install
    <3>5. QED
      BY <1>a, <2>1, <3>4 DEF Atomic!Next
  <2>4. QED
    BY <1>3, <2>2, <2>3 DEF PublishState, Leave, Goto, TypeInv, TypeOK
<1>4. ASSUME NEW p \in Installers, Restore(p) \/ Republish(p)
      PROVE  [Atomic!Next]_<<EffectiveBytes, ledger>>
  <2>1. /\ EffectiveBytes = Seen(p)
        /\ EffectiveBytes' = Seen(p)'
        /\ UNCHANGED <<ledger, req, previous>>
        /\ pc[p] \in Unsettled /\ pc[p] # "idle" /\ MayFail
        /\ \A i \in Installers \ {p} : pc'[i] = pc[i]
    BY <1>4, HolderSeen DEF Restore, Republish, Stage, Leave, Goto, TypeInv, TypeOK,
                            Critical, Unsettled, FilePlaced
  <2>2. CASE pc'[p] \in Unsettled /\ UNCHANGED artifact
    BY <2>1, <2>2 DEF Seen
  <2>3. CASE pc'[p] \notin Unsettled /\ UNCHANGED artifact
    BY <1>b, <2>1, <2>3 DEF MayFail
  <2>4. CASE /\ pc'[p] \notin Unsettled
             /\ \E f \in File : /\ f.bytes = previous[p]
                                /\ artifact' = [artifact EXCEPT ![req[p].record.path] = f]
    BY <1>a, <2>1, <2>4 DEF Seen, TypeInv, TypeOK
  <2>5. CASE Restore(p)
    BY <2>2, <2>3, <2>4, <2>5, EmptyTypes
       DEF Restore, Stage, Leave, Goto, TypeInv, TypeOK, Unsettled, Absent
  <2>6. CASE Republish(p)
    <3>1. [bytes |-> previous[p], exec |-> TRUE] \in File
      BY DEF TypeInv, TypeOK, File
    <3>2. QED
      BY <2>2, <2>3, <2>4, <2>6, <3>1 DEF Republish, Leave, Goto, TypeInv, TypeOK, Unsettled
  <2>7. QED
    BY <1>4, <2>5, <2>6
<1>5. ASSUME NEW p \in Installers, Crash(p), pc[p] \in Unsettled
      PROVE  Atomic!Next
  BY <1>5, <1>b DEF Crash, Return, TypeInv, TypeOK, Unsettled
<1>6. CASE UNCHANGED vars
  BY <1>6 DEF vars, EffectiveBytes, Pending
<1>7. QED
  BY <1>1, <1>2, <1>3, <1>4, <1>5, <1>6 DEF Next, Install, Tamper

\* For every registry and any number of installers, a store nobody edits by hand
\* behaves as the atomic store does: concurrent installs, failed renames, rollbacks
\* and crashes show no effect but whole installs and torn ones.
THEOREM ImplementsAtomic ==
  ASSUME "tamper" \notin Faults
  PROVE  Spec => ImplementsAtomicStore
<1>1. Init => Atomic!Init
  BY RefinementInit
<1>2. TypeInv /\ LockExclusive /\ CallsInv /\ FilePlaced /\ [Next]_vars
      => [Atomic!Next]_<<EffectiveBytes, ledger>>
  BY RefinementStep
<1>3. QED
  BY <1>1, <1>2, TypeInvariant, LockIsExclusive, CallsInvariant, PlacedInvariant, PTL
     DEF Spec, ImplementsAtomicStore, Atomic!Spec

-----------------------------------------------------------------------------
(* The readers. *)

allVars == <<vars, readerVars>>

\* The readers change nothing of the store.
LEMMA StoreRuns == ReadersSpec => Spec
<1>1. ReadersInit => Init
  BY DEF ReadersInit
<1>2. [ReadersNext]_<<vars, readerVars>> => [Next]_vars
  BY DEF ReadersNext, ReaderStep, StoreStep
<1>3. QED
  BY <1>1, <1>2, PTL DEF ReadersSpec, Spec

\* What is known of the store, whoever reads it.
LEMMA StoreKnown == ReadersSpec => [](TypeInv /\ LockExclusive /\ CallsInv)
BY StoreRuns, TypeInvariant, LockIsExclusive, CallsInvariant, PTL

LEMMA ReadersTypeStep ==
  TypeInv /\ ReadersTypeOK /\ [ReadersNext]_allVars => ReadersTypeOK'
<1> SUFFICES ASSUME TypeInv, ReadersTypeOK, [ReadersNext]_allVars PROVE ReadersTypeOK'
  OBVIOUS
<1> USE DEF ReadersTypeOK
<1>1. CASE StoreStep
  <2>1. \A p \in Installers : pc[p] = "publishState" => req[p].record \in Records
    BY DEF TypeInv, Requested, Entries
  <2>2. QED
    BY <1>1, <2>1 DEF StoreStep
<1>2. ASSUME NEW q \in Readers, NEW verdict \in Verdicts, asked' \in [Readers -> Records],
             Answer(q, verdict)
      PROVE  /\ rpc' \in [Readers -> {"idle", "row", "read", "ledger"}]
             /\ view' \in [Readers -> Ledgers]
             /\ answer' \in [Readers -> Verdicts]
             /\ listed' \in [Readers -> SUBSET Records]
  BY <1>2, EmptyTypes DEF Answer
<1>3. ASSUME NEW rows, NEW r PROVE LedgerClaim(rows, r) \in {"unavailable", "claimed", "corrupt"}
  BY DEF LedgerClaim
<1>4. ASSUME NEW q \in Readers, ListLoad(q), UNCHANGED <<vars, committed>> PROVE ReadersTypeOK'
  <2>1. asked' \in [Readers -> Records]
    BY <1>4 DEF ListLoad
  <2>2. CASE stateOK
    <3>1. /\ rpc' = [rpc EXCEPT ![q] = "row"]
          /\ view' = [view EXCEPT ![q] = ledger]
          /\ answer' = [answer EXCEPT ![q] = "none"]
          /\ UNCHANGED <<listed, committed>>
      BY <1>4, <2>2 DEF ListLoad
    <3>2. ledger \in Ledgers
      BY DEF TypeInv, TypeOK
    <3>3. QED
      BY <2>1, <3>1, <3>2 DEF Verdicts
  <2>3. CASE ~stateOK
    BY <1>2, <1>4, <2>1, <2>3 DEF ListLoad, Verdicts
  <2>4. QED
    BY <2>2, <2>3
<1>5. ASSUME NEW q \in Readers, ListRow(q), UNCHANGED <<vars, committed>> PROVE ReadersTypeOK'
  <2>1. Row(view[q], asked[q]) \in Verdicts
    BY <1>3 DEF Row, ArtifactState, Verdicts
  <2>2. QED
    BY <1>2, <1>5, <2>1 DEF ListRow
<1>6. ASSUME NEW q \in Readers, AuthorizePath(q), UNCHANGED <<vars, committed>>
      PROVE  ReadersTypeOK'
  BY <1>2, <1>6 DEF AuthorizePath, Verdicts
<1>7. ASSUME NEW q \in Readers, AuthorizeBytes(q), UNCHANGED <<vars, committed>>
      PROVE  ReadersTypeOK'
  BY <1>2, <1>7 DEF AuthorizeBytes, Verdicts
<1>8. ASSUME NEW q \in Readers, AuthorizeLedger(q), UNCHANGED <<vars, committed>>
      PROVE  ReadersTypeOK'
  <2>1. PICK verdict \in Verdicts : Answer(q, verdict)
    BY <1>3, <1>8 DEF AuthorizeLedger, Verdicts
  <2>2. QED
    BY <1>2, <1>8, <2>1 DEF AuthorizeLedger
<1>9. CASE UNCHANGED allVars
  BY <1>9 DEF allVars, readerVars
<1>10. QED
  BY <1>1, <1>4, <1>5, <1>6, <1>7, <1>8, <1>9 DEF ReadersNext, ReaderStep

\* Type correctness of the readers' own state.
THEOREM ReadersTypeCorrect == ReadersSpec => []ReadersTypeOK
<1>1. ReadersInit => ReadersTypeOK
  BY EmptyTypes DEF ReadersInit, ReadersTypeOK, Verdicts
<1>2. TypeInv /\ ReadersTypeOK /\ [ReadersNext]_allVars => ReadersTypeOK'
  BY ReadersTypeStep
<1>3. QED
  BY <1>1, <1>2, StoreKnown, PTL DEF ReadersSpec, allVars

-----------------------------------------------------------------------------
(* Installed means installed.                                               *)

\* Rows no reader can mistake: each is under its own hash, and was published.
Honest(rows) ==
  \A h \in Hashes : rows[h] # NoEntry => /\ rows[h].record \in committed
                                         /\ rows[h].record.hash = h

HonestInv ==
  /\ Honest(ledger)
  /\ \A q \in Readers : Honest(view[q])

\* The only step that adds a row publishes it.
LEMMA HonestStore ==
  ASSUME TypeInv, CallsInv, HonestInv, StoreStep
  PROVE  HonestInv'
<1>1. committed \subseteq committed' /\ UNCHANGED view
  BY DEF StoreStep
<1>2. CASE UNCHANGED ledger
  BY <1>1, <1>2 DEF HonestInv, Honest
<1>3. CASE ledger' = EmptyLedger
  BY <1>1, <1>3 DEF HonestInv, Honest, EmptyLedger
<1>4. ASSUME NEW p \in Installers, PublishState(p), ~UNCHANGED ledger PROVE HonestInv'
  <2>1. /\ pc[p] = "publishState" /\ pc'[p] = "unwind"
        /\ ledger' = [loaded[p] EXCEPT ![req[p].record.hash] = req[p]]
        /\ loaded[p] = ledger
        /\ ledger \in Ledgers
    BY <1>4 DEF PublishState, Leave, Goto, CallsInv, CallInv, HoldsLedger, TypeInv, TypeOK
  <2>2. req[p].record \in committed'
    BY <2>1 DEF StoreStep
  <2>3. ASSUME NEW h \in Hashes, ledger'[h] # NoEntry
        PROVE  ledger'[h].record \in committed' /\ ledger'[h].record.hash = h
    BY <1>1, <2>1, <2>2, <2>3 DEF HonestInv, Honest, Ledgers
  <2>4. QED
    BY <1>1, <2>3 DEF HonestInv, Honest
<1>5. QED
  BY <1>2, <1>3, <1>4
     DEF StoreStep, Next, Install, Begin, FailBeforeLock, AcquireLock, Load, Decide,
         Capture, StageArtifact, StageState, PublishArtifact, PublishState, Restore,
         Republish, Unwind, Crash, Tamper, storeVars

LEMMA HonestStep ==
  TypeInv /\ CallsInv /\ ReadersTypeOK /\ HonestInv /\ [ReadersNext]_allVars => HonestInv'
<1> SUFFICES ASSUME TypeInv, CallsInv, ReadersTypeOK, HonestInv, [ReadersNext]_allVars
             PROVE  HonestInv'
  OBVIOUS
<1>1. CASE StoreStep
  BY <1>1, HonestStore
<1>2. Honest(EmptyLedger)
  BY DEF Honest, EmptyLedger
<1>3. ASSUME UNCHANGED <<ledger, committed>>,
             \A q \in Readers : view'[q] \in {view[q], ledger, EmptyLedger}
      PROVE  HonestInv'
  BY <1>2, <1>3 DEF HonestInv, Honest
<1>4. ASSUME NEW q \in Readers, ReaderStep(q) PROVE HonestInv'
  BY <1>3, <1>4 DEF ReaderStep, ListLoad, ListRow, AuthorizePath, AuthorizeBytes,
                    AuthorizeLedger, Answer, ReadersTypeOK, vars
<1>5. CASE UNCHANGED allVars
  BY <1>3, <1>5 DEF allVars, vars, readerVars
<1>6. QED
  BY <1>1, <1>4, <1>5 DEF ReadersNext

\* A good answer about a record rests on an honest row under its hash, with its digest.
LEMMA ClaimedHonest ==
  ASSUME NEW r \in Records, NEW rows, Honest(rows), LedgerClaim(rows, r) = "claimed"
  PROVE  \E c \in committed : c.hash = r.hash /\ c.sha256 = r.sha256
BY RecordTypes DEF Honest, LedgerClaim

LEMMA ExistenceStep ==
  /\ ReadersTypeOK /\ HonestInv /\ ExistenceIsNotInstallation /\ [ReadersNext]_allVars
  => ExistenceIsNotInstallation'
<1> SUFFICES ASSUME ReadersTypeOK, HonestInv, ExistenceIsNotInstallation,
                    [ReadersNext]_allVars,
                    NEW q \in Readers, answer'[q] \in {"verified", "authorized"}
             PROVE  \E c \in committed' : c.hash = asked'[q].hash /\ c.sha256 = asked'[q].sha256
  BY DEF ExistenceIsNotInstallation
<1> USE DEF ReadersTypeOK
<1>1. CASE answer'[q] = answer[q] /\ asked'[q] = asked[q] /\ committed \subseteq committed'
  BY <1>1 DEF ExistenceIsNotInstallation
<1>2. CASE ListRow(q) /\ UNCHANGED committed
  <2>1. LedgerClaim(view[q], asked[q]) = "claimed"
    BY <1>2 DEF ListRow, Answer, Row, LedgerClaim
  <2>2. QED
    BY <1>2, <2>1, ClaimedHonest DEF ListRow, HonestInv
<1>3. CASE AuthorizeLedger(q) /\ UNCHANGED committed
  <2>1. LedgerClaim(ledger, asked[q]) = "claimed"
    BY <1>3 DEF AuthorizeLedger, Answer, LedgerClaim
  <2>2. QED
    BY <1>3, <2>1, ClaimedHonest DEF AuthorizeLedger, HonestInv
<1>4. CASE (ListLoad(q) \/ AuthorizePath(q) \/ AuthorizeBytes(q)) /\ UNCHANGED committed
  BY <1>1, <1>4 DEF ListLoad, AuthorizePath, AuthorizeBytes, Answer
<1>5. ASSUME NEW o \in Readers, o # q, ReaderStep(o)
      PROVE  answer'[q] = answer[q] /\ asked'[q] = asked[q] /\ committed \subseteq committed'
  BY <1>5 DEF ReaderStep, ListLoad, ListRow, AuthorizePath, AuthorizeBytes, AuthorizeLedger,
              Answer
<1>6. QED
  BY <1>1, <1>2, <1>3, <1>4, <1>5
     DEF ReadersNext, ReaderStep, StoreStep, allVars, readerVars

LEMMA HonestInvariant == ReadersSpec => []HonestInv
<1>1. ReadersInit => HonestInv
  BY DEF ReadersInit, Init, EmptyLedger, HonestInv, Honest
<1>2. TypeInv /\ CallsInv /\ ReadersTypeOK /\ HonestInv /\ [ReadersNext]_allVars => HonestInv'
  BY HonestStep
<1>3. QED
  BY <1>1, <1>2, StoreKnown, ReadersTypeCorrect, PTL DEF ReadersSpec, allVars

\* Whatever is edited, crashes or runs beside, nothing is listed as verified or let
\* run unless an install for its snapshot hash published a row with its digest.
THEOREM FileIsNotInstall == ReadersSpec => []ExistenceIsNotInstallation
<1>1. ReadersInit => ExistenceIsNotInstallation
  BY DEF ReadersInit, ExistenceIsNotInstallation
<1>2. /\ ReadersTypeOK /\ HonestInv /\ ExistenceIsNotInstallation /\ [ReadersNext]_allVars
      => ExistenceIsNotInstallation'
  BY ExistenceStep
<1>3. QED
  BY <1>1, <1>2, HonestInvariant, ReadersTypeCorrect, PTL DEF ReadersSpec, allVars

-----------------------------------------------------------------------------
(* No false alarms, where the registry's records agree and nobody edits the *)
(* store: rows never vanish, so what a reader saw or loaded is still so.    *)

\* Records of one snapshot hash name one artifact.
HashesAgree == \A r, s \in Records : r.hash = s.hash => r.path = s.path /\ r.sha256 = s.sha256

Has(r) == ledger[r.hash] # NoEntry

\* What one reader knows that stays true.
Reading(q) ==
  /\ \A h \in Hashes : view[q][h] # NoEntry => ledger[h] # NoEntry
  /\ \A r \in listed[q] : Has(r)
  /\ rpc[q] = "row" => \A r \in listed[q] : view[q][r.hash] # NoEntry
  /\ answer[q] \notin {"missing", "corrupt", "error"}
  /\ answer[q] \in {"artifactRejected", "unavailable", "corrupt"} => asked[q] \notin listed[q]

QuietInv == stateOK /\ \A q \in Readers : Reading(q)

\* A record whose hash has a row is claimed by it, and its executable is there.
LEMMA RowMeansRunnable ==
  ASSUME HashesAgree, TypeInv, LedgerBacked, Honest(ledger), committed \subseteq Records,
         NEW r \in Records, Has(r)
  PROVE  /\ LedgerClaim(ledger, r) = "claimed"
         /\ Matches(artifact[r.path], r)
         /\ artifact[r.path].bytes = r.sha256 /\ artifact[r.path].bytes # NoFile
         /\ artifact[r.path].bytes \in Bytes /\ artifact[r.path].exec
<1>1. /\ r.hash \in Hashes
      /\ ledger[r.hash].record \in Records
      /\ ledger[r.hash].record.hash = r.hash
  BY RecordTypes DEF Honest, Has
<1>2. ledger[r.hash].record.path = r.path /\ ledger[r.hash].record.sha256 = r.sha256
  BY <1>1 DEF HashesAgree
<1>3. Published(ledger[r.hash].record) = Published(r)
  BY <1>2 DEF Published
<1>4. Matches(artifact[r.path], r)
  BY <1>1, <1>2, <1>3 DEF LedgerBacked, Matches, Has
<1>5. artifact[r.path].bytes = r.sha256 /\ artifact[r.path].exec
  BY <1>4 DEF Matches, Published
<1>6. r.sha256 \in Bytes /\ r.sha256 # NoFile
  BY RecordTypes, NamesAssumption DEF Bytes
<1>7. LedgerClaim(ledger, r) = "claimed"
  BY <1>2 DEF LedgerClaim, Has
<1>8. QED
  BY <1>4, <1>5, <1>6, <1>7

\* Rows never vanish, and store.json always parses.
LEMMA RowsStay ==
  ASSUME "tamper" \notin Faults, TypeInv, CallsInv, Next
  PROVE  /\ UNCHANGED stateOK
         /\ \A h \in Hashes : ledger[h] # NoEntry => ledger'[h] # NoEntry
<1>1. ASSUME NEW p \in Installers, PublishState(p)
      PROVE  \A h \in Hashes : ledger[h] # NoEntry => ledger'[h] # NoEntry
  <2>1. req[p] \in Entries /\ req[p] # NoEntry /\ loaded[p] = ledger /\ ledger \in Ledgers
    BY <1>1, NoEntryAssumption
       DEF PublishState, CallsInv, CallInv, HoldsLedger, TypeInv, TypeOK, Requested
  <2>2. UNCHANGED ledger \/ ledger' = [ledger EXCEPT ![req[p].record.hash] = req[p]]
    BY <1>1, <2>1 DEF PublishState
  <2>3. QED
    BY <2>1, <2>2 DEF Ledgers
<1>2. QED
  BY <1>1 DEF Next, Install, Begin, FailBeforeLock, AcquireLock, Load, Decide, Capture,
              StageArtifact, StageState, PublishArtifact, PublishState, Restore, Republish,
              Unwind, Crash, Tamper, storeVars

LEMMA QuietReader ==
  ASSUME HashesAgree, TypeInv, LedgerBacked, ReadersTypeOK, HonestInv, QuietInv,
         NEW q \in Readers, ReaderStep(q)
  PROVE  Reading(q)'
<1> USE DEF ReadersTypeOK
<1>1. UNCHANGED <<artifact, ledger, stateOK>>
  BY DEF ReaderStep, vars
<1>2. Reading(q) /\ stateOK
  BY DEF QuietInv
<1>3. ASSUME NEW r \in Records, Has(r)
      PROVE  /\ LedgerClaim(ledger, r) = "claimed"
             /\ Matches(artifact[r.path], r)
             /\ artifact[r.path].bytes = r.sha256 /\ artifact[r.path].bytes # NoFile
             /\ artifact[r.path].bytes \in Bytes /\ artifact[r.path].exec
  BY <1>3, RowMeansRunnable DEF HonestInv
<1>4. CASE ListLoad(q)
  BY <1>1, <1>2, <1>4 DEF ListLoad, Reading, Has
<1>5. CASE ListRow(q)
  <2>1. /\ asked[q] \in Records /\ asked[q].hash \in Hashes
        /\ rpc[q] = "row"
        /\ UNCHANGED asked
        /\ Answer(q, Row(view[q], asked[q]))
    BY <1>5, RecordTypes DEF ListRow
  <2>2. CASE view[q][asked[q].hash] = NoEntry
    <3>1. Row(view[q], asked[q]) \in {"incompatible", "unavailable"}
      BY <2>2 DEF Row, LedgerClaim
    <3>2. asked[q] \notin listed[q]
      BY <1>2, <2>1, <2>2 DEF Reading
    <3>3. QED
      BY <1>1, <1>2, <2>1, <3>1, <3>2 DEF Answer, Reading, Has, EmptyLedger
  <2>3. CASE view[q][asked[q].hash] # NoEntry
    <3>1. Has(asked[q])
      BY <1>2, <2>1, <2>3 DEF Reading, Has
    <3>2. /\ view[q][asked[q].hash].record \in Records
          /\ view[q][asked[q].hash].record.hash = asked[q].hash
      BY <2>1, <2>3 DEF HonestInv, Honest
    <3>3. /\ view[q][asked[q].hash].record.path = asked[q].path
          /\ view[q][asked[q].hash].record.sha256 = asked[q].sha256
      BY <2>1, <3>2 DEF HashesAgree
    <3>4. LedgerClaim(view[q], asked[q]) = "claimed"
      BY <2>3, <3>3 DEF LedgerClaim
    <3>5. Matches(artifact[asked[q].path], view[q][asked[q].hash].record)
      BY <1>3, <2>1, <3>1, <3>3 DEF Matches, Published
    <3>6. artifact[asked[q].path].bytes # NoFile
      BY <1>3, <2>1, <3>1
    <3>7. Row(view[q], asked[q]) \in {"incompatible", "verified"}
      BY <3>4, <3>5, <3>6 DEF Row, ArtifactState
    <3>8. QED
      BY <1>1, <1>2, <2>1, <3>1, <3>7 DEF Answer, Reading, Has, EmptyLedger
  <2>4. QED
    BY <2>2, <2>3
<1>6. CASE AuthorizePath(q)
  <2>1. PICK r \in Records \ Unsupported :
          /\ asked' = [asked EXCEPT ![q] = r]
          /\ IF artifact[r.path].bytes \in Bytes /\ artifact[r.path].exec
             THEN /\ rpc'    = [rpc EXCEPT ![q] = "read"]
                  /\ answer' = [answer EXCEPT ![q] = "none"]
                  /\ UNCHANGED <<view, listed>>
             ELSE Answer(q, "artifactRejected")
    BY <1>6 DEF AuthorizePath
  <2>2. CASE r \in listed[q]
    BY <1>1, <1>2, <1>3, <2>1, <2>2 DEF Reading, Has
  <2>3. CASE r \notin listed[q]
    BY <1>1, <1>2, <2>1, <2>3 DEF Answer, Reading, Has, EmptyLedger
  <2>4. QED
    BY <2>2, <2>3
<1>7. CASE AuthorizeBytes(q)
  <2>1. asked[q] \in listed[q] => artifact[asked[q].path].bytes = asked[q].sha256
    BY <1>2, <1>3 DEF Reading
  <2>2. QED
    BY <1>1, <1>2, <1>7, <2>1 DEF AuthorizeBytes, Answer, Reading, Has, EmptyLedger
<1>8. CASE AuthorizeLedger(q)
  <2>1. asked[q] \in Records
    OBVIOUS
  <2>2. CASE Has(asked[q])
    BY <1>1, <1>2, <1>3, <1>8, <2>1, <2>2
       DEF AuthorizeLedger, Answer, Reading, Has, EmptyLedger
  <2>3. CASE ~Has(asked[q])
    <3>1. asked[q] \notin listed[q] /\ LedgerClaim(ledger, asked[q]) = "unavailable"
      BY <1>2, <2>3 DEF Reading, LedgerClaim, Has
    <3>2. QED
      BY <1>1, <1>2, <1>8, <3>1 DEF AuthorizeLedger, Answer, Reading, Has, EmptyLedger
  <2>4. QED
    BY <2>2, <2>3
<1>9. QED
  BY <1>4, <1>5, <1>6, <1>7, <1>8 DEF ReaderStep

LEMMA QuietReaders ==
  ASSUME HashesAgree, "tamper" \notin Faults,
         TypeInv, CallsInv, LedgerBacked, ReadersTypeOK, HonestInv, QuietInv,
         [ReadersNext]_allVars
  PROVE  QuietInv'
<1>1. CASE StoreStep
  <2>1. /\ UNCHANGED <<stateOK, rpc, asked, view, answer, listed>>
        /\ \A h \in Hashes : ledger[h] # NoEntry => ledger'[h] # NoEntry
    BY <1>1, RowsStay DEF StoreStep
  <2>2. \A q \in Readers : \A r \in listed[q] : r.hash \in Hashes
    BY RecordTypes DEF ReadersTypeOK
  <2>3. QED
    BY <2>1, <2>2 DEF QuietInv, Reading, Has
<1>2. ASSUME NEW q \in Readers, ReaderStep(q) PROVE QuietInv'
  <2>1. Reading(q)'
    BY <1>2, QuietReader
  <2>2. ASSUME NEW o \in Readers, o # q PROVE Reading(o)'
    <3>1. /\ UNCHANGED ledger
          /\ rpc'[o] = rpc[o] /\ asked'[o] = asked[o] /\ view'[o] = view[o]
          /\ answer'[o] = answer[o] /\ listed'[o] = listed[o]
      BY <1>2, <2>2 DEF ReaderStep, ListLoad, ListRow, AuthorizePath, AuthorizeBytes,
                        AuthorizeLedger, Answer, ReadersTypeOK, vars
    <3>2. QED
      BY <3>1 DEF QuietInv, Reading, Has
  <2>3. UNCHANGED stateOK
    BY <1>2 DEF ReaderStep, vars
  <2>4. QED
    BY <2>1, <2>2, <2>3 DEF QuietInv
<1>3. CASE UNCHANGED allVars
  BY <1>3 DEF allVars, vars, readerVars, QuietInv, Reading, Has
<1>4. QED
  BY <1>1, <1>2, <1>3 DEF ReadersNext

LEMMA QuietInvariant ==
  ASSUME PathsAgree, HashesAgree, "tamper" \notin Faults
  PROVE  ReadersSpec => []QuietInv
<1>1. ReadersInit => QuietInv
  BY DEF ReadersInit, Init, EmptyLedger, QuietInv, Reading
<1>2. /\ TypeInv /\ CallsInv /\ LedgerBacked /\ ReadersTypeOK /\ HonestInv /\ QuietInv
      /\ [ReadersNext]_allVars
      => QuietInv'
  BY QuietReaders
<1>3. Spec => []LedgerBacked
  BY RowsAreBacked
<1>4. QED
  BY <1>1, <1>2, <1>3, StoreRuns, StoreKnown, ReadersTypeCorrect, HonestInvariant, PTL
     DEF ReadersSpec, allVars

\* A listing that takes no lock raises no false alarm, whatever installs, failures,
\* rollbacks and crashes it runs beside.
THEOREM ListingIsQuiet ==
  ASSUME PathsAgree, HashesAgree, "tamper" \notin Faults
  PROVE  ReadersSpec => []NoFalseAlarm
<1>1. QuietInv => NoFalseAlarm
  BY DEF QuietInv, Reading, NoFalseAlarm
<1>2. ReadersSpec => []QuietInv
  BY QuietInvariant
<1>3. QED
  BY <1>1, <1>2, PTL

\* What an operator was shown as verified is not refused when it is to run.
THEOREM ShownMayRun ==
  ASSUME PathsAgree, HashesAgree, "tamper" \notin Faults
  PROVE  ReadersSpec => []ListedIsRunnable
<1>1. QuietInv => ListedIsRunnable
  BY DEF QuietInv, Reading, ListedIsRunnable
<1>2. ReadersSpec => []QuietInv
  BY QuietInvariant
<1>3. QED
  BY <1>1, <1>2, PTL

\* Both at once: while installs run, fail and crash, a listing neither reports
\* damage that is not there nor shows as intact what a run would refuse.
THEOREM ListingHolds ==
  ASSUME PathsAgree, HashesAgree, "tamper" \notin Faults
  PROVE  ReadersSpec => []ListingIsTrue
<1>1. NoFalseAlarm /\ ListedIsRunnable => ListingIsTrue
  BY DEF ListingIsTrue
<1>2. QED
  BY ListingIsQuiet, ShownMayRun, <1>1, PTL
=============================================================================
