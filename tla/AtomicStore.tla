---------------------------- MODULE AtomicStore -----------------------------
(***************************************************************************)
(* What the adapter store promises: an install takes effect at one instant, *)
(* on its file and its ledger row together, or not at all.  The one         *)
(* exception is named: a torn install (a crash between the two renames, or  *)
(* a failed rollback) leaves its file without its row.                      *)
(***************************************************************************)
CONSTANTS Records, Hashes, Paths, Sources, NoEntry, NoFile,
          MayTear

VARIABLES files, rows

Entry(r, s) == [record |-> r, source |-> s]

Init ==
  /\ files = [q \in Paths |-> NoFile]
  /\ rows  = [h \in Hashes |-> NoEntry]

Install(r, s) ==
  /\ files' = [files EXCEPT ![r.path] = r.sha256]
  /\ rows'  = [rows EXCEPT ![r.hash] = Entry(r, s)]

Tear(r) ==
  /\ MayTear
  /\ files' = [files EXCEPT ![r.path] = r.sha256]
  /\ UNCHANGED rows

Next ==
  \/ \E r \in Records, s \in Sources : Install(r, s)
  \/ \E r \in Records : Tear(r)

Spec == Init /\ [][Next]_<<files, rows>>
=============================================================================
