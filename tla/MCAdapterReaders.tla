-------------------------- MODULE MCAdapterReaders --------------------------
(* Registries for checking AdapterReaders with TLC.                         *)
EXTENDS AdapterReaders, TLC

InstallerSymmetry == Permutations(Installers)

Record(h, t, q, d) ==
  [hash |-> h, target |-> t, features |-> "f1", path |-> q, sha256 |-> d]

\* The shipped pair: two snapshot hashes, one artifact path, one digest.
SharedPair == {Record("h1", "arm64", "q1", "d1"), Record("h2", "arm64", "q1", "d1")}

\* One snapshot hash, two targets, one artifact.
TwoTargets == {Record("h1", "arm64", "q1", "d1"), Record("h1", "arm", "q1", "d1")}
=============================================================================
