--------------------------- MODULE MCAdapterStore ---------------------------
(* Registries and host facts for checking AdapterStore with TLC.            *)
EXTENDS AdapterStore

Record(h, t, q, d) ==
  [hash |-> h, target |-> t, features |-> "f1", path |-> q, sha256 |-> d]

\* A record whose wire majors this build does not speak, for two targets: asked
\* for by its hash alone it is ambiguous.
Retired == {Record("h2", "arm64", "q1", "d1"), Record("h2", "arm", "q1", "d1")}

WithRetired == {Record("h1", "arm64", "q1", "d1")} \union Retired
=============================================================================
