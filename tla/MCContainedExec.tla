-------------------------- MODULE MCContainedExec ---------------------------
(* Bounds for checking ContainedExec with TLC.                              *)
EXTENDS ContainedExec, TLC

DescendantSymmetry == Permutations(Descendants)

Two == [r \in {"file", "processes"} |-> 2]

HardLimits == {Unlimited, 1}

\* Nothing the run does afterwards depends on how the child was made, so it is
\* followed from one child with a record and from one without.
Followed ==
  /\ hard = [r \in Resources |-> Unlimited]
  /\ imageFd = 4 /\ tasks = 2 /\ counted = 1 /\ ~confined
  /\ \A n \in Fds : fds[n] # "other"
  /\ written => userns = "own" /\ \A s \in Slots : codes[s].state = "applied"

MCNext == ContainedNext /\ (pc # "spawn" => Followed)

MCSpec == ContainedInit /\ [][MCNext]_containedVars
=============================================================================
