---------------------------- MODULE MCGovernance ----------------------------
(* Instances of Governance. *)
EXTENDS Governance

\* One author, one reviewer who also runs the pipeline, one maintainer: every
\* piece of evidence is needed.
EvidenceBound == [a \in Actors |-> CASE a = "author" -> 1 [] a = "reviewer" -> 3 [] OTHER -> 3]

\* A maintainer with room to merge a candidate and its revision, and
\* one who wrote them, whose decisions, revision and merge race it.
LineageBound == [a \in Actors |-> 3]
=============================================================================
