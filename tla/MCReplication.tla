--------------------------- MODULE MCReplication ---------------------------
(***************************************************************************)
(* Instances of Replication.  "a" is an author whose second event opens a  *)
(* candidate, "p" that candidate's code ref, "b" a reviewer of it: the     *)
(* event needs its code, the code its event, the review the event.         *)
(***************************************************************************)
EXTENDS Replication

Candidate == {"a", "p", "b"}
Authors   == {"a", "b"}

CandidateReferences == [o \in Objects |->
  CASE o = <<"a", 2>> -> {<<"p", 1>>}
    [] o = <<"p", 1>> -> {<<"a", 2>>}
    [] o = <<"b", 1>> -> {<<"a", 2>>}
    [] OTHER -> {}]

\* Only first events refer to others: a history that was valid once stays
\* valid while the remote only grows.
StableReferences == [o \in Objects |-> IF o = <<"b", 1>> THEN {<<"a", 1>>} ELSE {}]

SelectAll   == [r \in Remotes |-> Histories]
NoSelection == [r \in Remotes |-> {}]

NoRemote  == {}
NoObjects == {}
ReviewerBreaks == {<<"b", 2>>}

CodeBudget == [h \in Histories |-> IF h = "p" THEN 1 ELSE 2]
=============================================================================
