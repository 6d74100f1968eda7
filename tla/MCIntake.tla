------------------------------ MODULE MCIntake ------------------------------
(***************************************************************************)
(* The offers and the local records of the contribution intake runs.       *)
(***************************************************************************)
EXTENDS ContributionIntake

CxRecord(a, about, body) == [actor |-> a, kind |-> "submission", about |-> <<about>>, body |-> <<body>>]
MCCxOne == [recs |-> {CxRecord("x", "i1", 1)}, good |-> TRUE, base |-> 0]
\* Signs something else under x's first intent, and under the intent of the local
\* write: from another clone with the same key.
MCCxTwo == [recs |-> {CxRecord("x", "i1", 2), CxRecord("m", "i2", 3)}, good |-> TRUE, base |-> 0]
MCCxOffers == {[intent |-> "o1", artifact |-> MCCxOne, exact |-> TRUE],
               [intent |-> "o2", artifact |-> MCCxOne, exact |-> FALSE],
               [intent |-> "o2", artifact |-> MCCxTwo, exact |-> TRUE]}
MCCxLocal == {[recs |-> {CxRecord("m", "i2", 4)}, good |-> TRUE, base |-> 0]}
=============================================================================
