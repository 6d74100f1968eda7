----------------------------- MODULE MCActorLog -----------------------------
(* Instances of ActorLog. *)
EXTENDS ActorLog

\* Both writers run in the owner's clone; the other clone has no key.
OneHome == [w \in Writers |-> Owner]

\* Each of two clones has the key and one writer.
TwoHomes == [w \in Writers |-> IF w = "w1" THEN Owner ELSE CHOOSE c \in Clones : c # Owner]
=============================================================================
