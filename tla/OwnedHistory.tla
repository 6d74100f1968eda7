---------------------------- MODULE OwnedHistory ----------------------------
(***************************************************************************)
(* What a signer's history promises: the owner extends it one event at a   *)
(* time, and what the remote publishes is always some earlier state of it. *)
(***************************************************************************)
EXTENDS Naturals, Sequences

CONSTANT Events

VARIABLES owned, published

Init == owned = <<>> /\ published = <<>>

Sign == \E e \in Events : owned' = Append(owned, e) /\ UNCHANGED published

Publish == published' = owned /\ UNCHANGED owned

Next == Sign \/ Publish

Spec == Init /\ [][Next]_<<owned, published>>
=============================================================================
