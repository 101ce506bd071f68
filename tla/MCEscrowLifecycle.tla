-------------------------- MODULE MCEscrowLifecycle --------------------------
(* Instances of EscrowLifecycle small enough for TLC. *)
EXTENDS EscrowLifecycle

\* Two approvers must agree: 1 + 1 >= 2.
MCWeight == [a \in Approvers |-> 1]
=============================================================================
