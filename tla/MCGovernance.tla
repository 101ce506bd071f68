---------------------------- MODULE MCGovernance ----------------------------
(* Instances of Governance small enough for TLC. *)
EXTENDS Governance
=============================================================================
