--------------------------- MODULE MCInsuranceFund ---------------------------
(* Instances of InsuranceFund small enough for TLC. *)
EXTENDS InsuranceFund, TLC

\* Governors are alike, and so are stakers: no property names one of them.
Alike == Permutations(Governors) \cup Permutations(Stakers)
=============================================================================
