--------------------------- MODULE MCLedgerIndexer ---------------------------
(* Instances of LedgerIndexer small enough for TLC. *)
EXTENDS LedgerIndexer

CONSTANTS n1, n2, t1, t2, t3

\* Two ticks of the first node may overlap; the second node runs one.
MCNodeOf == [t \in Ticks |-> IF t = t3 THEN n2 ELSE n1]
=============================================================================
