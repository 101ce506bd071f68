--------------------------- MODULE MCCircuitBreaker ---------------------------
(* CircuitBreaker for TLC: the window remembers fewer failures than callers  *)
(* can produce, so that it opens, closes and opens again.                    *)
EXTENDS CircuitBreaker
=============================================================================
