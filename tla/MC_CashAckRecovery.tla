------------------------ MODULE MC_CashAckRecovery ------------------------
(* A small instance of CashAckRecovery for TLC. *)
EXTENDS CashAckRecovery

CONSTANTS r1, r2

Symmetry == Permutations({r1, r2})
=============================================================================
