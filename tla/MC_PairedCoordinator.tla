----------------------- MODULE MC_PairedCoordinator -----------------------
(* A small instance of PairedCoordinator for TLC. *)
EXTENDS PairedCoordinator

CONSTANTS r1, r2

TwoRoles == <<r1, r2>>
=============================================================================
