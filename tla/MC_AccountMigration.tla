------------------------ MODULE MC_AccountMigration ------------------------
(* Small instances of AccountMigration for TLC. *)
EXTENDS AccountMigration, TLC

CONSTANTS p1, p2, k1, k2, j1, j2

NoLegacy == <<>>
Symmetry == Permutations({p1, p2})

OldJournal == j1 :> k1
=============================================================================
