----------------------- MODULE MC_ExecutionOwnership -----------------------
(* Small instances of ExecutionOwnership for TLC. *)
EXTENDS ExecutionOwnership, TLC

CONSTANTS p1, p2, k1, k2, j1, j2

NoLegacy == <<>>
OldJournal == j1 :> k1

\* Processes are interchangeable, and so are keys and paths when none of them
\* has a past.
Symmetry == Permutations({p1, p2}) \cup Permutations({k1, k2}) \cup Permutations({j1, j2})
=============================================================================
