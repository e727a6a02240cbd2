-------------------------- MODULE MC_DailyBaseline --------------------------
EXTENDS DailyBaseline, TLC

Symmetric == Permutations(Procs)
=============================================================================
