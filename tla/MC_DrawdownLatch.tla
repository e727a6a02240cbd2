-------------------------- MODULE MC_DrawdownLatch --------------------------
EXTENDS DrawdownLatch, TLC

Symmetric == Permutations(Procs)
=============================================================================
