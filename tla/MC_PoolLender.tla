---------------------------- MODULE MC_PoolLender ----------------------------
EXTENDS PoolLender, TLC

\* Two lenders as model values.
CONSTANTS L1, L2
MC_Lenders == {L1, L2}
Symmetry == Permutations(MC_Lenders)
=============================================================================
