-------------------------- MODULE MCBlocksServices --------------------------
EXTENDS BlocksServices, TLC

Symmetry == Permutations(Task)
=============================================================================
