---------------------------- MODULE MCLevelStore ----------------------------
EXTENDS LevelStore

Symmetry == Permutations(Task)
=============================================================================
