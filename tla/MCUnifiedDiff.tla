---------------------------- MODULE MCUnifiedDiff ----------------------------
EXTENDS UnifiedDiff, TLC

CONSTANTS p1, p2

Symmetry == Permutations(Paths)
==============================================================================
