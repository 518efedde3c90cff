----------------------------- MODULE MCBarriers -----------------------------
EXTENDS Barriers, TLC

Symmetry == Permutations(Cells)

==============================================================================
