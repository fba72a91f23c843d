----------------------------- MODULE MCHT25Device -----------------------------
EXTENDS HT25Device, TLC
Symmetry == Permutations(Loop)
===============================================================================
