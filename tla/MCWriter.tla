------------------------------ MODULE MCWriter ------------------------------
EXTENDS Writer, TLC
Symmetry == Permutations(Flush)
=============================================================================
