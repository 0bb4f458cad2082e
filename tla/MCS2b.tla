------------------------------- MODULE MCS2b -------------------------------
EXTENDS S2bTransaction, TLC

Symmetry == Permutations(Session)

=============================================================================
