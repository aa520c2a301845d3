---------------------------- MODULE MCSettlement ----------------------------
\* Requests and farmers are interchangeable model values.
EXTENDS Settlement, TLC

Symmetry == Permutations(Requests) \cup Permutations(Members)
=============================================================================
