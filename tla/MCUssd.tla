------------------------------- MODULE MCUssd -------------------------------
EXTENDS Ussd, TLC

CONSTANTS f1, m1, m2, p1, p2

\* A person with two memberships, and a phone nobody is registered with.
MCFarmerOf == [m \in Members |-> f1]
MCFirstPhone == [f \in Farmers |-> p1]

Symmetry == Permutations(Members) \cup Permutations(Requests) \cup Permutations(Payments)
=============================================================================
