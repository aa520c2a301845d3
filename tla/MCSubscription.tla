--------------------------- MODULE MCSubscription ---------------------------
\* Requests and plain links are interchangeable model values.
EXTENDS Subscription, TLC

Symmetry == Permutations(Requests) \cup Permutations(Links \ LegacyLinks)
=============================================================================
