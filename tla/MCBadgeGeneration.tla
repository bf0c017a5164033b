------------------------- MODULE MCBadgeGeneration -------------------------
\* Instances of BadgeGeneration for TLC: slots and templates are
\* interchangeable.
EXTENDS BadgeGeneration, TLC

Symmetry == Permutations(Requests) \cup Permutations(Templates)

=============================================================================
