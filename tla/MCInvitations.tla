--------------------------- MODULE MCInvitations ---------------------------
\* Instances of Invitations for TLC: slots are interchangeable.
EXTENDS Invitations, TLC

Symmetry == Permutations(Requests)

=============================================================================
