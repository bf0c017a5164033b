----------------------------- MODULE MCCheckIn -----------------------------
\* Instances of CheckIn for TLC: registrations and slots are interchangeable.
EXTENDS CheckIn, TLC

Symmetry == Permutations(Regs) \cup Permutations(Requests)

=============================================================================
