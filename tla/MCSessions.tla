---------------------------- MODULE MCSessions ----------------------------
\* Instances of Sessions for TLC: clients and slots are interchangeable.
EXTENDS Sessions, TLC

Symmetry == Permutations(Clients) \cup Permutations(Requests)

=============================================================================
