----------------------------- MODULE MCEventTags -----------------------------
\* Instances of EventTags for TLC: slots, events and tags are interchangeable.
EXTENDS EventTags, TLC

Symmetry == Permutations(Requests) \cup Permutations(Events) \cup Permutations(Tags)

=============================================================================
