-------------------------- MODULE MCRegistrations --------------------------
(* Instances of Registrations for TLC. *)
EXTENDS Registrations, TLC

\* Attendees are interchangeable, and so are the slots.
Symmetry == Permutations(Attendees) \cup Permutations(Requests)

=============================================================================
