----------------------------- MODULE Attendance -----------------------------
(***************************************************************************)
(* What check-in and check-out promise of an event's participants, without *)
(* requests and their calls: everything happens at once.  Somebody is      *)
(* marked as gone only after having come, whoever is marked inside has     *)
(* come, and no step brings people in and takes others out.                *)
(***************************************************************************)
CONSTANT People

VARIABLES
    inside,   \* those whose check-in is in force
    gone,     \* those whose check-out is in force
    came      \* those who have ever been inside

vars == <<inside, gone, came>>

Init ==
    /\ inside \subseteq People
    /\ gone = {}
    /\ came = inside

Arrive ==
    \E ps \in SUBSET People :
      /\ inside' = inside \cup ps
      /\ came' = came \cup ps
      /\ UNCHANGED gone

\* The check-in is undone; that they came is not.
Retract ==
    \E ps \in SUBSET inside :
      /\ inside' = inside \ ps
      /\ UNCHANGED <<gone, came>>

Leave ==
    \E ps \in SUBSET came :
      /\ gone' = gone \cup ps
      /\ UNCHANGED <<inside, came>>

Return ==
    \E ps \in SUBSET gone :
      /\ gone' = gone \ ps
      /\ UNCHANGED <<inside, came>>

\* Their registrations are deleted for good.
Forget ==
    \E ps \in SUBSET People :
      /\ inside' = inside \ ps
      /\ gone' = gone \ ps
      /\ UNCHANGED came

Next == Arrive \/ Retract \/ Leave \/ Return \/ Forget

Spec == Init /\ [][Next]_vars

=============================================================================
