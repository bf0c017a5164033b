----------------------------- MODULE Admission -----------------------------
(***************************************************************************)
(* What registering promises of an event's seats, without calls and rows.  *)
(* A desk that takes a case notes the capacity in force.  It may promise   *)
(* the seat it is asked for at one moment at which fewer people than that  *)
(* are admitted, and admits the person later, whatever happened since.     *)
(* Nobody else is ever admitted.                                           *)
(***************************************************************************)
EXTENDS Naturals, FiniteSets

CONSTANTS
    People,
    Nobody,   \* the seat of a desk that has promised none
    Desks     \* where people and staff are served, at the same time

VARIABLES
    capacity,   \* of the event; 0 when it is not limited
    admitted,   \* the people who have a seat
    open,       \* the desks that have a case
    limit,      \* for each desk, the capacity it noted; 0 without a case
    seat        \* for each desk, whom it has promised a seat

vars == <<capacity, admitted, open, limit, seat>>

Init ==
    /\ capacity \in Nat
    /\ admitted = {}
    /\ open = {}
    /\ limit = [d \in Desks |-> 0]
    /\ seat = [d \in Desks |-> Nobody]

SetCapacity ==
    /\ capacity' \in Nat
    /\ UNCHANGED <<admitted, open, limit, seat>>

\* Without a limit, and for somebody who is admitted, there is nothing to check.
Open(d) ==
    /\ d \notin open
    /\ open' = open \cup {d}
    /\ limit' = [limit EXCEPT ![d] = capacity]
    /\ \E p \in People \cup {Nobody} :
         /\ p \in admitted \cup {Nobody} \/ capacity = 0
         /\ seat' = [seat EXCEPT ![d] = p]
    /\ UNCHANGED <<capacity, admitted>>

Promise(d) ==
    /\ d \in open /\ seat[d] = Nobody
    /\ limit[d] = 0 \/ Cardinality(admitted) < limit[d]
    /\ \E p \in People : seat' = [seat EXCEPT ![d] = p]
    /\ UNCHANGED <<capacity, admitted, open, limit>>

Admit(d) ==
    /\ seat[d] # Nobody
    /\ admitted' = admitted \cup {seat[d]}
    /\ open' = open \ {d}
    /\ limit' = [limit EXCEPT ![d] = 0]
    /\ seat' = [seat EXCEPT ![d] = Nobody]
    /\ UNCHANGED capacity

\* People lose their seats, cases are closed without effect, and what was
\* promised to somebody who is gone lapses.
Settle ==
    \E lost \in SUBSET admitted, closed \in SUBSET open, lapsed \in SUBSET Desks :
      /\ closed \subseteq lapsed
      /\ admitted' = admitted \ lost
      /\ open' = open \ closed
      /\ limit' = [d \in Desks |-> IF d \in closed THEN 0 ELSE limit[d]]
      /\ seat' = [d \in Desks |-> IF d \in lapsed THEN Nobody ELSE seat[d]]
      /\ UNCHANGED capacity

Next ==
    \/ SetCapacity
    \/ \E d \in Desks : Open(d) \/ Promise(d) \/ Admit(d)
    \/ Settle

Spec == Init /\ [][Next]_vars

=============================================================================
