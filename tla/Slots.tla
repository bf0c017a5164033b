------------------------------- MODULE Slots -------------------------------
(***************************************************************************)
(* What Sessions and Invitations share: a request occupies a slot from its *)
(* arrival to its response, and between two of its calls any other request *)
(* may run.                                                                *)
(***************************************************************************)

CONSTANT Requests   \* slots for requests in flight at the same time

VARIABLE pc   \* for each slot, the call its request makes next

=============================================================================
