----------------------------- MODULE MCAttendees -----------------------------
\* Instances of Attendees for TLC.
EXTENDS Attendees

CONSTANTS e1, v1

\* Requests give the email alone or with another field, or the flag, or nothing.
FewFields ==
    { NoDto, [NoDto EXCEPT !.email = e1, !.data = v1], [NoDto EXCEPT !.active = "yes"] }
        \cup { [NoDto EXCEPT !.email = e] : e \in Emails }

\* There is one attendee, active or not.
OneRow ==
    { [i \in Ids |-> IF i = 1 THEN [email |-> e1, data |-> Unset, active |-> f] ELSE NoRow] :
        f \in Flags }

=============================================================================
