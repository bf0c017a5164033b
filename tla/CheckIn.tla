------------------------------- MODULE CheckIn -------------------------------
(***************************************************************************)
(* Presence at one event: the check-in and check-out of registrations by   *)
(* staff who scan badges, alone or in bulk, while the back office changes  *)
(* statuses, deletes, restores, purges and imports.  An operation finds    *)
(* the registration, checks it, and updates it by id in a second call; no  *)
(* transaction holds the two together, except in an import.                *)
(*                                                                         *)
(* A scan that the checks reject changes nothing and is no step.  Who      *)
(* scanned, where and when is left out.                                    *)
(***************************************************************************)
EXTENDS Naturals, FiniteSets

CONSTANTS
    Regs,      \* registrations of the event
    Requests   \* slots for requests in flight at the same time

ASSUME FiniteRequests == IsFiniteSet(Requests)

VARIABLES
    open,      \* event_settings.allow_checkin_out
    reg,       \* the registrations
    wasIn,     \* history: has the registration ever been checked in?
    admitted,  \* history: scans answered with success since it was last not in
    pc,        \* for each slot, what its request does next
    req        \* for each slot, the local variables of its request

vars == <<open, reg, wasIn, admitted, pc, req>>

---------------------------------------------------------------------------
\* barred: refused or cancelled.  in and out: checked_in_at and checked_out_at
\* are set.
Row == [present : BOOLEAN, barred : BOOLEAN, deleted : BOOLEAN, in : BOOLEAN, out : BOOLEAN]

Gone == [present |-> FALSE, barred |-> FALSE, deleted |-> FALSE, in |-> FALSE, out |-> FALSE]

Kinds == { "none", "checkIn", "undoCheckIn", "checkOut", "undoCheckOut", "purge", "import" }

\* regs: the ids to update.  The rest belongs to the row of an import: whether
\* its upsert of the attendee writes, what the file says, and what it found.
Request == [kind : Kinds, regs : SUBSET Regs, locks : BOOLEAN,
            checked : BOOLEAN, bar : BOOLEAN, row : Row]

NoRequest == [kind |-> "none", regs |-> {}, locks |-> FALSE,
              checked |-> FALSE, bar |-> FALSE, row |-> Gone]

TypeOK ==
    /\ open \in BOOLEAN
    /\ reg \in [Regs -> Row]
    /\ \A r \in Regs : ~reg[r].present => reg[r] = Gone
    /\ wasIn \in [Regs -> BOOLEAN]
    /\ admitted \in [Regs -> Nat]
    /\ pc \in [Requests -> { "idle", "write" }]
    /\ req \in [Requests -> Request]

---------------------------------------------------------------------------
\* Arriving, with the call that finds the registration, and being done

Begin(q, r) ==
    /\ pc[q] = "idle"
    /\ pc' = [pc EXCEPT ![q] = "write"]
    /\ req' = [req EXCEPT ![q] = r]
    /\ UNCHANGED <<open, reg, wasIn, admitted>>

Scan(q, kind, rs) == Begin(q, [NoRequest EXCEPT !.kind = kind, !.regs = rs])

Done(q) ==
    /\ pc' = [pc EXCEPT ![q] = "idle"]
    /\ req' = [req EXCEPT ![q] = NoRequest]

Writes(q, kind) == pc[q] = "write" /\ req[q].kind = kind

\* The ids of a request that still exist: an update of one that does not fails.
Targets(q) == { r \in req[q].regs : reg[r].present }

\* The rows as written, and the history that goes with them: scans are the
\* registrations whose check-in is answered with success.
Write(rows, scans) ==
    /\ reg' = rows
    /\ wasIn' = [r \in Regs |-> wasIn[r] \/ rows[r].in]
    /\ admitted' = [r \in Regs |->
                      IF ~rows[r].in THEN 0
                      ELSE IF r \in scans THEN admitted[r] + 1 ELSE admitted[r]]
    /\ UNCHANGED open

\* The checks that all operations share.
Admissible(r) == reg[r].present /\ ~reg[r].barred /\ open

---------------------------------------------------------------------------
\* Scans

CheckInBeginAgain(q) ==
    \E r \in Regs : Admissible(r) /\ Scan(q, "checkIn", {r})

CheckInBegin(q) ==
    \E r \in Regs : Admissible(r) /\ ~reg[r].in /\ Scan(q, "checkIn", {r})

\* bulkCheckIn: the ids that pass the checks of checkIn, with one updateMany.
BulkCheckInBegin(q) ==
    \E rs \in (SUBSET Regs) \ {{}} :
        /\ \A r \in rs : Admissible(r) /\ ~reg[r].in
        /\ Scan(q, "checkIn", rs)

CheckInWriteBlind(q) ==
    /\ Writes(q, "checkIn")
    /\ Write([r \in Regs |-> IF r \in req[q].regs THEN [reg[r] EXCEPT !.in = TRUE] ELSE reg[r]],
             req[q].regs)
    /\ Done(q)

CheckInWrite(q) ==
    /\ Writes(q, "checkIn")
    /\ Write([r \in Regs |-> IF r \in Targets(q) THEN [reg[r] EXCEPT !.in = TRUE] ELSE reg[r]],
             Targets(q))
    /\ Done(q)

UndoCheckInBegin(q) ==
    \E r \in Regs : Admissible(r) /\ reg[r].in /\ Scan(q, "undoCheckIn", {r})

\* checked_out_at is left as it is.
UndoCheckInWrite(q) ==
    /\ Writes(q, "undoCheckIn")
    /\ Write([r \in Regs |-> IF r \in Targets(q) THEN [reg[r] EXCEPT !.in = FALSE] ELSE reg[r]],
             {})
    /\ Done(q)

CheckOutBeginAnyone(q) ==
    \E r \in Regs : Admissible(r) /\ ~reg[r].out /\ Scan(q, "checkOut", {r})

CheckOutBegin(q) ==
    \E r \in Regs :
        Admissible(r) /\ reg[r].in /\ ~reg[r].out /\ Scan(q, "checkOut", {r})

CheckOutWrite(q) ==
    /\ Writes(q, "checkOut")
    /\ Write([r \in Regs |-> IF r \in Targets(q) THEN [reg[r] EXCEPT !.out = TRUE] ELSE reg[r]],
             {})
    /\ Done(q)

UndoCheckOutBegin(q) ==
    \E r \in Regs : Admissible(r) /\ reg[r].out /\ Scan(q, "undoCheckOut", {r})

UndoCheckOutWrite(q) ==
    /\ Writes(q, "undoCheckOut")
    /\ Write([r \in Regs |-> IF r \in Targets(q) THEN [reg[r] EXCEPT !.out = FALSE] ELSE reg[r]],
             {})
    /\ Done(q)

---------------------------------------------------------------------------
\* Importing with replaceExisting, one row

\* Another import of the registration, with the attendee's row locked.
Locked(r) ==
    \E p \in Requests : Writes(p, "import") /\ req[p].locks /\ r \in req[p].regs

\* The row's transaction upserts the attendee before it looks for the
\* registration.  If it gives more of the attendee than the email, it has the
\* attendee's row locked from there on.  A file that says "checked in"
\* approves.  A live registration that is barred is not rewritten.
ImportBegin(q) ==
    \E r \in Regs, locks, checked, bar \in BOOLEAN :
        /\ reg[r].present /\ (reg[r].deleted \/ ~reg[r].barred)
        /\ ~(checked /\ bar)
        /\ locks => ~Locked(r)
        /\ Begin(q, [kind |-> "import", regs |-> {r}, locks |-> locks,
                     checked |-> checked, bar |-> bar,
                     row |-> [Gone EXCEPT !.deleted = reg[r].deleted, !.in = reg[r].in]])

\* The check-in that an import writes, and what it would be without falling
\* back on the one it found.
Forgotten(r) == r.checked

Kept(r) == r.checked \/ (~r.row.deleted /\ r.row.in)

\* A soft-deleted registration is restored, with the check-in of the file; a
\* live one keeps the check-in that was found.
ImportWrite(q) ==
    /\ Writes(q, "import")
    /\ Write([r \in Regs |->
                IF r \in Targets(q)
                THEN [reg[r] EXCEPT !.barred = req[q].bar, !.in = Kept(req[q]),
                                    !.deleted = @ /\ ~req[q].row.deleted]
                ELSE reg[r]],
             {})
    /\ Done(q)

---------------------------------------------------------------------------
\* The back office: what its last call does to a registration.  Their checks,
\* which are about capacity, are in Registrations.

Office(r, row) ==
    /\ reg[r].present
    /\ Write([reg EXCEPT ![r] = row], {})
    /\ UNCHANGED <<pc, req>>

ChangeStatus == \E r \in Regs, bar \in BOOLEAN : Office(r, [reg[r] EXCEPT !.barred = bar])

Remove == \E r \in Regs : Office(r, [reg[r] EXCEPT !.deleted = TRUE])

Restore == \E r \in Regs : Office(r, [reg[r] EXCEPT !.deleted = FALSE])

PurgeBegin(q) ==
    \E r \in Regs : reg[r].present /\ reg[r].deleted /\ Scan(q, "purge", {r})

PurgeWrite(q) ==
    /\ Writes(q, "purge")
    /\ Write([r \in Regs |-> IF r \in Targets(q) THEN Gone ELSE reg[r]], {})
    /\ Done(q)

\* EventsService.update of the settings.
SetOpen ==
    /\ open' \in BOOLEAN
    /\ UNCHANGED <<reg, wasIn, admitted, pc, req>>

Abort(q) ==
    /\ pc[q] = "write"
    /\ Done(q)
    /\ UNCHANGED <<open, reg, wasIn, admitted>>

---------------------------------------------------------------------------
Step(q) ==
    \/ CheckInBegin(q) \/ BulkCheckInBegin(q) \/ CheckInWrite(q)
    \/ UndoCheckInBegin(q) \/ UndoCheckInWrite(q)
    \/ CheckOutBegin(q) \/ CheckOutWrite(q)
    \/ UndoCheckOutBegin(q) \/ UndoCheckOutWrite(q)
    \/ ImportBegin(q) \/ ImportWrite(q)
    \/ PurgeBegin(q) \/ PurgeWrite(q)
    \/ Abort(q)

\* create with admin_is_checked_in and an import make registrations that are
\* checked in from the start; admin_status may be any.
Init ==
    /\ open \in BOOLEAN
    /\ reg \in [Regs -> { row \in Row : row.present /\ ~row.deleted /\ ~row.out }]
    /\ wasIn = [r \in Regs |-> reg[r].in]
    /\ admitted = [r \in Regs |-> 0]
    /\ pc = [q \in Requests |-> "idle"]
    /\ req = [q \in Requests |-> NoRequest]

Next ==
    \/ \E q \in Requests : Step(q)
    \/ ChangeStatus \/ Remove \/ Restore \/ SetOpen

Spec == Init /\ [][Next]_vars

---------------------------------------------------------------------------
\* Properties

\* Two members of staff may scan one badge at the same time and both be told
\* that it is now checked in.  It never happens more often than requests run at
\* the same time: whoever looks after the first update is refused.
AdmissionsBounded == \A r \in Regs : admitted[r] <= Cardinality(Requests)

\* Nobody is checked out who was never in the building, whatever undoes the
\* check-in while checkOut is between its two calls.  LedgerSpec implies it.
CheckedOutWasIn == \A r \in Regs : reg[r].out => wasIn[r]

Inside == { r \in Regs : reg[r].in }

CheckedOut == { r \in Regs : reg[r].out }

HaveBeenIn == { r \in Regs : wasIn[r] }

Ledger == INSTANCE Attendance
            WITH People <- Regs, inside <- Inside, gone <- CheckedOut, came <- HaveBeenIn

\* However the two calls of scans, undos, imports and deletions interleave,
\* presence behaves as if each of them happened at once, with its condition met:
\* a check-out of somebody who has come, an arrival or a departure but not both.
LedgerSpec == Ledger!Spec

\* What may end the presence of a registration that goes on existing, and the
\* import that looked for the registration before its check-in.
Ends(q, r) ==
    /\ pc[q] = "write" /\ pc'[q] = "idle" /\ r \in req[q].regs
    /\ \/ req[q].kind = "undoCheckIn"
       \/ req[q].kind = "import" /\ req[q].row.deleted

MissedByImport(q, r) ==
    /\ Writes(q, "import") /\ pc'[q] = "idle" /\ r \in req[q].regs
    /\ ~req[q].row.in

\* bulkImport keeps an existing check-in when the file has none: presence ends
\* with undoCheckIn, and when a soft-deleted registration is restored.  It does
\* not hold: an import writes back what it read.  SeenCheckInKept does.
CheckInKept ==
    [][\A r \in Regs : reg[r].in /\ reg'[r].present /\ ~reg'[r].in =>
          \E q \in Requests : Ends(q, r)]_vars

\* The same for every check-in that was there when the import looked.
SeenCheckInKept ==
    [][\A r \in Regs : reg[r].in /\ reg'[r].present /\ ~reg'[r].in =>
          \E q \in Requests : Ends(q, r) \/ MissedByImport(q, r)]_vars

=============================================================================
