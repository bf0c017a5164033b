--------------------------- MODULE Registrations ---------------------------
(***************************************************************************)
(* The registrations of one event, as RegistrationsService and             *)
(* PublicService keep them in PostgreSQL.  An HTTP request occupies a slot *)
(* of Requests from its first database call to its last, and every awaited *)
(* call is one step: between two calls of a request any other request may  *)
(* run.  $transaction blocks run at READ COMMITTED, so each of their       *)
(* statements sees what is committed when it starts; what they write shows *)
(* at COMMIT, which is the step of their last statement.                   *)
(*                                                                         *)
(* Timestamps are abstracted to "set" or "null"; attendee data, answers,   *)
(* snapshots and check-in fields are left out (CheckIn has the latter).    *)
(***************************************************************************)
EXTENDS Naturals, FiniteSets

CONSTANTS
    Attendees,    \* attendees of the organisation, by (org_id, email)
    Nobody,       \* the target of a slot that has none
    Requests,     \* slots for requests in flight at the same time
    Kinds,        \* the kinds of request clients send in this instance
    Locking,      \* whether what they send of an attendee makes the upsert write
    Capacities,   \* values events.capacity may take; 0 stands for null
    Ceiling,      \* the largest of them
    ImportRows,   \* bound: rows of an Excel file
    MaxId         \* bound: registration ids drawn for one attendee

AllKinds ==
    { "register", "create", "status", "bulkStatus", "remove", "bulkDelete",
      "restore", "purge", "import", "importReplace", "event" }

ASSUME NobodyAssumption == Nobody \notin Attendees
ASSUME KindsAssumption == Kinds \subseteq AllKinds /\ Locking \subseteq BOOLEAN
ASSUME CapacityAssumption == Ceiling \in Nat /\ Capacities \subseteq 0..Ceiling
ASSUME BoundsAssumption == ImportRows \in Nat /\ MaxId \in Nat \ {0}
ASSUME FiniteAssumption == IsFiniteSet(Attendees) /\ IsFiniteSet(Requests)

VARIABLES
    event,  \* the row of events with its event_settings
    reg,    \* registrations, by attendee: (event_id, attendee_id) is unique
    pc,     \* for each slot, the call its request makes next
    req     \* for each slot, the local variables of its request

vars == <<event, reg, pc, req>>

---------------------------------------------------------------------------
\* Types

Statuses == { "awaiting", "approved", "refused", "cancelled" }

\* A status an imported row asks for.  The parser also produces 'pending'
\* and 'confirmed', which the database enum does not have: "unknown".
Wanted == Statuses \cup { "unknown" }

Event == [capacity : Capacities, autoApprove : BOOLEAN, published : BOOLEAN]

\* id numbers the rows the attendee has had: a deleted row's id is not reused.
Row == [present : BOOLEAN, id : 0..MaxId, status : Statuses,
        confirmed : BOOLEAN, deleted : BOOLEAN]

AbsentRow(id) == [present |-> FALSE, id |-> id, status |-> "awaiting",
                  confirmed |-> FALSE, deleted |-> FALSE]

NewRow(id, status) == [present |-> TRUE, id |-> id, status |-> status,
                       confirmed |-> status = "approved", deleted |-> FALSE]

Calls == { "idle", "count", "upsert", "find", "insert", "write", "bulkEvent",
           "importCount", "importRow", "importUpsert", "importFind", "importWrite" }

\* locks: the upsert of the attendee writes, see HoldsAttendee.
Request == [kind : Kinds \cup {"none"}, who : Attendees \cup {Nobody},
            locks : BOOLEAN, row : Row, want : Wanted, cap : Capacities \cup {0},
            ids : SUBSET (Attendees \X (0..MaxId)), more : Nat,
            left : 0..ImportRows, taken : Nat]

NoRequest == [kind |-> "none", who |-> Nobody, locks |-> FALSE,
              row |-> AbsentRow(0), want |-> "awaiting", cap |-> 0, ids |-> {}, more |-> 1,
              left |-> 0, taken |-> 0]

TypeOK ==
    /\ event \in Event
    /\ reg \in [Attendees -> Row]
    /\ pc \in [Requests -> Calls]
    /\ req \in [Requests -> Request]

---------------------------------------------------------------------------
\* What the queries return, and the steps common to all handlers

\* count({status: 'approved', deleted_at: null})
Approved == { a \in Attendees :
    reg[a].present /\ reg[a].status = "approved" /\ ~reg[a].deleted }

SeatsTaken == Cardinality(Approved)

Rows == { a \in Attendees : reg[a].present }

\* The row a request read earlier, found again by its primary key: that key
\* is what most handlers use of the row after their checks.
StillThere(a, id) == reg[a].present /\ reg[a].id = id

Key(a) == AbsentRow(reg[a].id)

Start(q, r, call) ==
    /\ pc[q] = "idle"
    /\ r.kind \in Kinds
    /\ req' = [req EXCEPT ![q] = r]
    /\ pc' = [pc EXCEPT ![q] = call]

Goto(q, call) ==
    /\ pc' = [pc EXCEPT ![q] = call]
    /\ UNCHANGED req

\* The response, an answer or an exception: the slot is free again.
Finish(q) ==
    /\ pc' = [pc EXCEPT ![q] = "idle"]
    /\ req' = [req EXCEPT ![q] = NoRequest]

\* attendee.upsert inserts the attendee's row or updates the fields the
\* request gives, and the transaction keeps that row locked until it ends.
\* For a known attendee of whom it gives the email alone there is nothing to
\* update: Prisma only reads the row, which waits for nobody and locks nothing.
HoldsAttendee(q) ==
    /\ req[q].locks
    /\ \/ pc[q] \in { "find", "insert", "importFind", "importWrite" }
       \/ pc[q] = "count" /\ req[q].kind = "register"

AttendeeFree(a) == \A p \in Requests : ~(HoldsAttendee(p) /\ req[p].who = a)

FullOffByOne(r, taken) == taken > r.cap

Full(r, taken) == taken + r.more > r.cap

---------------------------------------------------------------------------
\* Registering: the public form, and the back office or the mobile app

\* PublicService.registerToEvent: the event, its settings and the new
\* row's status are read first.
RegisterBegin(q) ==
    /\ event.published
    /\ \E a \in Attendees, locks \in Locking :
         Start(q, [NoRequest EXCEPT
                     !.kind = "register", !.who = a, !.locks = locks,
                     !.cap = event.capacity,
                     !.want = IF event.autoApprove THEN "approved" ELSE "awaiting"],
               "upsert")
    /\ UNCHANGED <<event, reg>>

\* RegistrationsService.create: admin_status prevails, mobile registrations
\* are approved, and capacity is checked before the attendee is upserted.
CreateBegin(q) ==
    /\ \E a \in Attendees, locks \in Locking, mobile \in BOOLEAN,
          admin \in Statuses \cup {"none"} :
         LET byDefault == IF event.autoApprove \/ mobile THEN "approved" ELSE "awaiting"
             want == IF admin = "none" THEN byDefault ELSE admin
         IN Start(q, [NoRequest EXCEPT !.kind = "create", !.who = a, !.locks = locks,
                                       !.cap = event.capacity, !.want = want],
                  IF event.capacity > 0 /\ want = "approved" THEN "count" ELSE "upsert")
    /\ UNCHANGED <<event, reg>>

UpsertAttendeeOverlapping(q) ==
    /\ pc[q] = "upsert"
    /\ Goto(q, "find")
    /\ UNCHANGED <<event, reg>>

\* If it writes, it waits for the transaction that has the attendee's row locked.
UpsertAttendee(q) ==
    /\ pc[q] = "upsert"
    /\ req[q].locks => AttendeeFree(req[q].who)
    /\ Goto(q, "find")
    /\ UNCHANGED <<event, reg>>

\* registration.findUnique: an awaiting, approved or refused row ends the
\* request, soft-deleted or not.  The public form checks capacity next.
FindExisting(q) ==
    LET r == req[q]
        row == reg[r.who]
    IN /\ pc[q] = "find"
       /\ IF row.present /\ row.status # "cancelled"
          THEN Finish(q)
          ELSE /\ req' = [req EXCEPT ![q].row.present = row.present]
               /\ pc' = [pc EXCEPT ![q] =
                    IF r.kind = "register" /\ r.cap > 0 /\ r.want = "approved"
                    THEN "count" ELSE "insert"]
       /\ UNCHANGED <<event, reg>>

\* registration.create, and COMMIT.  The unique index rejects a second row
\* for the attendee, and the transaction is rolled back.
Insert(q) ==
    LET a == req[q].who
    IN /\ pc[q] = "insert"
       /\ reg' = IF reg[a].present THEN reg
                 ELSE [reg EXCEPT ![a] = NewRow(reg[a].id + 1, req[q].want)]
       /\ Finish(q)
       /\ UNCHANGED event

---------------------------------------------------------------------------
\* The capacity check, wherever a handler makes it

CallAfterCount(kind) ==
    CASE kind = "create"   -> "upsert"
      [] kind = "register" -> "insert"
      [] OTHER             -> "write"

CountSeats(q) ==
    /\ pc[q] = "count"
    /\ IF Full(req[q], SeatsTaken)
       THEN Finish(q)
       ELSE Goto(q, CallAfterCount(req[q].kind))
    /\ UNCHANGED <<event, reg>>

---------------------------------------------------------------------------
\* Status changes

StatusBeginUnchecked(q) ==
    /\ \E a \in Rows, want \in Statuses :
         Start(q, [NoRequest EXCEPT !.kind = "status", !.who = a, !.want = want,
                                    !.row = [Key(a) EXCEPT !.confirmed = reg[a].confirmed],
                                    !.cap = event.capacity],
               "write")
    /\ UNCHANGED <<event, reg>>

StatusBegin(q) ==
    /\ \E a \in Rows, want \in Statuses :
         Start(q, [NoRequest EXCEPT !.kind = "status", !.who = a, !.want = want,
                                    !.row = [Key(a) EXCEPT !.confirmed = reg[a].confirmed],
                                    !.cap = event.capacity],
               IF want = "approved" /\ reg[a].status # "approved" /\ event.capacity > 0
               THEN "count" ELSE "write")
    /\ UNCHANGED <<event, reg>>

StatusWriteUnconfirmed(q) ==
    LET r == req[q]
    IN /\ pc[q] = "write" /\ r.kind = "status"
       /\ reg' = IF StillThere(r.who, r.row.id)
                 THEN [reg EXCEPT ![r.who].status = r.want]
                 ELSE reg
       /\ Finish(q)
       /\ UNCHANGED event

\* confirmed_at is set when approving, unless the row read had one.
StatusWrite(q) ==
    LET r == req[q]
    IN /\ pc[q] = "write" /\ r.kind = "status"
       /\ reg' = IF StillThere(r.who, r.row.id)
                 THEN [reg EXCEPT
                         ![r.who].status = r.want,
                         ![r.who].confirmed =
                             @ \/ (r.want = "approved" /\ ~r.row.confirmed)]
                 ELSE reg
       /\ Finish(q)
       /\ UNCHANGED event

\* bulkUpdateStatus, called with ids of soft-deleted rows too: findMany
\* counts the rows that are not approved yet.
BulkStatusBegin(q) ==
    /\ \E as \in (SUBSET Rows) \ {{}}, want \in Statuses :
         LET more == Cardinality({ a \in as : reg[a].status # "approved" })
         IN Start(q, [NoRequest EXCEPT
                        !.kind = "bulkStatus", !.want = want, !.more = more,
                        !.ids = { <<a, reg[a].id>> : a \in as }],
                  IF want = "approved" /\ more > 0 THEN "bulkEvent" ELSE "write")
    /\ UNCHANGED <<event, reg>>

BulkReadEvent(q) ==
    /\ pc[q] = "bulkEvent"
    /\ req' = [req EXCEPT ![q].cap = event.capacity]
    /\ pc' = [pc EXCEPT ![q] = IF event.capacity > 0 THEN "count" ELSE "write"]
    /\ UNCHANGED <<event, reg>>

\* updateMany: the ids that still exist.
BulkStatusWrite(q) ==
    LET r == req[q]
    IN /\ pc[q] = "write" /\ r.kind = "bulkStatus"
       /\ reg' = [a \in Attendees |->
                    IF reg[a].present /\ <<a, reg[a].id>> \in r.ids
                    THEN [reg[a] EXCEPT !.status = r.want,
                                        !.confirmed = @ \/ r.want = "approved"]
                    ELSE reg[a]]
       /\ Finish(q)
       /\ UNCHANGED event

---------------------------------------------------------------------------
\* Soft deletion, restoration and permanent deletion

SoftDelete(as) ==
    reg' = [a \in Attendees |->
              IF a \in as THEN [reg[a] EXCEPT !.deleted = TRUE] ELSE reg[a]]

\* The look-up by id and the update by id fail alike when the row is gone:
\* one step, taken by a free slot.
Remove(q) ==
    /\ "remove" \in Kinds /\ pc[q] = "idle"
    /\ \E a \in Rows : SoftDelete({a})
    /\ UNCHANGED <<event, pc, req>>

BulkDelete(q) ==
    /\ "bulkDelete" \in Kinds /\ pc[q] = "idle"
    /\ \E as \in (SUBSET Rows) \ {{}} : SoftDelete(as)
    /\ UNCHANGED <<event, pc, req>>

RestoreBeginUnchecked(q) ==
    /\ \E a \in Rows :
         /\ reg[a].deleted
         /\ Start(q, [NoRequest EXCEPT !.kind = "restore", !.who = a, !.row = Key(a),
                                       !.cap = event.capacity],
                  "write")
    /\ UNCHANGED <<event, reg>>

RestoreBegin(q) ==
    /\ \E a \in Rows :
         /\ reg[a].deleted
         /\ Start(q, [NoRequest EXCEPT !.kind = "restore", !.who = a, !.row = Key(a),
                                       !.cap = event.capacity],
                  IF reg[a].status = "approved" /\ event.capacity > 0
                  THEN "count" ELSE "write")
    /\ UNCHANGED <<event, reg>>

RestoreWrite(q) ==
    LET r == req[q]
    IN /\ pc[q] = "write" /\ r.kind = "restore"
       /\ reg' = IF StillThere(r.who, r.row.id)
                 THEN [reg EXCEPT ![r.who].deleted = FALSE]
                 ELSE reg
       /\ Finish(q)
       /\ UNCHANGED event

\* Finds a soft-deleted row.  MaxId bounds the rows an attendee goes through.
PurgeBegin(q) ==
    /\ \E a \in Rows :
         /\ reg[a].deleted
         /\ reg[a].id < MaxId
         /\ Start(q, [NoRequest EXCEPT !.kind = "purge", !.who = a, !.row = Key(a)],
                  "write")
    /\ UNCHANGED <<event, reg>>

PurgeWriteByAttendee(q) ==
    LET r == req[q]
    IN /\ pc[q] = "write" /\ r.kind = "purge"
       /\ reg' = IF reg[r.who].present
                 THEN [reg EXCEPT ![r.who] = Key(r.who)]
                 ELSE reg
       /\ Finish(q)
       /\ UNCHANGED event

\* The delete names the id alone.
PurgeWrite(q) ==
    LET r == req[q]
    IN /\ pc[q] = "write" /\ r.kind = "purge"
       /\ reg' = IF StillThere(r.who, r.row.id)
                 THEN [reg EXCEPT ![r.who] = AbsentRow(r.row.id)]
                 ELSE reg
       /\ Finish(q)
       /\ UNCHANGED event

---------------------------------------------------------------------------
\* Excel import: the seats are counted once, then one transaction per row

ImportBegin(q) ==
    /\ \E kind \in { "import", "importReplace" } :
         Start(q, [NoRequest EXCEPT !.kind = kind, !.cap = event.capacity,
                                    !.left = ImportRows],
               "importCount")
    /\ UNCHANGED <<event, reg>>

ImportCount(q) ==
    /\ pc[q] = "importCount"
    /\ req' = [req EXCEPT ![q].taken = SeatsTaken]
    /\ pc' = [pc EXCEPT ![q] = "importRow"]
    /\ UNCHANGED <<event, reg>>

\* The next row of the file, and the transaction for it.
ImportRow(q) ==
    /\ pc[q] = "importRow"
    /\ req[q].left > 0
    /\ \E a \in Attendees, locks \in Locking, want \in Wanted :
         req' = [req EXCEPT ![q].who = a, ![q].locks = locks, ![q].want = want,
                            ![q].left = @ - 1]
    /\ pc' = [pc EXCEPT ![q] = "importUpsert"]
    /\ UNCHANGED <<event, reg>>

\* The same upsert of the attendee as in UpsertAttendee.
ImportUpsert(q) ==
    /\ pc[q] = "importUpsert"
    /\ req[q].locks => AttendeeFree(req[q].who)
    /\ Goto(q, "importFind")
    /\ UNCHANGED <<event, reg>>

ImportEndOffByOne(q) ==
    /\ pc[q] = "importRow"
    /\ req[q].left = 1
    /\ Finish(q)
    /\ UNCHANGED <<event, reg>>

ImportEnd(q) ==
    /\ pc[q] = "importRow"
    /\ req[q].left = 0
    /\ Finish(q)
    /\ UNCHANGED <<event, reg>>

Replacing(r) == r.kind = "importReplace"

\* An existing live registration that replaceExisting turns into an
\* approved one, and a row that needs a new registration.
Promotes(r, row) ==
    /\ row.present /\ ~row.deleted /\ Replacing(r)
    /\ row.status # "approved" /\ r.want = "approved"

AddsApproved(r, row) == ~row.present /\ r.cap > 0 /\ r.want = "approved"

\* 'Event is full', against the counter local to the import.  A promotion is
\* compared with the capacity even when that is null, which counts as 0.
ImportFull(r, row) ==
    (AddsApproved(r, row) \/ Promotes(r, row)) /\ r.taken >= r.cap

ImportSkipsKnown(r, row) ==
    \/ ImportFull(r, row)
    \/ /\ row.present /\ ~Replacing(r)
       /\ \/ row.deleted
          \/ row.status \in { "awaiting", "approved" }
          \/ row.status = "refused" /\ r.want # "refused"

\* The exceptions that skip the row.  Those for a status that is not in the
\* enum come from the write itself, whichever write it is.
ImportSkips(r, row) ==
    \/ r.want = "unknown"
    \/ ImportFull(r, row)
    \/ /\ row.present /\ ~Replacing(r)
       /\ \/ row.deleted
          \/ row.status \in { "awaiting", "approved" }
          \/ row.status = "refused" /\ r.want # "refused"

NextRow(q) ==
    [req[q] EXCEPT !.who = Nobody, !.locks = FALSE, !.row = AbsentRow(0),
                   !.want = "awaiting"]

ImportFind(q) ==
    LET row == reg[req[q].who]
    IN /\ pc[q] = "importFind"
       /\ IF ImportSkips(req[q], row)
          THEN /\ pc' = [pc EXCEPT ![q] = "importRow"]
               /\ req' = [req EXCEPT ![q] = NextRow(q)]
          ELSE /\ pc' = [pc EXCEPT ![q] = "importWrite"]
               /\ req' = [req EXCEPT ![q].row = row]
       /\ UNCHANGED <<event, reg>>

\* The row as the update rewrites it.  Restoring resets confirmed_at;
\* updating writes back the value read.
Imported(r) ==
    LET now == reg[r.who]
    IN IF r.row.deleted
       THEN [now EXCEPT !.deleted = FALSE, !.status = r.want,
                        !.confirmed = r.want = "approved"]
       ELSE [now EXCEPT !.status = r.want,
                        !.confirmed = r.row.confirmed \/ r.want = "approved"]

\* Restores or updates the row that was found, or else inserts one: the
\* unique index rejects it for a refused or cancelled row.
ImportWrite(q) ==
    LET r == req[q]
        rewrites == r.row.present /\ (r.row.deleted \/ r.row.status \in {"awaiting", "approved"})
        succeeds == IF rewrites THEN StillThere(r.who, r.row.id) ELSE ~reg[r.who].present
        counts == Promotes(r, r.row) \/ AddsApproved(r, r.row)
                     \/ (r.row.deleted /\ r.want = "approved")
    IN /\ pc[q] = "importWrite"
       /\ reg' = IF ~succeeds THEN reg
                 ELSE [reg EXCEPT ![r.who] =
                         IF rewrites THEN Imported(r) ELSE NewRow(@.id + 1, r.want)]
       /\ pc' = [pc EXCEPT ![q] = "importRow"]
       /\ req' = [req EXCEPT ![q] =
                    [NextRow(q) EXCEPT !.taken = IF succeeds /\ counts THEN @ + 1 ELSE @]]
       /\ UNCHANGED event

\* The transaction of one row fails, perhaps while it waits for the attendee:
\* the row is reported as skipped and the import goes on.
ImportRowFails(q) ==
    /\ \/ /\ pc[q] = "importRow" /\ req[q].left > 0
          /\ req' = [req EXCEPT ![q].left = @ - 1]
       \/ /\ pc[q] \in { "importUpsert", "importFind", "importWrite" }
          /\ req' = [req EXCEPT ![q] = NextRow(q)]
    /\ pc' = [pc EXCEPT ![q] = "importRow"]
    /\ UNCHANGED <<event, reg>>

---------------------------------------------------------------------------
\* The event, and failures

\* EventsService.update: one transaction; capacity may go below the seats taken.
UpdateEvent(q) ==
    /\ "event" \in Kinds /\ pc[q] = "idle"
    /\ event' \in Event
    /\ UNCHANGED <<reg, pc, req>>

\* The request dies between two calls: a lost connection, the 5 s limit on an
\* interactive transaction, a restart.  Open transactions are rolled back.
Abort(q) ==
    /\ pc[q] # "idle"
    /\ Finish(q)
    /\ UNCHANGED <<event, reg>>

---------------------------------------------------------------------------
Arrives(q) ==
    \/ RegisterBegin(q) \/ CreateBegin(q)
    \/ StatusBegin(q) \/ BulkStatusBegin(q)
    \/ Remove(q) \/ BulkDelete(q) \/ RestoreBegin(q) \/ PurgeBegin(q)
    \/ ImportBegin(q) \/ UpdateEvent(q)

Proceeds(q) ==
    \/ UpsertAttendee(q) \/ FindExisting(q) \/ Insert(q)
    \/ CountSeats(q)
    \/ StatusWrite(q) \/ BulkReadEvent(q) \/ BulkStatusWrite(q)
    \/ RestoreWrite(q) \/ PurgeWrite(q)
    \/ ImportCount(q) \/ ImportRow(q) \/ ImportEnd(q)
    \/ ImportUpsert(q) \/ ImportFind(q) \/ ImportWrite(q)

Init ==
    /\ event \in Event
    /\ reg = [a \in Attendees |-> AbsentRow(0)]
    /\ pc = [q \in Requests |-> "idle"]
    /\ req = [q \in Requests |-> NoRequest]

Next ==
    \E q \in Requests :
        Arrives(q) \/ Proceeds(q) \/ ImportRowFails(q) \/ Abort(q)

Spec == Init /\ [][Next]_vars

\* The server keeps running the continuations of the requests it has, and
\* PostgreSQL hands a row lock on to the transactions queued for it, so a
\* transaction that waits for an attendee is not overtaken for ever.
FairSpec ==
    /\ Spec
    /\ \A q \in Requests :
         /\ WF_vars(Proceeds(q))
         /\ SF_vars(UpsertAttendee(q))
         /\ SF_vars(ImportUpsert(q))

---------------------------------------------------------------------------
\* Properties

\* However many requests run at the same time, requests that claim one seat
\* each take the event at most one seat per further slot over the largest
\* capacity it was given: the counts in updateStatus, create and
\* registerToEvent are not atomic with the writes they allow, and this is how
\* wrong that can go.  (Restoring and importing are excluded: see README.)
SingleSeatKinds ==
    { "register", "create", "status", "remove", "bulkDelete", "purge", "event" }

OverbookingBound ==
    Kinds \subseteq SingleSeatKinds /\ 0 \notin Capacities
        => SeatsTaken <= Ceiling + Cardinality(Requests) - 1

\* A request has passed the capacity check, or needed none, and its next
\* writes, unless they fail, approve the live registration of a.
Claims(q, a) ==
    /\ req[q].who = a /\ req[q].want = "approved"
    /\ \/ req[q].kind = "create" /\ pc[q] \in { "upsert", "find", "insert" }
       \/ req[q].kind = "register" /\ pc[q] = "insert"
       \/ /\ req[q].kind = "status" /\ pc[q] = "write"
          /\ reg[a].present /\ ~reg[a].deleted /\ reg[a].id = req[q].row.id

Serving == { q \in Requests : req[q].kind \in { "register", "create", "status" } }

Limit == [q \in Requests |-> IF q \in Serving THEN req[q].cap ELSE 0]

Promised == [q \in Requests |->
    IF Claims(q, req[q].who) THEN req[q].who ELSE Nobody]

Office == INSTANCE Admission
            WITH People <- Attendees, Desks <- Requests,
                 capacity <- event.capacity, admitted <- Approved, open <- Serving,
                 limit <- Limit, seat <- Promised

\* However their calls interleave and fail, registrations and status changes
\* behave like desks that each compare, at one moment of their case, the
\* approved registrations with the capacity of when it came in, and then
\* approve at most the registration it is about; nothing else approves one.
OfficeSpec == Office!Spec

\* A request has found no registration of its attendee, and is to insert one.
FoundNone(q) ==
    /\ ~req[q].row.present
    /\ \/ pc[q] \in { "insert", "importWrite" }
       \/ pc[q] = "count" /\ req[q].kind = "register"

Registered(a) == ~reg[a].present /\ reg'[a].present

\* The attendee upsert comes before the duplicate check, and the lock of an
\* upsert that writes lasts until the registration is inserted.  So when
\* requests of the form, the back office and imports meet, a registration
\* appears behind the duplicate check of one of them, for a unique violation
\* instead of a clean 409, only if that one or the one that inserts it gave no
\* more than the email of a known attendee.
NoLateDuplicate ==
    [][\A q \in Requests :
         FoundNone(q) /\ pc'[q] = pc[q] /\ Registered(req[q].who) =>
            \/ ~req[q].locks
            \/ \E p \in Requests :
                 pc'[p] # pc[p] /\ req[p].who = req[q].who /\ ~req[p].locks]_vars

\* Whatever handler approved a registration set its confirmed_at: create,
\* registerToEvent, updateStatus, bulkUpdateStatus and bulkImport each do it
\* their own way, updateStatus and bulkImport from a value read earlier.
ApprovedIsConfirmed ==
    \A a \in Rows : reg[a].status = "approved" => reg[a].confirmed

\* The capacity check, of approved registrations alone as the code counts
\* them: no step takes their number up and above the capacity in force.
\* (docs/LIVRAISON_PHASE1.md:189 counts the awaiting ones as well.)
WithinCapacity ==
    SeatsTaken' > SeatsTaken => event.capacity = 0 \/ SeatsTaken' <= event.capacity

AdmissionWithinCapacity == [][WithinCapacity]_vars

\* The same for every handler except the restoration of a soft-deleted row
\* by bulkImport, which skips the check.
ImportRestores(q) ==
    pc[q] = "importWrite" /\ req[q].row.deleted /\ pc'[q] = "importRow"

CheckedAdmissionWithinCapacity ==
    [][WithinCapacity \/ \E q \in Requests : ImportRestores(q)]_vars

\* permanentDelete only deletes registrations that are soft-deleted: when
\* another request has purged the one it found and the attendee has registered
\* again since, it leaves the new one alone.
PurgeOnlySoftDeleted ==
    [][\A a \in Rows : ~reg'[a].present => reg[a].deleted]_vars

\* Every request is answered: no transaction waits for ever for the lock of
\* an attendee.
EveryRequestEnds ==
    \A q \in Requests : pc[q] # "idle" ~> pc[q] = "idle"

=============================================================================
