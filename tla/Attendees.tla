------------------------------ MODULE Attendees ------------------------------
(***************************************************************************)
(* The attendees of one organisation, their revisions and their            *)
(* registrations for one event: everything that writes the table attendees, *)
(* in AttendeesService and in the handlers of registrations.  Transactions *)
(* run at READ COMMITTED: what one has written shows at its COMMIT, which  *)
(* is the step of its last statement, and is locked until then.  A row     *)
(* keeps its id; the fields that no check reads (names, company, labels,   *)
(* notes) are one value, data.  Organisations are left out: the filter on  *)
(* org_id only refuses.  An update or upsert that has nothing to write is  *)
(* a SELECT for Prisma, and locks nothing.                                 *)
(***************************************************************************)
EXTENDS Naturals, FiniteSets

CONSTANTS
    Requests,      \* slots for requests in flight at the same time
    Ids,           \* ids of rows, each drawn once
    Emails,        \* addresses, as citext compares them
    Values,        \* what the other fields may be set to
    Unset,         \* a field that a request does not give, or that is null
    Dtos,          \* the fields that requests give in this instance
    Tables,        \* what the table may hold at the start in this instance
    MaxStarted     \* bound on the requests that are ever started

Flags == { "yes", "no" }

ASSUME AttendeesAssumption ==
    /\ Unset \notin Emails \cup Flags
    /\ MaxStarted \in Nat
    /\ IsFiniteSet(Ids)

VARIABLES
    att,         \* the table attendees: NoRow where there is no row
    rev,         \* the snapshot of each row's last revision; NoRow: none
    reg,         \* the ids of attendees that have a registration
    used,        \* ids drawn so far
    pc,          \* for each slot, the call its request makes next
    req,         \* for each slot, what the request knows and has done
    started,     \* how many requests have been started
    alone,       \* history: have requests only run one after the other so far?
    silent,      \* history: rows whose last change wrote no revision, or whose
                 \* last revision is of a request that gave no field
    surprised    \* history: kinds of request the database has refused on account
                 \* of attendees, while they ran one after the other

vars == <<att, rev, reg, used, pc, req, started, alone, silent, surprised>>

---------------------------------------------------------------------------
Row == [email : Emails, data : Values \cup { Unset }, active : Flags]

NoRow == [email |-> Unset, data |-> Unset, active |-> "no"]

\* The fields a request gives.
Dto == [email : Emails \cup { Unset }, data : Values \cup { Unset },
        active : Flags \cup { Unset }]

NoDto == [email |-> Unset, data |-> Unset, active |-> Unset]

ASSUME DtosAssumption == Dtos \subseteq Dto

ASSUME TablesAssumption ==
    \A t \in Tables :
        /\ t \in [Ids -> Row \cup { NoRow }]
        /\ \A i, j \in Ids : t[i].email = t[j].email => i = j \/ t[i] = NoRow
        /\ Cardinality({ i \in Ids : t[i] = NoRow }) >= MaxStarted

Kinds == { "none", "create", "update", "remove", "force", "restore", "edit",
           "bulkDelete", "bulkRestore", "purge", "bulkPurge", "register", "import" }

\* id: the row found or written.  row: it as written, until COMMIT, or as the
\* revision of a request without fields is to show it.  ids: the rows of a bulk operation or a purge; of them held: attendees it has locked,
\* and regs: those whose registration it has deleted.
Request == [kind : Kinds, dto : Dto, id : SUBSET Ids, row : Row \cup { NoRow },
            ids : SUBSET Ids, held : SUBSET Ids, regs : SUBSET Ids]

NoRequest == [kind |-> "none", dto |-> NoDto, id |-> {}, row |-> NoRow,
              ids |-> {}, held |-> {}, regs |-> {}]

Calls == { "idle", "conflict", "save", "revise", "upsert", "find", "insert",
           "rewrite", "set", "note", "drop", "regs", "lock" }

TypeOK ==
    /\ att \in [Ids -> Row \cup { NoRow }]
    /\ rev \in [Ids -> Row \cup { NoRow }]
    /\ reg \subseteq Ids
    /\ used \subseteq Ids
    /\ pc \in [Requests -> Calls]
    /\ req \in [Requests -> Request]
    /\ started \in 0 .. MaxStarted
    /\ alone \in BOOLEAN
    /\ silent \subseteq Ids
    /\ surprised \subseteq Kinds

---------------------------------------------------------------------------
\* What the queries return, and what an update makes of a row

Stored == { i \in Ids : att[i] # NoRow }

With(email) == { i \in Stored : att[i].email = email }

Given(field, old) == IF field = Unset THEN old ELSE field

\* pickDefinedFields: what the request does not give stays as it is.
Merge(row, d) == [email |-> Given(d.email, row.email),
                  data |-> Given(d.data, row.data),
                  active |-> Given(d.active, row.active)]

\* Mutant: is_active has no default.
NewRowBare(d) == [email |-> d.email, data |-> d.data, active |-> d.active]

NewRow(d) == [email |-> d.email, data |-> d.data, active |-> Given(d.active, "yes")]

---------------------------------------------------------------------------
\* The locks that transactions hold, by what they have written.

Written(q) == req[q].row # NoRow /\ req[q].dto # NoDto

\* The row is new, or its email, which the unique index holds, is.
ChangesKey(q) == \E i \in req[q].id : att[i].email # req[q].row.email

Exclusive(q, i) ==
    \/ Written(q) /\ ChangesKey(q) /\ i \in req[q].id
    \/ req[q].kind \in { "purge", "bulkPurge" } /\ i \in req[q].held

Updates(q, i) ==
    \/ Written(q) /\ i \in req[q].id
    \/ i \in req[q].held

\* A revision that refers to a row keeps it from being deleted.
RefersTo(q, i) == pc[q] = "drop" /\ i \in req[q].id

\* Who is in the way of q's reference to the row, of its update, and of its
\* deletion or a change of its email.
InWayOfReference(q, i) == { p \in Requests \ {q} : Exclusive(p, i) }

InWayOfUpdate(q, i) == { p \in Requests \ {q} : Updates(p, i) }

InWayOfDeletion(q, i) == { p \in Requests \ {q} : Updates(p, i) \/ RefersTo(p, i) }

\* Who has put the email into the index or taken it out, and not committed.
InWayOfEmail(q, email) ==
    { p \in Requests \ {q} :
        /\ Written(p) /\ ChangesKey(p)
        /\ \/ email = req[p].row.email
           \/ \E i \in req[p].id : email = att[i].email }

\* Who has deleted the row's registration, and not committed.
InWayOfRegistration(q, i) == { p \in Requests \ {q} : i \in req[p].regs }

\* Who is in the way of the statement that merges d into row i.
InWayOfMerge(q, i, d) ==
    CASE d = NoDto -> {}
      [] d # NoDto /\ d.email \in { Unset, att[i].email } -> InWayOfUpdate(q, i)
      [] OTHER -> InWayOfDeletion(q, i) \cup InWayOfEmail(q, d.email)

\* Who is in the way of the insertion of a registration.
InWayOfInsertion(q, i) ==
    IF i \in reg THEN InWayOfRegistration(q, i) ELSE InWayOfReference(q, i)

\* Mutant: there is no such index.
NeverTaken(email, i) == FALSE

\* The unique index (org_id, email) has the email, for another row than i.
Taken(email, i) == With(email) \ {i} # {}

---------------------------------------------------------------------------
Arrive(q, call, r) ==
    /\ pc[q] = "idle"
    /\ started < MaxStarted
    /\ started' = started + 1
    /\ pc' = [pc EXCEPT ![q] = call]
    /\ req' = [req EXCEPT ![q] = r]
    /\ alone' = (alone /\ \A p \in Requests : pc[p] = "idle")
    /\ UNCHANGED <<att, rev, reg, used, silent, surprised>>

\* A request that knows its rows and has written and locked nothing.
Starting(kind, d, id, ids) ==
    [NoRequest EXCEPT !.kind = kind, !.dto = d, !.id = id, !.ids = ids]

Goto(q, call, r) ==
    /\ pc' = [pc EXCEPT ![q] = call]
    /\ req' = [req EXCEPT ![q] = r]
    /\ UNCHANGED <<started, alone>>

Rows == <<att, rev, reg>>

\* The answer, or an exception that the handler throws itself.
End(q) == Goto(q, "idle", NoRequest)

\* An exception that the database throws: the transaction is rolled back.
Fail(q) ==
    /\ End(q)
    /\ surprised' = IF alone THEN surprised \cup { req[q].kind } ELSE surprised
    /\ UNCHANGED <<Rows, used, silent>>

Read(q, call, r) ==
    /\ Goto(q, call, r)
    /\ UNCHANGED <<Rows, used, silent, surprised>>

---------------------------------------------------------------------------
\* create, update and remove: transactions that end with a revision

\* A row that is found keeps its email: the other fields are written.
ToMerge(d, found) == IF found = {} THEN d ELSE [d EXCEPT !.email = Unset]

\* Mutant: create does not find who is soft-deleted.
CreateAmongActive(q) ==
    \E d \in Dtos :
        LET found == { i \in With(d.email) : att[i].active = "yes" } IN
        /\ d.email # Unset
        /\ Arrive(q, "save", Starting("create", ToMerge(d, found), found, {}))

\* create looks for the email.
Create(q) ==
    \E d \in Dtos :
        /\ d.email # Unset
        /\ Arrive(q, "save",
                  Starting("create", ToMerge(d, With(d.email)), With(d.email), {}))

\* update finds the row by id, and looks for another one with a new email.
Update(q) ==
    \E i \in Stored, d \in Dtos :
        Arrive(q, IF d.email \in { Unset, att[i].email } THEN "save" ELSE "conflict",
               Starting("update", d, {i}, {}))

CheckEmail(q) ==
    /\ pc[q] = "conflict"
    /\ IF With(req[q].dto.email) \ req[q].id = {}
       THEN Read(q, "save", req[q])
       ELSE Read(q, "idle", NoRequest)

\* remove, not forced, deactivates.
Remove(q) ==
    \E i \in Stored :
        Arrive(q, "save", Starting("remove", [NoDto EXCEPT !.active = "no"], {i}, {}))

SaveRow(q) ==
    /\ pc[q] = "save"
    /\ \E i \in req[q].id \cap Stored :
          LET row == Merge(att[i], req[q].dto) IN
          /\ InWayOfMerge(q, i, req[q].dto) = {}
          /\ ~Taken(row.email, i)
          /\ Read(q, "revise", [req[q] EXCEPT !.row = row])

\* The row is gone, or another one has the email.
SaveRowFails(q) ==
    /\ pc[q] = "save"
    /\ \E i \in req[q].id :
          \/ i \notin Stored
          \/ /\ InWayOfMerge(q, i, req[q].dto) = {}
             /\ Taken(Merge(att[i], req[q].dto).email, i)
    /\ Fail(q)

\* Which new id it is does not matter.
Draw(q, call) ==
    \E i \in Ids \ used :
        /\ i = CHOOSE j \in Ids \ used : TRUE
        /\ used' = used \cup {i}
        /\ Goto(q, call, [req[q] EXCEPT !.id = {i}, !.row = NewRow(req[q].dto)])
        /\ UNCHANGED <<Rows, silent, surprised>>

\* create, and an upsert that has found nobody.
InsertRow(q) ==
    /\ pc[q] = "save"
    /\ req[q].id = {}
    /\ InWayOfEmail(q, req[q].dto.email) = {}
    /\ With(req[q].dto.email) = {}
    /\ Draw(q, IF req[q].kind = "create" THEN "revise" ELSE "find")

InsertRowFails(q) ==
    /\ pc[q] = "save"
    /\ req[q].id = {}
    /\ InWayOfEmail(q, req[q].dto.email) = {}
    /\ With(req[q].dto.email) # {}
    /\ Fail(q)

\* COMMIT of what q has written, with a revision that shows row `shown`.
CommitRow(q, shown) ==
    /\ \E i \in req[q].id :
          /\ att' = [att EXCEPT ![i] = req[q].row]
          /\ rev' = [rev EXCEPT ![i] = shown]
          /\ silent' = silent \ {i}
    /\ End(q)
    /\ UNCHANGED <<reg, used, surprised>>

\* Mutant: the revision shows the row as it was found.
ReviseWithFound(q) ==
    /\ pc[q] = "revise"
    /\ Written(q)
    /\ \E i \in req[q].id :
          CommitRow(q, IF att[i] = NoRow THEN req[q].row ELSE att[i])

\* The revision shows the row as the statement before returned it.
Revise(q) ==
    /\ pc[q] = "revise"
    /\ Written(q)
    /\ CommitRow(q, req[q].row)

\* Without a field to write the statement before has only read the row, which
\* others may have changed since.
ReviseUnchanged(q) ==
    /\ pc[q] = "revise"
    /\ ~Written(q)
    /\ \E i \in req[q].id \cap Stored :
          /\ InWayOfReference(q, i) = {}
          /\ rev' = [rev EXCEPT ![i] = req[q].row]
          /\ silent' = silent \cup {i}
    /\ End(q)
    /\ UNCHANGED <<att, reg, used, surprised>>

\* Or deleted.
ReviseFails(q) ==
    /\ pc[q] = "revise"
    /\ ~Written(q)
    /\ req[q].id \cap Stored = {}
    /\ Fail(q)

---------------------------------------------------------------------------
\* remove with force: the revision comes first, then the row goes and takes its
\* revisions and its registrations along (foreign keys on delete cascade).

ForcedRemove(q) ==
    \E i \in Stored :
        Arrive(q, "note", Starting("force", NoDto, {i}, {}))

NoteDeletion(q) ==
    /\ pc[q] = "note"
    /\ \E i \in req[q].id \cap Stored : InWayOfReference(q, i) = {}
    /\ Read(q, "drop", req[q])

NoteDeletionFails(q) ==
    /\ pc[q] = "note"
    /\ req[q].id \cap Stored = {}
    /\ Fail(q)

\* Mutant: only the registrations go that were found before.
DeleteRowsFound(q, ids) ==
    /\ att' = [i \in Ids |-> IF i \in ids THEN NoRow ELSE att[i]]
    /\ rev' = [i \in Ids |-> IF i \in ids THEN NoRow ELSE rev[i]]
    /\ reg' = reg \ req[q].regs
    /\ silent' = silent \ ids
    /\ End(q)
    /\ UNCHANGED <<used, surprised>>

DeleteRows(q, ids) ==
    /\ att' = [i \in Ids |-> IF i \in ids THEN NoRow ELSE att[i]]
    /\ rev' = [i \in Ids |-> IF i \in ids THEN NoRow ELSE rev[i]]
    /\ reg' = reg \ ids
    /\ silent' = silent \ ids
    /\ End(q)
    /\ UNCHANGED <<used, surprised>>

Drop(q) ==
    /\ pc[q] = "drop"
    /\ \A i \in req[q].id :
          InWayOfDeletion(q, i) \cup InWayOfRegistration(q, i) = {}
    /\ DeleteRows(q, req[q].id)

---------------------------------------------------------------------------
\* restore, and the attendee's part of RegistrationsService.update: found, then
\* updated by id in a statement of its own, and no revision.

Restore(q) ==
    \E i \in Stored :
        /\ att[i].active = "no"
        /\ Arrive(q, "set", Starting("restore", [NoDto EXCEPT !.active = "yes"], {i}, {}))

Edit(q) ==
    \E i \in reg, d \in Dtos :
        /\ d # NoDto /\ d.active = Unset
        /\ Arrive(q, "set", Starting("edit", d, {i}, {}))

SetRow(q) ==
    /\ pc[q] = "set"
    /\ \E i \in req[q].id \cap Stored :
          LET row == Merge(att[i], req[q].dto) IN
          /\ InWayOfMerge(q, i, req[q].dto) = {}
          /\ ~Taken(row.email, i)
          /\ att' = [att EXCEPT ![i] = row]
          /\ silent' = silent \cup {i}
    /\ End(q)
    /\ UNCHANGED <<rev, reg, used, surprised>>

SetRowFails(q) ==
    /\ pc[q] = "set"
    /\ \E i \in req[q].id :
          \/ i \notin Stored
          \/ /\ InWayOfMerge(q, i, req[q].dto) = {}
             /\ Taken(Merge(att[i], req[q].dto).email, i)
    /\ Fail(q)

---------------------------------------------------------------------------
\* bulkDelete, bulkRestore: one updateMany, which locks one row after the other.
\* permanentDelete and bulkPermanentDelete: a transaction that deletes the
\* registrations of the rows found, and then the rows.

Bulk(q, kind, flag) ==
    \E ids \in SUBSET { i \in Stored : att[i].active = flag } :
        /\ ids # {}
        /\ Arrive(q, "lock", Starting(kind, NoDto, {}, ids))

BulkDelete(q) == Bulk(q, "bulkDelete", "yes")

BulkRestore(q) == Bulk(q, "bulkRestore", "no")

Purge(q) ==
    \/ \E i \in Stored :
          Arrive(q, "regs", Starting("purge", NoDto, {}, {i}))
    \/ \E ids \in SUBSET Stored :
          /\ ids # {}
          /\ Arrive(q, "regs", Starting("bulkPurge", NoDto, {}, ids))

Purging(q) == req[q].kind \in { "purge", "bulkPurge" }

DeleteRegistrations(q) ==
    /\ pc[q] = "regs"
    /\ \A i \in req[q].ids \cap reg : InWayOfRegistration(q, i) = {}
    /\ Read(q, "lock", [req[q] EXCEPT !.regs = req[q].ids \cap reg])

\* updateMany looks again at a row it had to wait for.
Matches(q, i) ==
    CASE req[q].kind = "bulkDelete"  -> att[i].active = "yes"
      [] req[q].kind = "bulkRestore" -> att[i].active = "no"
      [] OTHER                       -> TRUE

\* Mutant: a row that is locked is visited again.
ToLockAgain(q) == { i \in req[q].ids \cap Stored : Matches(q, i) }

ToLock(q) == { i \in (req[q].ids \cap Stored) \ req[q].held : Matches(q, i) }

InWayOfLock(q, i) ==
    IF Purging(q) THEN InWayOfDeletion(q, i) ELSE InWayOfUpdate(q, i)

LockRow(q) ==
    /\ pc[q] = "lock"
    /\ \E i \in ToLock(q) :
          /\ InWayOfLock(q, i) = {}
          /\ Read(q, "lock", [req[q] EXCEPT !.held = req[q].held \cup {i}])

Locked(q) == pc[q] = "lock" /\ ToLock(q) = {}

BulkSet(q) ==
    /\ Locked(q)
    /\ ~Purging(q)
    /\ att' = [i \in Ids |->
                 IF i \in req[q].held
                 THEN [att[i] EXCEPT !.active = IF req[q].kind = "bulkDelete" THEN "no" ELSE "yes"]
                 ELSE att[i]]
    /\ silent' = silent \cup req[q].held
    /\ End(q)
    /\ UNCHANGED <<rev, reg, used, surprised>>

\* permanentDelete's delete by id fails when the row is gone.
PurgeFails(q) ==
    /\ Locked(q)
    /\ req[q].kind = "purge" /\ req[q].held = {}
    /\ Fail(q)

PurgeRows(q) ==
    /\ Locked(q)
    /\ \/ req[q].kind = "bulkPurge"
       \/ req[q].kind = "purge" /\ req[q].held # {}
    /\ \A i \in req[q].held : InWayOfRegistration(q, i) = {}
    /\ DeleteRows(q, req[q].held)

---------------------------------------------------------------------------
\* A registration: registerToEvent and RegistrationsService.create, and a row of
\* bulkImport that replaces what is there.  Each upserts the attendee.

Register(q) ==
    \E kind \in { "register", "import" }, d \in Dtos :
        /\ d.email # Unset /\ d.active = Unset
        /\ Arrive(q, "upsert", Starting(kind, d, {}, {}))

OnlyEmail(d) == d = [NoDto EXCEPT !.email = d.email]

UpsertFound(q) ==
    /\ pc[q] = "upsert"
    /\ ~OnlyEmail(req[q].dto)
    /\ InWayOfEmail(q, req[q].dto.email) = {}
    /\ \E i \in With(req[q].dto.email) :
          /\ InWayOfUpdate(q, i) = {}
          /\ Read(q, "find", [req[q] EXCEPT !.id = {i}, !.row = Merge(att[i], req[q].dto)])

UpsertNew(q) ==
    /\ pc[q] = "upsert"
    /\ ~OnlyEmail(req[q].dto)
    /\ InWayOfEmail(q, req[q].dto.email) = {}
    /\ With(req[q].dto.email) = {}
    /\ Draw(q, "find")

\* With nothing to write but the email the upsert reads, and inserts a row in a
\* statement of its own if it has found none.
UpsertRead(q) ==
    /\ pc[q] = "upsert"
    /\ OnlyEmail(req[q].dto)
    /\ LET found == With(req[q].dto.email) IN
       Read(q, IF found = {} THEN "save" ELSE "find", [req[q] EXCEPT !.id = found])

\* The registration is looked for: the form answers 409 if there is one, and the
\* upsert is rolled back.
FindRegistration(q) ==
    /\ pc[q] = "find"
    /\ \/ req[q].id \cap reg = {} /\ Read(q, "insert", req[q])
       \/ /\ req[q].id \cap reg # {} /\ req[q].kind = "import"
          /\ Read(q, "rewrite", req[q])
       \/ /\ req[q].id \cap reg # {} /\ req[q].kind = "register"
          /\ Read(q, "idle", NoRequest)

\* COMMIT of the attendee's row with the registration, if it was written.
CommitAttendee(q, i) ==
    /\ att' = IF Written(q) THEN [att EXCEPT ![i] = req[q].row] ELSE att
    /\ silent' = IF Written(q) THEN silent \cup {i} ELSE silent
    /\ End(q)
    /\ UNCHANGED <<rev, used, surprised>>

InsertRegistration(q) ==
    /\ pc[q] = "insert"
    /\ \E i \in req[q].id \ reg :
          /\ i \in Stored \/ Written(q)
          /\ InWayOfInsertion(q, i) = {}
          /\ reg' = reg \cup {i}
          /\ CommitAttendee(q, i)

\* A request that locked nothing has registered the attendee since, or the
\* attendee that this one has not locked is gone.
InsertRegistrationFails(q) ==
    /\ pc[q] = "insert"
    /\ \E i \in req[q].id :
          /\ i \in reg \/ ~(i \in Stored \/ Written(q))
          /\ InWayOfInsertion(q, i) = {}
    /\ Fail(q)

RewriteRegistration(q) ==
    /\ pc[q] = "rewrite"
    /\ \E i \in req[q].id \cap reg :
          /\ InWayOfRegistration(q, i) = {}
          /\ CommitAttendee(q, i)
    /\ reg' = reg

RewriteRegistrationFails(q) ==
    /\ pc[q] = "rewrite"
    /\ req[q].id \cap reg = {}
    /\ Fail(q)

---------------------------------------------------------------------------
\* What may end a request at any call: the 5 seconds of a transaction are over,
\* the connection or the process dies.  The database rolls back.  At "find", also
\* what Registrations models: the event is full, a cancelled registration is in
\* the way, the file names a status that there is not.
Abort(q) ==
    /\ pc[q] # "idle"
    /\ Read(q, "idle", NoRequest)

\* For each statement that q may run next, the requests it would wait for.
WaitsFor(q) ==
    CASE pc[q] \in { "save", "set" } /\ req[q].id = {} ->
            { InWayOfEmail(q, req[q].dto.email) }
      [] pc[q] \in { "save", "set" } /\ req[q].id # {} ->
            { InWayOfMerge(q, i, req[q].dto) : i \in req[q].id }
      [] pc[q] = "revise" /\ ~Written(q) ->
            { InWayOfReference(q, i) : i \in req[q].id }
      [] pc[q] = "upsert" /\ ~OnlyEmail(req[q].dto) ->
            { InWayOfEmail(q, req[q].dto.email)
                \cup UNION { InWayOfUpdate(q, i) : i \in With(req[q].dto.email) } }
      [] pc[q] = "insert" ->
            { InWayOfInsertion(q, i) : i \in req[q].id }
      [] pc[q] = "rewrite" ->
            { InWayOfRegistration(q, i) : i \in req[q].id }
      [] pc[q] = "note" ->
            { InWayOfReference(q, i) : i \in req[q].id }
      [] pc[q] = "drop" ->
            { InWayOfDeletion(q, i) \cup InWayOfRegistration(q, i) : i \in req[q].id }
      [] pc[q] = "regs" ->
            { UNION { InWayOfRegistration(q, i) : i \in req[q].ids \cap reg } }
      [] pc[q] = "lock" /\ ToLock(q) # {} ->
            { InWayOfLock(q, i) : i \in ToLock(q) }
      [] pc[q] = "lock" /\ ToLock(q) = {} ->
            { UNION { InWayOfRegistration(q, i) : i \in req[q].held } }
      [] OTHER -> {}

\* Everyone of S waits for others of S.
Deadlocked(S) ==
    \A q \in S : WaitsFor(q) # {} /\ \A ps \in WaitsFor(q) : ps \cap S # {}

\* The database ends one of the transactions of a deadlock.
Victim(q) ==
    /\ \E S \in SUBSET Requests : q \in S /\ Deadlocked(S)
    /\ Fail(q)

---------------------------------------------------------------------------
Begin(q) ==
    \/ Create(q) \/ Update(q) \/ Remove(q) \/ ForcedRemove(q)
    \/ Restore(q) \/ Edit(q) \/ BulkDelete(q) \/ BulkRestore(q) \/ Purge(q)
    \/ Register(q)

Step(q) ==
    \/ CheckEmail(q) \/ SaveRow(q) \/ SaveRowFails(q)
    \/ InsertRow(q) \/ InsertRowFails(q)
    \/ Revise(q) \/ ReviseUnchanged(q) \/ ReviseFails(q)
    \/ NoteDeletion(q) \/ NoteDeletionFails(q) \/ Drop(q)
    \/ SetRow(q) \/ SetRowFails(q)
    \/ DeleteRegistrations(q) \/ LockRow(q) \/ BulkSet(q)
    \/ PurgeFails(q) \/ PurgeRows(q)
    \/ UpsertFound(q) \/ UpsertNew(q) \/ UpsertRead(q) \/ FindRegistration(q)
    \/ InsertRegistration(q) \/ InsertRegistrationFails(q)
    \/ RewriteRegistration(q) \/ RewriteRegistrationFails(q)

\* What there is at the start came through the form.
Init ==
    /\ att \in Tables
    /\ rev = [i \in Ids |-> NoRow]
    /\ reg \in SUBSET Stored
    /\ used = Stored
    /\ pc = [q \in Requests |-> "idle"]
    /\ req = [q \in Requests |-> NoRequest]
    /\ started = 0 /\ alone = TRUE
    /\ silent = Stored
    /\ surprised = {}

Next == \E q \in Requests : Begin(q) \/ Step(q) \/ Abort(q) \/ Victim(q)

Spec == Init /\ [][Next]_vars

\* Requests go on, a lock is handed to those that wait for it in turn, and the
\* database ends deadlocks.  No request need come, and none need abort.
FairSpec ==
    /\ Spec
    /\ \A q \in Requests : SF_vars(Step(q)) /\ WF_vars(Victim(q))

---------------------------------------------------------------------------
\* Properties

\* No two attendees have one email, whether create, update, a registration or
\* the edit of one gave it to them: what makes "upsert by (org_id, email)" mean
\* one row.
EmailsDistinct ==
    \A i, j \in Stored : att[i].email = att[j].email => i = j

\* The last revision of an attendee shows the row as it is, unless the last
\* change was one of those that write no revision (bulkDelete, restore,
\* bulkRestore, registrations and their edits), or the last revision is of a
\* create with the email alone or an update without fields: they have read the
\* row and locked nothing, so another update may commit before their revision.
LastRevisionShowsRow ==
    \A i \in Stored \ silent : rev[i] = att[i]

\* However deletions of attendees meet registrations and revisions being
\* written, neither is left without its attendee.
NothingLeftBehind ==
    /\ reg \subseteq Stored
    /\ \A i \in Ids : rev[i] # NoRow => i \in Stored

\* What create, update, remove, restore, the deletions and registrations look
\* up before they write suffices as long as requests do not overlap: the
\* database refuses nothing on account of attendees.  (RegistrationsService.update
\* looks nothing up.)
ForeseenAlone == alone => surprised \subseteq { "edit" }

\* No request waits for ever for a lock: deadlocks, as of two forced removals of
\* one attendee or of a purge and an import, end with one of the two.
EveryRequestEnds == \A q \in Requests : pc[q] # "idle" ~> pc[q] = "idle"

=============================================================================
