------------------------ MODULE RegistrationsProofs ------------------------
(***************************************************************************)
(* What Registrations guarantees for every number of attendees, slots and  *)
(* ids: type correctness, the exclusion that the attendee lock gives, the  *)
(* bound on overbooking; and, under the conditions on what runs at the     *)
(* same time that they need, that what is approved is confirmed, that only *)
(* soft-deleted registrations are purged, that capacity is kept, and that  *)
(* registering implements Admission.                                       *)
(***************************************************************************)
EXTENDS Registrations, FiniteSetTheorems, TLAPS

---------------------------------------------------------------------------
\* The inductive invariant behind type correctness

ImportKinds == { "import", "importReplace" }

SeatKinds == { "create", "register", "status", "bulkStatus", "restore" }

\* What kind of request makes call c, for whom, and with which values: only a
\* row of an import not examined yet asks for an unknown status, and no row
\* with the last id is purged.
SlotFits(c, r) ==
    /\ c \in { "upsert", "find", "insert" } =>
          r.kind \in { "create", "register" } /\ r.who \in Attendees
    /\ c = "count" => r.kind \in SeatKinds
    /\ c = "count" /\ r.kind \in { "create", "register" } => r.who \in Attendees
    /\ c = "bulkEvent" => r.kind = "bulkStatus"
    /\ c \in { "importCount", "importRow" } => r.kind \in ImportKinds
    /\ c \in { "importUpsert", "importFind", "importWrite" } =>
          r.kind \in ImportKinds /\ r.who \in Attendees
    /\ c \notin { "importUpsert", "importFind" } => r.want \in Statuses
    /\ r.kind = "purge" => r.row.id < MaxId

SlotsFit == \A q \in Requests : SlotFits(pc[q], req[q])

\* There is an id left for an attendee without a registration.
RowsFit == \A a \in Attendees : ~reg[a].present => reg[a].id < MaxId

TypeInv == TypeOK /\ RowsFit /\ SlotsFit

---------------------------------------------------------------------------
LEMMA SeatsTakenNat == IsFiniteSet(Approved) /\ SeatsTaken \in Nat
  BY FiniteAssumption, FS_Subset, FS_CardinalityType DEF SeatsTaken, Approved

LEMMA AbsentRowType ==
  ASSUME NEW i \in 0..MaxId PROVE AbsentRow(i) \in Row
  BY DEF AbsentRow, Row, Statuses

LEMMA NoRequestFits == NoRequest \in Request /\ SlotFits("idle", NoRequest)
<1>1. AbsentRow(0) \in Row
  BY AbsentRowType, BoundsAssumption
<1>2. NoRequest \in Request
  BY <1>1, BoundsAssumption DEF NoRequest, Request, Wanted, Statuses
<1> QED
  BY <1>2 DEF SlotFits, NoRequest, Statuses

\* A step that leaves the other slots alone, and this one fitting.
LEMMA SlotStep ==
  ASSUME TypeInv, NEW q \in Requests,
         NEW c \in Calls, NEW r \in Request, SlotFits(c, r),
         pc' = [pc EXCEPT ![q] = c], req' = [req EXCEPT ![q] = r]
  PROVE  /\ pc' \in [Requests -> Calls]
         /\ req' \in [Requests -> Request]
         /\ SlotsFit'
<1>1. pc' \in [Requests -> Calls] /\ req' \in [Requests -> Request]
  BY DEF TypeInv, TypeOK
<1>2. ASSUME NEW p \in Requests PROVE SlotFits(pc'[p], req'[p])
  BY <1>2 DEF TypeInv, TypeOK, SlotsFit
<1> QED
  BY <1>1, <1>2 DEF SlotsFit

LEMMA FinishStep ==
  ASSUME TypeInv, NEW q \in Requests, Finish(q)
  PROVE  /\ pc' \in [Requests -> Calls]
         /\ req' \in [Requests -> Request]
         /\ SlotsFit'
  BY SlotStep, NoRequestFits DEF Finish, Calls

LEMMA GotoStep ==
  ASSUME TypeInv, NEW q \in Requests, NEW c \in Calls, Goto(q, c), SlotFits(c, req[q])
  PROVE  /\ pc' \in [Requests -> Calls]
         /\ req' \in [Requests -> Request]
         /\ SlotsFit'
<1>1. req[q] \in Request /\ req' = [req EXCEPT ![q] = req[q]]
  BY DEF TypeInv, TypeOK, Goto
<1> QED
  BY <1>1, SlotStep DEF Goto

LEMMA StartStep ==
  ASSUME TypeInv, NEW q \in Requests, NEW r \in Request, NEW c \in Calls,
         Start(q, r, c), SlotFits(c, r)
  PROVE  /\ pc' \in [Requests -> Calls]
         /\ req' \in [Requests -> Request]
         /\ SlotsFit'
  BY SlotStep DEF Start

\* The four parts of TypeInv that a step on one slot establishes.
SlotsTyped ==
    /\ pc \in [Requests -> Calls]
    /\ req \in [Requests -> Request]
    /\ SlotsFit

LEMMA FrameStep ==
  ASSUME TypeInv, SlotsTyped', UNCHANGED <<event, reg>>
  PROVE  TypeInv'
  BY DEF TypeInv, TypeOK, RowsFit, SlotsTyped

LEMMA RegStep ==
  ASSUME TypeInv, SlotsTyped', UNCHANGED event,
         reg' \in [Attendees -> Row], RowsFit'
  PROVE  TypeInv'
  BY DEF TypeInv, TypeOK, SlotsTyped

\* The write of a handler that rewrites one row, if it is still there.
LEMMA RewriteStep ==
  ASSUME TypeInv, SlotsTyped', UNCHANGED event,
         NEW a, NEW row \in Row, a \in Attendees => row.present \/ row.id < MaxId,
         reg' = reg \/ reg' = [reg EXCEPT ![a] = row]
  PROVE  TypeInv'
<1>1. reg' \in [Attendees -> Row] /\ RowsFit'
  BY DEF TypeInv, TypeOK, RowsFit
<1> QED
  BY <1>1, RegStep

---------------------------------------------------------------------------
\* A request arrives

LEMMA ArrivesTyped ==
  ASSUME TypeInv, NEW q \in Requests, Arrives(q)
  PROVE  TypeInv'
<1> USE NoRequestFits, BoundsAssumption
<1>1. CASE RegisterBegin(q)
  <2>1. PICK a \in Attendees, locks \in BOOLEAN :
          Start(q, [NoRequest EXCEPT
                     !.kind = "register", !.who = a, !.locks = locks, !.cap = event.capacity,
                     !.want = IF event.autoApprove THEN "approved" ELSE "awaiting"],
               "upsert")
    BY <1>1, KindsAssumption DEF RegisterBegin
  <2> DEFINE r == [NoRequest EXCEPT
                     !.kind = "register", !.who = a, !.locks = locks, !.cap = event.capacity,
                     !.want = IF event.autoApprove THEN "approved" ELSE "awaiting"]
  <2>2. r \in Request /\ SlotFits("upsert", r)
    BY <2>1 DEF TypeInv, TypeOK, Event, Request, Start, SlotFits, Wanted, Statuses
  <2>3. SlotsTyped'
    BY <2>1, <2>2, StartStep DEF SlotsTyped, Calls
  <2> QED
    BY <1>1, <2>3, FrameStep DEF RegisterBegin
<1>2. CASE CreateBegin(q)
  <2>1. PICK a \in Attendees, locks \in BOOLEAN, want \in Statuses,
             call \in {"count", "upsert"} :
          Start(q, [NoRequest EXCEPT !.kind = "create", !.who = a, !.locks = locks,
                                     !.cap = event.capacity, !.want = want], call)
    BY <1>2, KindsAssumption DEF CreateBegin, Statuses
  <2> DEFINE r == [NoRequest EXCEPT !.kind = "create", !.who = a, !.locks = locks,
                                    !.cap = event.capacity, !.want = want]
  <2>2. r \in Request /\ SlotFits(call, r)
    BY <2>1 DEF TypeInv, TypeOK, Event, Request, Start, SlotFits, Wanted, Statuses, SeatKinds
  <2>3. SlotsTyped'
    BY <2>1, <2>2, StartStep DEF SlotsTyped, Calls
  <2> QED
    BY <1>2, <2>3, FrameStep DEF CreateBegin
<1>3. CASE StatusBegin(q)
  <2>1. PICK a \in Rows, want \in Statuses, call \in {"count", "write"} :
          Start(q, [NoRequest EXCEPT !.kind = "status", !.who = a, !.want = want,
                                    !.row = [Key(a) EXCEPT !.confirmed = reg[a].confirmed],
                                    !.cap = event.capacity], call)
    BY <1>3 DEF StatusBegin
  <2> DEFINE r == [NoRequest EXCEPT !.kind = "status", !.who = a, !.want = want,
                                    !.row = [Key(a) EXCEPT !.confirmed = reg[a].confirmed],
                                    !.cap = event.capacity]
  <2>2. a \in Attendees /\ reg[a] \in Row /\ reg[a].id \in 0..MaxId
    BY <2>1 DEF Rows, TypeInv, TypeOK, Row
  <2>3. Key(a) \in Row
    BY <2>2, AbsentRowType DEF Key
  <2>4. [Key(a) EXCEPT !.confirmed = reg[a].confirmed] \in Row
    BY <2>2, <2>3 DEF Row
  <2>5. r \in Request /\ SlotFits(call, r)
    BY <2>1, <2>2, <2>4
       DEF TypeInv, TypeOK, Event, Request, Start, SlotFits, Wanted, Statuses, SeatKinds
  <2>6. SlotsTyped'
    BY <2>1, <2>5, StartStep DEF SlotsTyped, Calls
  <2> QED
    BY <1>3, <2>6, FrameStep DEF StatusBegin
<1>4. CASE BulkStatusBegin(q)
  <2>1. PICK as \in (SUBSET Rows) \ {{}}, want \in Statuses, call \in {"bulkEvent", "write"} :
          Start(q, [NoRequest EXCEPT
                      !.kind = "bulkStatus", !.want = want,
                      !.more = Cardinality({ a \in as : reg[a].status # "approved" }),
                      !.ids = { <<a, reg[a].id>> : a \in as }], call)
    BY <1>4 DEF BulkStatusBegin
  <2> DEFINE r == [NoRequest EXCEPT
                      !.kind = "bulkStatus", !.want = want,
                      !.more = Cardinality({ a \in as : reg[a].status # "approved" }),
                      !.ids = { <<a, reg[a].id>> : a \in as }]
  <2>2. Cardinality({ a \in as : reg[a].status # "approved" }) \in Nat
    <3>1. { a \in as : reg[a].status # "approved" } \subseteq Attendees
      BY <2>1 DEF Rows
    <3> QED
      BY <3>1, FiniteAssumption, FS_Subset, FS_CardinalityType
  <2>3. { <<a, reg[a].id>> : a \in as } \subseteq Attendees \X (0..MaxId)
    <3>1. \A a \in as : <<a, reg[a].id>> \in Attendees \X (0..MaxId)
      BY <2>1 DEF Rows, TypeInv, TypeOK, Row
    <3> QED
      BY <3>1
  <2>4. r.want = want /\ r.kind = "bulkStatus"
    BY DEF NoRequest
  <2>5. r \in Request
    BY <2>1, <2>2, <2>3 DEF Request, Start, Wanted
  <2>6. SlotFits(call, r)
    BY <2>4 DEF SlotFits, SeatKinds
  <2>7. SlotsTyped'
    BY <2>1, <2>5, <2>6, StartStep DEF SlotsTyped, Calls
  <2> QED
    BY <1>4, <2>7, FrameStep DEF BulkStatusBegin
<1>5. CASE Remove(q) \/ BulkDelete(q)
  <2>1. PICK as \in SUBSET Rows : SoftDelete(as)
    BY <1>5 DEF Remove, BulkDelete
  <2>2. reg' \in [Attendees -> Row] /\ RowsFit'
    BY <2>1 DEF SoftDelete, TypeInv, TypeOK, RowsFit, Row
  <2>3. SlotsTyped' /\ UNCHANGED event
    BY <1>5 DEF Remove, BulkDelete, TypeInv, TypeOK, SlotsTyped, SlotsFit
  <2> QED
    BY <2>2, <2>3, RegStep
<1>6. CASE RestoreBegin(q)
  <2>1. PICK a \in Rows, call \in {"count", "write"} :
          Start(q, [NoRequest EXCEPT !.kind = "restore", !.who = a, !.row = Key(a),
                                     !.cap = event.capacity], call)
    BY <1>6 DEF RestoreBegin
  <2> DEFINE r == [NoRequest EXCEPT !.kind = "restore", !.who = a, !.row = Key(a),
                                    !.cap = event.capacity]
  <2>2. Key(a) \in Row /\ a \in Attendees
    BY <2>1, AbsentRowType DEF Key, Rows, TypeInv, TypeOK, Row
  <2>3. r \in Request /\ SlotFits(call, r)
    BY <2>1, <2>2 DEF TypeInv, TypeOK, Event, Request, Start, SlotFits, Wanted, Statuses, SeatKinds
  <2>4. SlotsTyped'
    BY <2>1, <2>3, StartStep DEF SlotsTyped, Calls
  <2> QED
    BY <1>6, <2>4, FrameStep DEF RestoreBegin
<1>7. CASE PurgeBegin(q)
  <2>1. PICK a \in Rows :
          /\ reg[a].id < MaxId
          /\ Start(q, [NoRequest EXCEPT !.kind = "purge", !.who = a, !.row = Key(a)], "write")
    BY <1>7 DEF PurgeBegin
  <2> DEFINE r == [NoRequest EXCEPT !.kind = "purge", !.who = a, !.row = Key(a)]
  <2>2. Key(a) \in Row /\ a \in Attendees /\ Key(a).id < MaxId
    BY <2>1, AbsentRowType DEF Key, AbsentRow, Rows, TypeInv, TypeOK, Row
  <2>3. r \in Request /\ SlotFits("write", r)
    BY <2>1, <2>2 DEF Request, Start, SlotFits, Wanted, Statuses
  <2>4. SlotsTyped'
    BY <2>1, <2>3, StartStep DEF SlotsTyped, Calls
  <2> QED
    BY <1>7, <2>4, FrameStep DEF PurgeBegin
<1>8. CASE ImportBegin(q)
  <2>1. PICK kind \in ImportKinds :
          Start(q, [NoRequest EXCEPT !.kind = kind, !.cap = event.capacity,
                                     !.left = ImportRows], "importCount")
    BY <1>8 DEF ImportBegin, ImportKinds
  <2> DEFINE r == [NoRequest EXCEPT !.kind = kind, !.cap = event.capacity,
                                    !.left = ImportRows]
  <2>2. r \in Request
    <3>1. ImportRows \in 0..ImportRows /\ event.capacity \in Capacities
      BY DEF TypeInv, TypeOK, Event
    <3>2. kind \in Kinds
      BY <2>1 DEF Start, NoRequest
    <3> QED
      BY <3>1, <3>2 DEF Request
  <2>3. r.kind = kind /\ r.want = "awaiting"
    BY DEF NoRequest
  <2>4. SlotFits("importCount", r)
    <3>1. r.kind \in ImportKinds
      BY <2>1, <2>3
    <3> HIDE DEF r
    <3> QED
      BY <3>1, <2>3 DEF SlotFits, ImportKinds, Statuses
  <2>5. SlotsTyped'
    BY <2>1, <2>2, <2>4, StartStep DEF SlotsTyped, Calls
  <2> QED
    BY <1>8, <2>5, FrameStep DEF ImportBegin
<1>9. CASE UpdateEvent(q)
  BY <1>9 DEF UpdateEvent, TypeInv, TypeOK, RowsFit, SlotsFit
<1> QED
  BY <1>1, <1>2, <1>3, <1>4, <1>5, <1>6, <1>7, <1>8, <1>9 DEF Arrives

---------------------------------------------------------------------------
\* A request makes its next call

LEMMA NewRowType ==
  ASSUME NEW i \in 0..MaxId, NEW status \in Statuses
  PROVE  NewRow(i, status) \in Row /\ NewRow(i, status).present
  BY DEF NewRow, Row

LEMMA NextRowFits ==
  ASSUME TypeInv, NEW q \in Requests, req[q].kind \in ImportKinds
  PROVE  NextRow(q) \in Request /\ SlotFits("importRow", NextRow(q))
<1>1. AbsentRow(0) \in Row
  BY AbsentRowType, BoundsAssumption
<1>2. req[q] \in Request
  BY DEF TypeInv, TypeOK
<1>3. NextRow(q) \in Request
  BY <1>1, <1>2 DEF NextRow, Request, Wanted, Statuses
<1>4. NextRow(q).kind = req[q].kind /\ NextRow(q).want = "awaiting"
  BY <1>2 DEF NextRow, Request
<1> QED
  BY <1>3, <1>4 DEF SlotFits, ImportKinds, Statuses

LEMMA ProceedsTyped ==
  ASSUME TypeInv, NEW q \in Requests, Proceeds(q)
  PROVE  TypeInv'
<1> USE DEF SlotsTyped
<1>0. /\ req[q] \in Request /\ pc[q] \in Calls /\ SlotFits(pc[q], req[q])
      /\ \A a \in Attendees : reg[a] \in Row /\ (~reg[a].present => reg[a].id < MaxId)
  BY DEF TypeInv, TypeOK, SlotsFit, RowsFit
<1>1. CASE UpsertAttendee(q)
  <2>1. SlotFits("find", req[q])
    BY <1>0, <1>1 DEF UpsertAttendee, SlotFits
  <2> QED
    BY <1>1, <2>1, GotoStep, FrameStep DEF UpsertAttendee, Calls
<1>2. CASE FindExisting(q)
  <2>1. UNCHANGED <<event, reg>>
    BY <1>2 DEF FindExisting
  <2>2. CASE Finish(q)
    BY <2>1, <2>2, FinishStep, FrameStep
  <2>3. CASE ~Finish(q)
    <3> DEFINE r == [req[q] EXCEPT !.row.present = reg[req[q].who].present]
               c == IF req[q].kind = "register" /\ req[q].cap > 0 /\ req[q].want = "approved"
                    THEN "count" ELSE "insert"
    <3>1. req' = [req EXCEPT ![q] = r] /\ pc' = [pc EXCEPT ![q] = c]
      BY <1>2, <2>3 DEF FindExisting, TypeInv, TypeOK
    <3>2. req[q].who \in Attendees /\ req[q].kind \in {"create", "register"}
          /\ req[q].want \in Statuses
      BY <1>0, <1>2 DEF FindExisting, SlotFits
    <3>3. r \in Request /\ r.kind = req[q].kind /\ r.who = req[q].who /\ r.want = req[q].want
      BY <1>0, <3>2 DEF Request, Row
    <3>4. c \in Calls /\ SlotFits(c, r)
      BY <3>2, <3>3 DEF Calls, SlotFits, SeatKinds
    <3> QED
      BY <2>1, <3>1, <3>3, <3>4, SlotStep, FrameStep
  <2> QED
    BY <2>2, <2>3
<1>3. CASE Insert(q)
  <2> DEFINE a == req[q].who
  <2>1. a \in Attendees /\ req[q].want \in Statuses
    BY <1>0, <1>3 DEF Insert, SlotFits
  <2>2. SlotsTyped' /\ UNCHANGED event
    BY <1>3, FinishStep DEF Insert
  <2>3. CASE reg[a].present
    BY <1>3, <2>2, <2>3, FrameStep DEF Insert
  <2>4. CASE ~reg[a].present
    <3>1. reg[a].id + 1 \in 0..MaxId
      BY <1>0, <2>1, <2>4, BoundsAssumption DEF Row
    <3>2. reg' = [reg EXCEPT ![a] = NewRow(reg[a].id + 1, req[q].want)]
      BY <1>3, <2>4 DEF Insert
    <3> QED
      BY <2>1, <2>2, <3>1, <3>2, NewRowType, RewriteStep
  <2> QED
    BY <2>3, <2>4
<1>4. CASE CountSeats(q)
  <2>1. UNCHANGED <<event, reg>>
    BY <1>4 DEF CountSeats
  <2>2. CASE Finish(q)
    BY <2>1, <2>2, FinishStep, FrameStep
  <2>3. CASE ~Finish(q)
    <3>1. Goto(q, CallAfterCount(req[q].kind))
      BY <1>4, <2>3 DEF CountSeats
    <3>2. CallAfterCount(req[q].kind) \in Calls /\ SlotFits(CallAfterCount(req[q].kind), req[q])
      BY <1>0, <1>4 DEF CountSeats, CallAfterCount, Calls, SlotFits, SeatKinds
    <3> QED
      BY <2>1, <3>1, <3>2, GotoStep, FrameStep
  <2> QED
    BY <2>2, <2>3
<1>5. CASE StatusWrite(q)
  <2> DEFINE a == req[q].who
             row == [reg[a] EXCEPT !.status = req[q].want,
                       !.confirmed = @ \/ (req[q].want = "approved" /\ ~req[q].row.confirmed)]
  <2>1. SlotsTyped' /\ UNCHANGED event
    BY <1>5, FinishStep DEF StatusWrite
  <2>2. req[q].want \in Statuses
    BY <1>0, <1>5 DEF StatusWrite, SlotFits
  <2>3. CASE a \in Attendees /\ StillThere(a, req[q].row.id)
    <3>1. row \in Row /\ row.present
      BY <1>0, <2>2, <2>3 DEF Row, StillThere
    <3>2. reg' = [reg EXCEPT ![a] = row]
      BY <1>5, <2>3 DEF StatusWrite, TypeInv, TypeOK
    <3> QED
      BY <2>1, <3>1, <3>2, RewriteStep
  <2>4. CASE ~(a \in Attendees /\ StillThere(a, req[q].row.id))
    <3>1. reg' = reg
      BY <1>5, <2>4 DEF StatusWrite, TypeInv, TypeOK
    <3> QED
      BY <2>1, <3>1, FrameStep
  <2> QED
    BY <2>3, <2>4
<1>6. CASE BulkReadEvent(q)
  <2> DEFINE r == [req[q] EXCEPT !.cap = event.capacity]
             c == IF event.capacity > 0 THEN "count" ELSE "write"
  <2>1. req' = [req EXCEPT ![q] = r] /\ pc' = [pc EXCEPT ![q] = c] /\ UNCHANGED <<event, reg>>
    BY <1>6 DEF BulkReadEvent, TypeInv, TypeOK
  <2>2. req[q].kind = "bulkStatus" /\ req[q].want \in Statuses
    BY <1>0, <1>6 DEF BulkReadEvent, SlotFits
  <2>3. r \in Request /\ r.kind = "bulkStatus" /\ r.want = req[q].want
    BY <1>0, <2>2 DEF Request, TypeInv, TypeOK, Event
  <2>4. c \in Calls /\ SlotFits(c, r)
    BY <2>2, <2>3 DEF Calls, SlotFits, SeatKinds
  <2> QED
    BY <2>1, <2>3, <2>4, SlotStep, FrameStep
<1>7. CASE BulkStatusWrite(q)
  <2>1. SlotsTyped' /\ UNCHANGED event
    BY <1>7, FinishStep DEF BulkStatusWrite
  <2>2. req[q].want \in Statuses
    BY <1>0, <1>7 DEF BulkStatusWrite, SlotFits
  <2>3. reg' \in [Attendees -> Row] /\ RowsFit'
    BY <1>0, <1>7, <2>2 DEF BulkStatusWrite, Row, RowsFit
  <2> QED
    BY <2>1, <2>3, RegStep
<1>8. CASE RestoreWrite(q)
  <2> DEFINE a == req[q].who
             row == [reg[a] EXCEPT !.deleted = FALSE]
  <2>1. SlotsTyped' /\ UNCHANGED event
    BY <1>8, FinishStep DEF RestoreWrite
  <2>2. reg' \in [Attendees -> Row] /\ RowsFit'
    BY <1>0, <1>8 DEF RestoreWrite, Row, RowsFit, TypeInv, TypeOK
  <2> QED
    BY <2>1, <2>2, RegStep
<1>9. CASE PurgeWrite(q)
  <2> DEFINE i == req[q].row.id
  <2>1. SlotsTyped' /\ UNCHANGED event
    BY <1>9, FinishStep DEF PurgeWrite
  <2>2. i \in 0..MaxId /\ i < MaxId
    BY <1>0, <1>9 DEF PurgeWrite, SlotFits, Request, Row
  <2>3. AbsentRow(i) \in Row /\ AbsentRow(i).id < MaxId
    BY <2>2, AbsentRowType DEF AbsentRow
  <2>4. reg' = reg \/ reg' = [reg EXCEPT ![req[q].who] = AbsentRow(i)]
    BY <1>9 DEF PurgeWrite
  <2> QED
    BY <2>1, <2>3, <2>4, RewriteStep
<1>10. CASE ImportCount(q)
  <2> DEFINE r == [req[q] EXCEPT !.taken = SeatsTaken]
  <2>1. req' = [req EXCEPT ![q] = r] /\ pc' = [pc EXCEPT ![q] = "importRow"]
        /\ UNCHANGED <<event, reg>>
    BY <1>10 DEF ImportCount, TypeInv, TypeOK
  <2>2. req[q].kind \in ImportKinds /\ req[q].want \in Statuses
    BY <1>0, <1>10 DEF ImportCount, SlotFits
  <2>3. r \in Request /\ r.kind = req[q].kind /\ r.want = req[q].want
    BY <1>0, SeatsTakenNat DEF Request
  <2>4. SlotFits("importRow", r)
    BY <2>2, <2>3 DEF SlotFits, ImportKinds
  <2> QED
    BY <2>1, <2>3, <2>4, SlotStep, FrameStep DEF Calls
<1>11. CASE ImportRow(q)
  <2>1. PICK a \in Attendees, locks \in BOOLEAN, want \in Wanted :
          req' = [req EXCEPT ![q].who = a, ![q].locks = locks, ![q].want = want,
                             ![q].left = @ - 1]
    BY <1>11, KindsAssumption DEF ImportRow
  <2> DEFINE r == [req[q] EXCEPT !.who = a, !.locks = locks, !.want = want, !.left = @ - 1]
  <2>2. req' = [req EXCEPT ![q] = r] /\ pc' = [pc EXCEPT ![q] = "importUpsert"]
        /\ UNCHANGED <<event, reg>> /\ req[q].left > 0
    BY <1>11, <2>1 DEF ImportRow, TypeInv, TypeOK
  <2>3. req[q].kind \in ImportKinds
    BY <1>0, <1>11 DEF ImportRow, SlotFits
  <2>4. r \in Request /\ r.kind = req[q].kind /\ r.who = a
    <3>1. req[q].left - 1 \in 0..ImportRows
      BY <1>0, <2>2, BoundsAssumption DEF Request
    <3> QED
      BY <1>0, <2>1, <3>1 DEF Request
  <2>5. SlotFits("importUpsert", r)
    BY <2>1, <2>3, <2>4 DEF SlotFits, ImportKinds
  <2> QED
    BY <2>2, <2>4, <2>5, SlotStep, FrameStep DEF Calls
<1>12. CASE ImportEnd(q)
  BY <1>12, FinishStep, FrameStep DEF ImportEnd
<1>13. CASE ImportFind(q)
  <2>1. req[q].kind \in ImportKinds /\ req[q].who \in Attendees /\ UNCHANGED <<event, reg>>
    BY <1>0, <1>13 DEF ImportFind, SlotFits
  <2>2. CASE ImportSkips(req[q], reg[req[q].who])
    BY <1>13, <2>1, <2>2, NextRowFits, SlotStep, FrameStep DEF ImportFind, Calls
  <2>3. CASE ~ImportSkips(req[q], reg[req[q].who])
    <3> DEFINE r == [req[q] EXCEPT !.row = reg[req[q].who]]
    <3>1. req' = [req EXCEPT ![q] = r] /\ pc' = [pc EXCEPT ![q] = "importWrite"]
      BY <1>13, <2>3 DEF ImportFind, TypeInv, TypeOK
    <3>2. r \in Request /\ r.kind = req[q].kind /\ r.who = req[q].who /\ r.want = req[q].want
      BY <1>0, <2>1 DEF Request
    <3>3. r.want \in Statuses
      BY <1>0, <2>3, <3>2 DEF ImportSkips, Request, Wanted
    <3>4. SlotFits("importWrite", r)
      BY <2>1, <3>2, <3>3 DEF SlotFits, ImportKinds
    <3> QED
      BY <2>1, <3>1, <3>2, <3>4, SlotStep, FrameStep DEF Calls
  <2> QED
    BY <2>2, <2>3
<1>14. CASE ImportWrite(q)
  <2> DEFINE a == req[q].who
  <2>1. /\ req[q].kind \in ImportKinds /\ a \in Attendees /\ req[q].want \in Statuses
        /\ UNCHANGED event
    BY <1>0, <1>14 DEF ImportWrite, SlotFits
  <2>2. PICK n \in {req[q].taken, req[q].taken + 1} :
          /\ req' = [req EXCEPT ![q] = [NextRow(q) EXCEPT !.taken = n]]
          /\ pc' = [pc EXCEPT ![q] = "importRow"]
    BY <1>0, <1>14, NextRowFits, <2>1 DEF ImportWrite, NextRow, Request
  <2>3. SlotsTyped'
    <3> DEFINE r == [NextRow(q) EXCEPT !.taken = n]
    <3>1. NextRow(q) \in Request /\ SlotFits("importRow", NextRow(q))
      BY <2>1, NextRowFits
    <3>2. n \in Nat
      BY <1>0, <2>2 DEF Request
    <3>3. r \in Request /\ r.kind = NextRow(q).kind /\ r.want = NextRow(q).want
      BY <3>1, <3>2 DEF Request
    <3>4. SlotFits("importRow", r)
      BY <3>1, <3>3 DEF SlotFits, ImportKinds
    <3> QED
      BY <2>2, <3>3, <3>4, SlotStep DEF Calls
  <2>4. PICK row :
          /\ reg' = reg \/ reg' = [reg EXCEPT ![a] = row]
          /\ \/ row = Imported(req[q])
             \/ row = NewRow(reg[a].id + 1, req[q].want) /\ ~reg[a].present
    BY <1>14 DEF ImportWrite
  <2>5. row \in Row /\ (row.present \/ row.id < MaxId)
    <3>1. CASE row = Imported(req[q])
      BY <1>0, <2>1, <3>1 DEF Imported, Row, Request
    <3>2. CASE row = NewRow(reg[a].id + 1, req[q].want) /\ ~reg[a].present
      <4>1. reg[a].id + 1 \in 0..MaxId
        BY <1>0, <2>1, <3>2, BoundsAssumption DEF Row
      <4> QED
        BY <2>1, <3>2, <4>1, NewRowType
    <3> QED
      BY <2>4, <3>1, <3>2
  <2> QED
    BY <2>1, <2>3, <2>4, <2>5, RewriteStep
<1>15. CASE ImportUpsert(q)
  <2>1. SlotFits("importFind", req[q])
    BY <1>0, <1>15 DEF ImportUpsert, SlotFits
  <2> QED
    BY <1>15, <2>1, GotoStep, FrameStep DEF ImportUpsert, Calls
<1> QED
  BY <1>1, <1>2, <1>3, <1>4, <1>5, <1>6, <1>7, <1>8, <1>9, <1>10, <1>11, <1>12,
     <1>13, <1>14, <1>15 DEF Proceeds

LEMMA RowFailsTyped ==
  ASSUME TypeInv, NEW q \in Requests, ImportRowFails(q)
  PROVE  TypeInv'
<1>0. req[q] \in Request /\ SlotFits(pc[q], req[q]) /\ UNCHANGED <<event, reg>>
  BY DEF ImportRowFails, TypeInv, TypeOK, SlotsFit
<1>1. req[q].kind \in ImportKinds
  BY <1>0 DEF ImportRowFails, SlotFits
<1>2. CASE pc[q] = "importRow"
  <2> DEFINE r == [req[q] EXCEPT !.left = @ - 1]
  <2>1. /\ req' = [req EXCEPT ![q] = r] /\ pc' = [pc EXCEPT ![q] = "importRow"]
        /\ req[q].left > 0
    BY <1>2 DEF ImportRowFails, TypeInv, TypeOK
  <2>2. req[q].left - 1 \in 0..ImportRows
    BY <1>0, <2>1, BoundsAssumption DEF Request
  <2>3. r \in Request /\ r.kind = req[q].kind /\ r.want = req[q].want
    BY <1>0, <2>2 DEF Request
  <2>4. SlotFits("importRow", r)
    BY <1>0, <1>1, <1>2, <2>3 DEF SlotFits, ImportKinds
  <2> QED
    BY <1>0, <2>1, <2>3, <2>4, SlotStep, FrameStep DEF SlotsTyped, Calls
<1>3. CASE pc[q] # "importRow"
  BY <1>0, <1>1, <1>3, NextRowFits, SlotStep, FrameStep DEF ImportRowFails, SlotsTyped, Calls
<1> QED
  BY <1>2, <1>3

LEMMA InitTyped == Init => TypeInv
<1>1. AbsentRow(0) \in Row /\ AbsentRow(0).id < MaxId
  BY AbsentRowType, BoundsAssumption DEF AbsentRow
<1> QED
  BY <1>1, NoRequestFits DEF Init, TypeInv, TypeOK, RowsFit, SlotsFit, Calls

LEMMA NextTyped == TypeInv /\ [Next]_vars => TypeInv'
<1>1. ASSUME TypeInv, NEW q \in Requests, Abort(q) PROVE TypeInv'
  BY <1>1, FinishStep, FrameStep DEF Abort, SlotsTyped
<1>2. TypeInv /\ UNCHANGED vars => TypeInv'
  BY DEF vars, TypeInv, TypeOK, RowsFit, SlotsFit
<1> QED
  BY <1>1, <1>2, ArrivesTyped, ProceedsTyped, RowFailsTyped DEF Next

LEMMA TypeInvariance == Spec => []TypeInv
  BY InitTyped, NextTyped, PTL DEF Spec

\* Every value a handler stores fits its column and its local variable,
\* whatever the requests interleaved with it: no row gets a status outside
\* the enum, no id beyond the bound, no import counter below zero.
THEOREM TypeCorrect == Spec => []TypeOK
<1>1. TypeInv => TypeOK
  BY DEF TypeInv
<1> QED
  BY <1>1, TypeInvariance, PTL

---------------------------------------------------------------------------
\* The lock that the attendee upsert takes

Step(q) == Arrives(q) \/ Proceeds(q) \/ ImportRowFails(q) \/ Abort(q)

\* No attendee is locked twice.
LockInv ==
    \A p, q \in Requests :
        HoldsAttendee(p) /\ HoldsAttendee(q) /\ req[p].who = req[q].who => p = q

LEMMA OtherSlots ==
  ASSUME TypeInv, NEW q \in Requests, Step(q), NEW p \in Requests \ {q}
  PROVE  pc'[p] = pc[p] /\ req'[p] = req[p]
<1> USE DEF TypeInv, TypeOK, Start, Goto, Finish
<1>1. CASE Arrives(q)
  BY <1>1 DEF Arrives, RegisterBegin, CreateBegin, StatusBegin, BulkStatusBegin,
              Remove, BulkDelete, RestoreBegin, PurgeBegin, ImportBegin, UpdateEvent
<1>2. CASE UpsertAttendee(q) \/ FindExisting(q) \/ Insert(q) \/ CountSeats(q)
  BY <1>2 DEF UpsertAttendee, FindExisting, Insert, CountSeats
<1>3. CASE StatusWrite(q) \/ BulkReadEvent(q) \/ BulkStatusWrite(q)
             \/ RestoreWrite(q) \/ PurgeWrite(q)
  BY <1>3 DEF StatusWrite, BulkReadEvent, BulkStatusWrite, RestoreWrite, PurgeWrite
<1>4. CASE ImportCount(q) \/ ImportRow(q) \/ ImportEnd(q) \/ ImportUpsert(q)
             \/ ImportFind(q) \/ ImportWrite(q)
  BY <1>4 DEF ImportCount, ImportRow, ImportEnd, ImportUpsert, ImportFind, ImportWrite
<1>5. CASE ImportRowFails(q) \/ Abort(q)
  BY <1>5 DEF ImportRowFails, Abort
<1> QED
  BY <1>1, <1>2, <1>3, <1>4, <1>5 DEF Step, Proceeds

\* A request that arrives holds no attendee yet.
LEMMA ArrivesFree ==
  ASSUME TypeInv, NEW q \in Requests, Arrives(q)
  PROVE  ~HoldsAttendee(q)'
<1>1. pc[q] = "idle"
  BY DEF Arrives, RegisterBegin, CreateBegin, StatusBegin, BulkStatusBegin, Start,
         Remove, BulkDelete, RestoreBegin, PurgeBegin, ImportBegin, UpdateEvent
<1>2. CASE UNCHANGED <<pc, req>>
  BY <1>1, <1>2 DEF HoldsAttendee
<1>3. CASE \E r, c : Start(q, r, c) /\ (c = "count" => r.kind # "register")
                      /\ c \in {"upsert", "count", "write", "bulkEvent", "importCount"}
  BY <1>3 DEF HoldsAttendee, Start, TypeInv, TypeOK
<1>4. Remove(q) \/ BulkDelete(q) \/ UpdateEvent(q) => UNCHANGED <<pc, req>>
  BY DEF Remove, BulkDelete, UpdateEvent
<1>5. NoRequest \in Request
  BY NoRequestFits
<1>6. CASE RegisterBegin(q) \/ PurgeBegin(q) \/ ImportBegin(q)
  BY <1>3, <1>6 DEF RegisterBegin, PurgeBegin, ImportBegin
<1>7. CASE CreateBegin(q)
  BY <1>3, <1>5, <1>7 DEF CreateBegin, Request
<1>8. CASE StatusBegin(q)
  BY <1>3, <1>5, <1>8 DEF StatusBegin, Request
<1>9. CASE BulkStatusBegin(q)
  BY <1>3, <1>9 DEF BulkStatusBegin
<1>10. CASE RestoreBegin(q)
  BY <1>3, <1>5, <1>10 DEF RestoreBegin, Request
<1> QED
  BY <1>2, <1>4, <1>6, <1>7, <1>8, <1>9, <1>10 DEF Arrives

\* What a slot that holds an attendee after a step did in that step: it held
\* the attendee already, or took it when nobody did.
LEMMA Holding ==
  ASSUME TypeInv, NEW q \in Requests, Step(q), HoldsAttendee(q)'
  PROVE  \/ HoldsAttendee(q) /\ req'[q].who = req[q].who
         \/ AttendeeFree(req'[q].who)
<1>0. req[q] \in Request /\ SlotFits(pc[q], req[q])
  BY DEF TypeInv, TypeOK, SlotsFit
<1>1. CASE Arrives(q)
  BY <1>1, ArrivesFree
<1>2. CASE UpsertAttendee(q) \/ ImportUpsert(q)
  BY <1>2 DEF UpsertAttendee, ImportUpsert, Goto, HoldsAttendee
<1>3. CASE FindExisting(q)
  BY <1>0, <1>3 DEF FindExisting, Finish, HoldsAttendee, TypeInv, TypeOK, Request
<1>4. CASE CountSeats(q)
  BY <1>0, <1>4 DEF CountSeats, Goto, Finish, HoldsAttendee, CallAfterCount, TypeInv, TypeOK,
                    SlotFits, SeatKinds
<1>5. CASE BulkReadEvent(q)
  BY <1>0, <1>5 DEF BulkReadEvent, HoldsAttendee, SlotFits, TypeInv, TypeOK, Request
<1>6. CASE ImportRow(q)
  BY <1>0, <1>6 DEF ImportRow, HoldsAttendee, TypeInv, TypeOK
<1>7. CASE ImportFind(q)
  BY <1>0, <1>7 DEF ImportFind, HoldsAttendee, TypeInv, TypeOK, Request
<1>8. CASE Insert(q) \/ StatusWrite(q) \/ BulkStatusWrite(q) \/ RestoreWrite(q)
             \/ PurgeWrite(q) \/ ImportEnd(q) \/ Abort(q)
  <2>1. pc'[q] = "idle"
    BY <1>8 DEF Insert, StatusWrite, BulkStatusWrite, RestoreWrite, PurgeWrite, ImportEnd,
                Abort, Finish, TypeInv, TypeOK
  <2> QED
    BY <2>1 DEF HoldsAttendee
<1>9. CASE ImportCount(q) \/ ImportWrite(q) \/ ImportRowFails(q)
  BY <1>9 DEF ImportCount, ImportWrite, ImportRowFails, HoldsAttendee, TypeInv, TypeOK
<1> QED
  BY <1>1, <1>2, <1>3, <1>4, <1>5, <1>6, <1>7, <1>8, <1>9 DEF Step, Proceeds

LEMMA LockStep ==
  ASSUME TypeInv, LockInv, NEW q \in Requests, Step(q)
  PROVE  LockInv'
<1> SUFFICES ASSUME NEW p1 \in Requests, NEW p2 \in Requests, p1 # p2,
                    HoldsAttendee(p1)', HoldsAttendee(p2)', req'[p1].who = req'[p2].who
             PROVE  FALSE
  BY DEF LockInv
<1>1. ASSUME NEW p \in Requests, p # q, HoldsAttendee(p)'
      PROVE  HoldsAttendee(p) /\ req'[p].who = req[p].who
  BY <1>1, OtherSlots DEF HoldsAttendee
<1>2. ASSUME NEW p \in Requests, p # q, HoldsAttendee(p)', HoldsAttendee(q)',
             req'[p].who = req'[q].who
      PROVE  FALSE
  BY <1>1, <1>2, Holding DEF LockInv, AttendeeFree
<1>3. CASE p1 = q \/ p2 = q
  BY <1>2, <1>3
<1>4. CASE p1 # q /\ p2 # q
  BY <1>1, <1>4 DEF LockInv
<1> QED
  BY <1>3, <1>4

\* Only an insert gives an attendee a registration.
LEMMA RowAppears ==
  ASSUME TypeInv, NEW q \in Requests, Step(q), NEW a \in Attendees, Registered(a)
  PROVE  pc[q] \in { "insert", "importWrite" } /\ pc'[q] # pc[q] /\ req[q].who = a
<1> USE DEF TypeInv, TypeOK, Row, Registered
<1>1. CASE Arrives(q)
  BY <1>1 DEF Arrives, RegisterBegin, CreateBegin, StatusBegin, BulkStatusBegin, SoftDelete,
              Remove, BulkDelete, RestoreBegin, PurgeBegin, ImportBegin, UpdateEvent, Rows
<1>2. CASE Insert(q)
  BY <1>2 DEF Insert, Finish
<1>3. CASE StatusWrite(q) \/ BulkStatusWrite(q) \/ RestoreWrite(q)
  BY <1>3 DEF StatusWrite, BulkStatusWrite, RestoreWrite, StillThere
<1>4. CASE PurgeWrite(q)
  BY <1>4 DEF PurgeWrite, AbsentRow
<1>5. CASE ImportWrite(q)
  BY <1>5 DEF ImportWrite
<1>6. CASE UNCHANGED reg
  BY <1>6
<1>7. UpsertAttendee(q) \/ FindExisting(q) \/ CountSeats(q) \/ BulkReadEvent(q) \/ ImportCount(q)
        \/ ImportRow(q) \/ ImportEnd(q) \/ ImportUpsert(q) \/ ImportFind(q)
        \/ ImportRowFails(q) \/ Abort(q)
        => UNCHANGED reg
  BY DEF UpsertAttendee, FindExisting, CountSeats, BulkReadEvent, ImportCount, ImportRow,
         ImportEnd, ImportUpsert, ImportFind, ImportRowFails, Abort
<1> QED
  BY <1>1, <1>2, <1>3, <1>4, <1>5, <1>6, <1>7 DEF Step, Proceeds

\* The slot that inserts a registration held the attendee if its upsert wrote,
\* and so did a slot that waits behind its duplicate check: not both.
LEMMA LateStep ==
  ASSUME TypeInv, LockInv, NEW s \in Requests, Step(s),
         NEW q \in Requests, FoundNone(q), pc'[q] = pc[q], Registered(req[q].who),
         req[q].locks
  PROVE  pc'[s] # pc[s] /\ req[s].who = req[q].who /\ ~req[s].locks
<1>1. req[q].who \in Attendees
  BY DEF FoundNone, TypeInv, SlotsFit, SlotFits
<1>2. pc[s] \in { "insert", "importWrite" } /\ pc'[s] # pc[s] /\ req[s].who = req[q].who
  BY <1>1, RowAppears
<1>3. HoldsAttendee(q)
  BY DEF FoundNone, HoldsAttendee
<1>4. ASSUME req[s].locks PROVE FALSE
  <2>1. HoldsAttendee(s)
    BY <1>2, <1>4 DEF HoldsAttendee
  <2> QED
    BY <1>2, <1>3, <2>1 DEF LockInv
<1> QED
  BY <1>2, <1>4

LEMMA LockInvariance == Spec => []LockInv
<1>1. Init => LockInv
  BY DEF Init, LockInv, HoldsAttendee
<1>2. ASSUME TypeInv, LockInv, [Next]_vars PROVE LockInv'
  <2>1. ASSUME NEW q \in Requests, Step(q) PROVE LockInv'
    BY <1>2, <2>1, LockStep
  <2>2. CASE UNCHANGED vars
    BY <1>2, <2>2 DEF vars, LockInv, HoldsAttendee
  <2> QED
    BY <1>2, <2>1, <2>2 DEF Next, Step
<1> QED
  BY <1>1, <1>2, TypeInvariance, PTL DEF Spec

\* Upserting the attendee first makes the duplicate check and the insert of
\* registerToEvent, create and bulkImport atomic for that attendee, however
\* many submissions there are, among those whose upsert writes: a submission
\* whose check found no registration meets one at its insert only if it, or
\* the submission that inserted that one, left the attendee's row as it was.
THEOREM NoDuplicateAfterCheck == Spec => NoLateDuplicate
<1> DEFINE Excused(q) == \/ ~req[q].locks
                         \/ \E p \in Requests :
                              pc'[p] # pc[p] /\ req[p].who = req[q].who /\ ~req[p].locks
           Late(q) == FoundNone(q) /\ pc'[q] = pc[q] /\ Registered(req[q].who)
<1>1. TypeInv /\ LockInv /\ [Next]_vars => [\A q \in Requests : Late(q) => Excused(q)]_vars
  <2> SUFFICES ASSUME TypeInv, LockInv, NEW s \in Requests, Step(s),
                      NEW q \in Requests, Late(q), req[q].locks
               PROVE  \E p \in Requests :
                         pc'[p] # pc[p] /\ req[p].who = req[q].who /\ ~req[p].locks
    BY DEF Next, Step
  <2> QED
    BY LateStep
<1> QED
  BY <1>1, TypeInvariance, LockInvariance, PTL DEF Spec, NoLateDuplicate

---------------------------------------------------------------------------
\* The bound on overbooking.  A request that passed the capacity check has a
\* claim on one seat until it writes.  No step but a passing check adds to the
\* approved and the claimed seats together, and when a check passes, the
\* approved ones are below the capacity and each slot claims at most one.

OneSeatEach == Kinds \subseteq SingleSeatKinds

Limited == 0 \notin Capacities

Seats == { a \in Attendees : a \in Approved \/ \E q \in Requests : Claims(q, a) }

SeatBound == Cardinality(Seats) <= Ceiling + Cardinality(Requests) - 1

\* A request for one seat compares with a capacity the event had, and the row
\* a status change read is not younger than the attendee's.
OneSeatSlots ==
    \A q \in Requests :
        req[q].kind \in { "create", "register", "status" } =>
            /\ req[q].who \in Attendees
            /\ req[q].cap \in Capacities /\ req[q].more = 1
            /\ req[q].kind = "status" => req[q].row.id <= reg[req[q].who].id

\* The actions that are left when every request claims one seat.
LEMMA OneSeatActions ==
  ASSUME TypeInv, OneSeatEach, NEW q \in Requests, Step(q)
  PROVE  \/ RegisterBegin(q) \/ CreateBegin(q) \/ StatusBegin(q) \/ Remove(q)
         \/ BulkDelete(q) \/ PurgeBegin(q) \/ UpdateEvent(q) \/ UpsertAttendee(q)
         \/ FindExisting(q) \/ Insert(q) \/ CountSeats(q) \/ StatusWrite(q)
         \/ PurgeWrite(q) \/ Abort(q)
<1>1. req[q].kind \in SingleSeatKinds \cup {"none"} /\ SlotFits(pc[q], req[q])
  BY DEF TypeInv, TypeOK, SlotsFit, Request, OneSeatEach
<1>2. NoRequest \in Request
  BY NoRequestFits
<1>3. ~BulkReadEvent(q) /\ ~BulkStatusWrite(q) /\ ~RestoreWrite(q)
  BY <1>1 DEF BulkReadEvent, BulkStatusWrite, RestoreWrite, SingleSeatKinds, SlotFits
<1>4. ~ImportCount(q) /\ ~ImportRow(q) /\ ~ImportEnd(q) /\ ~ImportUpsert(q)
      /\ ~ImportFind(q) /\ ~ImportWrite(q)
      /\ ~ImportRowFails(q)
  BY <1>1 DEF ImportCount, ImportRow, ImportEnd, ImportUpsert, ImportFind, ImportWrite,
              ImportRowFails, SingleSeatKinds, SlotFits, ImportKinds
<1>5. ~BulkStatusBegin(q)
  BY <1>2 DEF BulkStatusBegin, Start, OneSeatEach, SingleSeatKinds, NoRequest
<1>6. ~RestoreBegin(q)
  BY <1>2 DEF RestoreBegin, Start, OneSeatEach, SingleSeatKinds, NoRequest
<1>7. ~ImportBegin(q)
  BY <1>2 DEF ImportBegin, Start, OneSeatEach, SingleSeatKinds, NoRequest
<1> QED
  BY <1>3, <1>4, <1>5, <1>6, <1>7 DEF Step, Arrives, Proceeds

\* A live row after a step is the attendee's live row before it, or a new one
\* with the next id.
LEMMA LiveRows ==
  ASSUME TypeInv, OneSeatEach, NEW q \in Requests, Step(q), NEW a \in Attendees
  PROVE  /\ reg[a].id <= reg'[a].id
         /\ reg'[a].present /\ ~reg'[a].deleted =>
              \/ reg[a].present /\ ~reg[a].deleted /\ reg'[a].id = reg[a].id
              \/ reg'[a].id = reg[a].id + 1
<1>0. reg[a] \in Row /\ reg[a].id \in 0..MaxId /\ req[q] \in Request
  BY DEF TypeInv, TypeOK, Row
<1>1. CASE UNCHANGED reg
  BY <1>0, <1>1, BoundsAssumption
<1>2. RegisterBegin(q) \/ CreateBegin(q) \/ StatusBegin(q) \/ PurgeBegin(q) \/ UpdateEvent(q)
        \/ UpsertAttendee(q) \/ FindExisting(q) \/ CountSeats(q) \/ Abort(q) => UNCHANGED reg
  BY DEF RegisterBegin, CreateBegin, StatusBegin, PurgeBegin, UpdateEvent, UpsertAttendee,
         FindExisting, CountSeats, Abort
<1>3. CASE Remove(q) \/ BulkDelete(q)
  BY <1>0, <1>3, BoundsAssumption DEF Remove, BulkDelete, SoftDelete, Row
<1>4. CASE Insert(q)
  BY <1>0, <1>4, BoundsAssumption DEF Insert, NewRow, TypeInv, TypeOK
<1>5. CASE StatusWrite(q)
  BY <1>0, <1>5, BoundsAssumption DEF StatusWrite, TypeInv, TypeOK, Row
<1>6. CASE PurgeWrite(q)
  BY <1>0, <1>6, BoundsAssumption DEF PurgeWrite, StillThere, AbsentRow, TypeInv, TypeOK, Row
<1> QED
  BY <1>1, <1>2, <1>3, <1>4, <1>5, <1>6, OneSeatActions

LEMMA OneSeatSlotsStep ==
  ASSUME TypeInv, OneSeatEach, OneSeatSlots, NEW q \in Requests, Step(q)
  PROVE  OneSeatSlots'
<1> SUFFICES ASSUME NEW p \in Requests, req'[p].kind \in { "create", "register", "status" }
             PROVE  /\ req'[p].who \in Attendees
                    /\ req'[p].cap \in Capacities /\ req'[p].more = 1
                    /\ req'[p].kind = "status" => req'[p].row.id <= reg'[req'[p].who].id
  BY DEF OneSeatSlots
<1>1. ASSUME req'[p].kind = req[p].kind, req'[p].who = req[p].who, req'[p].cap = req[p].cap,
             req'[p].more = req[p].more, req'[p].row.id = req[p].row.id
      PROVE  /\ req'[p].who \in Attendees
             /\ req'[p].cap \in Capacities /\ req'[p].more = 1
             /\ req'[p].kind = "status" => req'[p].row.id <= reg'[req'[p].who].id
  <2>1. /\ req[p].who \in Attendees /\ req[p].cap \in Capacities /\ req[p].more = 1
        /\ req[p].kind = "status" => req[p].row.id <= reg[req[p].who].id
    BY <1>1 DEF OneSeatSlots
  <2>2. reg[req[p].who].id \in Nat /\ reg'[req[p].who].id \in Nat /\ req[p].row.id \in Nat
    <3>1. TypeInv'
      BY NextTyped DEF Step, Next
    <3> QED
      BY <2>1, <3>1, BoundsAssumption DEF TypeInv, TypeOK, Request, Row
  <2>3. reg[req[p].who].id <= reg'[req[p].who].id
    BY <2>1, LiveRows
  <2> QED
    BY <1>1, <2>1, <2>2, <2>3
<1>2. CASE p # q
  BY <1>1, <1>2, OtherSlots
<1>3. CASE p = q
  <2>0. req[q] \in Request /\ pc[q] \in Calls /\ NoRequest \in Request /\ event.capacity \in Capacities
    BY NoRequestFits DEF TypeInv, TypeOK, Event
  <2>1. CASE RegisterBegin(q) \/ CreateBegin(q)
    <3>1. PICK a, kind, locks, want, c :
            /\ a \in Attendees /\ kind \in {"register", "create"}
            /\ Start(q, [NoRequest EXCEPT !.kind = kind, !.who = a, !.locks = locks,
                                          !.cap = event.capacity, !.want = want], c)
      BY <2>1 DEF RegisterBegin, CreateBegin
    <3> DEFINE r == [NoRequest EXCEPT !.kind = kind, !.who = a, !.locks = locks,
                                      !.cap = event.capacity, !.want = want]
    <3>2. r.kind = kind /\ r.who = a /\ r.cap = event.capacity /\ r.more = 1
      BY DEF NoRequest
    <3>3. req'[q] = r
      BY <3>1 DEF Start, TypeInv, TypeOK
    <3> HIDE DEF r
    <3> QED
      BY <1>3, <2>0, <3>1, <3>2, <3>3
  <2>2. CASE StatusBegin(q)
    <3>1. \A a \in Rows : a \in Attendees /\ reg[a].id \in Nat
      BY BoundsAssumption DEF Rows, TypeInv, TypeOK, Row
    <3>2. UNCHANGED reg
      BY <2>2 DEF StatusBegin
    <3> QED
      BY <1>3, <2>0, <2>2, <3>1, <3>2
         DEF StatusBegin, Start, NoRequest, Key, AbsentRow, TypeInv, TypeOK
  <2>3. CASE PurgeBegin(q)
    BY <1>3, <2>0, <2>3 DEF PurgeBegin, Start, NoRequest, TypeInv, TypeOK
  <2>4. CASE UNCHANGED req
    BY <1>1, <2>4
  <2>5. CASE Finish(q)
    BY <1>3, <2>5 DEF Finish, NoRequest, TypeInv, TypeOK
  <2>6. CASE FindExisting(q) /\ ~Finish(q)
    BY <1>1, <1>3, <2>0, <2>6 DEF FindExisting, TypeInv, TypeOK, Request, Row
  <2>7. Remove(q) \/ BulkDelete(q) \/ UpdateEvent(q) \/ UpsertAttendee(q)
          \/ (CountSeats(q) /\ ~Finish(q)) => UNCHANGED req
    BY DEF Remove, BulkDelete, UpdateEvent, UpsertAttendee, CountSeats, Goto
  <2>8. Insert(q) \/ StatusWrite(q) \/ PurgeWrite(q) \/ Abort(q) => Finish(q)
    BY DEF Insert, StatusWrite, PurgeWrite, Abort
  <2> QED
    BY <2>1, <2>2, <2>3, <2>4, <2>5, <2>6, <2>7, <2>8, OneSeatActions
<1> QED
  BY <1>2, <1>3

LEMMA PositiveCapacity ==
  ASSUME NEW c \in Capacities
  PROVE  c \in Nat /\ c <= Ceiling /\ (Limited => c > 0)
<1>1. c \in 0..Ceiling /\ (Limited => c # 0)
  BY CapacityAssumption DEF Limited
<1> QED
  BY <1>1, CapacityAssumption

\* A registration that becomes an approved live one was claimed by the slot
\* that wrote it.
LEMMA ApprovedClaimed ==
  ASSUME TypeInv, OneSeatEach, NEW q \in Requests, Step(q), NEW a \in Approved'
  PROVE  a \in Approved \/ Claims(q, a)
<1>0. /\ a \in Attendees /\ reg'[a].present /\ reg'[a].status = "approved" /\ ~reg'[a].deleted
      /\ reg[a] \in Row /\ req[q] \in Request /\ SlotFits(pc[q], req[q])
  BY DEF Approved, TypeInv, TypeOK, SlotsFit
<1>1. CASE UNCHANGED reg
  BY <1>0, <1>1 DEF Approved
<1>2. RegisterBegin(q) \/ CreateBegin(q) \/ StatusBegin(q) \/ PurgeBegin(q) \/ UpdateEvent(q)
        \/ UpsertAttendee(q) \/ FindExisting(q) \/ CountSeats(q) \/ Abort(q) => UNCHANGED reg
  BY DEF RegisterBegin, CreateBegin, StatusBegin, PurgeBegin, UpdateEvent, UpsertAttendee,
         FindExisting, CountSeats, Abort
<1>3. CASE Remove(q) \/ BulkDelete(q)
  BY <1>0, <1>3 DEF Remove, BulkDelete, SoftDelete, Row, Approved
<1>4. CASE Insert(q)
  BY <1>0, <1>4 DEF Insert, NewRow, TypeInv, TypeOK, Approved, Claims, SlotFits
<1>5. CASE StatusWrite(q)
  BY <1>0, <1>5 DEF StatusWrite, StillThere, TypeInv, TypeOK, Row, Approved, Claims
<1>6. CASE PurgeWrite(q)
  BY <1>0, <1>6 DEF PurgeWrite, AbsentRow, TypeInv, TypeOK, Approved
<1> QED
  BY <1>1, <1>2, <1>3, <1>4, <1>5, <1>6, OneSeatActions

\* The claim of another slot is not new: the row it is about has not changed.
LEMMA OtherClaims ==
  ASSUME TypeInv, OneSeatEach, OneSeatSlots, NEW q \in Requests, Step(q),
         NEW p \in Requests \ {q}, NEW a \in Attendees, Claims(p, a)'
  PROVE  Claims(p, a)
<1>1. pc'[p] = pc[p] /\ req'[p] = req[p]
  BY OtherSlots
<1>2. CASE req[p].kind # "status"
  BY <1>1, <1>2 DEF Claims
<1>3. CASE req[p].kind = "status"
  <2>1. reg'[a].present /\ ~reg'[a].deleted /\ reg'[a].id = req[p].row.id /\ req[p].who = a
    BY <1>1, <1>3 DEF Claims
  <2>2. req[p].row.id <= reg[a].id
    BY <1>3, <2>1 DEF OneSeatSlots
  <2>3. reg[a].id \in Nat /\ req[p].row.id \in Nat
    BY BoundsAssumption DEF TypeInv, TypeOK, Request, Row
  <2>4. reg'[a].id # reg[a].id + 1
    BY <2>1, <2>2, <2>3
  <2>5. reg[a].present /\ ~reg[a].deleted /\ reg[a].id = req[p].row.id
    BY <2>1, <2>4, LiveRows
  <2> QED
    BY <1>1, <1>3, <2>5 DEF Claims
<1> QED
  BY <1>2, <1>3

\* The slot's own claim comes from an earlier one, from a row approved already,
\* or from a capacity check that passed.
LEMMA OwnClaim ==
  ASSUME TypeInv, OneSeatEach, Limited, OneSeatSlots, NEW q \in Requests, Step(q),
         NEW a \in Attendees, Claims(q, a)'
  PROVE  Claims(q, a) \/ a \in Approved \/ (CountSeats(q) /\ ~Finish(q))
<1>0. /\ req[q] \in Request /\ NoRequest \in Request /\ SlotFits(pc[q], req[q])
      /\ event.capacity > 0
  <2>1. event.capacity \in Capacities
    BY DEF TypeInv, TypeOK, Event
  <2> QED
    BY <2>1, NoRequestFits, PositiveCapacity DEF TypeInv, TypeOK, SlotsFit
<1>1. ~Finish(q)
  BY DEF Finish, Claims, NoRequest, TypeInv, TypeOK
<1>2. CASE RegisterBegin(q)
  BY <1>0, <1>2 DEF RegisterBegin, Start, Claims, Request, TypeInv, TypeOK
<1>3. CASE CreateBegin(q)
  <2>1. PICK b, locks, want, c :
          /\ b \in Attendees
          /\ Start(q, [NoRequest EXCEPT !.kind = "create", !.who = b, !.locks = locks,
                                        !.cap = event.capacity, !.want = want], c)
          /\ want = "approved" => c = "count"
    BY <1>0, <1>3 DEF CreateBegin
  <2>2. req'[q].want = want /\ req'[q].kind = "create" /\ pc'[q] = c
    BY <1>0, <2>1 DEF Start, Request, TypeInv, TypeOK
  <2> QED
    BY <2>1, <2>2 DEF Claims
<1>4. CASE StatusBegin(q)
  <2>1. PICK b, want, c, row :
          /\ b \in Rows
          /\ Start(q, [NoRequest EXCEPT !.kind = "status", !.who = b, !.want = want,
                                        !.row = row, !.cap = event.capacity], c)
          /\ want = "approved" /\ reg[b].status # "approved" => c = "count"
    BY <1>0, <1>4 DEF StatusBegin
  <2>2. req'[q].who = b /\ req'[q].want = want /\ req'[q].kind = "status" /\ pc'[q] = c
    BY <1>0, <2>1 DEF Start, Request, TypeInv, TypeOK
  <2>3. UNCHANGED reg
    BY <1>4 DEF StatusBegin
  <2> QED
    BY <2>1, <2>2, <2>3 DEF Claims, Approved
<1>5. CASE PurgeBegin(q)
  BY <1>0, <1>5 DEF PurgeBegin, Start, Claims, Request, TypeInv, TypeOK
<1>6. CASE Remove(q) \/ BulkDelete(q) \/ UpdateEvent(q)
  <2>1. UNCHANGED <<pc, req>>
    BY <1>6 DEF Remove, BulkDelete, UpdateEvent
  <2>2. CASE req[q].kind # "status"
    BY <2>1, <2>2 DEF Claims
  <2>3. CASE req[q].kind = "status"
    <3>1. reg[a].id \in Nat /\ req[q].row.id \in Nat
      BY <1>0, BoundsAssumption DEF TypeInv, TypeOK, Request, Row
    <3>2. req[q].row.id <= reg[a].id /\ reg'[a].id = req[q].row.id
          /\ reg'[a].present /\ ~reg'[a].deleted
      BY <2>1, <2>3 DEF Claims, OneSeatSlots
    <3> QED
      BY <2>1, <2>3, <3>1, <3>2, LiveRows DEF Claims
  <2> QED
    BY <2>2, <2>3
<1>7. CASE UpsertAttendee(q)
  BY <1>7 DEF UpsertAttendee, Goto, Claims, SlotFits, TypeInv, TypeOK
<1>8. CASE FindExisting(q)
  <2>1. /\ req'[q].kind = req[q].kind /\ req'[q].who = req[q].who
        /\ req'[q].want = req[q].want /\ pc[q] = "find"
        /\ pc'[q] = IF req[q].kind = "register" /\ req[q].cap > 0 /\ req[q].want = "approved"
                    THEN "count" ELSE "insert"
    BY <1>0, <1>1, <1>8 DEF FindExisting, TypeInv, TypeOK, Request
  <2>2. req[q].kind \in {"create", "register"}
    BY <1>0, <2>1 DEF SlotFits
  <2>3. req[q].cap > 0
    BY <2>2, PositiveCapacity DEF OneSeatSlots
  <2> QED
    BY <2>1, <2>2, <2>3 DEF Claims
<1>9. Insert(q) \/ StatusWrite(q) \/ PurgeWrite(q) \/ Abort(q) => Finish(q)
  BY DEF Insert, StatusWrite, PurgeWrite, Abort
<1> QED
  BY <1>1, <1>2, <1>3, <1>4, <1>5, <1>6, <1>7, <1>8, <1>9, OneSeatActions

\* A capacity check that lets a request of one seat through.
LEMMA CheckPasses ==
  ASSUME TypeInv, OneSeatEach, OneSeatSlots, NEW q \in Requests, CountSeats(q), ~Finish(q)
  PROVE  SeatsTaken <= Ceiling - 1 /\ UNCHANGED reg
<1>1. req[q].kind \in { "create", "register", "status" }
  BY DEF CountSeats, TypeInv, TypeOK, SlotsFit, SlotFits, SeatKinds, Request, OneSeatEach,
         SingleSeatKinds
<1>2. req[q].cap \in Nat /\ req[q].cap <= Ceiling /\ req[q].more = 1
  BY <1>1, PositiveCapacity DEF OneSeatSlots
<1>3. ~(SeatsTaken + 1 > req[q].cap)
  BY <1>2 DEF CountSeats, Full
<1> QED
  BY <1>2, <1>3, SeatsTakenNat, CapacityAssumption DEF CountSeats

LEMMA SeatsFinite ==
  /\ IsFiniteSet(Seats) /\ Cardinality(Seats) \in Nat
  /\ Approved \subseteq Seats /\ SeatsTaken <= Cardinality(Seats)
<1>1. Seats \subseteq Attendees /\ Approved \subseteq Seats
  BY DEF Seats, Approved
<1> QED
  BY <1>1, FiniteAssumption, FS_Subset, FS_CardinalityType DEF SeatsTaken

\* When a check passes, each slot claims at most one seat besides those taken.
LEMMA ClaimsOfSlots ==
  ASSUME UNCHANGED reg
  PROVE  Cardinality(Seats') <= SeatsTaken + Cardinality(Requests)
<1> DEFINE Claimed == { req'[p].who : p \in Requests }
<1>1. Seats' \subseteq Approved \cup Claimed
  BY DEF Seats, Approved, Claims
<1>2. IsFiniteSet(Claimed) /\ Cardinality(Claimed) <= Cardinality(Requests)
  <2> DEFINE f == [p \in Requests |-> req'[p].who]
  <2>1. f \in Surjection(Requests, Claimed)
    BY DEF Surjection
  <2> QED
    BY <2>1, FiniteAssumption, FS_Surjection
<1>3. IsFiniteSet(Approved)
  BY SeatsTakenNat
<1>4. Cardinality(Approved \cup Claimed) <= Cardinality(Approved) + Cardinality(Claimed)
      /\ IsFiniteSet(Approved \cup Claimed)
  <2> HIDE DEF Claimed
  <2>1. Cardinality(Approved \cap Claimed) \in Nat
    BY <1>2, <1>3, FS_Intersection, FS_CardinalityType
  <2>2. Cardinality(Approved) \in Nat /\ Cardinality(Claimed) \in Nat
    BY <1>2, <1>3, FS_CardinalityType
  <2>3. /\ IsFiniteSet(Approved \cup Claimed)
        /\ Cardinality(Approved \cup Claimed) = Cardinality(Approved) + Cardinality(Claimed)
                                                  - Cardinality(Approved \cap Claimed)
    BY <1>2, <1>3, FS_Union
  <2> QED
    BY <2>1, <2>2, <2>3
<1>5. Cardinality(Seats') <= Cardinality(Approved \cup Claimed)
  BY <1>1, <1>4, FS_Subset
<1> QED
  BY <1>1, <1>2, <1>3, <1>4, <1>5, FiniteAssumption, FS_Subset, FS_CardinalityType DEF SeatsTaken

LEMMA SeatBoundStep ==
  ASSUME TypeInv, OneSeatEach, Limited, OneSeatSlots, SeatBound, NEW q \in Requests, Step(q)
  PROVE  SeatBound'
<1>1. CASE CountSeats(q) /\ ~Finish(q)
  <2>1. SeatsTaken <= Ceiling - 1
    BY <1>1, CheckPasses
  <2>2. Cardinality(Seats') <= SeatsTaken + Cardinality(Requests)
    BY <1>1, CheckPasses, ClaimsOfSlots
  <2>3. Cardinality(Seats') \in Nat
    <3>1. Seats' \subseteq Attendees
      BY DEF Seats
    <3> QED
      BY <3>1, FiniteAssumption, FS_Subset, FS_CardinalityType
  <2>4. Cardinality(Requests) \in Nat
    BY FiniteAssumption, FS_CardinalityType
  <2> QED
    BY <2>1, <2>2, <2>3, <2>4, SeatsTakenNat, CapacityAssumption DEF SeatBound
<1>2. CASE ~(CountSeats(q) /\ ~Finish(q))
  <2>1. ASSUME NEW a \in Attendees, NEW p \in Requests, Claims(p, a)' PROVE a \in Seats
    <3>1. CASE p = q
      BY <1>2, <2>1, <3>1, OwnClaim DEF Seats
    <3>2. CASE p # q
      BY <2>1, <3>2, OtherClaims DEF Seats
    <3> QED
      BY <3>1, <3>2
  <2>2. ASSUME NEW a \in Approved' PROVE a \in Seats
    BY <2>2, ApprovedClaimed DEF Seats, Approved
  <2>3. Seats' \subseteq Seats
    BY <2>1, <2>2 DEF Seats
  <2>4. Cardinality(Seats') <= Cardinality(Seats) /\ Cardinality(Seats') \in Nat
    BY <2>3, SeatsFinite, FS_Subset, FS_CardinalityType
  <2> QED
    BY <2>4, SeatsFinite, CapacityAssumption, FiniteAssumption, FS_CardinalityType DEF SeatBound
<1> QED
  BY <1>1, <1>2

LEMMA SeatBoundInit ==
  ASSUME Init, Limited PROVE SeatBound
<1>2. Seats = {}
  BY DEF Init, Seats, Approved, Claims, NoRequest, AbsentRow
<1>3. Ceiling >= 1
  <2>1. event.capacity \in Capacities
    BY DEF Init, Event
  <2>2. event.capacity \in Nat /\ event.capacity > 0 /\ event.capacity <= Ceiling
    BY <2>1, PositiveCapacity
  <2>3. Ceiling \in Nat
    BY CapacityAssumption
  <2> QED
    BY <2>2, <2>3
<1>4. Cardinality(Seats) = 0 /\ Cardinality(Requests) \in Nat
  BY <1>2, FS_EmptySet, FiniteAssumption, FS_CardinalityType
<1> QED
  BY <1>3, <1>4, CapacityAssumption DEF SeatBound

SlotsOfOne == OneSeatEach => OneSeatSlots

LEMMA SlotsOfOneInvariance == Spec => []SlotsOfOne
<1>1. Init => SlotsOfOne
  BY DEF Init, SlotsOfOne, OneSeatSlots, NoRequest
<1>2. ASSUME TypeInv, SlotsOfOne, [Next]_vars PROVE SlotsOfOne'
  <2> SUFFICES ASSUME OneSeatEach PROVE OneSeatSlots'
    BY DEF SlotsOfOne, OneSeatEach
  <2>1. OneSeatSlots
    BY <1>2 DEF SlotsOfOne
  <2>2. ASSUME NEW q \in Requests, Step(q) PROVE OneSeatSlots'
    BY <1>2, <2>1, <2>2, OneSeatSlotsStep
  <2>3. CASE UNCHANGED vars
    BY <2>1, <2>3 DEF vars, OneSeatSlots
  <2> QED
    BY <1>2, <2>2, <2>3 DEF Next, Step
<1> QED
  BY <1>1, <1>2, TypeInvariance, PTL DEF Spec

SeatInv == OneSeatEach /\ Limited => SeatBound

LEMMA SeatBoundInvariance == Spec => []SeatInv
<1>1. Init => SeatInv
  BY SeatBoundInit DEF SeatInv
<1>2. ASSUME TypeInv, SlotsOfOne, SeatInv, [Next]_vars PROVE SeatInv'
  <2> SUFFICES ASSUME OneSeatEach, Limited PROVE SeatBound'
    BY DEF SeatInv, OneSeatEach, Limited
  <2>1. SeatBound /\ OneSeatSlots
    BY <1>2 DEF SeatInv, SlotsOfOne
  <2>2. ASSUME NEW q \in Requests, Step(q) PROVE SeatBound'
    BY <1>2, <2>1, <2>2, SeatBoundStep
  <2>3. CASE UNCHANGED vars
    BY <2>1, <2>3 DEF vars, SeatBound, Seats, Approved, Claims
  <2> QED
    BY <1>2, <2>2, <2>3 DEF Next, Step
<1> QED
  BY <1>1, <1>2, TypeInvariance, SlotsOfOneInvariance, PTL DEF Spec

\* However many requests that each claim one seat interleave, the approved
\* registrations of an event exceed the largest capacity it was given by at
\* most the number of requests in flight, less one.
THEOREM OverbookingBounded == Spec => []OverbookingBound
<1>1. Cardinality(Requests) \in Nat
  BY FiniteAssumption, FS_CardinalityType
<1>2. SeatInv => OverbookingBound
  BY <1>1, SeatsFinite, SeatsTakenNat, CapacityAssumption
     DEF SeatInv, SeatBound, OneSeatEach, Limited, OverbookingBound
<1> QED
  BY <1>2, SeatBoundInvariance, PTL

---------------------------------------------------------------------------
\* What a step does to the row of one attendee

\* At most one request in flight.
Solo == \A p, q \in Requests : p = q

Rewrites(r) == r.row.present /\ (r.row.deleted \/ r.row.status \in {"awaiting", "approved"})

\* A free slot has no request, and an import without replaceExisting only
\* writes new rows.
SlotsBusy ==
    \A q \in Requests :
        /\ pc[q] = "idle" => req[q].kind = "none"
        /\ pc[q] = "importWrite" /\ Rewrites(req[q]) => Replacing(req[q])

Made(q, a) ==
    /\ pc[q] \in { "insert", "importWrite" } /\ req[q].who = a
    /\ ~reg[a].present /\ reg'[a] = NewRow(reg[a].id + 1, req[q].want)

Purged(q, a) ==
    /\ pc[q] = "write" /\ req[q].kind = "purge" /\ req[q].who = a
    /\ StillThere(a, req[q].row.id)
    /\ ~reg'[a].present /\ reg'[a].id = reg[a].id

\* The row stays, with another status, confirmation or deletion mark.
Rewritten(a, status, confirmed, deleted) ==
    /\ reg[a].present
    /\ reg'[a] = [reg[a] EXCEPT !.status = status, !.confirmed = confirmed,
                                !.deleted = deleted]

SoftDeleted(a) == Rewritten(a, reg[a].status, reg[a].confirmed, TRUE)

Restored(q, a) ==
    /\ pc[q] = "write" /\ req[q].kind = "restore" /\ req[q].who = a
    /\ Rewritten(a, reg[a].status, reg[a].confirmed, FALSE)

StatusSet(q, a) ==
    /\ pc[q] = "write" /\ req[q].kind = "status" /\ req[q].who = a
    /\ reg[a].id = req[q].row.id
    /\ Rewritten(a, req[q].want,
                 reg[a].confirmed \/ (req[q].want = "approved" /\ ~req[q].row.confirmed),
                 reg[a].deleted)

BulkSet(q, a) ==
    /\ pc[q] = "write" /\ req[q].kind = "bulkStatus" /\ <<a, reg[a].id>> \in req[q].ids
    /\ Rewritten(a, req[q].want, reg[a].confirmed \/ req[q].want = "approved",
                 reg[a].deleted)

Reimported(q, a) ==
    /\ pc[q] = "importWrite" /\ Replacing(req[q]) /\ req[q].who = a /\ pc'[q] = "importRow"
    /\ \/ /\ req[q].row.deleted
          /\ Rewritten(a, req[q].want, req[q].want = "approved", FALSE)
       \/ /\ ~req[q].row.deleted
          /\ Rewritten(a, req[q].want, req[q].row.confirmed \/ req[q].want = "approved",
                       reg[a].deleted)

Fate(q, a) ==
    \/ reg'[a] = reg[a] \/ Made(q, a) \/ Purged(q, a)
    \/ SoftDeleted(a) /\ pc[q] = "idle"
    \/ Restored(q, a) \/ StatusSet(q, a) \/ BulkSet(q, a) \/ Reimported(q, a)

LEMMA FateOfRewrite ==
  ASSUME TypeInv, NEW a \in Attendees, NEW b \in Attendees, NEW row,
         reg' = [reg EXCEPT ![a] = row]
  PROVE  reg'[b] = IF a = b THEN row ELSE reg[b]
  BY DEF TypeInv, TypeOK

LEMMA RowFate ==
  ASSUME TypeInv, SlotsBusy, NEW q \in Requests, Step(q), NEW a \in Attendees
  PROVE  Fate(q, a)
<1>0. /\ req[q] \in Request /\ SlotFits(pc[q], req[q])
      /\ \A b \in Attendees : reg[b] \in Row
      /\ DOMAIN reg = Attendees
  BY DEF TypeInv, TypeOK, SlotsFit
<1>1. CASE UNCHANGED reg
  BY <1>1 DEF Fate
<1>2. RegisterBegin(q) \/ CreateBegin(q) \/ StatusBegin(q) \/ BulkStatusBegin(q)
        \/ RestoreBegin(q) \/ PurgeBegin(q) \/ ImportBegin(q) \/ UpdateEvent(q) => UNCHANGED reg
  BY DEF RegisterBegin, CreateBegin, StatusBegin, BulkStatusBegin, RestoreBegin, PurgeBegin,
         ImportBegin, UpdateEvent
<1>3. UpsertAttendee(q) \/ FindExisting(q) \/ CountSeats(q) \/ BulkReadEvent(q) \/ ImportCount(q)
        \/ ImportRow(q) \/ ImportEnd(q) \/ ImportUpsert(q) \/ ImportFind(q)
        \/ ImportRowFails(q) \/ Abort(q)
        => UNCHANGED reg
  BY DEF UpsertAttendee, FindExisting, CountSeats, BulkReadEvent, ImportCount, ImportRow,
         ImportEnd, ImportUpsert, ImportFind, ImportRowFails, Abort
<1>4. CASE Remove(q) \/ BulkDelete(q)
  <2>1. PICK as \in SUBSET Rows : SoftDelete(as)
    BY <1>4 DEF Remove, BulkDelete
  <2>2. pc[q] = "idle"
    BY <1>4 DEF Remove, BulkDelete
  <2>3. CASE a \in as
    <3>1. reg[a].present /\ reg'[a] = [reg[a] EXCEPT !.deleted = TRUE]
      BY <2>1, <2>3 DEF SoftDelete, Rows
    <3>2. SoftDeleted(a)
      BY <1>0, <3>1 DEF SoftDeleted, Rewritten, Row
    <3> QED
      BY <2>2, <3>2 DEF Fate
  <2>4. CASE a \notin as
    BY <2>1, <2>4 DEF SoftDelete, Fate
  <2> QED
    BY <2>3, <2>4
<1>5. CASE Insert(q)
  <2>1. CASE req[q].who = a /\ ~reg[a].present
    BY <1>0, <1>5, <2>1 DEF Insert, Made, Fate
  <2>2. CASE ~(req[q].who = a /\ ~reg[a].present)
    BY <1>0, <1>5, <2>2 DEF Insert, Fate
  <2> QED
    BY <2>1, <2>2
<1>6. CASE StatusWrite(q)
  <2>1. CASE req[q].who = a /\ StillThere(a, req[q].row.id)
    BY <1>0, <1>6, <2>1 DEF StatusWrite, StatusSet, Rewritten, StillThere, Fate, Row
  <2>2. CASE ~(req[q].who = a /\ StillThere(a, req[q].row.id))
    BY <1>0, <1>6, <2>2 DEF StatusWrite, Fate
  <2> QED
    BY <2>1, <2>2
<1>7. CASE BulkStatusWrite(q)
  <2>1. CASE reg[a].present /\ <<a, reg[a].id>> \in req[q].ids
    BY <1>0, <1>7, <2>1 DEF BulkStatusWrite, BulkSet, Rewritten, Fate, Row
  <2>2. CASE ~(reg[a].present /\ <<a, reg[a].id>> \in req[q].ids)
    BY <1>7, <2>2 DEF BulkStatusWrite, Fate
  <2> QED
    BY <2>1, <2>2
<1>8. CASE RestoreWrite(q)
  <2>1. CASE req[q].who = a /\ StillThere(a, req[q].row.id)
    BY <1>0, <1>8, <2>1 DEF RestoreWrite, Restored, Rewritten, StillThere, Fate, Row
  <2>2. CASE ~(req[q].who = a /\ StillThere(a, req[q].row.id))
    BY <1>0, <1>8, <2>2 DEF RestoreWrite, Fate
  <2> QED
    BY <2>1, <2>2
<1>9. CASE PurgeWrite(q)
  <2>1. CASE req[q].who = a /\ StillThere(a, req[q].row.id)
    BY <1>0, <1>9, <2>1 DEF PurgeWrite, Purged, AbsentRow, StillThere, Fate
  <2>2. CASE ~(req[q].who = a /\ StillThere(a, req[q].row.id))
    BY <1>0, <1>9, <2>2 DEF PurgeWrite, Fate
  <2> QED
    BY <2>1, <2>2
<1>10. CASE ImportWrite(q)
  <2> DEFINE r == req[q]
  <2>1. pc[q] = "importWrite" /\ pc'[q] = "importRow"
    BY <1>10 DEF ImportWrite, TypeInv, TypeOK
  <2>2. CASE r.who # a
    BY <1>0, <1>10, <2>2 DEF ImportWrite, Fate
  <2>3. CASE r.who = a /\ Rewrites(r) /\ StillThere(a, r.row.id)
    <3>1. reg'[a] = Imported(r) /\ reg[a].present /\ Replacing(r)
      BY <1>0, <1>10, <2>1, <2>3 DEF ImportWrite, Rewrites, StillThere, SlotsBusy
    <3>2. CASE r.row.deleted
      BY <1>0, <2>1, <2>3, <3>1, <3>2 DEF Imported, Reimported, Rewritten, Fate, Row
    <3>3. CASE ~r.row.deleted
      BY <1>0, <2>1, <2>3, <3>1, <3>3 DEF Imported, Reimported, Rewritten, Fate, Row
    <3> QED
      BY <3>2, <3>3
  <2>4. CASE r.who = a /\ ~Rewrites(r) /\ ~reg[a].present
    BY <1>0, <1>10, <2>1, <2>4 DEF ImportWrite, Rewrites, Made, Fate
  <2>5. CASE \/ Rewrites(r) /\ ~StillThere(a, r.row.id)
             \/ ~Rewrites(r) /\ reg[a].present
    <3>1. r.who = a => UNCHANGED reg
      BY <1>10, <2>5 DEF ImportWrite, Rewrites
    <3> QED
      BY <2>2, <3>1 DEF Fate
  <2> QED
    BY <2>2, <2>3, <2>4, <2>5
<1> QED
  BY <1>1, <1>2, <1>3, <1>4, <1>5, <1>6, <1>7, <1>8, <1>9, <1>10 DEF Step, Arrives, Proceeds

---------------------------------------------------------------------------
\* What a status change and a permanent deletion remember of the row they read

StatusRead ==
    \A q \in Requests :
        LET r == req[q]
        IN r.kind = "status" =>
             /\ r.who \in Attendees /\ r.row.id <= reg[r.who].id
             /\ StillThere(r.who, r.row.id) /\ r.row.confirmed => reg[r.who].confirmed

PurgeRead ==
    \A q \in Requests :
        LET r == req[q]
        IN r.kind = "purge" =>
             /\ r.who \in Attendees /\ r.row.id <= reg[r.who].id
             /\ StillThere(r.who, r.row.id) => reg[r.who].deleted

ReadKinds == { "status", "purge" }

\* A slot that has a request of one of these kinds after its own step has just
\* read the row, or had the request before and left the table alone.
LEMMA ReadSlots ==
  ASSUME TypeInv, SlotsBusy, NEW q \in Requests, Step(q), req'[q].kind \in ReadKinds
  PROVE  /\ UNCHANGED reg
         /\ \/ req'[q] = req[q]
            \/ StatusBegin(q) /\ req'[q].kind = "status"
            \/ PurgeBegin(q) /\ req'[q].kind = "purge"
<1> USE DEF ReadKinds
<1>0. /\ req[q] \in Request /\ NoRequest \in Request /\ SlotFits(pc[q], req[q])
      /\ req'[q].kind \notin { "none", "register", "create", "bulkStatus", "restore", "import",
                               "importReplace" }
  BY NoRequestFits DEF TypeInv, TypeOK, SlotsFit
<1>1. ~Finish(q)
  BY <1>0 DEF Finish, NoRequest, TypeInv, TypeOK
<1>2. ASSUME NEW r, NEW c, Start(q, r, c) PROVE req'[q] = r
  BY <1>2 DEF Start, TypeInv, TypeOK
<1>3. CASE StatusBegin(q)
  <2>1. req'[q].kind = "status"
    BY <1>0, <1>2, <1>3 DEF StatusBegin, Request
  <2> QED
    BY <1>3, <2>1 DEF StatusBegin
<1>4. CASE PurgeBegin(q)
  <2>1. req'[q].kind = "purge"
    BY <1>0, <1>2, <1>4 DEF PurgeBegin, Request
  <2> QED
    BY <1>4, <2>1 DEF PurgeBegin
<1>5. ~RegisterBegin(q)
  BY <1>0, <1>2 DEF RegisterBegin, Request
<1>6. ~CreateBegin(q)
  <2> SUFFICES ASSUME CreateBegin(q) PROVE FALSE
    OBVIOUS
  <2>1. PICK a \in Attendees, locks \in BOOLEAN, want \in Statuses :
          req'[q] = [NoRequest EXCEPT !.kind = "create", !.who = a, !.locks = locks,
                                      !.cap = event.capacity, !.want = want]
    BY <1>2, KindsAssumption DEF CreateBegin, Statuses
  <2> QED
    BY <1>0, <2>1 DEF Request
<1>7. ~BulkStatusBegin(q)
  BY <1>0, <1>2 DEF BulkStatusBegin, Request
<1>8. ~RestoreBegin(q)
  BY <1>0, <1>2 DEF RestoreBegin, Request
<1>9. ~ImportBegin(q)
  <2> SUFFICES ASSUME ImportBegin(q) PROVE FALSE
    OBVIOUS
  <2>1. PICK kind \in { "import", "importReplace" } :
          Start(q, [NoRequest EXCEPT !.kind = kind, !.cap = event.capacity,
                                     !.left = ImportRows], "importCount")
    BY DEF ImportBegin
  <2> DEFINE r == [NoRequest EXCEPT !.kind = kind, !.cap = event.capacity,
                                    !.left = ImportRows]
  <2>2. r.kind = kind
    BY DEF NoRequest
  <2>3. req'[q] = r
    BY <1>2, <2>1
  <2> HIDE DEF r
  <2> QED
    BY <1>0, <2>1, <2>2, <2>3
<1>10. ~(Remove(q) \/ BulkDelete(q) \/ UpdateEvent(q))
  BY <1>0 DEF Remove, BulkDelete, UpdateEvent, SlotsBusy
<1>11. CASE UpsertAttendee(q) \/ CountSeats(q) \/ ImportUpsert(q)
  BY <1>1, <1>11 DEF UpsertAttendee, CountSeats, ImportUpsert, Goto
<1>12. ~(Insert(q) \/ StatusWrite(q) \/ BulkStatusWrite(q) \/ RestoreWrite(q) \/ PurgeWrite(q)
           \/ ImportEnd(q) \/ Abort(q))
  BY <1>1 DEF Insert, StatusWrite, BulkStatusWrite, RestoreWrite, PurgeWrite, ImportEnd, Abort
<1>13. ~FindExisting(q)
  BY <1>0, <1>1 DEF FindExisting, SlotFits, Request, TypeInv, TypeOK
<1>14. ~BulkReadEvent(q)
  BY <1>0 DEF BulkReadEvent, SlotFits, Request, TypeInv, TypeOK
<1>15. ~(ImportCount(q) \/ ImportRow(q) \/ ImportFind(q) \/ ImportWrite(q) \/ ImportRowFails(q))
  <2> SUFFICES ASSUME \/ ImportCount(q) \/ ImportRow(q) \/ ImportFind(q) \/ ImportWrite(q)
                      \/ ImportRowFails(q)
               PROVE  FALSE
    OBVIOUS
  <2>1. req[q].kind \in ImportKinds
    BY <1>0 DEF ImportCount, ImportRow, ImportFind, ImportWrite, ImportRowFails, SlotFits
  <2>2. NextRow(q).kind = req[q].kind
        /\ \A n : [NextRow(q) EXCEPT !.taken = n].kind = req[q].kind
    BY <1>0 DEF NextRow, Request
  <2>3. req'[q].kind = req[q].kind
    <3>1. CASE ImportWrite(q)
      <4>1. PICK n : req' = [req EXCEPT ![q] = [NextRow(q) EXCEPT !.taken = n]]
        BY <1>0, <2>2, <3>1 DEF ImportWrite, NextRow, Request
      <4> QED
        BY <2>2, <4>1 DEF TypeInv, TypeOK
    <3>2. CASE ImportRow(q)
      <4>1. PICK a \in Attendees, locks \in BOOLEAN, want \in Wanted :
              req' = [req EXCEPT ![q].who = a, ![q].locks = locks, ![q].want = want,
                                 ![q].left = @ - 1]
        BY <3>2, KindsAssumption DEF ImportRow
      <4> QED
        BY <1>0, <4>1 DEF TypeInv, TypeOK, Request
    <3>3. CASE ImportCount(q) \/ ImportFind(q) \/ ImportRowFails(q)
      BY <1>0, <2>2, <3>3 DEF ImportCount, ImportFind, ImportRowFails, TypeInv, TypeOK, Request
    <3> QED
      BY <3>1, <3>2, <3>3
  <2> QED
    BY <1>0, <2>1, <2>3 DEF ImportKinds
<1> QED
  BY <1>3, <1>4, <1>5, <1>6, <1>7, <1>8, <1>9, <1>10, <1>11, <1>12, <1>13, <1>14, <1>15
     DEF Step, Arrives, Proceeds

LEMMA BusyStep ==
  ASSUME TypeInv, SlotsBusy, NEW q \in Requests, Step(q)
  PROVE  SlotsBusy'
<1> SUFFICES ASSUME NEW p \in Requests
             PROVE  /\ pc'[p] = "idle" => req'[p].kind = "none"
                    /\ pc'[p] = "importWrite" /\ Rewrites(req'[p]) => Replacing(req'[p])
  BY DEF SlotsBusy, Replacing, Rewrites
<1>1. CASE p # q
  BY <1>1, OtherSlots DEF SlotsBusy
<1>2. CASE p = q
  <2>0. req[q] \in Request /\ pc[q] \in Calls
    BY DEF TypeInv, TypeOK
  <2>1. CASE Finish(q)
    BY <1>2, <2>1 DEF Finish, NoRequest, TypeInv, TypeOK
  <2>2. CASE UNCHANGED <<pc, req>>
    BY <1>2, <2>2 DEF SlotsBusy
  <2>3. CASE ImportFind(q)
    <3>1. CASE ImportSkips(req[q], reg[req[q].who])
      BY <1>2, <2>3, <3>1 DEF ImportFind, TypeInv, TypeOK
    <3>2. CASE ~ImportSkips(req[q], reg[req[q].who])
      <4>1. /\ pc'[q] = "importWrite"
            /\ req'[q] = [req[q] EXCEPT !.row = reg[req[q].who]]
        BY <2>3, <3>2 DEF ImportFind, TypeInv, TypeOK
      <4>2. req'[q].row = reg[req[q].who] /\ req'[q].kind = req[q].kind
        BY <2>0, <4>1 DEF Request
      <4> QED
        BY <1>2, <3>2, <4>1, <4>2 DEF ImportSkips, Rewrites, Replacing
    <3> QED
      BY <3>1, <3>2
  <2>4. CASE pc'[q] \notin { "idle", "importWrite" }
    BY <1>2, <2>4
  <2>5. Remove(q) \/ BulkDelete(q) \/ UpdateEvent(q) => UNCHANGED <<pc, req>>
    BY DEF Remove, BulkDelete, UpdateEvent
  <2>6. RegisterBegin(q) \/ CreateBegin(q) \/ StatusBegin(q) \/ BulkStatusBegin(q)
          \/ RestoreBegin(q) \/ PurgeBegin(q) \/ ImportBegin(q)
          => pc'[q] \notin { "idle", "importWrite" }
    BY DEF RegisterBegin, CreateBegin, StatusBegin, BulkStatusBegin, RestoreBegin, PurgeBegin,
           ImportBegin, Start, TypeInv, TypeOK
  <2>7. UpsertAttendee(q) \/ (FindExisting(q) /\ ~Finish(q)) \/ (CountSeats(q) /\ ~Finish(q))
          \/ BulkReadEvent(q) \/ ImportCount(q) \/ ImportRow(q) \/ ImportUpsert(q)
          \/ ImportWrite(q) \/ ImportRowFails(q) => pc'[q] \notin { "idle", "importWrite" }
    BY DEF UpsertAttendee, FindExisting, CountSeats, BulkReadEvent, ImportCount, ImportRow,
           ImportUpsert, ImportWrite, ImportRowFails, Goto, CallAfterCount, TypeInv, TypeOK
  <2>8. Insert(q) \/ StatusWrite(q) \/ BulkStatusWrite(q) \/ RestoreWrite(q) \/ PurgeWrite(q)
          \/ ImportEnd(q) \/ Abort(q) => Finish(q)
    BY DEF Insert, StatusWrite, BulkStatusWrite, RestoreWrite, PurgeWrite, ImportEnd, Abort
  <2> QED
    BY <2>1, <2>2, <2>3, <2>4, <2>5, <2>6, <2>7, <2>8 DEF Step, Arrives, Proceeds
<1> QED
  BY <1>1, <1>2

LEMMA BusyInvariance == Spec => []SlotsBusy
<1>1. Init => SlotsBusy
  BY DEF Init, SlotsBusy, NoRequest
<1>2. TypeInv /\ SlotsBusy /\ [Next]_vars => SlotsBusy'
  <2>1. TypeInv /\ SlotsBusy /\ Next => SlotsBusy'
    BY BusyStep DEF Next, Step
  <2>2. SlotsBusy /\ UNCHANGED vars => SlotsBusy'
    BY DEF SlotsBusy, vars, Rewrites, Replacing
  <2> QED
    BY <2>1, <2>2
<1> QED
  BY <1>1, <1>2, TypeInvariance, PTL DEF Spec

FoundAfter(a, i) == reg'[a].present /\ reg'[a].id = i

\* A row found under an id that had been drawn before is the row it was.
LEMMA SameRow ==
  ASSUME TypeInv, TypeInv', NEW q \in Requests, NEW a \in Attendees, Fate(q, a),
         NEW i \in Nat, i <= reg[a].id
  PROVE  /\ i <= reg'[a].id
         /\ FoundAfter(a, i) => StillThere(a, i)
         /\ FoundAfter(a, i) => ~Made(q, a) /\ ~Purged(q, a)
<1>1. /\ reg[a] \in Row /\ reg'[a] \in Row
      /\ reg[a].id \in Nat /\ reg'[a].id \in Nat
  BY BoundsAssumption DEF TypeInv, TypeOK, Row
<1>2. CASE Made(q, a)
  BY <1>1, <1>2 DEF Made, NewRow, StillThere, FoundAfter
<1>3. CASE Purged(q, a)
  BY <1>1, <1>3 DEF Purged, StillThere, FoundAfter
<1>4. CASE reg'[a].id = reg[a].id /\ (reg[a].present <=> reg'[a].present) /\ ~Made(q, a)
             /\ ~Purged(q, a)
  BY <1>4 DEF StillThere, FoundAfter
<1>5. ASSUME NEW x, NEW y, NEW z, Rewritten(a, x, y, z)
      PROVE  reg'[a].id = reg[a].id /\ reg[a].present /\ reg'[a].present
  BY <1>1, <1>5 DEF Rewritten, Row
<1>6. \/ Made(q, a) \/ Purged(q, a)
      \/ reg'[a].id = reg[a].id /\ (reg[a].present <=> reg'[a].present)
  BY <1>5 DEF Fate, SoftDeleted, Restored, StatusSet, BulkSet, Reimported
<1> QED
  BY <1>2, <1>3, <1>4, <1>6

\* No import can reset a confirmation that a status change relies on.
ConfirmationsLast ==
    Solo \/ "status" \notin Kinds \/ "importReplace" \notin Kinds

\* No request can bring a row back that a permanent deletion has found deleted.
DeletionsLast ==
    Solo \/ "purge" \notin Kinds \/ {"restore", "importReplace"} \cap Kinds = {}

LEMMA ReimportKind ==
  ASSUME TypeInv, NEW q \in Requests, NEW a, Reimported(q, a)
  PROVE  "importReplace" \in Kinds
  BY DEF TypeInv, TypeOK, Request, Reimported, Replacing

LEMMA RestoreKind ==
  ASSUME TypeInv, NEW q \in Requests, NEW a, Restored(q, a)
  PROVE  "restore" \in Kinds
  BY DEF TypeInv, TypeOK, Request, Restored

LEMMA ConfirmedStays ==
  ASSUME TypeInv, TypeInv', NEW q \in Requests, NEW a \in Attendees, Fate(q, a),
         NEW i \in Nat, i <= reg[a].id, FoundAfter(a, i), reg[a].confirmed,
         ~Reimported(q, a)
  PROVE  reg'[a].confirmed
<1>1. reg[a] \in Row /\ ~Made(q, a) /\ ~Purged(q, a)
  BY SameRow DEF TypeInv, TypeOK
<1>2. ASSUME NEW x, NEW y, NEW z, Rewritten(a, x, y, z), y PROVE reg'[a].confirmed
  BY <1>1, <1>2 DEF Rewritten, Row
<1> QED
  BY <1>1, <1>2 DEF Fate, SoftDeleted, Restored, StatusSet, BulkSet

LEMMA DeletedStays ==
  ASSUME TypeInv, TypeInv', NEW q \in Requests, NEW a \in Attendees, Fate(q, a),
         NEW i \in Nat, i <= reg[a].id, FoundAfter(a, i), reg[a].deleted,
         ~Reimported(q, a), ~Restored(q, a)
  PROVE  reg'[a].deleted
<1>1. reg[a] \in Row /\ ~Made(q, a) /\ ~Purged(q, a)
  BY SameRow DEF TypeInv, TypeOK
<1>2. ASSUME NEW x, NEW y, NEW z, Rewritten(a, x, y, z), z PROVE reg'[a].deleted
  BY <1>1, <1>2 DEF Rewritten, Row
<1> QED
  BY <1>1, <1>2 DEF Fate, SoftDeleted, StatusSet, BulkSet

LEMMA StatusReadStep ==
  ASSUME TypeInv, TypeInv', SlotsBusy, StatusRead, ConfirmationsLast,
         NEW q \in Requests, Step(q)
  PROVE  StatusRead'
<1> SUFFICES ASSUME NEW p \in Requests, req'[p].kind = "status"
             PROVE  LET r == req'[p]
                    IN /\ r.who \in Attendees /\ r.row.id <= reg'[r.who].id
                       /\ FoundAfter(r.who, r.row.id) /\ r.row.confirmed
                            => reg'[r.who].confirmed
  BY DEF StatusRead, StillThere, FoundAfter
<1> DEFINE a == req'[p].who
           i == req'[p].row.id
<1>1. CASE p # q
  <2>1. /\ req'[p] = req[p] /\ a \in Attendees /\ i <= reg[a].id
        /\ StillThere(a, i) /\ req[p].row.confirmed => reg[a].confirmed
    BY <1>1, OtherSlots DEF StatusRead
  <2>2. i \in Nat /\ "status" \in Kinds
    BY <2>1, BoundsAssumption DEF TypeInv, TypeOK, Request, Row
  <2>3. Fate(q, a)
    BY <2>1, RowFate
  <2>4. ~Reimported(q, a)
    BY <1>1, <2>2, ReimportKind DEF ConfirmationsLast, Solo
  <2> HIDE DEF a, i
  <2>5. i <= reg'[a].id /\ (FoundAfter(a, i) => StillThere(a, i))
    BY <2>1, <2>2, <2>3, SameRow
  <2>6. FoundAfter(a, i) /\ reg[a].confirmed => reg'[a].confirmed
    BY <2>1, <2>2, <2>3, <2>4, ConfirmedStays
  <2> QED
    BY <2>1, <2>5, <2>6 DEF a, i, FoundAfter
<1>2. CASE p = q /\ req'[q] = req[q]
  BY <1>2, ReadSlots DEF ReadKinds, StatusRead, StillThere, FoundAfter
<1>3. CASE p = q /\ StatusBegin(q)
  <2>1. PICK b, want, c :
          /\ b \in Rows
          /\ Start(q, [NoRequest EXCEPT !.kind = "status", !.who = b, !.want = want,
                                        !.row = [Key(b) EXCEPT !.confirmed = reg[b].confirmed],
                                        !.cap = event.capacity], c)
    BY <1>3 DEF StatusBegin
  <2>2. UNCHANGED reg /\ b \in Attendees /\ reg[b].id \in Nat
    BY <1>3, <2>1, BoundsAssumption DEF StatusBegin, Rows, TypeInv, TypeOK, Row
  <2>3. /\ req'[q].who = b
        /\ req'[q].row = [Key(b) EXCEPT !.confirmed = reg[b].confirmed]
    BY <2>1 DEF Start, NoRequest, TypeInv, TypeOK
  <2>4. req'[q].row.id = reg[b].id /\ req'[q].row.confirmed = reg[b].confirmed
    BY <2>3 DEF Key, AbsentRow
  <2> QED
    BY <1>3, <2>2, <2>3, <2>4
<1> QED
  BY <1>1, <1>2, <1>3, ReadSlots DEF ReadKinds

LEMMA PurgeReadStep ==
  ASSUME TypeInv, TypeInv', SlotsBusy, PurgeRead, DeletionsLast,
         NEW q \in Requests, Step(q)
  PROVE  PurgeRead'
<1> SUFFICES ASSUME NEW p \in Requests, req'[p].kind = "purge"
             PROVE  LET r == req'[p]
                    IN /\ r.who \in Attendees /\ r.row.id <= reg'[r.who].id
                       /\ FoundAfter(r.who, r.row.id) => reg'[r.who].deleted
  BY DEF PurgeRead, StillThere, FoundAfter
<1> DEFINE a == req'[p].who
           i == req'[p].row.id
<1>1. CASE p # q
  <2>1. /\ req'[p] = req[p] /\ a \in Attendees /\ i <= reg[a].id
        /\ StillThere(a, i) => reg[a].deleted
    BY <1>1, OtherSlots DEF PurgeRead
  <2>2. i \in Nat /\ "purge" \in Kinds
    BY <2>1, BoundsAssumption DEF TypeInv, TypeOK, Request, Row
  <2>3. Fate(q, a)
    BY <2>1, RowFate
  <2>4. ~Reimported(q, a) /\ ~Restored(q, a)
    BY <1>1, <2>2, ReimportKind, RestoreKind DEF DeletionsLast, Solo
  <2> HIDE DEF a, i
  <2>5. i <= reg'[a].id /\ (FoundAfter(a, i) => StillThere(a, i))
    BY <2>1, <2>2, <2>3, SameRow
  <2>6. FoundAfter(a, i) /\ reg[a].deleted => reg'[a].deleted
    BY <2>1, <2>2, <2>3, <2>4, DeletedStays
  <2> QED
    BY <2>1, <2>5, <2>6 DEF a, i, FoundAfter
<1>2. CASE p = q /\ req'[q] = req[q]
  BY <1>2, ReadSlots DEF ReadKinds, PurgeRead, StillThere, FoundAfter
<1>3. CASE p = q /\ PurgeBegin(q)
  <2>1. PICK b \in Rows :
          /\ reg[b].deleted
          /\ Start(q, [NoRequest EXCEPT !.kind = "purge", !.who = b, !.row = Key(b)], "write")
    BY <1>3 DEF PurgeBegin
  <2>2. UNCHANGED reg /\ b \in Attendees /\ reg[b].id \in Nat
    BY <1>3, BoundsAssumption DEF PurgeBegin, Rows, TypeInv, TypeOK, Row
  <2>3. req'[q].who = b /\ req'[q].row.id = reg[b].id
    BY <2>1 DEF Start, NoRequest, Key, AbsentRow, TypeInv, TypeOK
  <2> QED
    BY <1>3, <2>1, <2>2, <2>3
<1> QED
  BY <1>1, <1>2, <1>3, ReadSlots DEF ReadKinds

LEMMA NewRowStatus ==
  ASSUME NEW i, NEW s
  PROVE  /\ NewRow(i, s).status = s /\ NewRow(i, s).present /\ ~NewRow(i, s).deleted
         /\ NewRow(i, s).confirmed <=> s = "approved"
  BY DEF NewRow

LEMMA ConfirmedStep ==
  ASSUME TypeInv, TypeInv', SlotsBusy, StatusRead, ApprovedIsConfirmed,
         NEW q \in Requests, Step(q)
  PROVE  ApprovedIsConfirmed'
<1> SUFFICES ASSUME NEW a \in Attendees, reg'[a].present, reg'[a].status = "approved"
             PROVE  reg'[a].confirmed
  BY DEF ApprovedIsConfirmed, Rows
<1>1. /\ reg[a] \in Row /\ reg'[a] \in Row /\ Fate(q, a)
      /\ reg[a].present /\ reg[a].status = "approved" => reg[a].confirmed
  BY RowFate DEF TypeInv, TypeOK, ApprovedIsConfirmed, Rows
<1>2. ASSUME NEW x, NEW y, NEW z, Rewritten(a, x, y, z)
      PROVE  reg[a].present /\ reg'[a].status = x /\ (y => reg'[a].confirmed)
  BY <1>1, <1>2 DEF Rewritten, Row
<1>3. CASE reg'[a] = reg[a]
  BY <1>1, <1>3
<1>4. CASE Made(q, a)
  BY <1>4, NewRowStatus DEF Made
<1>5. CASE Purged(q, a)
  BY <1>5 DEF Purged
<1>6. CASE SoftDeleted(a)
  BY <1>1, <1>2, <1>6 DEF SoftDeleted
<1>10. CASE Restored(q, a)
  BY <1>1, <1>2, <1>10 DEF Restored
<1>7. CASE StatusSet(q, a)
  <2>1. /\ req[q].want = "approved" /\ StillThere(a, req[q].row.id)
        /\ reg[a].confirmed \/ ~req[q].row.confirmed => reg'[a].confirmed
    BY <1>2, <1>7 DEF StatusSet, StillThere
  <2>2. req[q].row.confirmed => reg[a].confirmed
    BY <1>7, <2>1 DEF StatusSet, StatusRead
  <2> QED
    BY <2>1, <2>2
<1>8. CASE BulkSet(q, a)
  BY <1>2, <1>8 DEF BulkSet
<1>9. CASE Reimported(q, a)
  BY <1>2, <1>9 DEF Reimported
<1> QED
  BY <1>1, <1>3, <1>4, <1>5, <1>6, <1>7, <1>8, <1>9, <1>10 DEF Fate

ConfirmationInv == ConfirmationsLast => StatusRead /\ ApprovedIsConfirmed

LEMMA ConfirmationInvariance == Spec => []ConfirmationInv
<1>1. Init => ConfirmationInv
  BY DEF Init, ConfirmationInv, StatusRead, ApprovedIsConfirmed, Rows, NoRequest, AbsentRow
<1>2. ASSUME TypeInv, TypeInv', SlotsBusy, ConfirmationInv, [Next]_vars PROVE ConfirmationInv'
  <2> SUFFICES ASSUME ConfirmationsLast PROVE StatusRead' /\ ApprovedIsConfirmed'
    BY DEF ConfirmationInv, ConfirmationsLast, Solo
  <2>1. StatusRead /\ ApprovedIsConfirmed
    BY <1>2 DEF ConfirmationInv
  <2>2. ASSUME NEW q \in Requests, Step(q) PROVE StatusRead' /\ ApprovedIsConfirmed'
    BY <1>2, <2>1, <2>2, StatusReadStep, ConfirmedStep
  <2>3. CASE UNCHANGED vars
    BY <2>1, <2>3 DEF vars, StatusRead, StillThere, ApprovedIsConfirmed, Rows
  <2> QED
    BY <1>2, <2>2, <2>3 DEF Next, Step
<1> QED
  BY <1>1, <1>2, TypeInvariance, BusyInvariance, PTL DEF Spec

\* Whichever handler approves a registration, its confirmed_at is set, unless
\* status changes run at the same time as imports that replace existing rows:
\* only such an import puts back the confirmed_at it read before.
THEOREM ApprovedConfirmed ==
  ConfirmationsLast => (Spec => []ApprovedIsConfirmed)
<1>1. ConfirmationsLast /\ ConfirmationInv => ApprovedIsConfirmed
  BY DEF ConfirmationInv
<1>2. CASE ConfirmationsLast
  <2>1. ConfirmationInv => ApprovedIsConfirmed
    BY <1>1, <1>2
  <2> QED
    BY <2>1, ConfirmationInvariance, PTL
<1> QED
  BY <1>2

DeletionInv == DeletionsLast => PurgeRead

LEMMA DeletionInvariance == Spec => []DeletionInv
<1>1. Init => DeletionInv
  BY DEF Init, DeletionInv, PurgeRead, NoRequest
<1>2. ASSUME TypeInv, TypeInv', SlotsBusy, DeletionInv, [Next]_vars PROVE DeletionInv'
  <2> SUFFICES ASSUME DeletionsLast PROVE PurgeRead'
    BY DEF DeletionInv, DeletionsLast, Solo
  <2>1. PurgeRead
    BY <1>2 DEF DeletionInv
  <2>2. CASE UNCHANGED vars
    BY <2>1, <2>2 DEF vars, PurgeRead, StillThere
  <2> QED
    BY <1>2, <2>1, <2>2, PurgeReadStep DEF Next, Step
<1> QED
  BY <1>1, <1>2, TypeInvariance, BusyInvariance, PTL DEF Spec

\* A registration that disappears was soft-deleted, although the delete names
\* its id alone, unless permanent deletions run at the same time as requests
\* that restore rows.
THEOREM OnlySoftDeletedPurged ==
  DeletionsLast => (Spec => PurgeOnlySoftDeleted)
<1> DEFINE Act == \A a \in Rows : ~reg'[a].present => reg[a].deleted
<1>1. ASSUME TypeInv, SlotsBusy, PurgeRead, NEW q \in Requests, Step(q)
      PROVE  Act
  <2> SUFFICES ASSUME NEW a \in Attendees, reg[a].present, ~reg'[a].present
               PROVE  reg[a].deleted
    BY DEF Rows
  <2>1. Fate(q, a) /\ reg[a] \in Row
    BY <1>1, RowFate DEF TypeInv, TypeOK
  <2>2. ASSUME NEW x, NEW y, NEW z PROVE ~Rewritten(a, x, y, z)
    BY <2>1 DEF Rewritten, Row
  <2>3. Purged(q, a)
    BY <2>1, <2>2 DEF Fate, Made, SoftDeleted, Restored, StatusSet, BulkSet, Reimported
  <2> QED
    BY <1>1, <2>3 DEF Purged, PurgeRead
<1>2. CASE DeletionsLast
  <2>1. TypeInv /\ SlotsBusy /\ DeletionInv /\ [Next]_vars => [Act]_vars
    BY <1>1, <1>2 DEF Next, Step, DeletionInv
  <2> HIDE DEF Act
  <2>2. Spec => [][Act]_vars
    BY <2>1, TypeInvariance, BusyInvariance, DeletionInvariance, PTL DEF Spec
  <2> QED
    BY <2>2 DEF PurgeOnlySoftDeleted, Act
<1> QED
  BY <1>2
---------------------------------------------------------------------------
\* The capacity check of a request that has the event to itself

Room(n) == event.capacity = 0 \/ SeatsTaken + n <= event.capacity

Unapproved(r) == { a \in Rows : <<a, reg[a].id>> \in r.ids /\ reg[a].status # "approved" }

CapacityKinds == { "register", "create", "status", "restore", "import", "importReplace" }

\* The capacity the request compares with is the event's.
CapacityRead(q) ==
    /\ req[q].kind # "bulkStatus" => req[q].more = 1
    /\ req[q].kind \in CapacityKinds => req[q].cap = event.capacity
    /\ req[q].kind = "bulkStatus" /\ pc[q] = "count" => req[q].cap = event.capacity

\* Once the check is behind the request, the seat it claims is free.
SeatHeld(q) ==
    /\ \/ pc[q] = "insert" \/ (req[q].kind = "create" /\ pc[q] \in { "upsert", "find" })
       => (req[q].want = "approved" => Room(1))
    /\ req[q].kind = "status" /\ pc[q] = "write" /\ req[q].want = "approved"
       => reg[req[q].who].status = "approved" \/ Room(1)
    /\ req[q].kind = "restore" /\ pc[q] = "write" /\ reg[req[q].who].status = "approved"
       => Room(1)

\* And so are the seats of the rows that bulkUpdateStatus approves.
SeatsHeld(q) ==
    req[q].kind = "bulkStatus" =>
        /\ Cardinality(Unapproved(req[q])) <= req[q].more
        /\ pc[q] = "write" /\ req[q].want = "approved" => req[q].more = 0 \/ Room(req[q].more)

\* The import's own counter is at least the number of seats taken, and the row
\* to be written is the one it examined.
ImportCounts(q) ==
    /\ pc[q] \in { "importRow", "importUpsert", "importFind", "importWrite" } =>
          event.capacity = 0 \/ SeatsTaken <= req[q].taken
    /\ pc[q] = "importWrite" =>
          req[q].row = reg[req[q].who] /\ ~ImportSkips(req[q], req[q].row)

Checked(q) == CapacityRead(q) /\ SeatHeld(q) /\ SeatsHeld(q) /\ ImportCounts(q)

LEMMA CapacityNat ==
  ASSUME TypeInv PROVE event.capacity \in Nat
<1>1. event.capacity \in 0..Ceiling
  BY CapacityAssumption DEF TypeInv, TypeOK, Event
<1> QED
  BY <1>1, CapacityAssumption

LEMMA SeatsGrow ==
  ASSUME NEW S, IsFiniteSet(S), Approved' \subseteq Approved \cup S
  PROVE  SeatsTaken' <= SeatsTaken + Cardinality(S) /\ SeatsTaken' \in Nat
<1>1. IsFiniteSet(Approved)
  BY SeatsTakenNat
<1>2. /\ IsFiniteSet(Approved \cup S)
      /\ Cardinality(Approved \cup S) = Cardinality(Approved) + Cardinality(S)
                                          - Cardinality(Approved \cap S)
  BY <1>1, FS_Union
<1>3. Cardinality(Approved \cap S) \in Nat
  BY <1>1, FS_Intersection, FS_CardinalityType
<1>4. Cardinality(Approved) \in Nat /\ Cardinality(S) \in Nat
  BY <1>1, FS_CardinalityType
<1>5. Cardinality(Approved') <= Cardinality(Approved \cup S) /\ Cardinality(Approved') \in Nat
  BY <1>2, FS_Subset, FS_CardinalityType
<1>6. Cardinality(Approved \cup S) \in Nat
  BY <1>2, FS_CardinalityType
<1> QED
  BY <1>2, <1>3, <1>4, <1>5, <1>6 DEF SeatsTaken

LEMMA OneSeatGrows ==
  ASSUME NEW a, Approved' \subseteq Approved \cup {a}
  PROVE  SeatsTaken' <= SeatsTaken + 1
  BY SeatsGrow, FS_Singleton

LEMMA SeatsStay ==
  ASSUME Approved' \subseteq Approved
  PROVE  SeatsTaken' <= SeatsTaken /\ SeatsTaken' \in Nat
  BY SeatsTakenNat, FS_Subset, FS_CardinalityType DEF SeatsTaken

LEMMA UnapprovedFinite ==
  ASSUME NEW r PROVE IsFiniteSet(Unapproved(r)) /\ Cardinality(Unapproved(r)) \in Nat
<1>1. Unapproved(r) \subseteq Attendees
  BY DEF Unapproved, Rows
<1> QED
  BY <1>1, FiniteAssumption, FS_Subset, FS_CardinalityType

\* How a registration comes to take a seat.
LEMMA NewSeat ==
  ASSUME TypeInv, SlotsBusy, NEW q \in Requests, Step(q), NEW b \in Approved', b \notin Approved
  PROVE  /\ b \in Attendees
         /\ \/ Made(q, b) /\ req[q].want = "approved"
            \/ Restored(q, b) /\ reg[b].status = "approved"
            \/ StatusSet(q, b) /\ req[q].want = "approved" /\ reg[b].status # "approved"
            \/ BulkSet(q, b) /\ req[q].want = "approved" /\ b \in Unapproved(req[q])
            \/ /\ Reimported(q, b) /\ req[q].want = "approved"
               /\ req[q].row.deleted \/ (reg[b].status # "approved" /\ ~reg[b].deleted)
<1>1. /\ b \in Attendees /\ reg'[b].present /\ reg'[b].status = "approved" /\ ~reg'[b].deleted
      /\ reg[b] \in Row /\ Fate(q, b)
      /\ ~(reg[b].present /\ reg[b].status = "approved" /\ ~reg[b].deleted)
  BY RowFate DEF Approved, TypeInv, TypeOK
<1>2. ASSUME NEW x, NEW y, NEW z, Rewritten(b, x, y, z)
      PROVE  reg[b].present /\ x = "approved" /\ ~z
  BY <1>1, <1>2 DEF Rewritten, Row
<1>3. ~(reg'[b] = reg[b]) /\ ~Purged(q, b)
  BY <1>1 DEF Purged
<1>4. CASE Made(q, b)
  BY <1>1, <1>4, NewRowStatus DEF Made
<1>5. ~SoftDeleted(b)
  BY <1>2 DEF SoftDeleted
<1>6. CASE Restored(q, b)
  BY <1>1, <1>2, <1>6 DEF Restored
<1>7. CASE StatusSet(q, b)
  BY <1>1, <1>2, <1>7 DEF StatusSet
<1>8. CASE BulkSet(q, b)
  BY <1>1, <1>2, <1>8 DEF BulkSet, Unapproved, Rows
<1>9. CASE Reimported(q, b)
  BY <1>1, <1>2, <1>9 DEF Reimported
<1> QED
  BY <1>1, <1>3, <1>4, <1>5, <1>6, <1>7, <1>8, <1>9 DEF Fate

\* Except by bulkUpdateStatus, a step fills one seat at most.
LEMMA NewSeatOwner ==
  ASSUME TypeInv, SlotsBusy, NEW q \in Requests, Step(q)
  PROVE  IF req[q].kind = "bulkStatus"
         THEN Approved' \subseteq Approved \cup Unapproved(req[q])
         ELSE Approved' \subseteq Approved \cup {req[q].who}
<1> SUFFICES ASSUME NEW b \in Approved', b \notin Approved
             PROVE  IF req[q].kind = "bulkStatus" THEN b \in Unapproved(req[q])
                                                  ELSE b = req[q].who
  OBVIOUS
<1>1. Made(q, b) => req[q].kind # "bulkStatus"
  BY DEF Made, TypeInv, SlotsFit, SlotFits, ImportKinds
<1> QED
  BY <1>1, NewSeat DEF Made, Restored, StatusSet, BulkSet, Reimported, Replacing

\* What the import counts when it writes a row.
Counts(r) ==
    Promotes(r, r.row) \/ AddsApproved(r, r.row) \/ (r.row.deleted /\ r.want = "approved")

\* The seat that a row of an import takes is counted, and was free unless the
\* row is restored.
LEMMA ImportSeat ==
  ASSUME TypeInv, NEW q \in Requests, Checked(q), pc[q] = "importWrite",
         req[q].want = "approved", event.capacity # 0,
         \/ ~reg[req[q].who].present
         \/ /\ Replacing(req[q]) /\ reg[req[q].who].present
            /\ \/ req[q].row.deleted
               \/ reg[req[q].who].status # "approved" /\ ~reg[req[q].who].deleted
  PROVE  Counts(req[q]) /\ (req[q].row.deleted \/ Room(1))
<1>1. /\ req[q].row = reg[req[q].who] /\ ~ImportSkips(req[q], req[q].row)
      /\ SeatsTaken <= req[q].taken
      /\ req[q].cap = event.capacity
  BY DEF Checked, ImportCounts, CapacityRead, CapacityKinds, TypeInv, SlotsFit, SlotFits,
         ImportKinds
<1>2. event.capacity \in Nat /\ event.capacity > 0 /\ req[q].taken \in Nat
  BY CapacityNat DEF TypeInv, TypeOK, Request
<1>3. CASE req[q].row.deleted /\ req[q].row.present
  BY <1>3 DEF Counts
<1>4. CASE ~(req[q].row.deleted /\ req[q].row.present)
  <2>1. Promotes(req[q], req[q].row) \/ AddsApproved(req[q], req[q].row)
    BY <1>1, <1>2, <1>4 DEF Promotes, AddsApproved
  <2>2. ~(req[q].taken >= req[q].cap)
    BY <1>1, <2>1 DEF ImportSkips, ImportFull
  <2>3. SeatsTaken + 1 <= event.capacity
    BY <1>1, <1>2, <2>2, SeatsTakenNat
  <2> QED
    BY <2>1, <2>3 DEF Counts, Room
<1> QED
  BY <1>3, <1>4

\* A slot about to write a row leaves that call for the next row, or finishes
\* without a change.
LEMMA WriteOnly ==
  ASSUME TypeInv, NEW q \in Requests, Step(q), pc[q] = "importWrite"
  PROVE  pc'[q] = "importRow" \/ UNCHANGED reg
<1>1. Arrives(q) => FALSE
  BY DEF Arrives, RegisterBegin, CreateBegin, StatusBegin, BulkStatusBegin, Remove, BulkDelete,
         RestoreBegin, PurgeBegin, ImportBegin, UpdateEvent, Start
<1>2. Proceeds(q) => ImportWrite(q)
  BY DEF Proceeds, UpsertAttendee, FindExisting, Insert, CountSeats, StatusWrite, BulkReadEvent,
         BulkStatusWrite, RestoreWrite, PurgeWrite, ImportCount, ImportRow, ImportEnd,
         ImportUpsert, ImportFind
<1> QED
  BY <1>1, <1>2 DEF Step, ImportWrite, ImportRowFails, Abort, TypeInv, TypeOK

\* A step that takes a seat takes one that is free.
LEMMA SeatFree ==
  ASSUME TypeInv, SlotsBusy, NEW q \in Requests, Checked(q), Step(q)
  PROVE  WithinCapacity \/ ImportRestores(q)
<1> SUFFICES ASSUME SeatsTaken' > SeatsTaken, event.capacity # 0, ~ImportRestores(q)
             PROVE  SeatsTaken' <= event.capacity
  BY DEF WithinCapacity
<1>0. /\ event.capacity \in Nat /\ SeatsTaken \in Nat /\ SlotFits(pc[q], req[q])
      /\ req[q] \in Request
  BY SeatsTakenNat, CapacityNat DEF TypeInv, TypeOK, SlotsFit
<1>1. PICK b \in Approved' : b \notin Approved
  <2>1. CASE Approved' \subseteq Approved
    BY <1>0, <2>1, SeatsStay
  <2> QED
    BY <2>1
<1>2. ASSUME Room(1), req[q].kind # "bulkStatus" PROVE SeatsTaken' <= event.capacity
  <2>1. SeatsTaken' <= SeatsTaken + 1 /\ SeatsTaken' \in Nat
    <3>1. Approved' \subseteq Approved \cup {req[q].who}
      BY <1>2, NewSeatOwner
    <3> QED
      BY <3>1, SeatsGrow, FS_Singleton
  <2> QED
    BY <1>0, <1>2, <2>1 DEF Room
<1>3. CASE Made(q, b) /\ req[q].want = "approved"
  <2>1. req[q].kind # "bulkStatus"
    BY <1>0, <1>3 DEF Made, SlotFits, ImportKinds
  <2>2. CASE pc[q] = "insert"
    BY <1>2, <1>3, <2>1, <2>2 DEF Checked, SeatHeld
  <2>3. CASE pc[q] = "importWrite"
    <3>1. ~reg[req[q].who].present
      BY <1>3 DEF Made
    <3>2. req[q].row = reg[req[q].who] /\ reg[req[q].who] \in Row
      BY <1>0, <2>3 DEF Checked, ImportCounts, SlotFits, TypeInv, TypeOK
    <3>3. ~req[q].row.deleted
      <4>1. reg'[b] # reg[b]
        BY <1>3, NewRowStatus DEF Made
      <4>2. pc'[q] = "importRow"
        BY <2>3, <4>1, WriteOnly
      <4> QED
        BY <2>3, <4>2 DEF ImportRestores
    <3> QED
      BY <1>2, <1>3, <2>1, <2>3, <3>1, <3>3, ImportSeat
  <2> QED
    BY <1>3, <2>2, <2>3 DEF Made
<1>4. CASE Restored(q, b) /\ reg[b].status = "approved"
  BY <1>2, <1>4 DEF Restored, Checked, SeatHeld
<1>5. CASE StatusSet(q, b) /\ req[q].want = "approved" /\ reg[b].status # "approved"
  BY <1>2, <1>5 DEF StatusSet, Checked, SeatHeld
<1>6. CASE BulkSet(q, b) /\ req[q].want = "approved" /\ b \in Unapproved(req[q])
  <2> DEFINE n == Cardinality(Unapproved(req[q]))
  <2>1. n \in Nat /\ n # 0
    BY <1>6, UnapprovedFinite, FS_EmptySet
  <2>2. n <= req[q].more /\ req[q].more \in Nat
    BY <1>0, <1>6 DEF BulkSet, Checked, SeatsHeld, Request
  <2>3. SeatsTaken + req[q].more <= event.capacity
    BY <1>6, <2>1, <2>2 DEF BulkSet, Checked, SeatsHeld, Room
  <2>4. SeatsTaken' <= SeatsTaken + n /\ SeatsTaken' \in Nat
    <3>1. Approved' \subseteq Approved \cup Unapproved(req[q])
      BY <1>6, NewSeatOwner DEF BulkSet
    <3> QED
      BY <3>1, SeatsGrow, UnapprovedFinite
  <2> HIDE DEF n
  <2> QED
    BY <1>0, <2>1, <2>2, <2>3, <2>4
<1>7. CASE /\ Reimported(q, b) /\ req[q].want = "approved"
           /\ req[q].row.deleted \/ (reg[b].status # "approved" /\ ~reg[b].deleted)
  <2>1. req[q].who = b /\ pc[q] = "importWrite" /\ Replacing(req[q]) /\ reg[b].present
        /\ ~req[q].row.deleted
    BY <1>7 DEF Reimported, Rewritten, ImportRestores
  <2>2. req[q].kind # "bulkStatus"
    BY <2>1 DEF Replacing
  <2> QED
    BY <1>2, <1>7, <2>1, <2>2, ImportSeat
<1> QED
  BY <1>1, <1>3, <1>4, <1>5, <1>6, <1>7, NewSeat

\* With the table and the event left alone, what is free stays free.
LEMMA SameRoom ==
  ASSUME UNCHANGED <<event, reg>>
  PROVE  /\ SeatsTaken' = SeatsTaken
         /\ \A n : Room(n)' <=> Room(n)
         /\ \A r : Unapproved(r)' = Unapproved(r)
  BY DEF SeatsTaken, Approved, Room, Unapproved, Rows

LEMMA FreeSlotChecked ==
  ASSUME NEW q, pc'[q] = "idle", req'[q].kind = "none", req'[q].more = 1
  PROVE  Checked(q)'
  BY DEF Checked, CapacityRead, CapacityKinds, SeatHeld, SeatsHeld, ImportCounts

LEMMA FinishChecked ==
  ASSUME TypeInv, NEW q \in Requests, Finish(q) PROVE Checked(q)'
<1>1. pc'[q] = "idle" /\ req'[q] = NoRequest
  BY DEF Finish, TypeInv, TypeOK
<1> QED
  BY <1>1, FreeSlotChecked DEF NoRequest

\* The rows a bulk status change is to approve, just after it read them.
LEMMA UnapprovedOf ==
  ASSUME UNCHANGED reg, NEW q, NEW as \in SUBSET Rows,
         req'[q].ids = { <<a, reg[a].id>> : a \in as }
  PROVE  Unapproved(req[q])' = { a \in as : reg[a].status # "approved" }
  BY DEF Unapproved, Rows

\* A request arrives at a free slot.
LEMMA ArrivalChecked ==
  ASSUME TypeInv, SlotsBusy, NEW q \in Requests, Checked(q), Arrives(q)
  PROVE  Checked(q)'
<1> USE DEF Checked, CapacityRead, CapacityKinds, SeatHeld, SeatsHeld, ImportCounts
<1>0. NoRequest \in Request /\ event.capacity \in Nat
  BY NoRequestFits, CapacityNat
<1>a. ASSUME NEW r, NEW c, Start(q, r, c) PROVE req'[q] = r /\ pc'[q] = c
  BY <1>a DEF Start, TypeInv, TypeOK
<1>b. NoRequest.more = 1
  BY DEF NoRequest
<1>1. CASE RegisterBegin(q)
  <2>1. PICK a, locks, want :
          Start(q, [NoRequest EXCEPT !.kind = "register", !.who = a, !.locks = locks,
                                     !.cap = event.capacity, !.want = want], "upsert")
    BY <1>1 DEF RegisterBegin
  <2> DEFINE r == [NoRequest EXCEPT !.kind = "register", !.who = a, !.locks = locks,
                                    !.cap = event.capacity, !.want = want]
  <2>2. r.kind = "register" /\ r.cap = event.capacity /\ r.more = 1
    BY <1>0, <1>b DEF Request
  <2>3. req'[q] = r /\ pc'[q] = "upsert"
    BY <1>a, <2>1
  <2> HIDE DEF r
  <2> QED
    BY <1>1, <2>2, <2>3 DEF RegisterBegin
<1>2. CASE CreateBegin(q)
  <2>1. PICK a, locks, want, c :
          /\ Start(q, [NoRequest EXCEPT !.kind = "create", !.who = a, !.locks = locks,
                                        !.cap = event.capacity, !.want = want], c)
          /\ c = IF event.capacity > 0 /\ want = "approved" THEN "count" ELSE "upsert"
    BY <1>2 DEF CreateBegin
  <2> DEFINE r == [NoRequest EXCEPT !.kind = "create", !.who = a, !.locks = locks,
                                    !.cap = event.capacity, !.want = want]
  <2>2. r.kind = "create" /\ r.cap = event.capacity /\ r.more = 1 /\ r.want = want
    BY <1>0, <1>b DEF Request
  <2>3. req'[q] = r /\ pc'[q] = c
    BY <1>a, <2>1
  <2>4. c = "upsert" /\ want = "approved" => event.capacity = 0
    BY <1>0, <2>1
  <2>5. UNCHANGED <<event, reg>>
    BY <1>2 DEF CreateBegin
  <2>6. c = "upsert" /\ want = "approved" => Room(1)'
    BY <2>4, <2>5 DEF Room
  <2> HIDE DEF r
  <2> QED
    BY <2>1, <2>2, <2>3, <2>5, <2>6
<1>3. CASE StatusBegin(q)
  <2>1. PICK a, want, row, c :
          /\ Start(q, [NoRequest EXCEPT !.kind = "status", !.who = a, !.want = want,
                                        !.row = row, !.cap = event.capacity], c)
          /\ c = IF want = "approved" /\ reg[a].status # "approved" /\ event.capacity > 0
                 THEN "count" ELSE "write"
    BY <1>3 DEF StatusBegin
  <2> DEFINE r == [NoRequest EXCEPT !.kind = "status", !.who = a, !.want = want,
                                    !.row = row, !.cap = event.capacity]
  <2>2. /\ r.kind = "status" /\ r.cap = event.capacity /\ r.more = 1 /\ r.want = want
        /\ r.who = a
    BY <1>0, <1>b DEF Request
  <2>3. req'[q] = r /\ pc'[q] = c
    BY <1>a, <2>1
  <2>4. c = "write" /\ want = "approved" => reg[a].status = "approved" \/ event.capacity = 0
    BY <1>0, <2>1
  <2>5. UNCHANGED <<event, reg>>
    BY <1>3 DEF StatusBegin
  <2>6. event.capacity = 0 => Room(1)'
    BY <2>5 DEF Room
  <2> HIDE DEF r
  <2> QED
    BY <2>1, <2>2, <2>3, <2>4, <2>5, <2>6
<1>4. CASE BulkStatusBegin(q)
  <2>1. PICK as, want, c :
          /\ as \in SUBSET Rows
          /\ Start(q, [NoRequest EXCEPT
                        !.kind = "bulkStatus", !.want = want,
                        !.more = Cardinality({ a \in as : reg[a].status # "approved" }),
                        !.ids = { <<a, reg[a].id>> : a \in as }], c)
          /\ c = IF want = "approved" /\ Cardinality({ a \in as : reg[a].status # "approved" }) > 0
                 THEN "bulkEvent" ELSE "write"
    BY <1>4 DEF BulkStatusBegin
  <2> DEFINE new == { a \in as : reg[a].status # "approved" }
             n == Cardinality(new)
             ids == { <<a, reg[a].id>> : a \in as }
             r == [NoRequest EXCEPT !.kind = "bulkStatus", !.want = want, !.more = n,
                                    !.ids = ids]
  <2>2. r.kind = "bulkStatus" /\ r.more = n /\ r.want = want /\ r.ids = ids
    BY <1>0 DEF Request
  <2>3. req'[q] = r /\ pc'[q] = c
    BY <1>a, <2>1
  <2>4. UNCHANGED <<event, reg>>
    BY <1>4 DEF BulkStatusBegin
  <2>6. n \in Nat
    <3>1. new \subseteq Attendees
      BY <2>1 DEF Rows
    <3> QED
      BY <3>1, FiniteAssumption, FS_Subset, FS_CardinalityType
  <2>7. want = "approved" /\ c = "write" => n = 0
    BY <2>1, <2>6
  <2>8. c \in { "bulkEvent", "write" }
    BY <2>1
  <2>9. Unapproved(req[q])' = new
    <3> HIDE DEF r
    <3>1. req'[q].ids = { <<a, reg[a].id>> : a \in as }
      BY <2>2, <2>3
    <3>2. as \in SUBSET Rows /\ UNCHANGED reg
      BY <2>1, <2>4
    <3>3. Unapproved(req[q])' = { a \in as : reg[a].status # "approved" }
      BY ONLY <3>1, <3>2, UnapprovedOf
    <3> QED
      BY <3>3
  <2> HIDE DEF r, ids, new
  <2> QED
    BY <2>2, <2>3, <2>6, <2>7, <2>8, <2>9
<1>5. CASE Remove(q) \/ BulkDelete(q) \/ UpdateEvent(q)
  <2>1. pc'[q] = "idle" /\ req'[q].kind = "none" /\ req'[q].more = 1
    BY <1>5 DEF Remove, BulkDelete, UpdateEvent, SlotsBusy
  <2> QED
    BY <2>1, FreeSlotChecked
<1>6. CASE RestoreBegin(q)
  <2>1. PICK a, row, c :
          /\ Start(q, [NoRequest EXCEPT !.kind = "restore", !.who = a, !.row = row,
                                        !.cap = event.capacity], c)
          /\ c = IF reg[a].status = "approved" /\ event.capacity > 0 THEN "count" ELSE "write"
    BY <1>6 DEF RestoreBegin
  <2> DEFINE r == [NoRequest EXCEPT !.kind = "restore", !.who = a, !.row = row,
                                    !.cap = event.capacity]
  <2>2. r.kind = "restore" /\ r.cap = event.capacity /\ r.more = 1 /\ r.who = a
    BY <1>0, <1>b DEF Request
  <2>3. req'[q] = r /\ pc'[q] = c
    BY <1>a, <2>1
  <2>4. c = "write" /\ reg[a].status = "approved" => event.capacity = 0
    BY <1>0, <2>1
  <2>5. UNCHANGED <<event, reg>>
    BY <1>6 DEF RestoreBegin
  <2>6. event.capacity = 0 => Room(1)'
    BY <2>5 DEF Room
  <2> HIDE DEF r
  <2> QED
    BY <2>1, <2>2, <2>3, <2>4, <2>5, <2>6
<1>7. CASE PurgeBegin(q)
  <2>1. PICK a, row :
          Start(q, [NoRequest EXCEPT !.kind = "purge", !.who = a, !.row = row], "write")
    BY <1>7 DEF PurgeBegin
  <2> DEFINE r == [NoRequest EXCEPT !.kind = "purge", !.who = a, !.row = row]
  <2>2. r.kind = "purge" /\ r.more = 1
    BY <1>0, <1>b DEF Request
  <2>3. req'[q] = r /\ pc'[q] = "write"
    BY <1>a, <2>1
  <2> HIDE DEF r
  <2> QED
    BY <2>2, <2>3
<1>8. CASE ImportBegin(q)
  <2>1. PICK kind \in ImportKinds :
          Start(q, [NoRequest EXCEPT !.kind = kind, !.cap = event.capacity,
                                     !.left = ImportRows], "importCount")
    BY <1>8 DEF ImportBegin, ImportKinds
  <2> DEFINE r == [NoRequest EXCEPT !.kind = kind, !.cap = event.capacity,
                                    !.left = ImportRows]
  <2>2. r.kind = kind /\ r.cap = event.capacity /\ r.more = 1
    BY <1>b DEF NoRequest
  <2>3. req'[q] = r /\ pc'[q] = "importCount" /\ UNCHANGED event
    BY <1>8, <1>a, <2>1 DEF ImportBegin
  <2> HIDE DEF r
  <2> QED
    BY <2>1, <2>2, <2>3 DEF ImportKinds
<1> QED
  BY <1>1, <1>2, <1>3, <1>4, <1>5, <1>6, <1>7, <1>8 DEF Arrives

\* A request makes its next call, without writing.
LEMMA QuietStepChecked ==
  ASSUME TypeInv, SlotsBusy, NEW q \in Requests, Checked(q),
         \/ UpsertAttendee(q) \/ FindExisting(q) \/ CountSeats(q) \/ BulkReadEvent(q)
         \/ ImportCount(q) \/ ImportRow(q) \/ ImportUpsert(q) \/ ImportFind(q)
         \/ ImportRowFails(q)
  PROVE  Checked(q)'
<1> USE DEF Checked, CapacityRead, CapacityKinds, SeatHeld, SeatsHeld, ImportCounts
<1>0. /\ req[q] \in Request /\ event.capacity \in Nat /\ SeatsTaken \in Nat
      /\ SlotFits(pc[q], req[q])
      /\ req[q].taken \in Nat /\ req[q].more \in Nat
      /\ DOMAIN pc = Requests /\ DOMAIN req = Requests
  BY CapacityNat, SeatsTakenNat DEF TypeInv, TypeOK, SlotsFit, Request
<1>1. UNCHANGED <<event, reg>>
  BY DEF UpsertAttendee, FindExisting, CountSeats, BulkReadEvent, ImportCount, ImportRow,
         ImportUpsert, ImportFind, ImportRowFails
<1>2. /\ SeatsTaken' = SeatsTaken
      /\ \A n : Room(n)' <=> Room(n)
      /\ \A r : Unapproved(r)' = Unapproved(r)
      /\ event.capacity = 0 => \A n : Room(n)
  BY <1>1, SameRoom DEF Room
<1>3. CASE UpsertAttendee(q)
  <2>1. pc[q] = "upsert" /\ pc'[q] = "find" /\ req' = req
    BY <1>0, <1>3 DEF UpsertAttendee, Goto
  <2>2. req[q].kind \in { "create", "register" }
    BY <1>0, <2>1 DEF SlotFits
  <2> QED
    BY <1>1, <1>2, <2>1, <2>2
<1>4. CASE FindExisting(q)
  <2>1. CASE Finish(q)
    BY <2>1, FinishChecked
  <2>2. CASE ~Finish(q)
    <3>1. /\ req'[q] = [req[q] EXCEPT !.row.present = reg[req[q].who].present]
          /\ pc[q] = "find"
          /\ pc'[q] = IF req[q].kind = "register" /\ req[q].cap > 0 /\ req[q].want = "approved"
                      THEN "count" ELSE "insert"
      BY <1>0, <1>4, <2>2 DEF FindExisting
    <3>2. /\ req'[q].kind = req[q].kind /\ req'[q].want = req[q].want
          /\ req'[q].cap = req[q].cap /\ req'[q].more = req[q].more
      BY <1>0, <3>1 DEF Request
    <3>3. req[q].kind \in { "create", "register" }
      BY <1>0, <3>1 DEF SlotFits
    <3> QED
      BY <1>0, <1>1, <1>2, <3>1, <3>2, <3>3
  <2> QED
    BY <2>1, <2>2
<1>5. CASE CountSeats(q)
  <2>1. CASE Finish(q)
    BY <2>1, FinishChecked
  <2>2. CASE ~Finish(q)
    <3>1. /\ pc[q] = "count" /\ req' = req /\ pc'[q] = CallAfterCount(req[q].kind)
          /\ ~(SeatsTaken + req[q].more > req[q].cap)
      BY <1>0, <1>5, <2>2 DEF CountSeats, Goto, Full
    <3>2. req[q].kind \in SeatKinds
      BY <1>0, <3>1 DEF SlotFits
    <3>3. Room(req[q].more)
      BY <1>0, <3>1, <3>2 DEF Room, SeatKinds
    <3>4. /\ pc'[q] \in { "upsert", "insert", "write" }
          /\ pc'[q] \in { "upsert", "insert" } => req[q].kind \in { "create", "register" }
      BY <3>1 DEF CallAfterCount
    <3>5. Unapproved(req[q])' = Unapproved(req[q])
      BY <1>1, <3>1 DEF Unapproved, Rows
    <3>6. CapacityRead(q)'
      BY <1>1, <3>1, <3>2, <3>4 DEF SeatKinds
    <3>7. SeatHeld(q)'
      <4>1. req[q].kind # "bulkStatus" => Room(1)'
        <5>1. req[q].kind # "bulkStatus" => req[q].more = 1
          OBVIOUS
        <5>2. SeatsTaken' = SeatsTaken /\ event' = event
          BY <1>1, <1>2
        <5> QED
          BY <3>3, <5>1, <5>2 DEF Room
      <4> QED
        BY <3>1, <3>2, <3>4, <4>1
    <3>8. SeatsHeld(q)'
      <4>1. Room(req[q].more)'
        BY <1>0, <1>1, <1>2, <3>1, <3>3 DEF Room
      <4>2. req[q].kind = "bulkStatus" => Cardinality(Unapproved(req[q])) <= req[q].more
        OBVIOUS
      <4>3. Cardinality(Unapproved(req[q]))' = Cardinality(Unapproved(req[q]))
        BY <3>5
      <4> QED
        BY <3>1, <4>1, <4>2, <4>3
    <3>9. ImportCounts(q)'
      BY <3>4
    <3> QED
      BY <3>6, <3>7, <3>8, <3>9
  <2> QED
    BY <2>1, <2>2
<1>6. CASE BulkReadEvent(q)
  <2>1. /\ pc[q] = "bulkEvent" /\ req'[q] = [req[q] EXCEPT !.cap = event.capacity]
        /\ pc'[q] = IF event.capacity > 0 THEN "count" ELSE "write"
    BY <1>0, <1>6 DEF BulkReadEvent
  <2>2. /\ req'[q].kind = req[q].kind /\ req'[q].want = req[q].want
        /\ req'[q].cap = event.capacity /\ req'[q].more = req[q].more
        /\ req'[q].ids = req[q].ids
    BY <1>0, <2>1 DEF Request
  <2>3. req[q].kind = "bulkStatus"
    BY <1>0, <2>1 DEF SlotFits
  <2>4. Unapproved(req[q])' = Unapproved(req[q])
    BY <1>1, <2>2 DEF Unapproved, Rows
  <2> QED
    BY <1>0, <1>1, <1>2, <2>1, <2>2, <2>3, <2>4
<1>7. CASE ImportCount(q)
  <2>1. /\ pc[q] = "importCount" /\ req'[q] = [req[q] EXCEPT !.taken = SeatsTaken]
        /\ pc'[q] = "importRow"
    BY <1>0, <1>7 DEF ImportCount
  <2>2. /\ req'[q].kind = req[q].kind /\ req'[q].cap = req[q].cap /\ req'[q].more = req[q].more
        /\ req'[q].taken = SeatsTaken
    BY <1>0, <2>1 DEF Request
  <2>3. req[q].kind \in ImportKinds
    BY <1>0, <2>1 DEF SlotFits
  <2> QED
    BY <1>0, <1>1, <1>2, <2>1, <2>2, <2>3 DEF ImportKinds
<1>8. CASE ImportRow(q)
  <2>1. PICK a \in Attendees, locks \in BOOLEAN, want \in Wanted :
          req' = [req EXCEPT ![q].who = a, ![q].locks = locks, ![q].want = want,
                             ![q].left = @ - 1]
    BY <1>8, KindsAssumption DEF ImportRow
  <2>2. /\ req'[q].kind = req[q].kind /\ req'[q].cap = req[q].cap /\ req'[q].more = req[q].more
        /\ req'[q].taken = req[q].taken
    BY <1>0, <2>1 DEF Request
  <2>3. pc[q] = "importRow" /\ pc'[q] = "importUpsert" /\ req[q].kind \in ImportKinds
    BY <1>0, <1>8 DEF ImportRow, SlotFits
  <2> QED
    BY <1>0, <1>1, <1>2, <2>2, <2>3 DEF ImportKinds
<1>9. CASE ImportFind(q)
  <2>1. pc[q] = "importFind" /\ req[q].kind \in ImportKinds
    BY <1>0, <1>9 DEF ImportFind, SlotFits
  <2>2. CASE ImportSkips(req[q], reg[req[q].who])
    <3>1. req'[q] = NextRow(q) /\ pc'[q] = "importRow"
      BY <1>0, <1>9, <2>2 DEF ImportFind
    <3>2. /\ req'[q].kind = req[q].kind /\ req'[q].cap = req[q].cap
          /\ req'[q].more = req[q].more /\ req'[q].taken = req[q].taken
      BY <1>0, <3>1 DEF NextRow, Request
    <3> QED
      BY <1>0, <1>1, <1>2, <2>1, <3>1, <3>2 DEF ImportKinds
  <2>3. CASE ~ImportSkips(req[q], reg[req[q].who])
    <3>1. req'[q] = [req[q] EXCEPT !.row = reg[req[q].who]] /\ pc'[q] = "importWrite"
      BY <1>0, <1>9, <2>3 DEF ImportFind
    <3>2. /\ req'[q].kind = req[q].kind /\ req'[q].cap = req[q].cap
          /\ req'[q].more = req[q].more /\ req'[q].taken = req[q].taken
          /\ req'[q].who = req[q].who /\ req'[q].want = req[q].want
          /\ req'[q].row = reg[req[q].who]
      BY <1>0, <3>1 DEF Request
    <3>3. ~ImportSkips(req'[q], reg[req[q].who])
      BY <2>3, <3>2 DEF ImportSkips, ImportFull, AddsApproved, Promotes, Replacing
    <3> QED
      BY <1>0, <1>1, <1>2, <2>1, <3>1, <3>2, <3>3 DEF ImportKinds
  <2> QED
    BY <2>2, <2>3
<1>10. CASE ImportRowFails(q)
  <2>1. /\ pc[q] \in { "importRow", "importUpsert", "importFind", "importWrite" }
        /\ pc'[q] = "importRow"
        /\ req'[q] = [req[q] EXCEPT !.left = @ - 1] \/ req'[q] = NextRow(q)
    BY <1>0, <1>10 DEF ImportRowFails
  <2>2. /\ req'[q].kind = req[q].kind /\ req'[q].cap = req[q].cap
        /\ req'[q].more = req[q].more /\ req'[q].taken = req[q].taken
    BY <1>0, <2>1 DEF NextRow, Request
  <2>3. req[q].kind \in ImportKinds
    BY <1>0, <2>1 DEF SlotFits
  <2> QED
    BY <1>0, <1>1, <1>2, <2>1, <2>2, <2>3 DEF ImportKinds
<1>11. CASE ImportUpsert(q)
  <2>1. pc[q] = "importUpsert" /\ pc'[q] = "importFind" /\ req' = req
    BY <1>0, <1>11 DEF ImportUpsert, Goto
  <2>2. req[q].kind \in ImportKinds
    BY <1>0, <2>1 DEF SlotFits
  <2> QED
    BY <1>0, <1>1, <1>2, <2>1, <2>2 DEF ImportKinds
<1> QED
  BY <1>3, <1>4, <1>5, <1>6, <1>7, <1>8, <1>9, <1>10, <1>11

\* The counter keeps up with the seats that the import fills.
LEMMA ImportWriteChecked ==
  ASSUME TypeInv, SlotsBusy, NEW q \in Requests, Checked(q), ImportWrite(q)
  PROVE  Checked(q)'
<1>0. /\ req[q] \in Request /\ event.capacity \in Nat /\ SeatsTaken \in Nat
      /\ SlotFits(pc[q], req[q])
      /\ req[q].taken \in Nat
      /\ DOMAIN pc = Requests /\ DOMAIN req = Requests
  BY CapacityNat, SeatsTakenNat DEF TypeInv, TypeOK, SlotsFit, Request
<1>1. /\ pc[q] = "importWrite" /\ pc'[q] = "importRow" /\ UNCHANGED event
      /\ req[q].kind \in ImportKinds
  BY <1>0 DEF ImportWrite, SlotFits
<1>2. PICK n \in { req[q].taken, req[q].taken + 1 } :
        /\ req'[q] = [NextRow(q) EXCEPT !.taken = n]
        /\ Counts(req[q]) /\ reg' # reg => n = req[q].taken + 1
  <2>1. NextRow(q).taken = req[q].taken
    BY <1>0 DEF NextRow, Request
  <2> QED
    BY <1>0, <2>1 DEF ImportWrite, Counts
<1>3. /\ req'[q].kind = req[q].kind /\ req'[q].cap = req[q].cap /\ req'[q].more = req[q].more
      /\ req'[q].taken = n
  BY <1>0, <1>2 DEF NextRow, Request
<1>4. event.capacity # 0 => SeatsTaken <= req[q].taken
  BY <1>1 DEF Checked, ImportCounts
<1>5. event.capacity # 0 => SeatsTaken' <= n
  <2>1. CASE Approved' \subseteq Approved
    <3>1. SeatsTaken' <= SeatsTaken /\ SeatsTaken' \in Nat
      BY <2>1, SeatsStay
    <3> QED
      BY <1>0, <1>2, <1>4, <3>1
  <2>2. CASE event.capacity # 0 /\ ~(Approved' \subseteq Approved)
    <3>1. PICK b \in Approved' : b \notin Approved
      BY <2>2
    <3>2. /\ pc[q] = "importWrite" /\ req[q].who = b /\ req[q].want = "approved"
          /\ \/ ~reg[b].present
             \/ /\ Replacing(req[q]) /\ reg[b].present
                /\ req[q].row.deleted \/ (reg[b].status # "approved" /\ ~reg[b].deleted)
      BY <1>1, <3>1, NewSeat DEF Made, Restored, StatusSet, BulkSet, Reimported, Rewritten, Step,
                                 Proceeds
    <3>3. Counts(req[q])
      BY <2>2, <3>2, ImportSeat
    <3>4. reg' # reg
      BY <3>1 DEF Approved
    <3>5. SeatsTaken' <= SeatsTaken + 1 /\ SeatsTaken' \in Nat
      <4>1. Approved' \subseteq Approved \cup { req[q].who }
        BY <1>1, NewSeatOwner DEF ImportKinds, Step, Proceeds
      <4> QED
        BY <4>1, SeatsGrow, FS_Singleton
    <3> QED
      BY <1>0, <1>2, <1>4, <2>2, <3>3, <3>4, <3>5
  <2> QED
    BY <2>1, <2>2
<1> QED
  BY <1>1, <1>3, <1>5 DEF Checked, CapacityRead, CapacityKinds, SeatHeld, SeatsHeld, ImportCounts,
                          ImportKinds

LEMMA CheckedStep ==
  ASSUME TypeInv, SlotsBusy, NEW q \in Requests, Checked(q), Step(q)
  PROVE  Checked(q)'
<1>1. Insert(q) \/ StatusWrite(q) \/ BulkStatusWrite(q) \/ RestoreWrite(q) \/ PurgeWrite(q)
        \/ ImportEnd(q) \/ Abort(q) => Finish(q)
  BY DEF Insert, StatusWrite, BulkStatusWrite, RestoreWrite, PurgeWrite, ImportEnd, Abort
<1> QED
  BY <1>1, ArrivalChecked, FinishChecked, QuietStepChecked, ImportWriteChecked
     DEF Step, Proceeds

SoloInv == Solo => \A q \in Requests : Checked(q)

LEMMA SoloInvariance == Spec => []SoloInv
<1>1. Init => SoloInv
  BY DEF Init, SoloInv, Checked, CapacityRead, CapacityKinds, SeatHeld, SeatsHeld, ImportCounts,
         NoRequest
<1>2. ASSUME TypeInv, SlotsBusy, SoloInv, [Next]_vars PROVE SoloInv'
  <2> SUFFICES ASSUME Solo, NEW p \in Requests PROVE Checked(p)'
    BY DEF SoloInv, Solo
  <2>1. Checked(p)
    BY <1>2 DEF SoloInv
  <2>2. ASSUME NEW q \in Requests, Step(q) PROVE Checked(p)'
    <3>1. p = q
      BY DEF Solo
    <3> QED
      BY <1>2, <2>1, <2>2, <3>1, CheckedStep
  <2>3. CASE UNCHANGED vars
    BY <2>1, <2>3 DEF vars, Checked, CapacityRead, SeatHeld, SeatsHeld, ImportCounts, Room,
                      SeatsTaken, Approved, Unapproved, Rows
  <2> QED
    BY <1>2, <2>2, <2>3 DEF Next, Step
<1> QED
  BY <1>1, <1>2, TypeInvariance, BusyInvariance, PTL DEF Spec

\* A request that has the event to itself never takes the approved
\* registrations above the capacity in force, whichever handler it runs and
\* however many rows it approves, except by restoring a row through an import.
THEOREM AdmissionsFit ==
  Solo => (Spec => CheckedAdmissionWithinCapacity)
<1> DEFINE Act == WithinCapacity \/ \E q \in Requests : ImportRestores(q)
<1>1. CASE Solo
  <2>1. TypeInv /\ SlotsBusy /\ SoloInv /\ [Next]_vars => [Act]_vars
    BY <1>1, SeatFree DEF Next, Step, SoloInv
  <2> HIDE DEF Act
  <2>2. Spec => [][Act]_vars
    BY <2>1, TypeInvariance, BusyInvariance, SoloInvariance, PTL DEF Spec
  <2> QED
    BY <2>2 DEF CheckedAdmissionWithinCapacity, Act
<1> QED
  BY <1>1

---------------------------------------------------------------------------
\* Registering as admission.  The mapping hides rows and calls: what remains of a
\* slot is whether it serves somebody, the capacity it noted and its claim.

\* Who is counted for is to be approved.
CountedFor ==
    \A q \in Requests : pc[q] = "count" /\ q \in Serving => req[q].want = "approved"

LEMMA CountedForStep ==
  ASSUME TypeInv, OneSeatEach, CountedFor, NEW q \in Requests, Step(q)
  PROVE  CountedFor'
<1> SUFFICES ASSUME NEW p \in Requests, pc'[p] = "count",
                    req'[p].kind \in { "register", "create", "status" }
             PROVE  req'[p].want = "approved"
  BY DEF CountedFor, Serving
<1>1. CASE p # q
  BY <1>1, OtherSlots DEF CountedFor, Serving
<1>2. CASE p = q
  <2>0. req[q] \in Request /\ pc[q] \in Calls /\ NoRequest \in Request
    BY NoRequestFits DEF TypeInv, TypeOK
  <2>1. CASE CreateBegin(q)
    <3>1. PICK a \in Attendees, locks \in BOOLEAN, want \in Statuses :
            Start(q, [NoRequest EXCEPT !.kind = "create", !.who = a, !.locks = locks,
                                       !.cap = event.capacity, !.want = want],
                  IF event.capacity > 0 /\ want = "approved" THEN "count" ELSE "upsert")
      BY <2>1, KindsAssumption DEF CreateBegin, Statuses
    <3> QED
      BY <1>2, <2>0, <3>1 DEF Start, Request, TypeInv, TypeOK
  <2>2. CASE StatusBegin(q)
    <3>1. PICK a \in Rows, want \in Statuses :
            Start(q, [NoRequest EXCEPT !.kind = "status", !.who = a, !.want = want,
                                       !.row = [Key(a) EXCEPT !.confirmed = reg[a].confirmed],
                                       !.cap = event.capacity],
                  IF want = "approved" /\ reg[a].status # "approved" /\ event.capacity > 0
                  THEN "count" ELSE "write")
      BY <2>2 DEF StatusBegin
    <3> QED
      BY <1>2, <2>0, <3>1 DEF Start, Request, TypeInv, TypeOK
  <2>3. CASE FindExisting(q) /\ ~Finish(q)
    BY <1>2, <2>0, <2>3 DEF FindExisting, Request, TypeInv, TypeOK
  <2>4. CASE UNCHANGED <<pc, req>>
    BY <1>2, <2>4 DEF CountedFor, Serving
  <2>5. CASE pc'[q] # "count"
    BY <1>2, <2>5
  <2>6. Finish(q) \/ RegisterBegin(q) \/ PurgeBegin(q) \/ UpsertAttendee(q)
          \/ (CountSeats(q) /\ ~Finish(q)) => pc'[q] # "count"
    BY DEF Finish, RegisterBegin, PurgeBegin, UpsertAttendee, CountSeats, CallAfterCount,
           Start, Goto, TypeInv, TypeOK
  <2>7. Insert(q) \/ StatusWrite(q) \/ PurgeWrite(q) \/ Abort(q) => Finish(q)
    BY DEF Insert, StatusWrite, PurgeWrite, Abort
  <2>8. Remove(q) \/ BulkDelete(q) \/ UpdateEvent(q) => UNCHANGED <<pc, req>>
    BY DEF Remove, BulkDelete, UpdateEvent
  <2> QED
    BY <2>1, <2>2, <2>3, <2>4, <2>5, <2>6, <2>7, <2>8, OneSeatActions
<1> QED
  BY <1>1, <1>2

LEMMA CountedForInvariance == ASSUME OneSeatEach PROVE Spec => []CountedFor
<1>1. Init => CountedFor
  BY DEF Init, CountedFor
<1>2. TypeInv /\ CountedFor /\ [Next]_vars => CountedFor'
  <2>1. TypeInv /\ CountedFor /\ Next => CountedFor'
    BY CountedForStep DEF Next, Step
  <2>2. CountedFor /\ UNCHANGED vars => CountedFor'
    BY DEF CountedFor, Serving, vars
  <2> QED
    BY <2>1, <2>2
<1> QED
  BY <1>1, <1>2, TypeInvariance, PTL DEF Spec

\* What a slot has promised, before and after a step.
LEMMA PromisedTo ==
  ASSUME NEW p \in Requests
  PROVE  /\ Promised[p] = IF Claims(p, req[p].who) THEN req[p].who ELSE Nobody
         /\ \A a : req'[p].who = a => Promised'[p] = IF Claims(p, a)' THEN a ELSE Nobody
<1>1. Promised[p] = IF Claims(p, req[p].who) THEN req[p].who ELSE Nobody
  BY DEF Promised
<1>2. ASSUME NEW a, req'[p].who = a
      PROVE  Promised'[p] = IF Claims(p, a)' THEN a ELSE Nobody
  BY <1>2 DEF Promised, Claims
<1> QED
  BY <1>1, <1>2

LEMMA ClaimIsServed ==
  ASSUME OneSeatSlots, NEW p \in Requests, NEW a, Claims(p, a)
  PROVE  p \in Serving /\ a \in Attendees /\ req[p].who = a
  BY DEF OneSeatSlots, Claims, Serving

LEMMA OthersServed ==
  ASSUME TypeInv, NEW q \in Requests, Step(q), NEW p \in Requests \ {q}
  PROVE  (p \in Serving' <=> p \in Serving) /\ Limit'[p] = Limit[p]
  BY OtherSlots DEF Serving, Limit

LEMMA OthersLapse ==
  ASSUME TypeInv, OneSeatEach, OneSeatSlots, OneSeatSlots', NEW q \in Requests, Step(q),
         NEW p \in Requests \ {q}
  PROVE  Promised'[p] \in { Promised[p], Nobody }
<1>1. req'[p] = req[p]
  BY OtherSlots
<1>0. PICK a : a = req[p].who
  OBVIOUS
<1>2. Promised'[p] = IF Claims(p, a)' THEN a ELSE Nobody
  BY <1>0, <1>1, PromisedTo
<1>3. Claims(p, a)' => a \in Attendees
  BY <1>0, <1>1 DEF OneSeatSlots, Claims
<1> QED
  BY <1>0, <1>2, <1>3, PromisedTo, OtherClaims

\* Live rows stay what they are.
LiveStay ==
    \A a \in Attendees : reg[a].present /\ ~reg[a].deleted =>
        reg'[a].present /\ ~reg'[a].deleted /\ reg'[a].id = reg[a].id

LEMMA OthersKeep ==
  ASSUME TypeInv, OneSeatEach, OneSeatSlots, OneSeatSlots', NEW q \in Requests, Step(q),
         NEW p \in Requests \ {q}, LiveStay
  PROVE  Promised'[p] = Promised[p]
<1>1. pc'[p] = pc[p] /\ req'[p] = req[p]
  BY OtherSlots
<1>2. ASSUME NEW a \in Attendees, Claims(p, a) PROVE Claims(p, a)'
  BY <1>1, <1>2 DEF Claims, LiveStay
<1>0. PICK a : a = req[p].who
  OBVIOUS
<1>3. Promised'[p] = IF Claims(p, a)' THEN a ELSE Nobody
  BY <1>0, <1>1, PromisedTo
<1>4. Claims(p, a) => a \in Attendees
  BY <1>0, ClaimIsServed
<1>5. Claims(p, a)' => a \in Attendees
  BY <1>0, <1>1 DEF OneSeatSlots, Claims
<1> QED
  BY <1>0, <1>2, <1>3, <1>4, <1>5, PromisedTo, OtherClaims

\* The actions of Admission, from what a step does to its own slot.
LEMMA ServedFunctions ==
  ASSUME TypeInv, NEW q \in Requests, Step(q)
  PROVE  /\ Limit' = [Limit EXCEPT ![q] = Limit'[q]]
         /\ q \in Serving' => Serving' = Serving \cup {q}
         /\ q \notin Serving' => Serving' = Serving \ {q}
<1>1. \A p \in Requests \ {q} : (p \in Serving' <=> p \in Serving) /\ Limit'[p] = Limit[p]
  BY OthersServed
<1>2. Serving \subseteq Requests /\ Serving' \subseteq Requests
  BY DEF Serving
<1>3. Limit = [p \in Requests |-> Limit[p]] /\ Limit' = [p \in Requests |-> Limit'[p]]
  BY DEF Limit
<1> QED
  BY <1>1, <1>2, <1>3

LEMMA PromisedFunctions ==
  ASSUME TypeInv, OneSeatEach, OneSeatSlots, OneSeatSlots', NEW q \in Requests, Step(q),
         LiveStay
  PROVE  Promised' = [Promised EXCEPT ![q] = Promised'[q]]
<1>1. \A p \in Requests \ {q} : Promised'[p] = Promised[p]
  BY OthersKeep
<1>2. Promised = [p \in Requests |-> Promised[p]] /\ Promised' = [p \in Requests |-> Promised'[p]]
  BY DEF Promised
<1> QED
  BY <1>1, <1>2

LEMMA PromisedPeople ==
  ASSUME OneSeatSlots, OneSeatSlots', NEW q \in Requests
  PROVE  /\ Promised[q] \in Attendees \cup {Nobody}
         /\ Promised'[q] \in Attendees \cup {Nobody}
  BY DEF Promised, Claims, OneSeatSlots

LEMMA LiveRowsStay == ASSUME UNCHANGED reg PROVE LiveStay /\ Approved' = Approved
  BY DEF LiveStay, Approved

LEMMA QuietStep ==
  ASSUME TypeInv, OneSeatEach, OneSeatSlots, OneSeatSlots', NEW q \in Requests, Step(q),
         UNCHANGED <<event, reg>>,
         q \in Serving' <=> q \in Serving, Limit'[q] = Limit[q], Promised'[q] = Promised[q]
  PROVE  UNCHANGED Office!vars
<1>1. Limit' = Limit /\ Serving' = Serving
  <2>1. Limit = [p \in Requests |-> Limit[p]]
    BY DEF Limit
  <2> QED
    BY <2>1, ServedFunctions DEF Serving
<1>2. Promised' = Promised
  <2>1. Promised = [p \in Requests |-> Promised[p]]
    BY DEF Promised
  <2> QED
    BY <2>1, LiveRowsStay, PromisedFunctions
<1> QED
  BY <1>1, <1>2, LiveRowsStay DEF Office!vars

LEMMA OpenStep ==
  ASSUME TypeInv, OneSeatEach, OneSeatSlots, OneSeatSlots', NEW q \in Requests, Step(q),
         UNCHANGED <<event, reg>>,
         q \notin Serving, q \in Serving', req'[q].cap = event.capacity,
         Promised'[q] \in Approved \cup {Nobody} \/ event.capacity = 0
  PROVE  Office!Open(q)
<1>1. Limit'[q] = event.capacity
  BY DEF Limit
<1>2. Limit' = [Limit EXCEPT ![q] = event.capacity] /\ Serving' = Serving \cup {q}
  BY <1>1, ServedFunctions
<1>3. Promised' = [Promised EXCEPT ![q] = Promised'[q]] /\ Approved' = Approved
  BY LiveRowsStay, PromisedFunctions
<1> QED
  BY <1>2, <1>3, PromisedPeople DEF Office!Open

\* Admission counts as this module does.
LEMMA SameCount == \A S : Office!Cardinality(S) = Cardinality(S)
  BY DEF Office!Cardinality, Cardinality

LEMMA PromiseStep ==
  ASSUME TypeInv, OneSeatEach, OneSeatSlots, OneSeatSlots', NEW q \in Requests, Step(q),
         UNCHANGED <<event, reg>>,
         q \in Serving, q \in Serving', req'[q].cap = req[q].cap,
         req[q].cap = 0 \/ SeatsTaken < req[q].cap,
         Promised[q] = Nobody, Promised'[q] \in Attendees
  PROVE  Office!Promise(q)
<1>1. Limit'[q] = req[q].cap /\ Limit[q] = req[q].cap
  BY DEF Limit
<1>2. Limit = [p \in Requests |-> Limit[p]]
  BY DEF Limit
<1>3. Limit' = Limit /\ Serving' = Serving
  BY <1>1, <1>2, ServedFunctions
<1>4. Promised' = [Promised EXCEPT ![q] = Promised'[q]] /\ Approved' = Approved
  BY LiveRowsStay, PromisedFunctions
<1> QED
  BY <1>1, <1>3, <1>4, SameCount DEF Office!Promise, SeatsTaken

LEMMA FinishCloses ==
  ASSUME TypeInv, NEW q \in Requests, Finish(q)
  PROVE  q \notin Serving' /\ Limit'[q] = 0 /\ Promised'[q] = Nobody
<1>1. pc'[q] = "idle" /\ req'[q] = NoRequest
  BY DEF Finish, TypeInv, TypeOK
<1>2. NoRequest.kind = "none"
  BY DEF NoRequest
<1> QED
  BY <1>1, <1>2 DEF Serving, Limit, Promised, Claims

LEMMA AdmitStep ==
  ASSUME TypeInv, OneSeatEach, OneSeatSlots, OneSeatSlots', NEW q \in Requests, Step(q),
         Finish(q), UNCHANGED event, LiveStay,
         NEW a \in Attendees, Claims(q, a), Approved' = Approved \cup {a}
  PROVE  Office!Admit(q)
<1>1. Promised[q] = a /\ a # Nobody
  BY NobodyAssumption, PromisedTo, ClaimIsServed
<1>2. Limit' = [Limit EXCEPT ![q] = 0] /\ Serving' = Serving \ {q}
  BY FinishCloses, ServedFunctions
<1>3. Promised' = [Promised EXCEPT ![q] = Nobody]
  BY FinishCloses, PromisedFunctions
<1> QED
  BY <1>1, <1>2, <1>3 DEF Office!Admit

LEMMA SettleStep ==
  ASSUME TypeInv, OneSeatEach, OneSeatSlots, OneSeatSlots', NEW q \in Requests, Step(q),
         UNCHANGED event, Approved' \subseteq Approved,
         Finish(q) \/ (pc[q] = "idle" /\ UNCHANGED <<pc, req>>)
  PROVE  Office!Settle
<1> DEFINE lost == Approved \ Approved'
           closed == Serving \ Serving'
           lapsed == { p \in Requests : Promised'[p] = Nobody }
<1>1. /\ q \in Serving' => q \in Serving
      /\ Limit'[q] = IF q \in closed THEN 0 ELSE Limit[q]
      /\ Promised'[q] = Nobody
  <2>1. CASE Finish(q)
    BY <2>1, FinishCloses DEF Limit
  <2>2. CASE pc[q] = "idle" /\ UNCHANGED <<pc, req>>
    BY <2>2 DEF Limit, Serving, Promised, Claims
  <2> QED
    BY <2>1, <2>2
<1>2. \A p \in Requests \ {q} :
        /\ p \in Serving' <=> p \in Serving
        /\ Limit'[p] = Limit[p]
        /\ Promised'[p] \in { Promised[p], Nobody }
  BY OthersServed, OthersLapse
<1>3. Serving \subseteq Requests /\ Serving' \subseteq Requests
  BY DEF Serving
<1>4. closed \subseteq lapsed
  BY <1>1, <1>2, <1>3
<1>5. Approved' = Approved \ lost /\ Serving' = Serving \ closed
  BY <1>1, <1>2, <1>3
<1>6. Limit' = [p \in Requests |-> IF p \in closed THEN 0 ELSE Limit[p]]
  <2>1. Limit' = [p \in Requests |-> Limit'[p]]
    BY DEF Limit
  <2> QED
    BY <1>1, <1>2, <2>1
<1>7. Promised' = [p \in Requests |-> IF p \in lapsed THEN Nobody ELSE Promised[p]]
  <2>1. Promised' = [p \in Requests |-> Promised'[p]]
    BY DEF Promised
  <2> QED
    BY <1>1, <1>2, <2>1
<1>8. lost \in SUBSET Approved /\ closed \in SUBSET Serving /\ lapsed \in SUBSET Requests
  OBVIOUS
<1> HIDE DEF lost, closed, lapsed
<1> QED
  BY <1>4, <1>5, <1>6, <1>7, <1>8 DEF Office!Settle

LEMMA ArrivalAdmits ==
  ASSUME TypeInv, SlotsBusy, OneSeatEach, OneSeatSlots, OneSeatSlots',
         NEW q \in Requests, Step(q),
         RegisterBegin(q) \/ CreateBegin(q) \/ StatusBegin(q)
  PROVE  Office!Open(q)
<1>0. /\ req[q] \in Request /\ NoRequest \in Request /\ event.capacity \in Nat
      /\ pc[q] = "idle" /\ UNCHANGED <<event, reg>>
  BY NoRequestFits, PositiveCapacity
     DEF TypeInv, TypeOK, Event, RegisterBegin, CreateBegin, StatusBegin, Start
<1>1. q \notin Serving
  BY <1>0 DEF SlotsBusy, Serving
<1>2. CASE RegisterBegin(q)
  <2>1. /\ req'[q].kind = "register" /\ req'[q].cap = event.capacity
        /\ pc'[q] = "upsert"
    <3>1. PICK a \in Attendees, locks \in BOOLEAN, want \in Statuses :
            Start(q, [NoRequest EXCEPT !.kind = "register", !.who = a, !.locks = locks,
                                       !.cap = event.capacity, !.want = want], "upsert")
      BY <1>2, KindsAssumption DEF RegisterBegin, Statuses
    <3> QED
      BY <1>0, <3>1 DEF Start, Request, TypeInv, TypeOK
  <2>2. q \in Serving' /\ Promised'[q] = Nobody
    BY <2>1 DEF Serving, Promised, Claims
  <2> QED
    BY <1>0, <1>1, <2>1, <2>2, OpenStep
<1>3. CASE CreateBegin(q)
  <2>1. PICK a \in Attendees, locks \in BOOLEAN, want \in Statuses :
          Start(q, [NoRequest EXCEPT !.kind = "create", !.who = a, !.locks = locks,
                                     !.cap = event.capacity, !.want = want],
                IF event.capacity > 0 /\ want = "approved" THEN "count" ELSE "upsert")
    BY <1>3, KindsAssumption DEF CreateBegin, Statuses
  <2>2. /\ req'[q].kind = "create" /\ req'[q].cap = event.capacity
        /\ req'[q].who = a /\ req'[q].want = want
        /\ pc'[q] = IF event.capacity > 0 /\ want = "approved" THEN "count" ELSE "upsert"
    BY <1>0, <2>1 DEF Start, Request, TypeInv, TypeOK
  <2>3. q \in Serving'
    BY <2>2 DEF Serving
  <2>4. Claims(q, a)' => event.capacity = 0
    BY <1>0, <2>2 DEF Claims
  <2>5. Promised'[q] = Nobody \/ event.capacity = 0
    BY <2>2, <2>4, PromisedTo
  <2> QED
    BY <1>0, <1>1, <2>2, <2>3, <2>5, OpenStep
<1>4. CASE StatusBegin(q)
  <2>1. PICK a \in Rows, want \in Statuses :
          Start(q, [NoRequest EXCEPT !.kind = "status", !.who = a, !.want = want,
                                     !.row = [Key(a) EXCEPT !.confirmed = reg[a].confirmed],
                                     !.cap = event.capacity],
                IF want = "approved" /\ reg[a].status # "approved" /\ event.capacity > 0
                THEN "count" ELSE "write")
    BY <1>4 DEF StatusBegin
  <2>2. /\ req'[q].kind = "status" /\ req'[q].cap = event.capacity
        /\ req'[q].who = a /\ req'[q].want = want
        /\ pc'[q] = IF want = "approved" /\ reg[a].status # "approved" /\ event.capacity > 0
                    THEN "count" ELSE "write"
    BY <1>0, <2>1 DEF Start, Request, TypeInv, TypeOK
  <2>3. q \in Serving'
    BY <2>2 DEF Serving
  <2>4. Claims(q, a)' => a \in Approved \/ event.capacity = 0
    BY <1>0, <2>2 DEF Claims, Approved, Rows
  <2>5. Promised'[q] \in Approved \cup {Nobody} \/ event.capacity = 0
    BY <2>2, <2>4, PromisedTo
  <2> QED
    BY <1>0, <1>1, <2>2, <2>3, <2>5, OpenStep
<1> QED
  BY <1>2, <1>3, <1>4

LEMMA CallAdmits ==
  ASSUME TypeInv, OneSeatEach, OneSeatSlots, OneSeatSlots', CountedFor,
         NEW q \in Requests, Step(q), ~Finish(q),
         UpsertAttendee(q) \/ FindExisting(q) \/ CountSeats(q)
  PROVE  Office!Promise(q) \/ UNCHANGED Office!vars
<1> PICK a : a = req[q].who
  OBVIOUS
<1>0. /\ req[q] \in Request /\ pc[q] \in { "upsert", "find", "count" }
      /\ SlotFits(pc[q], req[q]) /\ UNCHANGED <<event, reg>>
      /\ req[q].kind \in { "register", "create", "status" }
  BY DEF TypeInv, TypeOK, SlotsFit, SlotFits, UpsertAttendee, FindExisting, CountSeats,
         SeatKinds, OneSeatEach, SingleSeatKinds, Request
<1>1. /\ req'[q].kind = req[q].kind /\ req'[q].who = a /\ req'[q].want = req[q].want
      /\ req'[q].cap = req[q].cap /\ req'[q].row.id = req[q].row.id
  BY <1>0 DEF UpsertAttendee, FindExisting, CountSeats, Goto, Request, Row, TypeInv, TypeOK
<1>2. q \in Serving /\ q \in Serving' /\ Limit'[q] = Limit[q] /\ a \in Attendees
  BY <1>0, <1>1 DEF Serving, Limit, OneSeatSlots
<1>3. CASE Claims(q, a)' <=> Claims(q, a)
  <2>1. Promised'[q] = Promised[q]
    BY <1>1, <1>3, PromisedTo
  <2> QED
    BY <1>0, <1>2, <2>1, QuietStep
<1>4. ASSUME Claims(q, a)', ~Claims(q, a), req[q].cap = 0 \/ SeatsTaken < req[q].cap
      PROVE  Office!Promise(q)
  <2>1. Promised[q] = Nobody /\ Promised'[q] = a
    BY <1>1, <1>4, PromisedTo
  <2> QED
    BY <1>0, <1>1, <1>2, <1>4, <2>1, PromiseStep
<1>5. CASE UpsertAttendee(q)
  <2>1. pc[q] = "upsert" /\ pc'[q] = "find"
    BY <1>5 DEF UpsertAttendee, Goto, TypeInv, TypeOK
  <2>2. Claims(q, a)' <=> Claims(q, a)
    BY <1>0, <1>1, <2>1 DEF Claims
  <2> QED
    BY <1>3, <2>2
<1>6. CASE FindExisting(q)
  <2>1. /\ pc[q] = "find"
        /\ pc'[q] = IF req[q].kind = "register" /\ req[q].cap > 0 /\ req[q].want = "approved"
                    THEN "count" ELSE "insert"
    BY <1>6 DEF FindExisting, TypeInv, TypeOK
  <2>2. req[q].kind \in { "create", "register" } /\ req[q].cap \in Nat
    BY <1>0, <2>1, PositiveCapacity DEF SlotFits, OneSeatSlots
  <2>3. Claims(q, a)' /\ ~Claims(q, a) => req[q].cap = 0
    BY <1>1, <2>1, <2>2 DEF Claims
  <2>4. Claims(q, a) => Claims(q, a)'
    BY <1>1, <2>1, <2>2 DEF Claims
  <2> QED
    BY <1>3, <1>4, <2>3, <2>4
<1>7. CASE CountSeats(q)
  <2>1. pc[q] = "count" /\ ~Full(req[q], SeatsTaken)
    BY <1>7 DEF CountSeats
  <2>2. req[q].cap \in Nat /\ req[q].more = 1
    BY <1>0, PositiveCapacity DEF OneSeatSlots
  <2>3. SeatsTaken < req[q].cap
    BY <2>1, <2>2, SeatsTakenNat DEF Full
  <2>4. ~Claims(q, a)
    BY <2>1 DEF Claims
  <2> QED
    BY <1>3, <1>4, <2>3, <2>4
<1> QED
  BY <1>5, <1>6, <1>7

LEMMA WriteAdmits ==
  ASSUME TypeInv, OneSeatEach, OneSeatSlots, OneSeatSlots', NEW q \in Requests, Step(q),
         Insert(q) \/ StatusWrite(q)
  PROVE  Office!Admit(q) \/ Office!Settle
<1> PICK a : a = req[q].who
  OBVIOUS
<1>0. /\ req[q] \in Request /\ SlotFits(pc[q], req[q]) /\ a \in Attendees
      /\ req[q].kind \in { "register", "create", "status" }
      /\ Finish(q) /\ UNCHANGED event
      /\ \A b \in Attendees : reg[b] \in Row
  BY DEF TypeInv, TypeOK, SlotsFit, SlotFits, Insert, StatusWrite, OneSeatSlots
<1>1. \A b \in Attendees \ {a} : reg'[b] = reg[b]
  BY DEF Insert, StatusWrite, TypeInv, TypeOK
<1>2. CASE Approved' \subseteq Approved
  BY <1>0, <1>2, SettleStep
<1>3. ASSUME ~(Approved' \subseteq Approved)
      PROVE  Claims(q, a) /\ a \in Approved'
  <2>1. PICK b \in Approved' : b \notin Approved
    BY <1>3
  <2>2. b \in Attendees /\ Claims(q, b)
    BY <2>1, ApprovedClaimed DEF Approved
  <2> QED
    BY <2>1, <2>2 DEF Claims
<1>4. ASSUME Claims(q, a), a \in Approved' PROVE Office!Admit(q)
  <2>1. Approved' = Approved \cup {a}
    BY <1>0, <1>1, <1>4 DEF Approved
  <2>2. reg[a].present /\ ~reg[a].deleted => reg'[a].present /\ ~reg'[a].deleted /\ reg'[a].id = reg[a].id
    BY <1>0 DEF Insert, StatusWrite, TypeInv, TypeOK, Row
  <2>3. LiveStay
    BY <1>1, <2>2 DEF LiveStay
  <2> QED
    BY <1>0, <1>4, <2>1, <2>3, AdmitStep
<1> QED
  BY <1>2, <1>3, <1>4

LEMMA StepAdmits ==
  ASSUME TypeInv, SlotsBusy, OneSeatEach, OneSeatSlots, OneSeatSlots', CountedFor,
         NEW q \in Requests, Step(q)
  PROVE  [Office!Next]_(Office!vars)
<1>0. req[q] \in Request /\ NoRequest \in Request
  BY NoRequestFits DEF TypeInv, TypeOK
<1>1. CASE RegisterBegin(q) \/ CreateBegin(q) \/ StatusBegin(q)
  BY <1>1, ArrivalAdmits DEF Office!Next
<1>2. CASE ~Finish(q) /\ (UpsertAttendee(q) \/ FindExisting(q) \/ CountSeats(q))
  BY <1>2, CallAdmits DEF Office!Next
<1>3. CASE Insert(q) \/ StatusWrite(q)
  BY <1>3, WriteAdmits DEF Office!Next
<1>4. CASE Finish(q) /\ UNCHANGED <<event, reg>>
  BY <1>4, SettleStep, LiveRowsStay DEF Office!Next
<1>5. CASE PurgeWrite(q)
  <2>1. Approved' \subseteq Approved
    <3>1. \A a \in Attendees : reg'[a] = reg[a] \/ ~reg'[a].present
      BY <1>0, <1>5 DEF PurgeWrite, AbsentRow, TypeInv, TypeOK
    <3> QED
      BY <3>1 DEF Approved
  <2> QED
    BY <1>5, <2>1, SettleStep DEF PurgeWrite, Office!Next
<1>6. CASE Remove(q) \/ BulkDelete(q)
  <2>1. /\ pc[q] = "idle" /\ UNCHANGED <<event, pc, req>>
        /\ \E as : SoftDelete(as)
    BY <1>6 DEF Remove, BulkDelete
  <2>2. Approved' \subseteq Approved
    BY <2>1 DEF SoftDelete, Approved, TypeInv, TypeOK, Row
  <2> QED
    BY <2>1, <2>2, SettleStep DEF Office!Next
<1>7. CASE UpdateEvent(q)
  <2>1. UNCHANGED <<reg, pc, req>> /\ event'.capacity \in Capacities
    BY <1>7 DEF UpdateEvent, Event
  <2>2. event'.capacity \in Nat
    BY <2>1, PositiveCapacity
  <2>3. UNCHANGED <<Approved, Serving, Limit, Promised>>
    BY <2>1 DEF Approved, Serving, Limit, Promised, Claims
  <2> QED
    BY <2>2, <2>3 DEF Office!Next, Office!SetCapacity
<1>8. CASE PurgeBegin(q)
  <2>1. pc[q] = "idle" /\ req'[q].kind = "purge" /\ UNCHANGED <<event, reg>>
    BY <1>0, <1>8 DEF PurgeBegin, Start, Request, TypeInv, TypeOK
  <2>2. req[q].kind = "none"
    BY <2>1 DEF SlotsBusy
  <2>3. /\ q \notin Serving /\ q \notin Serving' /\ Limit[q] = 0 /\ Limit'[q] = 0
        /\ Promised[q] = Nobody /\ Promised'[q] = Nobody
    BY <2>1, <2>2 DEF Serving, Limit, Promised, Claims
  <2> QED
    BY <2>1, <2>3, QuietStep
<1>9. /\ Abort(q) => Finish(q) /\ UNCHANGED <<event, reg>>
      /\ UpsertAttendee(q) \/ FindExisting(q) \/ CountSeats(q) => UNCHANGED <<event, reg>>
  BY DEF Abort, UpsertAttendee, FindExisting, CountSeats
<1> QED
  BY <1>1, <1>2, <1>3, <1>4, <1>5, <1>6, <1>7, <1>8, <1>9, OneSeatActions

\* When every request is about one registration, registering, creating and
\* changing a status implement Admission, for any numbers of attendees and
\* requests and any capacities: a seat is promised on one comparison with the
\* capacity noted, and given to the person it was promised to or not at all.
THEOREM ImplementsAdmission ==
  Kinds \subseteq SingleSeatKinds => (Spec => OfficeSpec)
<1> SUFFICES ASSUME OneSeatEach PROVE Spec => OfficeSpec
  BY DEF OneSeatEach
<1>1. Spec => []CountedFor
  BY CountedForInvariance
<1>2. SlotsOfOne => OneSeatSlots
  BY DEF SlotsOfOne
<1>3. Init => Office!Init
  <2> SUFFICES ASSUME Init PROVE Office!Init
    OBVIOUS
  <2>1. event.capacity \in Nat
    BY PositiveCapacity DEF Init, Event
  <2>2. \A q \in Requests : req[q].kind = "none"
    BY DEF Init, NoRequest
  <2>3. Approved = {}
    BY DEF Init, Approved, AbsentRow
  <2> QED
    BY <2>1, <2>2, <2>3 DEF Office!Init, Serving, Limit, Promised, Claims
<1>4. /\ TypeInv /\ SlotsBusy /\ OneSeatSlots /\ OneSeatSlots' /\ CountedFor /\ [Next]_vars
      => [Office!Next]_(Office!vars)
  <2> SUFFICES ASSUME TypeInv, SlotsBusy, OneSeatSlots, OneSeatSlots', CountedFor, [Next]_vars
               PROVE  [Office!Next]_(Office!vars)
    OBVIOUS
  <2>1. ASSUME NEW q \in Requests, Step(q) PROVE [Office!Next]_(Office!vars)
    BY <2>1, StepAdmits
  <2>2. CASE UNCHANGED vars
    BY <2>2 DEF vars, Office!vars, Approved, Serving, Limit, Promised, Claims
  <2> QED
    BY <2>1, <2>2 DEF Next, Step
<1> QED
  BY <1>1, <1>2, <1>3, <1>4, TypeInvariance, BusyInvariance, SlotsOfOneInvariance, PTL
     DEF Spec, OfficeSpec, Office!Spec

=============================================================================
