--------------------------- MODULE AttendeesProofs ---------------------------
(***************************************************************************)
(* What Attendees guarantees for any sets of slots, rows, emails and       *)
(* values, any fields that requests give, and any number of requests.      *)
(***************************************************************************)
EXTENDS Attendees, TLAPS

\* What a slot is left with, and what the other slots keep.
Moved(q, call, r) ==
    /\ pc' \in [Requests -> Calls] /\ req' \in [Requests -> Request]
    /\ pc'[q] = call /\ req'[q] = r
    /\ \A p \in Requests : p # q => pc'[p] = pc[p] /\ req'[p] = req[p]

LEMMA Moves ==
  ASSUME TypeOK, NEW q \in Requests, NEW call \in Calls, NEW r \in Request,
         Arrive(q, call, r) \/ Goto(q, call, r)
  PROVE  Moved(q, call, r)
  BY DEF TypeOK, Arrive, Goto, Moved, Calls

LEMMA NoRequestFits ==
  NoRequest \in Request /\ NoDto \in Dto
  BY DEF NoRequest, Request, NoDto, Dto, Kinds, Row, Flags

LEMMA Fields ==
  ASSUME NEW r \in Request
  PROVE  /\ r.kind \in Kinds /\ r.dto \in Dto /\ r.id \subseteq Ids
         /\ r.row \in Row \cup { NoRow }
         /\ r.ids \subseteq Ids /\ r.held \subseteq Ids /\ r.regs \subseteq Ids
  BY DEF Request

LEMMA Emptied ==
  /\ NoRequest.id = {} /\ NoRequest.held = {} /\ NoRequest.regs = {}
  /\ NoRequest.row = NoRow
  BY DEF NoRequest

LEMMA NoRowIsNone ==
  NoRow \notin Row
  BY AttendeesAssumption DEF NoRow, Row

LEMMA StoredRows ==
  ASSUME TypeOK, NEW i \in Stored
  PROVE  i \in Ids /\ att[i] \in Row
  BY DEF TypeOK, Stored

LEMMA MergedRow ==
  ASSUME NEW row \in Row, NEW d \in Dto
  PROVE  Merge(row, d) \in Row
<1>1. /\ row.email \in Emails /\ row.data \in Values \cup { Unset } /\ row.active \in Flags
      /\ d.email \in Emails \cup { Unset } /\ d.data \in Values \cup { Unset }
      /\ d.active \in Flags \cup { Unset }
  BY DEF Row, Dto
<1>2. /\ Given(d.email, row.email) \in Emails
      /\ Given(d.data, row.data) \in Values \cup { Unset }
      /\ Given(d.active, row.active) \in Flags
  BY <1>1 DEF Given
<1> QED
  BY <1>2 DEF Merge, Row

LEMMA FreshRow ==
  ASSUME NEW d \in Dto, d.email # Unset
  PROVE  NewRow(d) \in Row /\ NewRow(d).email = d.email
<1>1. /\ d.email \in Emails /\ d.data \in Values \cup { Unset }
      /\ Given(d.active, "yes") \in Flags
  BY DEF Dto, Given, Flags
<1> QED
  BY <1>1 DEF NewRow, Row

---------------------------------------------------------------------------
\* The inductive invariant.

Wrote(r) == r.row # NoRow /\ r.dto # NoDto

\* A slot by the call it makes next: the email it needs, the row it has written,
\* whose email no other stored row has, and the rows it has locked.
SlotOK(call, r) ==
    /\ call = "save" /\ r.id = {} => r.dto.email # Unset
    /\ call = "upsert" => r.dto.email # Unset /\ r.row = NoRow
    /\ call = "conflict" => r.id # {}
    /\ call = "set" => r.dto # NoDto
    /\ call \in { "conflict", "save" } => \A i, j \in r.id : i = j
    /\ Wrote(r) =>
          /\ r.row \in Row
          /\ \E i \in used : r.id = {i}
          /\ \A j \in Stored : att[j].email = r.row.email => j \in r.id
    /\ r.held \subseteq Stored

\* No two transactions have written one row, or one email, or locked one row.
Apart(r, s) ==
    /\ Wrote(r) /\ Wrote(s) =>
          r.id \cap s.id = {} /\ r.row.email # s.row.email
    /\ r.held \cap s.held = {}

SlotsOK ==
    /\ \A q \in Requests : SlotOK(pc[q], req[q])
    /\ \A p, q \in Requests : p # q => Apart(req[p], req[q])

IInv ==
    /\ TypeOK /\ SlotsOK /\ EmailsDistinct
    /\ Stored \subseteq used

---------------------------------------------------------------------------
\* A step after which slot q goes on with call and r, and nothing is committed.
LEMMA QuietSlots ==
  ASSUME SlotsOK, NEW q \in Requests, NEW call, NEW r,
         Moved(q, call, r), att' = att, used \subseteq used',
         SlotOK(call, r)',
         \A p \in Requests \ {q} : Apart(req[p], r)
  PROVE  SlotsOK'
<1>1. ASSUME NEW p \in Requests
      PROVE  SlotOK(pc[p], req[p])'
  <2>1. CASE p = q
    <3>1. pc'[p] = call /\ req'[p] = r
      BY <2>1 DEF Moved
    <3> QED
      BY <3>1 DEF SlotOK, Stored
  <2>2. CASE p # q
    <3>1. pc'[p] = pc[p] /\ req'[p] = req[p]
      BY <2>2 DEF Moved
    <3>2. SlotOK(pc[p], req[p])
      BY DEF SlotsOK
    <3> QED
      BY <3>1, <3>2 DEF SlotOK, Stored
  <2> QED
    BY <2>1, <2>2
<1>2. ASSUME NEW p \in Requests, NEW s \in Requests, p # s
      PROVE  Apart(req[p], req[s])'
  <2>1. CASE p = q
    <3>1. pc'[p] = call /\ req'[p] = r /\ pc'[s] = pc[s] /\ req'[s] = req[s]
      BY <2>1, <1>2 DEF Moved
    <3>2. Apart(req[s], r)
      BY <2>1, <1>2
    <3> QED
      BY <3>1, <3>2 DEF Apart
  <2>2. CASE s = q
    <3>1. pc'[s] = call /\ req'[s] = r /\ pc'[p] = pc[p] /\ req'[p] = req[p]
      BY <2>2, <1>2 DEF Moved
    <3>2. Apart(req[p], r)
      BY <2>2, <1>2
    <3> QED
      BY <3>1, <3>2 DEF Apart
  <2>3. CASE p # q /\ s # q
    <3>1. pc'[s] = pc[s] /\ req'[s] = req[s] /\ pc'[p] = pc[p] /\ req'[p] = req[p]
      BY <2>3 DEF Moved
    <3>2. Apart(req[p], req[s])
      BY <1>2 DEF SlotsOK
    <3> QED
      BY <3>1, <3>2 DEF Apart
  <2> QED
    BY <2>1, <2>2, <2>3
<1> QED
  BY <1>1, <1>2 DEF SlotsOK

\* A step that ends q's request and commits: what it owes the other slots.
LEMMA EndedSlots ==
  ASSUME SlotsOK, NEW q \in Requests,
         Moved(q, "idle", NoRequest), used' = used,
         \A p \in Requests \ {q} :
            /\ req[p].held \subseteq Stored'
            /\ Wrote(req[p]) =>
                  \A j \in Stored' : att'[j].email = req[p].row.email => j \in req[p].id
  PROVE  SlotsOK'
<1>1. ASSUME NEW p \in Requests
      PROVE  SlotOK(pc[p], req[p])'
  <2>1. CASE p = q
    <3>1. pc'[p] = "idle" /\ req'[p] = NoRequest
      BY <2>1 DEF Moved
    <3> QED
      BY <3>1, Emptied DEF SlotOK, Wrote
  <2>2. CASE p # q
    <3>1. pc'[p] = pc[p] /\ req'[p] = req[p]
      BY <2>2 DEF Moved
    <3>2. SlotOK(pc[p], req[p])
      BY DEF SlotsOK
    <3> QED
      BY <3>1, <3>2, <2>2 DEF SlotOK
  <2> QED
    BY <2>1, <2>2
<1>2. ASSUME NEW p \in Requests, NEW s \in Requests, p # s
      PROVE  Apart(req[p], req[s])'
  <2>1. CASE p = q
    <3>1. pc'[p] = "idle" /\ req'[p] = NoRequest
      BY <2>1 DEF Moved
    <3> QED
      BY <3>1, Emptied DEF Apart, Wrote
  <2>2. CASE s = q
    <3>1. pc'[s] = "idle" /\ req'[s] = NoRequest
      BY <2>2 DEF Moved
    <3> QED
      BY <3>1, Emptied DEF Apart, Wrote
  <2>3. CASE p # q /\ s # q
    <3>1. pc'[s] = pc[s] /\ req'[s] = req[s] /\ pc'[p] = pc[p] /\ req'[p] = req[p]
      BY <2>3 DEF Moved
    <3>2. Apart(req[p], req[s])
      BY <1>2 DEF SlotsOK
    <3> QED
      BY <3>1, <3>2 DEF Apart
  <2> QED
    BY <2>1, <2>2, <2>3
<1> QED
  BY <1>1, <1>2 DEF SlotsOK

\* The invariant after a step that commits nothing.
LEMMA Quiet ==
  ASSUME IInv, NEW q \in Requests, NEW call \in Calls, NEW r \in Request,
         \/ Arrive(q, call, r)
         \/ /\ Goto(q, call, r) /\ UNCHANGED <<Rows, silent>>
            /\ used \subseteq used' /\ used' \subseteq Ids /\ surprised' \subseteq Kinds,
         SlotOK(call, r)',
         \A p \in Requests \ {q} : Apart(req[p], r)
  PROVE  IInv'
<1>1. TypeOK /\ SlotsOK /\ EmailsDistinct
  BY DEF IInv
<1>2. Moved(q, call, r)
  BY <1>1, Moves
<1>3. /\ UNCHANGED <<att, rev, reg, silent>> /\ used \subseteq used' /\ used' \subseteq Ids
      /\ surprised' \subseteq Kinds
  BY <1>1 DEF Arrive, Rows, TypeOK
<1>4. started' \in 0 .. MaxStarted /\ alone' \in BOOLEAN
  <2>1. started \in 0 .. MaxStarted /\ alone \in BOOLEAN /\ MaxStarted \in Nat
    BY <1>1, AttendeesAssumption DEF TypeOK
  <2>2. CASE Arrive(q, call, r)
    <3>1. started' = started + 1 /\ started < MaxStarted
      BY <2>2 DEF Arrive
    <3>2. alone' \in BOOLEAN
      BY <2>2 DEF Arrive
    <3> QED
      BY <2>1, <3>1, <3>2
  <2>3. CASE Goto(q, call, r)
    BY <2>1, <2>3 DEF Goto
  <2> QED
    BY <2>2, <2>3
<1>5. TypeOK'
  BY <1>1, <1>2, <1>3, <1>4 DEF TypeOK, Moved
<1>6. SlotsOK'
  BY <1>1, <1>2, <1>3, QuietSlots
<1>7. EmailsDistinct'
  BY <1>1, <1>3 DEF EmailsDistinct, Stored
<1>8. (Stored \subseteq used)'
  BY <1>3 DEF IInv, Stored
<1> QED
  BY <1>5, <1>6, <1>7, <1>8 DEF IInv

\* A slot that has written and locked nothing is in nobody's way.
LEMMA NothingHeld ==
  ASSUME NEW r, ~Wrote(r), r.held = {}, NEW s
  PROVE  Apart(s, r)
  BY DEF Apart

LEMMA Arrivals ==
  ASSUME IInv, NEW q \in Requests, NEW call \in Calls, NEW r \in Request,
         Arrive(q, call, r), r.held = {}, r.row = NoRow,
         call = "save" /\ r.id = {} => r.dto.email # Unset,
         call = "upsert" => r.dto.email # Unset,
         call = "conflict" => r.id # {},
         call = "set" => r.dto # NoDto,
         call \in { "conflict", "save" } => \A i, j \in r.id : i = j
  PROVE  IInv'
<1>1. SlotOK(call, r)'
  BY DEF SlotOK, Wrote
<1>2. \A p \in Requests \ {q} : Apart(req[p], r)
  BY NothingHeld DEF Wrote
<1> QED
  BY <1>1, <1>2, Quiet

LEMMA Reads ==
  ASSUME IInv, NEW q \in Requests, NEW call \in Calls, NEW r \in Request,
         Read(q, call, r), r.held = req[q].held,
         Wrote(r) => Wrote(req[q]) /\ r.id = req[q].id /\ r.row = req[q].row,
         call = "save" => /\ r.id = {} => r.dto.email # Unset
                          /\ \A i, j \in r.id : i = j,
         call \notin { "upsert", "conflict", "set" }
  PROVE  IInv'
<1>1. /\ Goto(q, call, r) /\ UNCHANGED <<Rows, silent>>
      /\ used' = used /\ surprised' = surprised /\ att' = att
  BY DEF Read, Rows
<1>2. used' \subseteq Ids /\ surprised' \subseteq Kinds
  BY <1>1 DEF IInv, TypeOK
<1>3. SlotOK(pc[q], req[q])
  BY DEF IInv, SlotsOK
<1>4. SlotOK(call, r)'
  BY <1>1, <1>3 DEF SlotOK, Stored
<1>5. \A p \in Requests \ {q} : Apart(req[p], r)
  BY DEF IInv, SlotsOK, Apart
<1> QED
  BY <1>1, <1>2, <1>4, <1>5, Quiet

LEMMA Endings ==
  ASSUME IInv, NEW q \in Requests, Fail(q) \/ Read(q, "idle", NoRequest)
  PROVE  IInv'
<1>1. /\ Goto(q, "idle", NoRequest) /\ UNCHANGED <<Rows, silent>> /\ used' = used
      /\ surprised' \subseteq surprised \cup { req[q].kind }
  BY DEF Read, Fail, End, Rows
<1>2. used' \subseteq Ids /\ surprised' \subseteq Kinds
  BY <1>1, Fields DEF IInv, TypeOK
<1>3. SlotOK("idle", NoRequest)'
  BY Emptied DEF SlotOK, Wrote
<1>4. \A p \in Requests \ {q} : Apart(req[p], NoRequest)
  BY Emptied DEF Apart, Wrote
<1>5. "idle" \in Calls
  BY DEF Calls
<1> QED
  BY <1>1, <1>2, <1>3, <1>4, <1>5, NoRequestFits, Quiet

---------------------------------------------------------------------------
\* Writing a row: it and its email are nobody else's.

\* Nobody is in the way of email e: whoever has written it has found it so.
LEMMA EmailFound ==
  ASSUME TypeOK, SlotsOK, NEW q \in Requests, NEW p \in Requests \ {q}, Wrote(req[p]),
         InWayOfEmail(q, req[p].row.email) = {}
  PROVE  \E j \in req[p].id : j \in With(req[p].row.email)
<1>1. SlotOK(pc[p], req[p])
  BY DEF SlotsOK
<1>2. PICK j \in used : req[p].id = {j}
  BY <1>1 DEF SlotOK
<1>3. req[p].row \in Row
  BY <1>1 DEF SlotOK
<1>4. Written(p)
  BY DEF Written, Wrote
<1>5. ~ChangesKey(p)
  BY <1>4 DEF InWayOfEmail
<1>6. att[j].email = req[p].row.email
  BY <1>2, <1>5 DEF ChangesKey
<1>7. j \in Ids /\ att[j] # NoRow
  BY <1>3, <1>6, AttendeesAssumption DEF TypeOK, NoRow, Row
<1> QED
  BY <1>2, <1>6, <1>7 DEF With, Stored

LEMMA WritesFound ==
  ASSUME IInv, NEW q \in Requests, NEW i \in Stored, NEW row \in Row,
         \A p \in Requests \ {q} : ~Updates(p, i),
         row.email = att[i].email \/ InWayOfEmail(q, row.email) = {},
         ~Taken(row.email, i)
  PROVE  /\ \A j \in Stored : att[j].email = row.email => j \in {i}
         /\ \A p \in Requests \ {q} :
               Wrote(req[p]) => {i} \cap req[p].id = {} /\ row.email # req[p].row.email
<1>1. TypeOK /\ SlotsOK /\ EmailsDistinct
  BY DEF IInv
<1>2. \A j \in Stored : att[j].email = row.email => j \in {i}
  BY DEF Taken, With
<1>3. ASSUME NEW p \in Requests \ {q}, Wrote(req[p])
      PROVE  {i} \cap req[p].id = {} /\ row.email # req[p].row.email
  <2>1. i \notin req[p].id
    BY <1>3 DEF Updates, Written, Wrote
  <2>2. \A j \in Stored : att[j].email = req[p].row.email => j \in req[p].id
    BY <1>1, <1>3 DEF SlotsOK, SlotOK
  <2>3. CASE row.email = att[i].email
    BY <2>1, <2>2, <2>3
  <2>4. CASE InWayOfEmail(q, row.email) = {}
    <3> SUFFICES ASSUME row.email = req[p].row.email PROVE FALSE
      BY <2>1
    <3>1. PICK j \in req[p].id : j \in With(row.email)
      BY <1>1, <1>3, <2>4, EmailFound
    <3>2. j # i
      BY <2>1, <3>1
    <3> QED
      BY <3>1, <3>2 DEF Taken
  <2> QED
    BY <2>3, <2>4
<1> QED
  BY <1>2, <1>3

LEMMA WritesNew ==
  ASSUME IInv, NEW q \in Requests, NEW i \in Ids \ used, NEW row \in Row,
         InWayOfEmail(q, row.email) = {}, With(row.email) = {}
  PROVE  /\ \A j \in Stored : att[j].email = row.email => j \in {i}
         /\ \A p \in Requests \ {q} :
               Wrote(req[p]) => {i} \cap req[p].id = {} /\ row.email # req[p].row.email
<1>1. TypeOK /\ SlotsOK
  BY DEF IInv
<1>2. \A j \in Stored : att[j].email = row.email => j \in {i}
  BY DEF With
<1>3. ASSUME NEW p \in Requests \ {q}, Wrote(req[p])
      PROVE  {i} \cap req[p].id = {} /\ row.email # req[p].row.email
  <2>1. i \notin req[p].id
    <3>1. SlotOK(pc[p], req[p])
      BY <1>1 DEF SlotsOK
    <3> QED
      BY <1>3, <3>1 DEF SlotOK
  <2>2. row.email # req[p].row.email
    BY <1>1, <1>3, EmailFound
  <2> QED
    BY <2>1, <2>2
<1> QED
  BY <1>2, <1>3

\* The invariant after q has written row to i, found or drawn.
LEMMA Writes ==
  ASSUME IInv, NEW q \in Requests, NEW call \in { "revise", "find" },
         NEW i \in Ids, NEW row \in Row,
         NEW r \in Request, r.id = {i}, r.row = row, r.held = req[q].held,
         Goto(q, call, r), UNCHANGED <<Rows, silent, surprised>>,
         used \subseteq used', used' \subseteq Ids, i \in used',
         \A j \in Stored : att[j].email = row.email => j \in {i},
         \A p \in Requests \ {q} :
            Wrote(req[p]) => {i} \cap req[p].id = {} /\ row.email # req[p].row.email
  PROVE  IInv'
<1>1. SlotOK(pc[q], req[q])
  BY DEF IInv, SlotsOK
<1>2. att' = att /\ surprised' \subseteq Kinds
  BY DEF Rows, IInv, TypeOK
<1>3. SlotOK(call, r)'
  BY <1>1, <1>2 DEF SlotOK, Stored, Wrote
<1>4. \A p \in Requests \ {q} : Apart(req[p], r)
  BY DEF IInv, SlotsOK, Apart
<1>5. call \in Calls
  BY DEF Calls
<1> QED
  BY <1>2, <1>3, <1>4, <1>5, Quiet

WroteReq(q, i, row) == [req[q] EXCEPT !.id = {i}, !.row = row]

LEMMA WroteFits ==
  ASSUME TypeOK, NEW q \in Requests, NEW i \in Ids, NEW row \in Row
  PROVE  /\ WroteReq(q, i, row) \in Request
         /\ WroteReq(q, i, row).id = {i} /\ WroteReq(q, i, row).row = row
         /\ WroteReq(q, i, row).held = req[q].held
  BY DEF TypeOK, WroteReq, Request

\* The row that a merge makes, and who could be in its way.
LEMMA MergeWrites ==
  ASSUME IInv, NEW q \in Requests, NEW i \in Stored, NEW d \in Dto, d # NoDto,
         InWayOfMerge(q, i, d) = {}
  PROVE  LET row == Merge(att[i], d) IN
         /\ row \in Row
         /\ \A p \in Requests \ {q} : ~Updates(p, i)
         /\ row.email = att[i].email \/ InWayOfEmail(q, row.email) = {}
<1>1. att[i] \in Row /\ Merge(att[i], d) \in Row
  BY StoredRows, MergedRow DEF IInv
<1>2. Merge(att[i], d).email = IF d.email = Unset THEN att[i].email ELSE d.email
  BY DEF Merge, Given
<1>3. CASE d.email \in { Unset, att[i].email }
  <2>1. InWayOfUpdate(q, i) = {}
    BY <1>3 DEF InWayOfMerge
  <2>2. Merge(att[i], d).email = att[i].email
    BY <1>2, <1>3
  <2> QED
    BY <1>1, <2>1, <2>2 DEF InWayOfUpdate
<1>4. CASE d.email \notin { Unset, att[i].email }
  <2>1. InWayOfDeletion(q, i) = {} /\ InWayOfEmail(q, d.email) = {}
    BY <1>4 DEF InWayOfMerge
  <2>2. Merge(att[i], d).email = d.email
    BY <1>2, <1>4
  <2> QED
    BY <1>1, <2>1, <2>2 DEF InWayOfDeletion
<1> QED
  BY <1>3, <1>4

LEMMA SaveRowKeeps ==
  ASSUME IInv, NEW q \in Requests, SaveRow(q)
  PROVE  IInv'
<1> DEFINE row(i) == Merge(att[i], req[q].dto)
<1>1. PICK i \in req[q].id \cap Stored :
         /\ InWayOfMerge(q, i, req[q].dto) = {}
         /\ ~Taken(row(i).email, i)
         /\ Read(q, "revise", [req[q] EXCEPT !.row = row(i)])
  BY DEF SaveRow
<1>2. req[q] \in Request /\ req[q].dto \in Dto /\ used \subseteq Ids
  BY Fields DEF IInv, TypeOK
<1>a. CASE req[q].dto = NoDto
  <2> DEFINE r == [req[q] EXCEPT !.row = row(i)]
  <2>1. row(i) \in Row
    BY <1>1, <1>2, StoredRows, MergedRow DEF IInv
  <2>2. r \in Request /\ r.held = req[q].held /\ r.dto = NoDto
    BY <1>2, <1>a, <2>1 DEF Request
  <2>3. Read(q, "revise", r) /\ "revise" \in Calls
    BY <1>1 DEF Calls
  <2> HIDE DEF r
  <2> QED
    BY <2>2, <2>3, Reads DEF Wrote
<1>b. SUFFICES ASSUME req[q].dto # NoDto PROVE IInv'
  BY <1>a
<1>3. /\ row(i) \in Row
      /\ \A p \in Requests \ {q} : ~Updates(p, i)
      /\ row(i).email = att[i].email \/ InWayOfEmail(q, row(i).email) = {}
  BY <1>1, <1>2, <1>b, MergeWrites
<1>4. /\ \A j \in Stored : att[j].email = row(i).email => j \in {i}
      /\ \A p \in Requests \ {q} :
            Wrote(req[p]) => {i} \cap req[p].id = {} /\ row(i).email # req[p].row.email
  BY <1>1, <1>3, WritesFound
<1>5. /\ [req[q] EXCEPT !.row = row(i)] \in Request
      /\ [req[q] EXCEPT !.row = row(i)].row = row(i)
      /\ [req[q] EXCEPT !.row = row(i)].held = req[q].held
  BY <1>2, <1>3 DEF Request
<1>6. [req[q] EXCEPT !.row = row(i)].id = {i}
  <2>1. \A j \in req[q].id : j = i
    BY <1>1 DEF IInv, SlotsOK, SlotOK, SaveRow
  <2>2. req[q].id = {i}
    BY <1>1, <2>1
  <2> QED
    BY <1>2, <2>2 DEF Request
<1>7. /\ Goto(q, "revise", [req[q] EXCEPT !.row = row(i)])
      /\ UNCHANGED <<Rows, silent, surprised>> /\ used' = used
  BY <1>1 DEF Read
<1>8. i \in Ids /\ i \in used
  BY <1>1 DEF IInv, Stored
<1> HIDE DEF row
<1> QED
  BY <1>2, <1>3, <1>4, <1>5, <1>6, <1>7, <1>8, Writes

LEMMA UpsertFoundKeeps ==
  ASSUME IInv, NEW q \in Requests, UpsertFound(q)
  PROVE  IInv'
<1> DEFINE row(i) == Merge(att[i], req[q].dto)
<1>1. PICK i \in With(req[q].dto.email) :
         /\ InWayOfUpdate(q, i) = {}
         /\ Read(q, "find", WroteReq(q, i, row(i)))
  BY DEF UpsertFound, WroteReq
<1>2. req[q] \in Request /\ req[q].dto \in Dto /\ used \subseteq Ids
  BY Fields DEF IInv, TypeOK
<1>3. i \in Stored /\ att[i].email = req[q].dto.email
  BY <1>1 DEF With
<1>4. row(i) \in Row /\ row(i).email = att[i].email
  <2>1. row(i) \in Row
    BY <1>2, <1>3, StoredRows, MergedRow DEF IInv
  <2>2. row(i).email = att[i].email
    BY <1>3 DEF Merge, Given
  <2> QED
    BY <2>1, <2>2
<1>5. \A p \in Requests \ {q} : ~Updates(p, i)
  BY <1>1 DEF InWayOfUpdate
<1>6. ~Taken(row(i).email, i)
  BY <1>3, <1>4 DEF Taken, With, IInv, EmailsDistinct
<1>7. /\ \A j \in Stored : att[j].email = row(i).email => j \in {i}
      /\ \A p \in Requests \ {q} :
            Wrote(req[p]) => {i} \cap req[p].id = {} /\ row(i).email # req[p].row.email
  BY <1>3, <1>4, <1>5, <1>6, WritesFound
<1>8. i \in Ids /\ i \in used
  BY <1>3 DEF IInv, Stored
<1>9. /\ WroteReq(q, i, row(i)) \in Request
      /\ WroteReq(q, i, row(i)).id = {i} /\ WroteReq(q, i, row(i)).row = row(i)
      /\ WroteReq(q, i, row(i)).held = req[q].held
  BY <1>4, <1>8, WroteFits DEF IInv
<1>10. /\ Goto(q, "find", WroteReq(q, i, row(i)))
       /\ UNCHANGED <<Rows, silent, surprised>> /\ used' = used
  BY <1>1 DEF Read
<1> HIDE DEF row
<1> QED
  BY <1>2, <1>4, <1>7, <1>8, <1>9, <1>10, Writes

LEMMA DrawKeeps ==
  ASSUME IInv, NEW q \in Requests, NEW call \in { "revise", "find" }, Draw(q, call),
         req[q].dto.email # Unset,
         InWayOfEmail(q, req[q].dto.email) = {}, With(req[q].dto.email) = {}
  PROVE  IInv'
<1> DEFINE row == NewRow(req[q].dto)
<1>1. PICK i \in Ids \ used :
         /\ used' = used \cup {i}
         /\ Goto(q, call, WroteReq(q, i, row))
         /\ UNCHANGED <<Rows, silent, surprised>>
  BY DEF Draw, WroteReq
<1>2. req[q].dto \in Dto /\ used \subseteq Ids
  BY Fields DEF IInv, TypeOK
<1>3. row \in Row /\ row.email = req[q].dto.email
  BY <1>2, FreshRow
<1>4. /\ \A j \in Stored : att[j].email = row.email => j \in {i}
      /\ \A p \in Requests \ {q} :
            Wrote(req[p]) => {i} \cap req[p].id = {} /\ row.email # req[p].row.email
  BY <1>3, WritesNew
<1>5. /\ WroteReq(q, i, row) \in Request
      /\ WroteReq(q, i, row).id = {i} /\ WroteReq(q, i, row).row = row
      /\ WroteReq(q, i, row).held = req[q].held
  BY <1>3, WroteFits DEF IInv
<1> HIDE DEF row
<1> QED
  BY <1>1, <1>2, <1>3, <1>4, <1>5, Writes

---------------------------------------------------------------------------
\* Committing.

LEMMA Commits ==
  ASSUME IInv, NEW q \in Requests, End(q),
         att' \in [Ids -> Row \cup { NoRow }], rev' \in [Ids -> Row \cup { NoRow }],
         reg' \subseteq Ids, used' = used, silent' \subseteq Ids, surprised' = surprised,
         \A p \in Requests \ {q} :
            /\ req[p].held \subseteq Stored'
            /\ Wrote(req[p]) =>
                  \A j \in Stored' : att'[j].email = req[p].row.email => j \in req[p].id,
         EmailsDistinct', Stored' \subseteq used
  PROVE  IInv'
<1>1. TypeOK /\ SlotsOK
  BY DEF IInv
<1>2. Moved(q, "idle", NoRequest)
  BY <1>1, NoRequestFits, Moves DEF End, Calls
<1>3. started' = started /\ alone' = alone
  BY DEF End, Goto
<1>4. TypeOK'
  BY <1>1, <1>2, <1>3 DEF TypeOK, Moved
<1>5. SlotsOK'
  BY <1>1, <1>2, EndedSlots
<1> QED
  BY <1>4, <1>5 DEF IInv

LEMMA CommitsNoRow ==
  ASSUME IInv, NEW q \in Requests, End(q), att' = att,
         rev' \in [Ids -> Row \cup { NoRow }], reg' \subseteq Ids, used' = used,
         silent' \subseteq Ids, surprised' = surprised
  PROVE  IInv'
<1>1. Stored' = Stored
  BY DEF Stored
<1>2. \A p \in Requests \ {q} :
         /\ req[p].held \subseteq Stored'
         /\ Wrote(req[p]) =>
               \A j \in Stored' : att'[j].email = req[p].row.email => j \in req[p].id
  BY <1>1 DEF IInv, SlotsOK, SlotOK
<1>3. EmailsDistinct' /\ Stored' \subseteq used
  BY <1>1 DEF IInv, EmailsDistinct
<1>4. att' \in [Ids -> Row \cup { NoRow }]
  BY DEF IInv, TypeOK
<1> QED
  BY <1>2, <1>3, <1>4, Commits

\* One row is put in place of what there was, or of nothing.
LEMMA Puts ==
  ASSUME IInv, NEW q \in Requests, End(q), NEW i \in Ids, NEW row \in Row, i \in used,
         att' = [att EXCEPT ![i] = row], rev' \in [Ids -> Row \cup { NoRow }],
         reg' \subseteq Ids, used' = used, silent' \subseteq Ids, surprised' = surprised,
         \A j \in Stored : att[j].email = row.email => j \in {i},
         \A p \in Requests \ {q} : Wrote(req[p]) => row.email # req[p].row.email
  PROVE  IInv'
<1>1. att \in [Ids -> Row \cup { NoRow }]
  BY DEF IInv, TypeOK
<1>2. att' \in [Ids -> Row \cup { NoRow }]
  BY <1>1
<1>3. att'[i] = row /\ \A j \in Ids \ {i} : att'[j] = att[j]
  BY <1>1
<1>4. Stored' = Stored \cup {i}
  BY <1>3, NoRowIsNone DEF Stored
<1>5. EmailsDistinct'
  <2> SUFFICES ASSUME NEW j \in Stored', NEW k \in Stored', att'[j].email = att'[k].email
               PROVE  j = k
    BY DEF EmailsDistinct
  <2>1. j \in Ids /\ k \in Ids
    BY DEF Stored
  <2>2. CASE j # i /\ k # i
    BY <1>3, <1>4, <2>1, <2>2 DEF IInv, EmailsDistinct
  <2>3. CASE j = i /\ k # i
    BY <1>3, <1>4, <2>1, <2>3
  <2>4. CASE j # i /\ k = i
    BY <1>3, <1>4, <2>1, <2>4
  <2> QED
    BY <2>2, <2>3, <2>4
<1>6. ASSUME NEW p \in Requests \ {q}
      PROVE  /\ req[p].held \subseteq Stored'
             /\ Wrote(req[p]) =>
                   \A j \in Stored' : att'[j].email = req[p].row.email => j \in req[p].id
  <2>1. SlotOK(pc[p], req[p])
    BY DEF IInv, SlotsOK
  <2>2. req[p].held \subseteq Stored'
    BY <1>4, <2>1 DEF SlotOK
  <2>3. ASSUME Wrote(req[p]), NEW j \in Stored', att'[j].email = req[p].row.email
        PROVE  j \in req[p].id
    <3>1. j # i
      BY <1>3, <2>3
    <3>2. j \in Stored /\ att[j].email = req[p].row.email
      BY <1>3, <1>4, <2>3, <3>1 DEF Stored
    <3> QED
      BY <2>1, <2>3, <3>2 DEF SlotOK
  <2> QED
    BY <2>2, <2>3
<1>7. Stored' \subseteq used
  BY <1>4 DEF IInv
<1> QED
  BY <1>2, <1>5, <1>6, <1>7, Commits

\* What q has written is still nobody else's when it commits.
LEMMA CommitsWritten ==
  ASSUME IInv, NEW q \in Requests, End(q), Wrote(req[q]), NEW i \in req[q].id,
         att' = [att EXCEPT ![i] = req[q].row], rev' \in [Ids -> Row \cup { NoRow }],
         reg' \subseteq Ids, used' = used, silent' \subseteq Ids, surprised' = surprised
  PROVE  IInv'
<1>1. SlotOK(pc[q], req[q])
  BY DEF IInv, SlotsOK
<1>2. /\ req[q].row \in Row /\ i \in used
      /\ \A j \in Stored : att[j].email = req[q].row.email => j \in {i}
  BY <1>1 DEF SlotOK
<1>3. i \in Ids
  BY <1>2 DEF IInv, TypeOK
<1>4. \A p \in Requests \ {q} : Wrote(req[p]) => req[q].row.email # req[p].row.email
  BY DEF IInv, SlotsOK, Apart
<1> QED
  BY <1>2, <1>3, <1>4, Puts

LEMMA ReviseKeeps ==
  ASSUME IInv, NEW q \in Requests, Revise(q)
  PROVE  IInv'
<1>1. PICK i \in req[q].id :
         /\ att' = [att EXCEPT ![i] = req[q].row]
         /\ rev' = [rev EXCEPT ![i] = req[q].row]
         /\ silent' = silent \ {i}
  BY DEF Revise, CommitRow
<1>2. End(q) /\ UNCHANGED <<reg, used, surprised>> /\ Wrote(req[q])
  BY DEF Revise, CommitRow, Written, Wrote
<1>3. rev' \in [Ids -> Row \cup { NoRow }] /\ reg' \subseteq Ids /\ silent' \subseteq Ids
  BY <1>1, <1>2, Fields DEF IInv, TypeOK
<1> QED
  BY <1>1, <1>2, <1>3, CommitsWritten

\* A revision of a row that was only read changes no row.
LEMMA ReviseUnchangedKeeps ==
  ASSUME IInv, NEW q \in Requests, ReviseUnchanged(q)
  PROVE  IInv'
<1>1. PICK i \in req[q].id \cap Stored :
         rev' = [rev EXCEPT ![i] = req[q].row] /\ silent' = silent \cup {i}
  BY DEF ReviseUnchanged
<1>2. End(q) /\ UNCHANGED <<att, reg, used, surprised>>
  BY DEF ReviseUnchanged
<1>3. i \in Ids /\ req[q].row \in Row \cup { NoRow }
  BY Fields DEF IInv, TypeOK
<1>4. rev' \in [Ids -> Row \cup { NoRow }] /\ reg' \subseteq Ids /\ silent' \subseteq Ids
  BY <1>1, <1>2, <1>3 DEF IInv, TypeOK
<1> QED
  BY <1>2, <1>4, CommitsNoRow

\* The registration is committed, with the attendee if it was written.
LEMMA RegistersKeep ==
  ASSUME IInv, NEW q \in Requests, InsertRegistration(q) \/ RewriteRegistration(q)
  PROVE  IInv'
<1>1. PICK i \in req[q].id : CommitAttendee(q, i) /\ reg' \subseteq reg \cup {i}
  BY DEF InsertRegistration, RewriteRegistration
<1>2. /\ End(q) /\ UNCHANGED <<rev, used, surprised>>
      /\ att' = IF Written(q) THEN [att EXCEPT ![i] = req[q].row] ELSE att
      /\ silent' = IF Written(q) THEN silent \cup {i} ELSE silent
  BY <1>1 DEF CommitAttendee
<1>3. i \in Ids
  BY Fields DEF IInv, TypeOK
<1>4. rev' \in [Ids -> Row \cup { NoRow }] /\ reg' \subseteq Ids /\ silent' \subseteq Ids
  BY <1>1, <1>2, <1>3 DEF IInv, TypeOK
<1>5. CASE Written(q)
  <2>1. Wrote(req[q]) /\ att' = [att EXCEPT ![i] = req[q].row]
    BY <1>2, <1>5 DEF Written, Wrote
  <2> QED
    BY <1>2, <1>4, <2>1, CommitsWritten
<1>6. CASE ~Written(q)
  BY <1>2, <1>4, <1>6, CommitsNoRow
<1> QED
  BY <1>5, <1>6

LEMMA SetRowKeeps ==
  ASSUME IInv, NEW q \in Requests, SetRow(q)
  PROVE  IInv'
<1> DEFINE row(i) == Merge(att[i], req[q].dto)
<1>1. PICK i \in req[q].id \cap Stored :
         /\ InWayOfMerge(q, i, req[q].dto) = {}
         /\ ~Taken(row(i).email, i)
         /\ att' = [att EXCEPT ![i] = row(i)]
         /\ silent' = silent \cup {i}
  BY DEF SetRow
<1>2. End(q) /\ UNCHANGED <<rev, reg, used, surprised>>
  BY DEF SetRow
<1>3. req[q].dto \in Dto /\ req[q].dto # NoDto /\ i \in Ids /\ i \in used
  <2>1. SlotOK(pc[q], req[q]) /\ pc[q] = "set"
    BY DEF SetRow, IInv, SlotsOK
  <2> QED
    BY <1>1, <2>1, Fields DEF IInv, TypeOK, Stored, SlotOK
<1>4. /\ row(i) \in Row
      /\ \A p \in Requests \ {q} : ~Updates(p, i)
      /\ row(i).email = att[i].email \/ InWayOfEmail(q, row(i).email) = {}
  BY <1>1, <1>3, MergeWrites
<1>5. /\ \A j \in Stored : att[j].email = row(i).email => j \in {i}
      /\ \A p \in Requests \ {q} :
            Wrote(req[p]) => {i} \cap req[p].id = {} /\ row(i).email # req[p].row.email
  BY <1>1, <1>4, WritesFound
<1>6. rev' \in [Ids -> Row \cup { NoRow }] /\ reg' \subseteq Ids /\ silent' \subseteq Ids
  BY <1>1, <1>2, <1>3 DEF IInv, TypeOK
<1>7. /\ att' = [att EXCEPT ![i] = row(i)] /\ used' = used /\ surprised' = surprised
      /\ End(q) /\ i \in Ids /\ i \in used /\ row(i) \in Row
  BY <1>1, <1>2, <1>3, <1>4
<1>8. \A p \in Requests \ {q} : Wrote(req[p]) => row(i).email # req[p].row.email
  BY <1>5
<1>9. \A j \in Stored : att[j].email = row(i).email => j \in {i}
  BY <1>5
<1> HIDE DEF row
<1> QED
  BY <1>6, <1>7, <1>8, <1>9, Puts

LEMMA BulkSetKeeps ==
  ASSUME IInv, NEW q \in Requests, BulkSet(q)
  PROVE  IInv'
<1> DEFINE flag == IF req[q].kind = "bulkDelete" THEN "no" ELSE "yes"
<1>1. /\ att' = [i \in Ids |-> IF i \in req[q].held
                              THEN [att[i] EXCEPT !.active = flag] ELSE att[i]]
      /\ silent' = silent \cup req[q].held
      /\ End(q) /\ UNCHANGED <<rev, reg, used, surprised>>
  BY DEF BulkSet
<1>2. TypeOK /\ req[q].held \subseteq Stored /\ req[q].held \subseteq Ids
  BY Fields DEF IInv, SlotsOK, SlotOK, TypeOK
<1>3. flag \in Flags
  BY DEF Flags
<1>4. \A i \in Ids :
         /\ att'[i].email = att[i].email
         /\ i \in Stored => att'[i] \in Row
         /\ i \notin Stored => att'[i] = NoRow
  <2> HIDE DEF flag
  <2>1. ASSUME NEW i \in Stored PROVE att'[i].email = att[i].email /\ att'[i] \in Row
    <3>1. att[i] \in Row /\ i \in Ids
      BY <1>2, StoredRows
    <3> QED
      BY <1>1, <1>3, <3>1 DEF Row
  <2>2. ASSUME NEW i \in Ids, i \notin Stored PROVE att'[i] = att[i] /\ att'[i] = NoRow
    BY <1>1, <1>2, <2>2 DEF Stored
  <2> QED
    BY <2>1, <2>2
<1>5. att' \in [Ids -> Row \cup { NoRow }]
  <2>1. \A i \in Ids : att'[i] \in Row \cup { NoRow }
    BY <1>4
  <2> QED
    BY <1>1, <2>1
<1>6. Stored' = Stored
  BY <1>4, NoRowIsNone DEF Stored
<1>7. \A i \in Stored : att'[i].email = att[i].email
  BY <1>4 DEF Stored
<1>8. EmailsDistinct'
  BY <1>6, <1>7 DEF IInv, EmailsDistinct
<1>9. ASSUME NEW p \in Requests \ {q}
      PROVE  /\ req[p].held \subseteq Stored'
             /\ Wrote(req[p]) =>
                   \A j \in Stored' : att'[j].email = req[p].row.email => j \in req[p].id
  <2>1. SlotOK(pc[p], req[p])
    BY DEF IInv, SlotsOK
  <2> QED
    BY <1>6, <1>7, <2>1 DEF SlotOK
<1>10. /\ rev' \in [Ids -> Row \cup { NoRow }] /\ reg' \subseteq Ids /\ silent' \subseteq Ids
       /\ Stored' \subseteq used
  BY <1>1, <1>2, <1>6 DEF IInv, TypeOK
<1> QED
  BY <1>1, <1>5, <1>8, <1>9, <1>10, Commits

LEMMA DeletesKeep ==
  ASSUME IInv, NEW q \in Requests, NEW ids \in SUBSET Ids, DeleteRows(q, ids),
         \A p \in Requests \ {q} : req[p].held \cap ids = {}
  PROVE  IInv'
<1>1. /\ att' = [i \in Ids |-> IF i \in ids THEN NoRow ELSE att[i]]
      /\ rev' = [i \in Ids |-> IF i \in ids THEN NoRow ELSE rev[i]]
      /\ reg' = reg \ ids /\ silent' = silent \ ids
      /\ End(q) /\ UNCHANGED <<used, surprised>>
  BY DEF DeleteRows
<1>2. TypeOK
  BY DEF IInv
<1>3. Stored' = Stored \ ids
  BY <1>1 DEF Stored
<1>4. \A i \in Stored' : att'[i] = att[i] /\ i \in Stored
  BY <1>1, <1>3 DEF Stored
<1>5. EmailsDistinct'
  BY <1>4 DEF IInv, EmailsDistinct
<1>6. ASSUME NEW p \in Requests \ {q}
      PROVE  /\ req[p].held \subseteq Stored'
             /\ Wrote(req[p]) =>
                   \A j \in Stored' : att'[j].email = req[p].row.email => j \in req[p].id
  <2>1. SlotOK(pc[p], req[p])
    BY DEF IInv, SlotsOK
  <2> QED
    BY <1>3, <1>4, <2>1 DEF SlotOK
<1>7. /\ att' \in [Ids -> Row \cup { NoRow }] /\ rev' \in [Ids -> Row \cup { NoRow }]
      /\ reg' \subseteq Ids /\ silent' \subseteq Ids /\ Stored' \subseteq used
  BY <1>1, <1>2, <1>3 DEF IInv, TypeOK
<1> QED
  BY <1>1, <1>5, <1>6, <1>7, Commits

LEMMA DropKeeps ==
  ASSUME IInv, NEW q \in Requests, Drop(q)
  PROVE  IInv'
<1>1. DeleteRows(q, req[q].id) /\ \A i \in req[q].id : InWayOfDeletion(q, i) = {}
  BY DEF Drop
<1>2. req[q].id \in SUBSET Ids
  BY Fields DEF IInv, TypeOK
<1>3. \A p \in Requests \ {q} : req[p].held \cap req[q].id = {}
  BY <1>1 DEF InWayOfDeletion, Updates
<1> QED
  BY <1>1, <1>2, <1>3, DeletesKeep

LEMMA PurgeRowsKeeps ==
  ASSUME IInv, NEW q \in Requests, PurgeRows(q)
  PROVE  IInv'
<1>1. DeleteRows(q, req[q].held)
  BY DEF PurgeRows
<1>2. req[q].held \in SUBSET Ids
  BY Fields DEF IInv, TypeOK
<1>3. \A p \in Requests \ {q} : req[p].held \cap req[q].held = {}
  BY DEF IInv, SlotsOK, Apart
<1> QED
  BY <1>1, <1>2, <1>3, DeletesKeep

LockedReq(q, i) == [req[q] EXCEPT !.held = req[q].held \cup {i}]

LEMMA LockRowKeeps ==
  ASSUME IInv, NEW q \in Requests, LockRow(q)
  PROVE  IInv'
<1>1. PICK i \in ToLock(q) : InWayOfLock(q, i) = {} /\ Read(q, "lock", LockedReq(q, i))
  BY DEF LockRow, LockedReq
<1>2. i \in Stored /\ i \in Ids
  BY <1>1 DEF ToLock, Stored
<1>3. req[q] \in Request /\ req[q].held \subseteq Ids /\ req[q].held \subseteq Stored
  BY Fields DEF IInv, TypeOK, SlotsOK, SlotOK
<1>4. PICK r \in Request :
         /\ r = LockedReq(q, i) /\ r.held = req[q].held \cup {i}
         /\ r.id = req[q].id /\ r.row = req[q].row /\ r.dto = req[q].dto
  <2>1. /\ LockedReq(q, i) \in Request
        /\ LockedReq(q, i).held = req[q].held \cup {i}
        /\ LockedReq(q, i).id = req[q].id /\ LockedReq(q, i).row = req[q].row
        /\ LockedReq(q, i).dto = req[q].dto
    BY <1>2, <1>3 DEF Request, LockedReq
  <2> QED
    BY <2>1
<1>5. \A p \in Requests \ {q} : i \notin req[p].held
  BY <1>1 DEF InWayOfLock, InWayOfDeletion, InWayOfUpdate, Updates
<1>6. /\ Goto(q, "lock", r) /\ UNCHANGED <<Rows, silent>>
      /\ used' = used /\ surprised' = surprised /\ att' = att
  BY <1>1, <1>4 DEF Read, Rows
<1>7. used' \subseteq Ids /\ surprised' \subseteq Kinds
  BY <1>6 DEF IInv, TypeOK
<1>a. SlotOK(pc[q], req[q])
  BY DEF IInv, SlotsOK
<1>8. SlotOK("lock", r)'
  BY <1>a, <1>2, <1>3, <1>4, <1>6 DEF SlotOK, Stored, Wrote
<1>9. \A p \in Requests \ {q} : Apart(req[p], r)
  BY <1>4, <1>5 DEF IInv, SlotsOK, Apart, Wrote
<1>10. "lock" \in Calls
  BY DEF Calls
<1> QED
  BY <1>4, <1>6, <1>7, <1>8, <1>9, <1>10, Quiet

LEMMA CheckEmailKeeps ==
  ASSUME IInv, NEW q \in Requests, CheckEmail(q)
  PROVE  IInv'
<1>1. CASE Read(q, "idle", NoRequest)
  BY <1>1, Endings
<1>2. CASE Read(q, "save", req[q])
  <2>1. SlotOK(pc[q], req[q]) /\ pc[q] = "conflict"
    BY DEF CheckEmail, IInv, SlotsOK
  <2>2. req[q].id # {} /\ \A i, j \in req[q].id : i = j
    BY <2>1 DEF SlotOK
  <2>3. req[q] \in Request /\ "save" \in Calls
    BY DEF IInv, TypeOK, Calls
  <2> QED
    BY <1>2, <2>2, <2>3, Reads
<1> QED
  BY <1>1, <1>2 DEF CheckEmail

LEMMA OtherReadsKeep ==
  ASSUME IInv, NEW q \in Requests,
         \/ NoteDeletion(q) \/ DeleteRegistrations(q) \/ UpsertRead(q)
         \/ FindRegistration(q)
  PROVE  IInv'
<1>1. /\ req[q] \in Request /\ SlotOK(pc[q], req[q])
      /\ { "drop", "lock", "save", "find", "insert", "rewrite" } \subseteq Calls
  BY DEF IInv, TypeOK, Calls, SlotsOK
<1>2. CASE NoteDeletion(q)
  <2>1. Read(q, "drop", req[q])
    BY <1>2 DEF NoteDeletion
  <2> QED
    BY <1>1, <2>1, Reads
<1>3. CASE DeleteRegistrations(q)
  <2> DEFINE r == [req[q] EXCEPT !.regs = req[q].ids \cap reg]
  <2>1. Read(q, "lock", r)
    BY <1>3 DEF DeleteRegistrations
  <2>2. /\ r \in Request /\ r.held = req[q].held /\ r.row = req[q].row
        /\ r.dto = req[q].dto /\ r.id = req[q].id
    BY <1>1 DEF Request
  <2> HIDE DEF r
  <2> QED
    BY <1>1, <2>1, <2>2, Reads DEF Wrote
<1>4. CASE UpsertRead(q)
  <2> DEFINE found == With(req[q].dto.email)
             r == [req[q] EXCEPT !.id = found]
  <2>1. pc[q] = "upsert" /\ (Read(q, "save", r) \/ Read(q, "find", r))
    BY <1>4 DEF UpsertRead
  <2>2. found \in SUBSET Ids /\ \A i, j \in found : i = j
    BY DEF With, Stored, IInv, EmailsDistinct
  <2>3. req[q].row = NoRow /\ req[q].dto.email # Unset
    BY <1>1, <2>1 DEF SlotOK
  <2> HIDE DEF found
  <2>4. /\ r \in Request /\ r.held = req[q].held /\ r.row = NoRow
        /\ r.dto = req[q].dto /\ r.id = found
    BY <1>1, <2>2, <2>3 DEF Request
  <2> HIDE DEF r
  <2> QED
    BY <1>1, <2>1, <2>2, <2>3, <2>4, Reads DEF Wrote
<1>5. CASE FindRegistration(q)
  <2>1. CASE Read(q, "insert", req[q]) \/ Read(q, "rewrite", req[q])
    BY <1>1, <2>1, Reads
  <2>2. CASE Read(q, "idle", NoRequest)
    BY <2>2, Endings
  <2> QED
    BY <1>5, <2>1, <2>2 DEF FindRegistration
<1> QED
  BY <1>2, <1>3, <1>4, <1>5

LEMMA InsertsKeep ==
  ASSUME IInv, NEW q \in Requests, InsertRow(q) \/ UpsertNew(q)
  PROVE  IInv'
<1>1. PICK call \in { "revise", "find" } : Draw(q, call)
  BY DEF InsertRow, UpsertNew
<1>2. InWayOfEmail(q, req[q].dto.email) = {} /\ With(req[q].dto.email) = {}
  BY DEF InsertRow, UpsertNew
<1>3. req[q].dto.email # Unset
  BY DEF InsertRow, UpsertNew, IInv, SlotsOK, SlotOK
<1> QED
  BY <1>1, <1>2, <1>3, DrawKeeps

---------------------------------------------------------------------------
\* Requests arriving.

LEMMA StartingFits ==
  ASSUME NEW kind \in Kinds, NEW d \in Dto, NEW id \in SUBSET Ids, NEW ids \in SUBSET Ids
  PROVE  LET r == Starting(kind, d, id, ids) IN
         r \in Request /\ r.held = {} /\ r.id = id /\ r.dto = d /\ r.row = NoRow
  BY DEF Starting, NoRequest, Request, Row, NoRow

\* A request that knows one row starts well.
LEMMA OnOneRow ==
  ASSUME IInv, NEW q \in Requests, NEW call \in { "save", "conflict", "note", "set" },
         NEW kind \in Kinds, NEW d \in Dto, NEW i \in Ids, call = "set" => d # NoDto,
         Arrive(q, call, Starting(kind, d, {i}, {}))
  PROVE  IInv'
<1> DEFINE s == Starting(kind, d, {i}, {})
<1>1. s \in Request /\ s.held = {} /\ s.id = {i} /\ s.dto = d /\ s.row = NoRow
  <2>1. PICK id \in SUBSET Ids, ids \in SUBSET Ids : id = {i} /\ ids = {}
    OBVIOUS
  <2>2. /\ Starting(kind, d, id, ids) \in Request /\ Starting(kind, d, id, ids).held = {}
        /\ Starting(kind, d, id, ids).id = id /\ Starting(kind, d, id, ids).dto = d
        /\ Starting(kind, d, id, ids).row = NoRow
    BY StartingFits
  <2> QED
    BY <2>1, <2>2
<1>2. call \in Calls /\ call # "upsert"
  BY DEF Calls
<1>3. Arrive(q, call, s)
  OBVIOUS
<1> HIDE DEF s
<1> QED
  BY <1>1, <1>2, <1>3, Arrivals

\* The fields that remove and restore give.
LEMMA GivenFields ==
  \A f \in Flags : [NoDto EXCEPT !.active = f] \in Dto /\ [NoDto EXCEPT !.active = f] # NoDto
<1> SUFFICES ASSUME NEW f \in Flags
             PROVE  [NoDto EXCEPT !.active = f] \in Dto /\ [NoDto EXCEPT !.active = f] # NoDto
  OBVIOUS
<1>1. [NoDto EXCEPT !.active = f].active = f /\ NoDto.active = Unset
  BY DEF NoDto
<1>2. f # Unset
  BY AttendeesAssumption
<1> QED
  BY <1>1, <1>2 DEF NoDto, Dto

LEMMA SingleArrivals ==
  ASSUME IInv, NEW q \in Requests,
         \/ Update(q) \/ Remove(q) \/ ForcedRemove(q) \/ Restore(q) \/ Edit(q)
  PROVE  IInv'
<1> USE DEF Stored, Kinds, Flags
<1>1. CASE Update(q)
  <2>1. PICK i \in Stored, d \in Dtos :
           Arrive(q, IF d.email \in { Unset, att[i].email } THEN "save" ELSE "conflict",
                  Starting("update", d, {i}, {}))
    BY <1>1 DEF Update
  <2>2. d \in Dto
    BY DtosAssumption
  <2> QED
    BY <2>1, <2>2, OnOneRow
<1>2. CASE Remove(q)
  BY <1>2, GivenFields, OnOneRow DEF Remove
<1>3. CASE ForcedRemove(q)
  BY <1>3, NoRequestFits, OnOneRow DEF ForcedRemove
<1>4. CASE Restore(q)
  BY <1>4, GivenFields, OnOneRow DEF Restore
<1>5. CASE Edit(q)
  <2>1. reg \subseteq Ids
    BY DEF IInv, TypeOK
  <2> QED
    BY <1>5, <2>1, DtosAssumption, OnOneRow DEF Edit
<1> QED
  BY <1>1, <1>2, <1>3, <1>4, <1>5

LEMMA CreateKeeps ==
  ASSUME IInv, NEW q \in Requests, Create(q)
  PROVE  IInv'
<1>1. PICK d \in Dtos :
         /\ d.email # Unset
         /\ Arrive(q, "save", Starting("create", ToMerge(d, With(d.email)), With(d.email), {}))
  BY DEF Create
<1> DEFINE s == Starting("create", ToMerge(d, With(d.email)), With(d.email), {})
<1>2. /\ ToMerge(d, With(d.email)) \in Dto
      /\ With(d.email) = {} => ToMerge(d, With(d.email)).email # Unset
      /\ With(d.email) \in SUBSET Ids /\ "create" \in Kinds
  <2>1. d \in Dto
    BY DtosAssumption
  <2>2. [d EXCEPT !.email = Unset] \in Dto
    BY <2>1 DEF Dto
  <2> QED
    BY <1>1, <2>1, <2>2 DEF ToMerge, With, Stored, Kinds
<1>3. /\ s \in Request /\ s.held = {} /\ s.id = With(d.email)
      /\ s.dto = ToMerge(d, With(d.email)) /\ s.row = NoRow
  BY <1>2, StartingFits
<1>4. \A i, j \in With(d.email) : i = j
  BY DEF With, IInv, EmailsDistinct
<1>5. "save" \in Calls
  BY DEF Calls
<1>6. Arrive(q, "save", s)
  BY <1>1
<1> HIDE DEF s
<1> QED
  BY <1>2, <1>3, <1>4, <1>5, <1>6, Arrivals

LEMMA OtherArrivals ==
  ASSUME IInv, NEW q \in Requests,
         BulkDelete(q) \/ BulkRestore(q) \/ Purge(q) \/ Register(q)
  PROVE  IInv'
<1>1. PICK kind \in Kinds, d \in Dto, ids \in SUBSET Ids, call \in { "lock", "regs", "upsert" } :
         /\ call = "upsert" => d.email # Unset
         /\ Arrive(q, call, Starting(kind, d, {}, ids))
  <2> USE DEF Stored, Kinds
  <2>1. CASE BulkDelete(q) \/ BulkRestore(q)
    BY <2>1, NoRequestFits DEF BulkDelete, BulkRestore, Bulk
  <2>2. CASE Purge(q)
    BY <2>2, NoRequestFits DEF Purge
  <2>3. CASE Register(q)
    BY <2>3, DtosAssumption DEF Register
  <2> QED
    BY <2>1, <2>2, <2>3
<1> DEFINE s == Starting(kind, d, {}, ids)
<1>2. s \in Request /\ s.held = {} /\ s.dto = d /\ s.row = NoRow
  BY StartingFits
<1>3. call \in Calls /\ call \notin { "save", "conflict", "set" }
  BY DEF Calls
<1>4. Arrive(q, call, s) /\ (call = "upsert" => d.email # Unset)
  BY <1>1
<1> HIDE DEF s
<1> QED
  BY <1>2, <1>3, <1>4, Arrivals

---------------------------------------------------------------------------
\* The invariant.

LEMMA StepKeeps ==
  ASSUME IInv, NEW q \in Requests, Step(q)
  PROVE  IInv'
<1>1. CASE CheckEmail(q)
  BY <1>1, CheckEmailKeeps
<1>2. CASE SaveRow(q)
  BY <1>2, SaveRowKeeps
<1>3. CASE SaveRowFails(q) \/ InsertRowFails(q) \/ NoteDeletionFails(q) \/ SetRowFails(q)
           \/ PurgeFails(q) \/ ReviseFails(q) \/ InsertRegistrationFails(q)
           \/ RewriteRegistrationFails(q)
  <2>1. Fail(q)
    BY <1>3 DEF SaveRowFails, InsertRowFails, NoteDeletionFails, SetRowFails, PurgeFails,
       ReviseFails, InsertRegistrationFails, RewriteRegistrationFails
  <2> QED
    BY <2>1, Endings
<1>4. CASE InsertRow(q) \/ UpsertNew(q)
  BY <1>4, InsertsKeep
<1>5. CASE Revise(q)
  BY <1>5, ReviseKeeps
<1>6. CASE NoteDeletion(q) \/ DeleteRegistrations(q) \/ UpsertRead(q) \/ FindRegistration(q)
  BY <1>6, OtherReadsKeep
<1>7. CASE Drop(q)
  BY <1>7, DropKeeps
<1>8. CASE SetRow(q)
  BY <1>8, SetRowKeeps
<1>9. CASE LockRow(q)
  BY <1>9, LockRowKeeps
<1>10. CASE BulkSet(q)
  BY <1>10, BulkSetKeeps
<1>11. CASE PurgeRows(q)
  BY <1>11, PurgeRowsKeeps
<1>12. CASE UpsertFound(q)
  BY <1>12, UpsertFoundKeeps
<1>13. CASE InsertRegistration(q) \/ RewriteRegistration(q)
  BY <1>13, RegistersKeep
<1>14. CASE ReviseUnchanged(q)
  BY <1>14, ReviseUnchangedKeeps
<1> QED
  BY <1>1, <1>2, <1>3, <1>4, <1>5, <1>6, <1>7, <1>8, <1>9, <1>10, <1>11, <1>12,
     <1>13, <1>14 DEF Step

LEMMA NextKeeps ==
  ASSUME IInv, Next
  PROVE  IInv'
<1>1. PICK q \in Requests : Begin(q) \/ Step(q) \/ Abort(q) \/ Victim(q)
  BY DEF Next
<1>2. CASE Begin(q)
  BY <1>2, CreateKeeps, SingleArrivals, OtherArrivals DEF Begin
<1>3. CASE Step(q)
  BY <1>3, StepKeeps
<1>4. CASE Abort(q) \/ Victim(q)
  <2>1. Fail(q) \/ Read(q, "idle", NoRequest)
    BY <1>4 DEF Abort, Victim
  <2> QED
    BY <2>1, Endings
<1> QED
  BY <1>1, <1>2, <1>3, <1>4

LEMMA InitFits ==
  ASSUME Init
  PROVE  IInv
<1>1. TypeOK
  <2>1. started \in 0 .. MaxStarted /\ alone \in BOOLEAN
    BY AttendeesAssumption DEF Init
  <2>2. pc \in [Requests -> Calls] /\ req \in [Requests -> Request]
    BY NoRequestFits DEF Init, Calls
  <2>3. /\ att \in [Ids -> Row \cup { NoRow }] /\ rev \in [Ids -> Row \cup { NoRow }]
        /\ reg \subseteq Ids /\ used \subseteq Ids /\ silent \subseteq Ids
        /\ surprised \subseteq Kinds
    BY TablesAssumption DEF Init, Stored
  <2> QED
    BY <2>1, <2>2, <2>3 DEF TypeOK
<1>2. \A q \in Requests : pc[q] = "idle" /\ req[q] = NoRequest
  BY DEF Init
<1>3. SlotsOK
  BY <1>2, Emptied DEF SlotsOK, SlotOK, Apart, Wrote
<1>4. EmailsDistinct /\ Stored \subseteq used
  BY TablesAssumption DEF Init, EmailsDistinct, Stored
<1> QED
  BY <1>1, <1>3, <1>4 DEF IInv

LEMMA Inductive ==
  ASSUME IInv, [Next]_vars
  PROVE  IInv'
<1>1. CASE Next
  BY <1>1, NextKeeps
<1>2. CASE UNCHANGED vars
  BY <1>2 DEF vars, IInv, TypeOK, SlotsOK, SlotOK, Apart, EmailsDistinct, Stored
<1> QED
  BY <1>1, <1>2

LEMMA Invariant == Spec => []IInv
  BY InitFits, Inductive, PTL DEF Spec

\* The variables keep their types.
THEOREM TypeCorrect == Spec => []TypeOK
<1>1. IInv => TypeOK
  BY DEF IInv
<1> QED
  BY <1>1, Invariant, PTL

\* However requests overlap, no two attendees ever have one email: whoever puts
\* an email into a row either finds the unique index without it or waits for
\* those who have put it there.
THEOREM OneRowPerEmail == Spec => []EmailsDistinct
<1>1. IInv => EmailsDistinct
  BY DEF IInv
<1> QED
  BY <1>1, Invariant, PTL

---------------------------------------------------------------------------
\* What commits changes, of rows, revisions and registrations.

Commit(q) ==
    \/ Revise(q) \/ ReviseUnchanged(q) \/ InsertRegistration(q) \/ RewriteRegistration(q)
    \/ SetRow(q) \/ BulkSet(q) \/ Drop(q) \/ PurgeRows(q)

LEMMA OnlyCommitsChange ==
  ASSUME [Next]_vars
  PROVE  \/ UNCHANGED <<att, rev, reg, silent>>
         \/ \E q \in Requests : Commit(q)
<1>1. CASE UNCHANGED vars
  BY <1>1 DEF vars
<1>2. ASSUME NEW q \in Requests, Begin(q)
      PROVE  UNCHANGED <<att, rev, reg, silent>>
  BY <1>2 DEF Begin, Create, Update, Remove, ForcedRemove, Restore, Edit, BulkDelete,
     BulkRestore, Bulk, Purge, Register, Arrive
<1>3. ASSUME NEW q \in Requests, Step(q), ~Commit(q)
      PROVE  UNCHANGED <<att, rev, reg, silent>>
  BY <1>3 DEF Step, Commit, CheckEmail, SaveRow, SaveRowFails, InsertRow, InsertRowFails,
     NoteDeletion, NoteDeletionFails, SetRowFails, DeleteRegistrations, LockRow, PurgeFails,
     ReviseFails, UpsertFound, UpsertNew, UpsertRead, FindRegistration,
     InsertRegistrationFails, RewriteRegistrationFails, Draw, Read, Fail, Rows
<1>4. ASSUME NEW q \in Requests, Abort(q) \/ Victim(q)
      PROVE  UNCHANGED <<att, rev, reg, silent>>
  BY <1>4 DEF Abort, Victim, Read, Fail, Rows
<1> QED
  BY <1>1, <1>2, <1>3, <1>4 DEF Next

\* One row is put where it was found or drawn.
LEMMA RowPut ==
  ASSUME IInv, NEW q \in Requests,
         Revise(q) \/ InsertRegistration(q) \/ RewriteRegistration(q) \/ SetRow(q)
  PROVE  \/ UNCHANGED <<att, rev, reg, silent>>
         \/ \E i \in Ids, row \in Row :
               /\ att' = [att EXCEPT ![i] = row]
               /\ \/ rev' = [rev EXCEPT ![i] = row] /\ reg' = reg
                  \/ /\ rev' = rev /\ reg' \subseteq reg \cup {i}
                     /\ att' = att \/ silent' = silent \cup {i}
               /\ silent \ {i} = silent' \ {i}
               /\ att' = att => silent' = silent \/ rev'[i] = row \/ i \in silent'
<1>1. TypeOK /\ SlotOK(pc[q], req[q])
  BY DEF IInv, SlotsOK
<1>2. req[q].id \subseteq Ids /\ req[q].dto \in Dto
  BY <1>1, Fields DEF TypeOK
<1>3. CASE Revise(q)
  <2>1. req[q].row \in Row
    BY <1>1, <1>3 DEF Revise, Written, SlotOK, Wrote
  <2>2. PICK i \in req[q].id :
           /\ att' = [att EXCEPT ![i] = req[q].row]
           /\ rev' = [rev EXCEPT ![i] = req[q].row]
           /\ silent' = silent \ {i} /\ reg' = reg
    BY <1>3 DEF Revise, CommitRow
  <2>3. rev'[i] = req[q].row
    BY <1>1, <1>2, <2>2 DEF TypeOK
  <2> QED
    BY <1>2, <2>1, <2>2, <2>3
<1>4. CASE InsertRegistration(q) \/ RewriteRegistration(q)
  <2>1. PICK i \in req[q].id :
           /\ CommitAttendee(q, i) /\ reg' \subseteq reg \cup {i}
           /\ reg' = reg \/ i \in Stored \/ Written(q)
    BY <1>4 DEF InsertRegistration, RewriteRegistration
  <2>2. /\ rev' = rev
        /\ att' = IF Written(q) THEN [att EXCEPT ![i] = req[q].row] ELSE att
        /\ silent' = IF Written(q) THEN silent \cup {i} ELSE silent
    BY <2>1 DEF CommitAttendee
  <2>3. CASE Written(q)
    <3>1. req[q].row \in Row
      BY <1>1, <2>3 DEF Written, SlotOK, Wrote
    <3> QED
      BY <1>2, <2>1, <2>2, <2>3, <3>1
  <2>4. CASE ~Written(q) /\ i \in Stored
    <3>1. att[i] \in Row /\ i \in Ids
      BY <1>1, <2>4, StoredRows
    <3>2. att' = [att EXCEPT ![i] = att[i]]
      BY <1>1, <2>2, <2>4, <3>1 DEF TypeOK
    <3> QED
      BY <2>1, <2>2, <2>4, <3>1, <3>2
  <2>5. CASE ~Written(q) /\ reg' = reg
    BY <2>2, <2>5
  <2> QED
    BY <2>1, <2>3, <2>4, <2>5
<1>5. CASE SetRow(q)
  <2>1. PICK i \in req[q].id \cap Stored :
           /\ att' = [att EXCEPT ![i] = Merge(att[i], req[q].dto)]
           /\ silent' = silent \cup {i}
    BY <1>5 DEF SetRow
  <2>2. Merge(att[i], req[q].dto) \in Row
    BY <1>1, <1>2, <2>1, StoredRows, MergedRow
  <2>3. rev' = rev /\ reg' = reg
    BY <1>5 DEF SetRow
  <2> QED
    BY <1>2, <2>1, <2>2, <2>3
<1> QED
  BY <1>3, <1>4, <1>5

LEMMA RowsDeleted ==
  ASSUME IInv, NEW q \in Requests, Drop(q) \/ PurgeRows(q)
  PROVE  \E ids \in SUBSET Ids :
            /\ att' = [i \in Ids |-> IF i \in ids THEN NoRow ELSE att[i]]
            /\ rev' = [i \in Ids |-> IF i \in ids THEN NoRow ELSE rev[i]]
            /\ reg' = reg \ ids /\ silent' = silent \ ids
<1>1. req[q].id \in SUBSET Ids /\ req[q].held \in SUBSET Ids
  BY Fields DEF IInv, TypeOK
<1>2. DeleteRows(q, req[q].id) \/ DeleteRows(q, req[q].held)
  BY DEF Drop, PurgeRows
<1> QED
  BY <1>1, <1>2 DEF DeleteRows

LEMMA FlagsSet ==
  ASSUME IInv, NEW q \in Requests, BulkSet(q)
  PROVE  /\ \A i \in Ids \ req[q].held : att'[i] = att[i]
         /\ silent' = silent \cup req[q].held /\ rev' = rev /\ reg' = reg
         /\ Stored \subseteq Stored'
<1> DEFINE flag == IF req[q].kind = "bulkDelete" THEN "no" ELSE "yes"
<1>1. /\ att' = [i \in Ids |-> IF i \in req[q].held
                              THEN [att[i] EXCEPT !.active = flag] ELSE att[i]]
      /\ silent' = silent \cup req[q].held /\ rev' = rev /\ reg' = reg
  BY DEF BulkSet
<1>2. flag \in Flags
  BY DEF Flags
<1> HIDE DEF flag
<1>3. ASSUME NEW i \in Stored PROVE i \in Stored'
  <2>1. att[i] \in Row /\ i \in Ids
    BY StoredRows DEF IInv
  <2>2. att'[i] \in Row
    BY <1>1, <1>2, <2>1 DEF Row
  <2> QED
    BY <2>1, <2>2, NoRowIsNone DEF Stored
<1> QED
  BY <1>1, <1>3

\* A revision is written in the transaction that writes the row, and shows what
\* it wrote: no overlap of requests makes the last one show anything else, as long
\* as it is not of a request that gave no field and has only read the row.
THEOREM RevisionsShowRows == Spec => []LastRevisionShowsRow
<1>1. Init => LastRevisionShowsRow
  BY DEF Init, LastRevisionShowsRow
<1>2. IInv /\ LastRevisionShowsRow /\ [Next]_vars => LastRevisionShowsRow'
  <2> SUFFICES ASSUME IInv, LastRevisionShowsRow, [Next]_vars,
                      NEW i \in Stored', i \notin silent'
               PROVE  rev'[i] = att'[i]
    BY DEF LastRevisionShowsRow
  <2>1. /\ i \in Ids /\ att'[i] # NoRow
        /\ att \in [Ids -> Row \cup { NoRow }] /\ rev \in [Ids -> Row \cup { NoRow }]
    BY DEF Stored, IInv, TypeOK
  <2>2. att'[i] = att[i] /\ rev'[i] = rev[i] /\ i \notin silent => rev'[i] = att'[i]
    BY <2>1 DEF LastRevisionShowsRow, Stored
  <2>3. CASE UNCHANGED <<att, rev, reg, silent>>
    BY <2>2, <2>3
  <2>4. ASSUME NEW q \in Requests,
               Revise(q) \/ InsertRegistration(q) \/ RewriteRegistration(q) \/ SetRow(q)
        PROVE  rev'[i] = att'[i]
    <3>1. CASE UNCHANGED <<att, rev, reg, silent>>
      BY <2>2, <3>1
    <3>2. ASSUME NEW j \in Ids, NEW row \in Row,
                 att' = [att EXCEPT ![j] = row],
                 \/ rev' = [rev EXCEPT ![j] = row] /\ reg' = reg
                 \/ rev' = rev /\ (att' = att \/ silent' = silent \cup {j}),
                 silent \ {j} = silent' \ {j},
                 att' = att => silent' = silent \/ rev'[j] = row \/ j \in silent'
          PROVE  rev'[i] = att'[i]
      <4>1. CASE i = j
        BY <2>1, <2>2, <3>2, <4>1
      <4>2. CASE i # j
        BY <2>1, <2>2, <3>2, <4>2
      <4> QED
        BY <4>1, <4>2
    <3> QED
      BY <2>4, <3>1, <3>2, RowPut
  <2>7. ASSUME NEW q \in Requests, ReviseUnchanged(q)
        PROVE  rev'[i] = att'[i]
    <3>1. PICK j \in req[q].id \cap Stored :
             rev' = [rev EXCEPT ![j] = req[q].row] /\ silent' = silent \cup {j} /\ att' = att
      BY <2>7 DEF ReviseUnchanged
    <3>2. i # j /\ i \notin silent
      BY <3>1
    <3> QED
      BY <2>1, <2>2, <3>1, <3>2
  <2>5. ASSUME NEW q \in Requests, Drop(q) \/ PurgeRows(q)
        PROVE  rev'[i] = att'[i]
    <3>1. PICK ids \in SUBSET Ids :
            /\ att' = [j \in Ids |-> IF j \in ids THEN NoRow ELSE att[j]]
            /\ rev' = [j \in Ids |-> IF j \in ids THEN NoRow ELSE rev[j]]
            /\ reg' = reg \ ids /\ silent' = silent \ ids
      BY <2>5, RowsDeleted
    <3> QED
      BY <2>1, <2>2, <3>1
  <2>6. ASSUME NEW q \in Requests, BulkSet(q)
        PROVE  rev'[i] = att'[i]
    BY <2>1, <2>2, <2>6, FlagsSet
  <2> QED
    BY <2>3, <2>4, <2>5, <2>6, <2>7, OnlyCommitsChange DEF Commit
<1> QED
  BY <1>1, <1>2, Invariant, PTL DEF Spec

\* Whatever is deleted while registrations, imports and revisions are being
\* written, none of them outlives its attendee.
THEOREM NoOrphans == Spec => []NothingLeftBehind
<1>1. Init => NothingLeftBehind
  BY DEF Init, NothingLeftBehind
<1>2. IInv /\ NothingLeftBehind /\ [Next]_vars => NothingLeftBehind'
  <2> SUFFICES ASSUME IInv, NothingLeftBehind, [Next]_vars PROVE NothingLeftBehind'
    OBVIOUS
  <2>0. reg' \subseteq Ids
    <3>1. IInv'
      BY Inductive
    <3> QED
      BY <3>1 DEF IInv, TypeOK
  <2> SUFFICES ASSUME NEW i \in Ids, i \in reg' \/ rev'[i] # NoRow
               PROVE  att'[i] # NoRow
    BY <2>0 DEF NothingLeftBehind, Stored
  <2>1. att \in [Ids -> Row \cup { NoRow }] /\ rev \in [Ids -> Row \cup { NoRow }]
    BY DEF IInv, TypeOK
  <2>2. (i \in reg \/ rev[i] # NoRow) => att[i] # NoRow
    BY DEF NothingLeftBehind, Stored
  <2>3. CASE UNCHANGED <<att, rev, reg, silent>>
    BY <2>2, <2>3
  <2>4. ASSUME NEW q \in Requests,
               Revise(q) \/ InsertRegistration(q) \/ RewriteRegistration(q) \/ SetRow(q)
        PROVE  att'[i] # NoRow
    <3>1. CASE UNCHANGED <<att, rev, reg, silent>>
      BY <2>2, <3>1
    <3>2. ASSUME NEW j \in Ids, NEW row \in Row,
                 att' = [att EXCEPT ![j] = row],
                 \/ rev' = [rev EXCEPT ![j] = row] /\ reg' = reg
                 \/ rev' = rev /\ reg' \subseteq reg \cup {j}
          PROVE  att'[i] # NoRow
      <4>1. CASE i = j
        BY <2>1, <3>2, <4>1, NoRowIsNone
      <4>2. CASE i # j
        BY <2>1, <2>2, <3>2, <4>2
      <4> QED
        BY <4>1, <4>2
    <3> QED
      BY <2>4, <3>1, <3>2, RowPut
  <2>7. ASSUME NEW q \in Requests, ReviseUnchanged(q)
        PROVE  att'[i] # NoRow
    <3>1. PICK j \in Stored :
             rev' = [rev EXCEPT ![j] = req[q].row] /\ att' = att /\ reg' = reg
      BY <2>7 DEF ReviseUnchanged
    <3>2. att[j] # NoRow
      BY DEF Stored
    <3> QED
      BY <2>1, <2>2, <3>1, <3>2
  <2>5. ASSUME NEW q \in Requests, Drop(q) \/ PurgeRows(q)
        PROVE  att'[i] # NoRow
    <3>1. PICK ids \in SUBSET Ids :
            /\ att' = [j \in Ids |-> IF j \in ids THEN NoRow ELSE att[j]]
            /\ rev' = [j \in Ids |-> IF j \in ids THEN NoRow ELSE rev[j]]
            /\ reg' = reg \ ids /\ silent' = silent \ ids
      BY <2>5, RowsDeleted
    <3> QED
      BY <2>2, <3>1
  <2>6. ASSUME NEW q \in Requests, BulkSet(q)
        PROVE  att'[i] # NoRow
    BY <2>2, <2>6, FlagsSet DEF Stored
  <2> QED
    BY <2>3, <2>4, <2>5, <2>6, <2>7, OnlyCommitsChange DEF Commit
<1> QED
  BY <1>1, <1>2, Invariant, PTL DEF Spec

---------------------------------------------------------------------------
\* One request at a time: what it has looked up still holds when it writes.

Foreseen(call, r) ==
    /\ call = "save" \/ (call = "set" /\ r.kind # "edit") =>
          \A i \in r.id : i \in Stored /\ ~Taken(Merge(att[i], r.dto).email, i)
    /\ call = "save" /\ r.id = {} => With(r.dto.email) = {}
    /\ call = "conflict" => r.id \subseteq Stored
    /\ call = "revise" /\ ~Wrote(r) => r.id \cap Stored # {}
    /\ call \in { "find", "insert" } /\ ~Wrote(r) => r.id \subseteq Stored
    /\ call = "insert" => r.id \cap reg = {}
    /\ call = "rewrite" => r.id \cap reg # {}
    /\ call = "note" => r.id \cap Stored # {}
    /\ call \in { "regs", "lock" } /\ r.kind = "purge" => r.ids \cap Stored # {}

OneBusy == \A p, q \in Requests : pc[p] # "idle" /\ pc[q] # "idle" => p = q

AloneInv ==
    /\ \A q \in Requests : pc[q] = "idle" => req[q] = NoRequest
    /\ alone => /\ OneBusy
                /\ \A q \in Requests : Foreseen(pc[q], req[q])

\* What arrives or goes on keeps the rows, or has ended.
LEMMA AloneAfter ==
  ASSUME IInv, AloneInv, NEW q \in Requests, NEW call, NEW r,
         pc' = [pc EXCEPT ![q] = call], req' = [req EXCEPT ![q] = r],
         alone' => alone /\ \A p \in Requests : p # q => pc[p] = "idle",
         \/ call = "idle" /\ r = NoRequest
         \/ call # "idle" /\ att' = att /\ reg' = reg /\ (alone => Foreseen(call, r))
  PROVE  AloneInv'
<1>1. /\ pc'[q] = call /\ req'[q] = r
      /\ \A p \in Requests : p # q => pc'[p] = pc[p] /\ req'[p] = req[p]
  BY DEF IInv, TypeOK
<1>2. ASSUME alone', NEW p \in Requests PROVE Foreseen(pc[p], req[p])'
  <2>1. CASE pc'[p] = "idle"
    BY <2>1 DEF Foreseen
  <2>2. CASE pc'[p] # "idle"
    <3>1. p = q /\ call # "idle" /\ att' = att /\ reg' = reg /\ Foreseen(call, r)
      BY <1>1, <1>2, <2>2
    <3> QED
      BY <1>1, <3>1 DEF Foreseen, Stored, Taken, With
  <2> QED
    BY <2>1, <2>2
<1>3. alone' => OneBusy'
  BY <1>1 DEF OneBusy
<1>4. \A p \in Requests : pc'[p] = "idle" => req'[p] = NoRequest
  BY <1>1 DEF AloneInv
<1>5. alone' => \A p \in Requests : Foreseen(pc[p], req[p])'
  BY <1>2
<1> QED
  BY <1>3, <1>4, <1>5 DEF AloneInv

LEMMA ArrivesAlone ==
  ASSUME IInv, AloneInv, NEW q \in Requests, NEW call, NEW r, call # "idle",
         Arrive(q, call, r), Foreseen(call, r)
  PROVE  AloneInv' /\ surprised' = surprised /\ (alone' => alone)
<1>1. /\ pc' = [pc EXCEPT ![q] = call] /\ req' = [req EXCEPT ![q] = r]
      /\ alone' = (alone /\ \A p \in Requests : pc[p] = "idle")
      /\ att' = att /\ reg' = reg /\ surprised' = surprised
  BY DEF Arrive
<1> QED
  BY <1>1, AloneAfter

LEMMA BusyAlone ==
  ASSUME AloneInv, NEW q \in Requests, pc[q] # "idle", alone
  PROVE  Foreseen(pc[q], req[q]) /\ \A p \in Requests : p # q => pc[p] = "idle"
  BY DEF AloneInv, OneBusy

LEMMA ReadsAlone ==
  ASSUME IInv, AloneInv, NEW q \in Requests, NEW call, NEW r, call # "idle",
         pc[q] # "idle", Goto(q, call, r), att' = att, reg' = reg,
         alone => Foreseen(call, r)
  PROVE  AloneInv'
<1>1. pc' = [pc EXCEPT ![q] = call] /\ req' = [req EXCEPT ![q] = r] /\ alone' = alone
  BY DEF Goto
<1> QED
  BY <1>1, BusyAlone, AloneAfter

LEMMA EndsAlone ==
  ASSUME IInv, AloneInv, NEW q \in Requests, pc[q] # "idle", End(q)
  PROVE  AloneInv'
<1>1. /\ pc' = [pc EXCEPT ![q] = "idle"] /\ req' = [req EXCEPT ![q] = NoRequest]
      /\ alone' = alone
  BY DEF End, Goto
<1> QED
  BY <1>1, BusyAlone, AloneAfter

\* The fields of a request that arrives.
LEMMA StartingFields ==
  ASSUME NEW kind, NEW d, NEW id, NEW ids
  PROVE  /\ Starting(kind, d, id, ids).kind = kind /\ Starting(kind, d, id, ids).dto = d
         /\ Starting(kind, d, id, ids).id = id /\ Starting(kind, d, id, ids).ids = ids
  BY DEF Starting, NoRequest

\* A row keeps its email or is given one that no other has.
LEMMA NotTaken ==
  ASSUME IInv, NEW i \in Stored, NEW d,
         d.email = Unset \/ With(d.email) \ {i} = {}
  PROVE  ~Taken(Merge(att[i], d).email, i)
<1>1. Merge(att[i], d).email = Given(d.email, att[i].email)
  BY DEF Merge
<1>2. With(att[i].email) \ {i} = {}
  BY DEF IInv, EmailsDistinct, With
<1> QED
  BY <1>1, <1>2 DEF Given, Taken

LEMMA BeginsAlone ==
  ASSUME IInv, AloneInv, NEW q \in Requests, Begin(q)
  PROVE  AloneInv' /\ surprised' = surprised /\ (alone' => alone)
<1>1. ASSUME NEW call \in { "save", "conflict", "note", "set", "lock", "regs", "upsert" },
             NEW kind, NEW d, NEW id, NEW ids,
             Arrive(q, call, Starting(kind, d, id, ids)),
             call = "save" \/ (call = "set" /\ kind # "edit") =>
                 \A i \in id : i \in Stored /\ (d.email = Unset \/ With(d.email) \ {i} = {}),
             call = "save" /\ id = {} => With(d.email) = {},
             call = "conflict" => id \subseteq Stored,
             call = "note" => id \cap Stored # {},
             call \in { "regs", "lock" } /\ kind = "purge" => ids \cap Stored # {}
      PROVE  AloneInv' /\ surprised' = surprised /\ (alone' => alone)
  <2> DEFINE r == Starting(kind, d, id, ids)
  <2>1. r.kind = kind /\ r.dto = d /\ r.id = id /\ r.ids = ids /\ Arrive(q, call, r)
    BY <1>1, StartingFields
  <2> HIDE DEF r
  <2>2. Foreseen(call, r)
    BY <1>1, <2>1, NotTaken DEF Foreseen
  <2> QED
    BY <2>1, <2>2, ArrivesAlone
<1>2. CASE Create(q)
  <2>1. PICK d \in Dtos :
           Arrive(q, "save", Starting("create", ToMerge(d, With(d.email)), With(d.email), {}))
    BY <1>2 DEF Create
  <2>2. \A i \in With(d.email) : i \in Stored
    BY DEF With
  <2>3. With(d.email) # {} => ToMerge(d, With(d.email)).email = Unset
    BY DtosAssumption DEF ToMerge, Dto
  <2>4. With(d.email) = {} => ToMerge(d, With(d.email)) = d
    BY DEF ToMerge
  <2> QED
    BY <1>1, <2>1, <2>2, <2>3, <2>4
<1>3. CASE Update(q)
  <2>1. PICK i \in Stored, d \in Dtos :
           Arrive(q, IF d.email \in { Unset, att[i].email } THEN "save" ELSE "conflict",
                  Starting("update", d, {i}, {}))
    BY <1>3 DEF Update
  <2>2. With(att[i].email) \ {i} = {}
    BY DEF IInv, EmailsDistinct, With
  <2>3. CASE d.email \in { Unset, att[i].email }
    BY <1>1, <2>1, <2>2, <2>3
  <2>4. CASE d.email \notin { Unset, att[i].email }
    BY <1>1, <2>1, <2>4
  <2> QED
    BY <2>3, <2>4
<1>4. CASE Remove(q)
  <2>1. PICK i \in Stored :
           Arrive(q, "save", Starting("remove", [NoDto EXCEPT !.active = "no"], {i}, {}))
    BY <1>4 DEF Remove
  <2>2. [NoDto EXCEPT !.active = "no"].email = Unset
    BY DEF NoDto
  <2> QED
    BY <1>1, <2>1, <2>2
<1>5. CASE ForcedRemove(q)
  BY <1>1, <1>5 DEF ForcedRemove
<1>6. CASE Restore(q)
  <2>1. PICK i \in Stored :
           Arrive(q, "set", Starting("restore", [NoDto EXCEPT !.active = "yes"], {i}, {}))
    BY <1>6 DEF Restore
  <2>2. [NoDto EXCEPT !.active = "yes"].email = Unset
    BY DEF NoDto
  <2> QED
    BY <1>1, <2>1, <2>2
<1>7. CASE Edit(q)
  BY <1>1, <1>7 DEF Edit
<1>8. CASE BulkDelete(q) \/ BulkRestore(q)
  BY <1>1, <1>8 DEF BulkDelete, BulkRestore, Bulk
<1>9. CASE Purge(q)
  BY <1>1, <1>9 DEF Purge
<1>10. CASE Register(q)
  BY <1>1, <1>10 DEF Register
<1> QED
  BY <1>2, <1>3, <1>4, <1>5, <1>6, <1>7, <1>8, <1>9, <1>10 DEF Begin

\* The steps that the database does not refuse.
LEMMA StepsAlone ==
  ASSUME IInv, AloneInv, NEW q \in Requests,
         \/ CheckEmail(q) \/ SaveRow(q) \/ InsertRow(q) \/ Revise(q) \/ NoteDeletion(q)
         \/ Drop(q) \/ SetRow(q) \/ DeleteRegistrations(q) \/ LockRow(q) \/ BulkSet(q)
         \/ PurgeRows(q) \/ UpsertFound(q) \/ UpsertNew(q) \/ UpsertRead(q)
         \/ FindRegistration(q) \/ InsertRegistration(q) \/ RewriteRegistration(q)
         \/ ReviseUnchanged(q) \/ Abort(q)
  PROVE  AloneInv' /\ surprised' = surprised /\ alone' = alone
<1>a. pc[q] # "idle" /\ surprised' = surprised /\ alone' = alone
  BY DEF CheckEmail, SaveRow, InsertRow, Revise, NoteDeletion, Drop, SetRow,
         DeleteRegistrations, LockRow, BulkSet, PurgeRows, UpsertFound, UpsertNew,
         UpsertRead, FindRegistration, InsertRegistration, RewriteRegistration,
         ReviseUnchanged, Abort, Read, Draw, CommitRow, CommitAttendee, DeleteRows, End,
         Goto, Locked
<1>b. req[q] \in Request
  BY DEF IInv, TypeOK
<1>1. CASE End(q)
  BY <1>1, <1>a, EndsAlone
<1>2. CASE CheckEmail(q)
  <2>1. CASE With(req[q].dto.email) \ req[q].id = {}
    <3>1. pc[q] = "conflict" /\ Read(q, "save", req[q])
      BY <1>2, <2>1 DEF CheckEmail
    <3>2. req[q].id # {} /\ \A i, j \in req[q].id : i = j
      BY <3>1 DEF IInv, SlotsOK, SlotOK
    <3>3. alone => \A i \in req[q].id : i \in Stored /\ With(req[q].dto.email) \ {i} = {}
      BY <1>a, <2>1, <3>1, <3>2, BusyAlone DEF Foreseen
    <3>4. alone => Foreseen("save", req[q])
      BY <3>2, <3>3, NotTaken DEF Foreseen
    <3> QED
      BY <1>a, <3>1, <3>4, ReadsAlone DEF Read, Rows
  <2>2. CASE With(req[q].dto.email) \ req[q].id # {}
    BY <1>1, <1>2, <2>2 DEF CheckEmail, Read, End
  <2> QED
    BY <2>1, <2>2
<1>c. req[q].dto \in Dto
  BY <1>b, Fields
<1>3. CASE SaveRow(q) \/ UpsertFound(q)
  <2>1. PICK r \in Request :
           /\ r.id \cap Stored # {} /\ (r.id \subseteq Stored \/ Goto(q, "revise", r))
           /\ Goto(q, "revise", r) \/ Goto(q, "find", r)
    <3>1. CASE SaveRow(q)
      <4>1. PICK i \in req[q].id \cap Stored :
               Read(q, "revise", [req[q] EXCEPT !.row = Merge(att[i], req[q].dto)])
        BY <3>1 DEF SaveRow
      <4>2. Merge(att[i], req[q].dto) \in Row
        BY <1>c, <4>1, StoredRows, MergedRow DEF IInv
      <4>3. PICK row \in Row : row = Merge(att[i], req[q].dto)
        BY <4>2
      <4>4. [req[q] EXCEPT !.row = row] \in Request /\ [req[q] EXCEPT !.row = row].id = req[q].id
        BY <1>b DEF Request
      <4> QED
        BY <4>1, <4>3, <4>4 DEF Read
    <3>2. CASE UpsertFound(q)
      <4>1. PICK i \in With(req[q].dto.email) :
               Read(q, "find", WroteReq(q, i, Merge(att[i], req[q].dto)))
        BY <3>2 DEF UpsertFound, WroteReq
      <4>2. i \in Stored /\ i \in Ids /\ Merge(att[i], req[q].dto) \in Row
        BY <1>c, <4>1, StoredRows, MergedRow DEF IInv, With
      <4>3. PICK row \in Row : row = Merge(att[i], req[q].dto)
        BY <4>2
      <4>4. WroteReq(q, i, row) \in Request /\ WroteReq(q, i, row).id = {i}
        BY <4>2, WroteFits DEF IInv
      <4> QED
        BY <4>1, <4>2, <4>3, <4>4 DEF Read
    <3> QED
      BY <1>3, <3>1, <3>2
  <2>2. att' = att /\ reg' = reg
    BY <1>3 DEF SaveRow, UpsertFound, Read, Rows
  <2>3. CASE Goto(q, "revise", r)
    <3>1. Foreseen("revise", r)
      BY <2>1 DEF Foreseen
    <3> QED
      BY <1>a, <2>2, <2>3, <3>1, ReadsAlone
  <2>4. CASE Goto(q, "find", r) /\ r.id \subseteq Stored
    <3>1. Foreseen("find", r)
      BY <2>4 DEF Foreseen
    <3> QED
      BY <1>a, <2>2, <2>4, <3>1, ReadsAlone
  <2> QED
    BY <2>1, <2>3, <2>4
<1>7. CASE InsertRow(q) \/ UpsertNew(q)
  <2>1. PICK call \in { "revise", "find" } : Draw(q, call)
    BY <1>7 DEF InsertRow, UpsertNew
  <2>2. req[q].dto.email # Unset
    BY <1>7 DEF InsertRow, UpsertNew, IInv, SlotsOK, SlotOK
  <2>3. PICK row \in Row : row = NewRow(req[q].dto)
    BY <1>c, <2>2, FreshRow
  <2>4. PICK i \in Ids : Goto(q, call, WroteReq(q, i, row)) /\ UNCHANGED Rows
    BY <2>1, <2>3 DEF Draw, WroteReq
  <2> DEFINE r == WroteReq(q, i, row)
  <2>5. r.row = row /\ r.dto = req[q].dto
    BY <1>b DEF WroteReq, Request
  <2>6. Goto(q, call, r) /\ att' = att /\ reg' = reg
    BY <2>4 DEF Rows
  <2> HIDE DEF r
  <2>7. Wrote(r)
    BY <2>2, <2>5, NoRowIsNone DEF Wrote, NoDto
  <2>8. Foreseen(call, r)
    BY <2>7 DEF Foreseen
  <2> QED
    BY <1>a, <2>6, <2>8, ReadsAlone
<1>8. CASE UpsertRead(q)
  <2> DEFINE found == With(req[q].dto.email)
             r == [req[q] EXCEPT !.id = found]
  <2>1. /\ IF found = {} THEN Goto(q, "save", r) ELSE Goto(q, "find", r)
        /\ att' = att /\ reg' = reg
    BY <1>8 DEF UpsertRead, Read, Rows
  <2>2. r.id = found /\ r.dto = req[q].dto
    BY <1>b DEF Request
  <2>3. found \subseteq Stored
    BY DEF With
  <2> HIDE DEF r
  <2>4. CASE found = {}
    <3>1. Foreseen("save", r)
      BY <2>2, <2>4 DEF Foreseen
    <3> QED
      BY <1>a, <2>1, <2>4, <3>1, ReadsAlone
  <2>5. CASE found # {}
    <3>1. Foreseen("find", r)
      BY <2>2, <2>3 DEF Foreseen
    <3> QED
      BY <1>a, <2>1, <2>5, <3>1, ReadsAlone
  <2> QED
    BY <2>4, <2>5
<1>9. CASE NoteDeletion(q)
  <2>1. Goto(q, "drop", req[q]) /\ att' = att /\ reg' = reg
    BY <1>9 DEF NoteDeletion, Read, Rows
  <2>2. Foreseen("drop", req[q])
    BY DEF Foreseen
  <2> QED
    BY <1>a, <2>1, <2>2, ReadsAlone
<1>10. CASE FindRegistration(q)
  <2>1. pc[q] = "find" /\ att' = att /\ reg' = reg
    BY <1>10 DEF FindRegistration, Read, Rows
  <2>2. alone => (~Wrote(req[q]) => req[q].id \subseteq Stored)
    BY <1>a, <2>1, BusyAlone DEF Foreseen
  <2>3. CASE req[q].id \cap reg = {} /\ Goto(q, "insert", req[q])
    <3>1. alone => Foreseen("insert", req[q])
      BY <2>2, <2>3 DEF Foreseen
    <3> QED
      BY <1>a, <2>1, <2>3, <3>1, ReadsAlone
  <2>4. CASE req[q].id \cap reg # {} /\ Goto(q, "rewrite", req[q])
    <3>1. Foreseen("rewrite", req[q])
      BY <2>4 DEF Foreseen
    <3> QED
      BY <1>a, <2>1, <2>4, <3>1, ReadsAlone
  <2> QED
    BY <1>1, <1>10, <2>3, <2>4 DEF FindRegistration, Read, End
<1>4. CASE DeleteRegistrations(q)
  <2> DEFINE r == [req[q] EXCEPT !.regs = req[q].ids \cap reg]
  <2>1. pc[q] = "regs" /\ Goto(q, "lock", r) /\ att' = att /\ reg' = reg
    BY <1>4 DEF DeleteRegistrations, Read, Rows
  <2>2. r.kind = req[q].kind /\ r.ids = req[q].ids
    BY <1>b DEF Request
  <2> HIDE DEF r
  <2>3. alone => Foreseen("lock", r)
    BY <1>a, <2>1, <2>2, BusyAlone DEF Foreseen
  <2> QED
    BY <1>a, <2>1, <2>3, ReadsAlone
<1>5. CASE LockRow(q)
  <2>1. PICK i : Goto(q, "lock", [req[q] EXCEPT !.held = req[q].held \cup {i}])
    BY <1>5 DEF LockRow, Read
  <2> DEFINE r == [req[q] EXCEPT !.held = req[q].held \cup {i}]
  <2>2. pc[q] = "lock" /\ Goto(q, "lock", r) /\ att' = att /\ reg' = reg
    BY <1>5, <2>1 DEF LockRow, Read, Rows
  <2>3. r.kind = req[q].kind /\ r.ids = req[q].ids
    BY <1>b DEF Request
  <2> HIDE DEF r
  <2>4. alone => Foreseen("lock", r)
    BY <1>a, <2>2, <2>3, BusyAlone DEF Foreseen
  <2> QED
    BY <1>a, <2>2, <2>4, ReadsAlone
<1>6. CASE Revise(q) \/ Drop(q) \/ SetRow(q) \/ BulkSet(q) \/ PurgeRows(q)
           \/ InsertRegistration(q) \/ RewriteRegistration(q) \/ ReviseUnchanged(q)
           \/ Abort(q)
  <2>1. End(q)
    BY <1>6 DEF Revise, Drop, SetRow, BulkSet, PurgeRows, InsertRegistration,
       RewriteRegistration, ReviseUnchanged, Abort, CommitRow, CommitAttendee, DeleteRows,
       Read, End
  <2> QED
    BY <1>1, <2>1
<1> QED
  BY <1>a, <1>2, <1>3, <1>4, <1>5, <1>6, <1>7, <1>8, <1>9, <1>10

\* Alone, a request waits for nobody and is in no deadlock.
LEMMA AloneWaitsForNobody ==
  ASSUME AloneInv, NEW q \in Requests, \A p \in Requests : p # q => pc[p] = "idle"
  PROVE  \A ps \in WaitsFor(q) : ps = {}
<1>1. \A p \in Requests : p # q => /\ pc[p] = "idle" /\ req[p] = NoRequest
  BY DEF AloneInv
<1>2. \A i : \A p \in Requests : p # q => ~Exclusive(p, i) /\ ~Updates(p, i) /\ ~RefersTo(p, i)
  BY <1>1, Emptied DEF Exclusive, Updates, RefersTo, Written, ChangesKey
<1>3. \A i : InWayOfReference(q, i) = {}
  BY <1>2 DEF InWayOfReference
<1>4. \A i : InWayOfUpdate(q, i) = {}
  BY <1>2 DEF InWayOfUpdate
<1>5. \A i : InWayOfDeletion(q, i) = {}
  BY <1>2 DEF InWayOfDeletion
<1>6. \A email : InWayOfEmail(q, email) = {}
  BY <1>1, Emptied DEF InWayOfEmail, Written
<1>7. \A i : InWayOfRegistration(q, i) = {}
  BY <1>1, Emptied DEF InWayOfRegistration
<1>12. \A i : InWayOfInsertion(q, i) = {}
  BY <1>3, <1>7 DEF InWayOfInsertion
<1>8. \A i, d : InWayOfMerge(q, i, d) = {}
  BY <1>4, <1>5, <1>6 DEF InWayOfMerge
<1>9. \A i : InWayOfLock(q, i) = {}
  BY <1>4, <1>5 DEF InWayOfLock
<1>10. \A S : UNION { InWayOfRegistration(q, i) : i \in S } = {}
  BY <1>7
<1>11. \A S : UNION { InWayOfUpdate(q, i) : i \in S } = {}
  BY <1>4
<1> QED
  BY <1>3, <1>5, <1>6, <1>7, <1>8, <1>9, <1>10, <1>11, <1>12 DEF WaitsFor

\* Nor does the database refuse anything that has been looked up.
LEMMA RefusalsAlone ==
  ASSUME IInv, AloneInv, ForeseenAlone, NEW q \in Requests,
         \/ SaveRowFails(q) \/ InsertRowFails(q) \/ NoteDeletionFails(q)
         \/ SetRowFails(q) \/ PurgeFails(q) \/ ReviseFails(q)
         \/ InsertRegistrationFails(q) \/ RewriteRegistrationFails(q) \/ Victim(q)
  PROVE  AloneInv' /\ ForeseenAlone'
<1>a. Fail(q)
  BY DEF SaveRowFails, InsertRowFails, NoteDeletionFails, SetRowFails, PurgeFails,
     ReviseFails, InsertRegistrationFails, RewriteRegistrationFails, Victim
<1>b. pc[q] # "idle"
  <2>1. CASE Victim(q)
    <3>1. WaitsFor(q) # {}
      BY <2>1 DEF Victim, Deadlocked
    <3> QED
      BY <3>1 DEF WaitsFor
  <2> QED
    BY <2>1 DEF SaveRowFails, InsertRowFails, NoteDeletionFails, SetRowFails, PurgeFails,
       ReviseFails, InsertRegistrationFails, RewriteRegistrationFails, Locked
<1>1. AloneInv'
  BY <1>a, <1>b, EndsAlone DEF Fail
<1>2. alone => req[q].kind = "edit"
  <2> SUFFICES ASSUME alone, req[q].kind # "edit" PROVE FALSE
    OBVIOUS
  <2>1. Foreseen(pc[q], req[q]) /\ \A p \in Requests : p # q => pc[p] = "idle"
    BY <1>b, BusyAlone
  <2>2. CASE SaveRowFails(q) \/ InsertRowFails(q) \/ SetRowFails(q)
    BY <2>1, <2>2 DEF SaveRowFails, InsertRowFails, SetRowFails, Foreseen
  <2>3. CASE NoteDeletionFails(q)
    BY <2>1, <2>3 DEF NoteDeletionFails, Foreseen
  <2>4. CASE PurgeFails(q)
    <3>1. req[q].kind = "purge" /\ req[q].held = {} /\ pc[q] = "lock" /\ ToLock(q) = {}
      BY <2>4 DEF PurgeFails, Locked
    <3>2. req[q].ids \cap Stored = {}
      BY <3>1 DEF ToLock, Matches
    <3> QED
      BY <2>1, <3>1, <3>2 DEF Foreseen
  <2>5. CASE Victim(q)
    <3>1. PICK S \in SUBSET Requests : q \in S /\ Deadlocked(S)
      BY <2>5 DEF Victim
    <3>2. PICK ps \in WaitsFor(q) : ps \cap S # {}
      BY <3>1 DEF Deadlocked
    <3> QED
      BY <2>1, <3>2, AloneWaitsForNobody
  <2>6. CASE ReviseFails(q) \/ InsertRegistrationFails(q) \/ RewriteRegistrationFails(q)
    BY <2>1, <2>6 DEF ReviseFails, InsertRegistrationFails, RewriteRegistrationFails,
       Foreseen, Written, Wrote
  <2> QED
    BY <2>2, <2>3, <2>4, <2>5, <2>6
<1>3. alone' = alone /\ (alone => surprised' = surprised \cup { req[q].kind })
  BY <1>a DEF Fail, End, Goto
<1> QED
  BY <1>1, <1>2, <1>3 DEF ForeseenAlone

LEMMA StepAlone ==
  ASSUME IInv, AloneInv, ForeseenAlone, [Next]_vars
  PROVE  AloneInv' /\ ForeseenAlone'
<1>a. ASSUME AloneInv', surprised' = surprised, alone' => alone
      PROVE  AloneInv' /\ ForeseenAlone'
  BY <1>a DEF ForeseenAlone
<1>1. CASE Next
  <2>1. PICK q \in Requests : Begin(q) \/ Step(q) \/ Abort(q) \/ Victim(q)
    BY <1>1 DEF Next
  <2>2. CASE Begin(q)
    BY <1>a, <2>2, BeginsAlone
  <2>3. CASE Step(q)
    BY <1>a, <2>3, StepsAlone, RefusalsAlone DEF Step
  <2>4. CASE Abort(q)
    BY <1>a, <2>4, StepsAlone
  <2>5. CASE Victim(q)
    BY <2>5, RefusalsAlone
  <2> QED
    BY <2>1, <2>2, <2>3, <2>4, <2>5
<1>2. CASE UNCHANGED vars
  BY <1>2 DEF vars, AloneInv, ForeseenAlone, OneBusy, Foreseen, Stored, With, Taken
<1> QED
  BY <1>1, <1>2

LEMMA InitAlone ==
  ASSUME Init
  PROVE  AloneInv /\ ForeseenAlone
<1>1. \A q \in Requests : pc[q] = "idle" /\ req[q] = NoRequest
  BY DEF Init
<1> QED
  BY <1>1 DEF Init, AloneInv, ForeseenAlone, OneBusy, Foreseen

\* As long as requests do not overlap, what they look up before they write
\* suffices: the database refuses nothing but the edit of a registration, which
\* looks nothing up.  (AttendeesService, RegistrationsService.update)
THEOREM LookupsSuffice == Spec => []ForeseenAlone
  BY InitAlone, StepAlone, Invariant, PTL DEF Spec

=============================================================================
