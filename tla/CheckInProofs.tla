--------------------------- MODULE CheckInProofs ---------------------------
(***************************************************************************)
(* What CheckIn guarantees for any registrations and any finite number of  *)
(* slots: type correctness, that nobody is checked out who was never in,   *)
(* the bound on repeated admissions, what may end a check-in, and that     *)
(* presence implements Attendance.                                         *)
(***************************************************************************)
EXTENDS CheckIn, FiniteSetTheorems, TLAPS

---------------------------------------------------------------------------
\* Every change of a registration goes through Write.  Fits says when what is
\* written keeps the types.
Fits(rows) ==
    /\ rows \in [Regs -> Row]
    /\ \A r \in Regs : ~rows[r].present => rows[r] = Gone

LEMMA GoneType == Gone \in Row
  BY DEF Gone, Row

LEMMA NoRequestType == NoRequest \in Request
  BY GoneType DEF NoRequest, Request, Kinds

LEMMA WriteTyped ==
  ASSUME TypeOK, NEW rows, NEW scans, Fits(rows), Write(rows, scans)
  PROVE  /\ open' \in BOOLEAN
         /\ reg' \in [Regs -> Row]
         /\ \A r \in Regs : ~reg'[r].present => reg'[r] = Gone
         /\ wasIn' \in [Regs -> BOOLEAN]
         /\ admitted' \in [Regs -> Nat]
  BY DEF Write, Fits, TypeOK, Row

LEMMA DoneTyped ==
  ASSUME TypeOK, NEW q \in Requests, Done(q)
  PROVE  pc' \in [Requests -> { "idle", "write" }] /\ req' \in [Requests -> Request]
  BY NoRequestType DEF Done, TypeOK

LEMMA ScanType ==
  ASSUME NEW kind \in Kinds, NEW rs \in SUBSET Regs
  PROVE  [NoRequest EXCEPT !.kind = kind, !.regs = rs] \in Request
  BY NoRequestType DEF Request, NoRequest

LEMMA BeginTyped ==
  ASSUME TypeOK, NEW q \in Requests, NEW r \in Request, Begin(q, r)
  PROVE  TypeOK'
  BY DEF Begin, TypeOK

\* The steps that find a registration.
Finds(q) ==
    \/ CheckInBegin(q) \/ BulkCheckInBegin(q) \/ UndoCheckInBegin(q)
    \/ CheckOutBegin(q) \/ UndoCheckOutBegin(q) \/ ImportBegin(q) \/ PurgeBegin(q)

\* The steps that write what they found.
Updates(q) ==
    \/ CheckInWrite(q) \/ UndoCheckInWrite(q) \/ CheckOutWrite(q)
    \/ UndoCheckOutWrite(q) \/ ImportWrite(q) \/ PurgeWrite(q)

Offices == ChangeStatus \/ Remove \/ Restore

LEMMA FindsTyped ==
  ASSUME TypeOK, NEW q \in Requests, Finds(q)
  PROVE  TypeOK'
<1>1. CASE ImportBegin(q)
  <2>1. PICK r \in Regs, locks, checked, bar \in BOOLEAN :
          Begin(q, [kind |-> "import", regs |-> {r}, locks |-> locks,
                    checked |-> checked, bar |-> bar,
                    row |-> [Gone EXCEPT !.deleted = reg[r].deleted, !.in = reg[r].in]])
    BY <1>1 DEF ImportBegin
  <2>2. [Gone EXCEPT !.deleted = reg[r].deleted, !.in = reg[r].in] \in Row
    BY DEF Gone, Row, TypeOK
  <2> QED
    BY <2>1, <2>2, BeginTyped DEF Request, Kinds
<1>2. CASE ~ImportBegin(q)
  <2>1. PICK kind \in Kinds, rs \in SUBSET Regs : Scan(q, kind, rs)
    BY <1>2 DEF Finds, CheckInBegin, BulkCheckInBegin, UndoCheckInBegin,
                CheckOutBegin, UndoCheckOutBegin, PurgeBegin, Kinds
  <2> QED
    BY <2>1, ScanType, BeginTyped DEF Scan
<1> QED
  BY <1>1, <1>2

\* A present row as a replacing import leaves it.
LEMMA ImportedRow ==
  ASSUME TypeOK, NEW r \in Regs, reg[r].present,
         NEW a \in BOOLEAN, NEW b \in BOOLEAN, NEW c \in BOOLEAN
  PROVE  /\ [reg[r] EXCEPT !.barred = a, !.in = b, !.deleted = c] \in Row
         /\ [reg[r] EXCEPT !.barred = a, !.in = b, !.deleted = c].present
  BY DEF TypeOK, Row

LEMMA UpdatesTyped ==
  ASSUME TypeOK, NEW q \in Requests, Updates(q)
  PROVE  TypeOK'
<1>1. PICK rows, scans : Fits(rows) /\ Write(rows, scans)
  <2>1. CASE CheckInWrite(q)
    BY <2>1 DEF CheckInWrite, Fits, TypeOK, Row, Targets, Gone
  <2>2. CASE UndoCheckInWrite(q)
    BY <2>2 DEF UndoCheckInWrite, Fits, TypeOK, Row, Targets, Gone
  <2>3. CASE CheckOutWrite(q)
    BY <2>3 DEF CheckOutWrite, Fits, TypeOK, Row, Targets, Gone
  <2>4. CASE UndoCheckOutWrite(q)
    BY <2>4 DEF UndoCheckOutWrite, Fits, TypeOK, Row, Targets, Gone
  <2>5. CASE ImportWrite(q)
    <3>1. req[q].bar \in BOOLEAN /\ Kept(req[q]) \in BOOLEAN /\ req[q].row.deleted \in BOOLEAN
      BY DEF TypeOK, Request, Row, Kept
    <3> DEFINE gone(r) == reg[r].deleted /\ ~req[q].row.deleted
               new(r) == [reg[r] EXCEPT !.barred = req[q].bar, !.in = Kept(req[q]),
                                        !.deleted = gone(r)]
               rows == [r \in Regs |-> IF r \in Targets(q) THEN new(r) ELSE reg[r]]
    <3>2. \A r \in Regs : gone(r) \in BOOLEAN
      BY <3>1 DEF TypeOK, Row
    <3>3. \A r \in Targets(q) : r \in Regs /\ reg[r].present
      BY DEF Targets, TypeOK, Request
    <3> HIDE DEF gone
    <3>4. \A r \in Targets(q) : new(r) \in Row /\ new(r).present
      BY <3>1, <3>2, <3>3, ImportedRow
    <3> HIDE DEF new
    <3>5. rows \in [Regs -> Row] /\ \A r \in Regs : ~rows[r].present => rows[r] = Gone
      BY <3>4 DEF TypeOK
    <3>6. Write(rows, {})
      BY <2>5 DEF ImportWrite, new, gone
    <3> QED
      BY <3>5, <3>6 DEF Fits
  <2>6. CASE PurgeWrite(q)
    BY <2>6, GoneType DEF PurgeWrite, Fits, TypeOK
  <2> QED
    BY <2>1, <2>2, <2>3, <2>4, <2>5, <2>6 DEF Updates
<1>2. Done(q)
  BY DEF Updates, CheckInWrite, UndoCheckInWrite, CheckOutWrite, UndoCheckOutWrite,
         ImportWrite, PurgeWrite
<1> QED
  BY <1>1, <1>2, WriteTyped, DoneTyped DEF TypeOK

LEMMA OfficeTyped ==
  ASSUME TypeOK, NEW r \in Regs, NEW row \in Row, row.present, Office(r, row)
  PROVE  TypeOK'
<1>1. Fits([reg EXCEPT ![r] = row])
  BY DEF Fits, TypeOK
<1> QED
  BY <1>1, WriteTyped DEF Office, TypeOK

\* A present row, with any of its columns changed.
LEMMA Changed ==
  ASSUME TypeOK, NEW r \in Regs, reg[r].present, NEW b \in BOOLEAN
  PROVE  /\ [reg[r] EXCEPT !.barred = b] \in Row /\ [reg[r] EXCEPT !.barred = b].present
         /\ [reg[r] EXCEPT !.deleted = b] \in Row /\ [reg[r] EXCEPT !.deleted = b].present
  BY DEF TypeOK, Row

LEMMA OfficesTyped ==
  ASSUME TypeOK, Offices
  PROVE  TypeOK'
<1>1. CASE ChangeStatus
  <2>1. PICK r \in Regs, b \in BOOLEAN : Office(r, [reg[r] EXCEPT !.barred = b])
    BY <1>1 DEF ChangeStatus
  <2>2. reg[r].present
    BY <2>1 DEF Office
  <2> QED
    BY <2>1, <2>2, Changed, OfficeTyped
<1>2. CASE Remove \/ Restore
  <2>1. PICK r \in Regs, b \in BOOLEAN : Office(r, [reg[r] EXCEPT !.deleted = b])
    BY <1>2 DEF Remove, Restore
  <2>2. reg[r].present
    BY <2>1 DEF Office
  <2> QED
    BY <2>1, <2>2, Changed, OfficeTyped
<1> QED
  BY <1>1, <1>2 DEF Offices

LEMMA Steps == Next <=> \/ \E q \in Requests : Finds(q) \/ Updates(q) \/ Abort(q)
                        \/ Offices \/ SetOpen
  BY DEF Next, Step, Finds, Updates, Offices

LEMMA InitTyped == Init => TypeOK
  BY NoRequestType DEF Init, TypeOK, Row

LEMMA NextTyped == TypeOK /\ [Next]_vars => TypeOK'
<1> SUFFICES ASSUME TypeOK, [Next]_vars PROVE TypeOK'
  OBVIOUS
<1>1. CASE \E q \in Requests : Finds(q) \/ Updates(q)
  BY <1>1, FindsTyped, UpdatesTyped
<1>2. ASSUME NEW q \in Requests, Abort(q) PROVE TypeOK'
  BY <1>2, DoneTyped DEF Abort, TypeOK
<1>3. CASE Offices
  BY <1>3, OfficesTyped
<1>4. CASE SetOpen \/ UNCHANGED vars
  BY <1>4 DEF SetOpen, vars, TypeOK
<1> QED
  BY <1>1, <1>2, <1>3, <1>4, Steps

\* The states of CheckIn are well typed; registrations that are gone keep
\* nothing of their presence, whatever a late scan writes.
THEOREM TypeCorrect == Spec => []TypeOK
<1>1. Init => TypeOK
  BY InitTyped
<1>2. TypeOK /\ [Next]_vars => TypeOK'
  BY NextTyped
<1> QED
  BY <1>1, <1>2, PTL DEF Spec

---------------------------------------------------------------------------
\* Checked out only after having been in

\* A registration that is in, out, or found in by a checkOut that is about to
\* write, has been in.
OutInv ==
    /\ \A r \in Regs : reg[r].in \/ reg[r].out => wasIn[r]
    /\ \A q \in Requests : Writes(q, "checkOut") => \A r \in req[q].regs : wasIn[r]

\* What an update may do to checked_out_at.
LEMMA OutStep ==
  ASSUME TypeOK, NEW q \in Requests, Updates(q), NEW r \in Regs, reg'[r].out
  PROVE  reg[r].out \/ (Writes(q, "checkOut") /\ r \in req[q].regs)
<1>1. CASE CheckInWrite(q)
  BY <1>1 DEF CheckInWrite, Write, TypeOK, Row
<1>2. CASE UndoCheckInWrite(q)
  BY <1>2 DEF UndoCheckInWrite, Write, TypeOK, Row
<1>3. CASE CheckOutWrite(q)
  BY <1>3 DEF CheckOutWrite, Write, Targets
<1>4. CASE UndoCheckOutWrite(q)
  BY <1>4 DEF UndoCheckOutWrite, Write, TypeOK, Row
<1>5. CASE ImportWrite(q)
  BY <1>5 DEF ImportWrite, Write, TypeOK, Row
<1>6. CASE PurgeWrite(q)
  BY <1>6 DEF PurgeWrite, Write, Gone
<1> QED
  BY <1>1, <1>2, <1>3, <1>4, <1>5, <1>6 DEF Updates

\* A write keeps the history.
LEMMA WasInGrows ==
  ASSUME TypeOK, NEW rows, NEW scans, Write(rows, scans), NEW r \in Regs
  PROVE  /\ wasIn[r] => wasIn'[r]
         /\ reg'[r].in => wasIn'[r]
  BY DEF Write, TypeOK

LEMMA UpdatesWrite ==
  ASSUME NEW q \in Requests, Updates(q)
  PROVE  (\E rows, scans : Write(rows, scans)) /\ Done(q)
  BY DEF Updates, CheckInWrite, UndoCheckInWrite, CheckOutWrite, UndoCheckOutWrite,
         ImportWrite, PurgeWrite

LEMMA OfficesWrite ==
  ASSUME Offices
  PROVE  /\ UNCHANGED <<pc, req>>
         /\ \E r \in Regs : \E row : Write([reg EXCEPT ![r] = row], {})
  BY DEF Offices, ChangeStatus, Remove, Restore, Office

\* The back office leaves presence alone.
LEMMA OfficesKeep ==
  ASSUME TypeOK, Offices, NEW r \in Regs
  PROVE  reg'[r].in = reg[r].in /\ reg'[r].out = reg[r].out
<1>1. CASE ChangeStatus
  BY <1>1 DEF ChangeStatus, Office, Write, TypeOK, Row
<1>2. CASE Remove
  BY <1>2 DEF Remove, Office, Write, TypeOK, Row
<1>3. CASE Restore
  BY <1>3 DEF Restore, Office, Write, TypeOK, Row
<1> QED
  BY <1>1, <1>2, <1>3 DEF Offices

\* What a request that arrives may ask for.
LEMMA FindsStep ==
  ASSUME TypeOK, NEW q \in Requests, Finds(q)
  PROVE  /\ UNCHANGED <<reg, wasIn, admitted>>
         /\ \A p \in Requests \ {q} : pc'[p] = pc[p] /\ req'[p] = req[p]
         /\ req'[q].kind = "checkOut" => \A r \in req'[q].regs : r \in Regs /\ reg[r].in
         /\ req'[q].kind = "checkIn" => \A r \in req'[q].regs : ~reg[r].in
<1>1. PICK r \in Request : Begin(q, r)
      /\ (r.kind = "checkOut" => \A x \in r.regs : x \in Regs /\ reg[x].in)
      /\ (r.kind = "checkIn" => \A x \in r.regs : ~reg[x].in)
  <2>1. CASE ImportBegin(q)
    <3>1. PICK r \in Regs, locks, checked, bar \in BOOLEAN :
            Begin(q, [kind |-> "import", regs |-> {r}, locks |-> locks,
                      checked |-> checked, bar |-> bar,
                      row |-> [Gone EXCEPT !.deleted = reg[r].deleted, !.in = reg[r].in]])
      BY <2>1 DEF ImportBegin
    <3>2. [Gone EXCEPT !.deleted = reg[r].deleted, !.in = reg[r].in] \in Row
      BY DEF Gone, Row, TypeOK
    <3> QED
      BY <3>1, <3>2 DEF Request, Kinds
  <2>2. CASE ~ImportBegin(q)
    <3>1. PICK kind \in Kinds, rs \in SUBSET Regs :
            /\ Scan(q, kind, rs)
            /\ kind = "checkOut" => \A x \in rs : reg[x].in
            /\ kind = "checkIn" => \A x \in rs : ~reg[x].in
      <4>1. CASE CheckInBegin(q)
        BY <4>1 DEF CheckInBegin, Kinds
      <4>2. CASE BulkCheckInBegin(q)
        BY <4>2 DEF BulkCheckInBegin, Kinds
      <4>3. CASE CheckOutBegin(q)
        <5>1. PICK r \in Regs : reg[r].in /\ Scan(q, "checkOut", {r})
          BY <4>3 DEF CheckOutBegin
        <5>2. "checkOut" \in Kinds /\ {r} \in SUBSET Regs /\ "checkOut" # "checkIn"
          BY DEF Kinds
        <5> QED
          BY <5>1, <5>2
      <4>4. CASE UndoCheckInBegin(q)
        BY <4>4 DEF UndoCheckInBegin, Kinds
      <4>5. CASE UndoCheckOutBegin(q)
        BY <4>5 DEF UndoCheckOutBegin, Kinds
      <4>6. CASE PurgeBegin(q)
        BY <4>6 DEF PurgeBegin, Kinds
      <4> QED
        BY <2>2, <4>1, <4>2, <4>3, <4>4, <4>5, <4>6 DEF Finds
    <3> DEFINE r == [NoRequest EXCEPT !.kind = kind, !.regs = rs]
    <3>2. r \in Request /\ r.kind = kind /\ r.regs = rs
      BY ScanType DEF NoRequest
    <3>3. Begin(q, r)
      BY <3>1 DEF Scan
    <3> HIDE DEF r
    <3> QED
      BY <3>1, <3>2, <3>3
  <2> QED
    BY <2>1, <2>2
<1> QED
  BY <1>1 DEF Begin, TypeOK

LEMMA DoneStep ==
  ASSUME TypeOK, NEW q \in Requests, Done(q)
  PROVE  /\ pc'[q] = "idle"
         /\ \A p \in Requests \ {q} : pc'[p] = pc[p] /\ req'[p] = req[p]
  BY DEF Done, TypeOK

LEMMA OutInvStep == TypeOK /\ OutInv /\ [Next]_vars => OutInv'
<1> SUFFICES ASSUME TypeOK, OutInv, [Next]_vars PROVE OutInv'
  OBVIOUS
<1>1. ASSUME NEW q \in Requests, Finds(q) PROVE OutInv'
  BY <1>1, FindsStep DEF OutInv, Writes
<1>2. ASSUME NEW q \in Requests, Updates(q) PROVE OutInv'
  <2>1. \A r \in Regs : (wasIn[r] => wasIn'[r]) /\ (reg'[r].in => wasIn'[r])
    BY <1>2, UpdatesWrite, WasInGrows
  <2>2. \A r \in Regs : reg'[r].out => wasIn'[r]
    BY <1>2, <2>1, OutStep DEF OutInv
  <2>3. \A p \in Requests : req[p].regs \subseteq Regs
    BY DEF TypeOK, Request
  <2>4. ASSUME NEW p \in Requests, Writes(p, "checkOut")' PROVE \A r \in req'[p].regs : wasIn'[r]
    <3>1. Done(q)
      BY <1>2, UpdatesWrite
    <3>2. p # q /\ pc'[p] = pc[p] /\ req'[p] = req[p]
      BY <2>4, <3>1, DoneStep DEF Writes
    <3> QED
      BY <2>1, <2>3, <2>4, <3>2 DEF OutInv, Writes
  <2> QED
    BY <2>1, <2>2, <2>4 DEF OutInv
<1>3. ASSUME NEW q \in Requests, Abort(q) PROVE OutInv'
  BY <1>3, DoneStep DEF Abort, OutInv, Writes
<1>4. CASE Offices
  <2>1. \A r \in Regs : wasIn[r] => wasIn'[r]
    BY <1>4, OfficesWrite, WasInGrows
  <2>2. \A p \in Requests : req[p].regs \subseteq Regs
    BY DEF TypeOK, Request
  <2> QED
    BY <1>4, <2>1, <2>2, OfficesKeep, OfficesWrite DEF OutInv, Writes
<1>5. CASE SetOpen \/ UNCHANGED vars
  BY <1>5 DEF SetOpen, vars, OutInv, Writes
<1> QED
  BY <1>1, <1>2, <1>3, <1>4, <1>5, Steps

\* checkOut "ensures participant is checked-in first", and an undoCheckIn may
\* run before its write: that the participant has been in is what is left.
THEOREM CheckedOutHasBeenIn == Spec => []CheckedOutWasIn
<1>1. Init => TypeOK /\ OutInv
  BY InitTyped DEF Init, OutInv, Writes
<1>2. (TypeOK /\ OutInv) /\ [Next]_vars => (TypeOK /\ OutInv)'
  BY NextTyped, OutInvStep
<1>3. TypeOK /\ OutInv => CheckedOutWasIn
  BY DEF OutInv, CheckedOutWasIn
<1> QED
  BY <1>1, <1>2, <1>3, PTL DEF Spec

---------------------------------------------------------------------------
\* Presence as a ledger

\* A write, seen from the ledger: the rows it leaves alone, and the history.
LEMMA WriteSeen ==
  ASSUME NEW rows, NEW scans, Write(rows, scans)
  PROVE  /\ reg' = rows
         /\ HaveBeenIn' = HaveBeenIn \cup Inside'
  BY DEF Write, HaveBeenIn, Inside

\* The steps that leave presence alone are none of the ledger.
LEMMA LedgerStutters ==
  ASSUME TypeOK, NEW q \in Requests, Finds(q) \/ Abort(q) \/ SetOpen \/ UNCHANGED vars
  PROVE  UNCHANGED Ledger!vars
<1>1. reg' = reg /\ wasIn' = wasIn
  BY FindsStep DEF Abort, SetOpen, vars
<1> QED
  BY <1>1 DEF Ledger!vars, Inside, CheckedOut, HaveBeenIn

LEMMA OfficesStutter ==
  ASSUME TypeOK, OutInv, Offices
  PROVE  UNCHANGED Ledger!vars
<1>1. Inside' = Inside /\ CheckedOut' = CheckedOut
  BY OfficesKeep DEF Inside, CheckedOut
<1>2. HaveBeenIn' = HaveBeenIn \cup Inside'
  BY OfficesWrite, WriteSeen
<1>3. Inside \subseteq HaveBeenIn
  BY DEF OutInv, Inside, HaveBeenIn
<1> QED
  BY <1>1, <1>2, <1>3 DEF Ledger!vars

\* Every update is one step of the ledger.
LEMMA UpdatesLedger ==
  ASSUME TypeOK, OutInv, NEW q \in Requests, Updates(q)
  PROVE  Ledger!Next
<1>0. /\ Targets(q) \subseteq Regs
      /\ \A r \in Regs : reg[r] \in Row
      /\ Inside \subseteq HaveBeenIn
      /\ HaveBeenIn' = HaveBeenIn \cup Inside'
  BY UpdatesWrite, WriteSeen DEF TypeOK, Request, Targets, OutInv, Inside, HaveBeenIn
<1>1. CASE CheckInWrite(q)
  <2>1. Inside' = Inside \cup Targets(q) /\ CheckedOut' = CheckedOut
    BY <1>0, <1>1 DEF CheckInWrite, Write, Inside, CheckedOut, Row
  <2>2. HaveBeenIn' = HaveBeenIn \cup Targets(q)
    BY <1>0, <2>1
  <2> QED
    BY <1>0, <2>1, <2>2 DEF Ledger!Next, Ledger!Arrive
<1>2. CASE UndoCheckInWrite(q)
  <2>1. Inside' = Inside \ (Targets(q) \cap Inside) /\ CheckedOut' = CheckedOut
    BY <1>0, <1>2 DEF UndoCheckInWrite, Write, Inside, CheckedOut, Row
  <2> QED
    BY <1>0, <2>1 DEF Ledger!Next, Ledger!Retract
<1>3. CASE CheckOutWrite(q)
  <2>1. Inside' = Inside /\ CheckedOut' = CheckedOut \cup Targets(q)
    BY <1>0, <1>3 DEF CheckOutWrite, Write, Inside, CheckedOut, Row
  <2>2. Targets(q) \subseteq HaveBeenIn
    BY <1>0, <1>3 DEF CheckOutWrite, OutInv, Targets, HaveBeenIn
  <2> QED
    BY <1>0, <2>1, <2>2 DEF Ledger!Next, Ledger!Leave
<1>4. CASE UndoCheckOutWrite(q)
  <2>1. Inside' = Inside /\ CheckedOut' = CheckedOut \ (Targets(q) \cap CheckedOut)
    BY <1>0, <1>4 DEF UndoCheckOutWrite, Write, Inside, CheckedOut, Row
  <2> QED
    BY <1>0, <2>1 DEF Ledger!Next, Ledger!Return
<1>5. CASE ImportWrite(q)
  <2>1. /\ CheckedOut' = CheckedOut
        /\ Inside' = IF Kept(req[q]) THEN Inside \cup Targets(q) ELSE Inside \ Targets(q)
    BY <1>0, <1>5 DEF ImportWrite, Write, Inside, CheckedOut, Row
  <2>2. CASE Kept(req[q])
    <3>1. HaveBeenIn' = HaveBeenIn \cup Targets(q)
      BY <1>0, <2>1, <2>2
    <3> QED
      BY <1>0, <2>1, <2>2, <3>1 DEF Ledger!Next, Ledger!Arrive
  <2>3. CASE ~Kept(req[q])
    <3>1. HaveBeenIn' = HaveBeenIn /\ Inside' = Inside \ (Targets(q) \cap Inside)
      BY <1>0, <2>1, <2>3
    <3> QED
      BY <2>1, <3>1 DEF Ledger!Next, Ledger!Retract
  <2> QED
    BY <2>2, <2>3
<1>6. CASE PurgeWrite(q)
  <2>1. Inside' = Inside \ Targets(q) /\ CheckedOut' = CheckedOut \ Targets(q)
    BY <1>0, <1>6 DEF PurgeWrite, Write, Inside, CheckedOut, Gone
  <2>2. HaveBeenIn' = HaveBeenIn
    BY <1>0, <2>1
  <2> QED
    BY <1>0, <2>1, <2>2 DEF Ledger!Next, Ledger!Forget
<1> QED
  BY <1>1, <1>2, <1>3, <1>4, <1>5, <1>6 DEF Updates

\* However scans, undos, imports and deletions overlap, presence implements the
\* ledger, in which each of them happens at once.
THEOREM ImplementsLedger == Spec => LedgerSpec
<1>1. Init => TypeOK /\ OutInv
  BY InitTyped DEF Init, OutInv, Writes
<1>2. (TypeOK /\ OutInv) /\ [Next]_vars => (TypeOK /\ OutInv)'
  BY NextTyped, OutInvStep
<1>3. Init => Ledger!Init
  BY DEF Init, Ledger!Init, Inside, CheckedOut, HaveBeenIn
<1>4. TypeOK /\ OutInv /\ [Next]_vars => [Ledger!Next]_(Ledger!vars)
  <2> SUFFICES ASSUME TypeOK, OutInv, [Next]_vars PROVE [Ledger!Next]_(Ledger!vars)
    OBVIOUS
  <2>1. CASE Offices
    BY <2>1, OfficesStutter
  <2>2. CASE \E q \in Requests : Updates(q)
    BY <2>2, UpdatesLedger
  <2>3. CASE SetOpen \/ UNCHANGED vars \/ \E q \in Requests : Finds(q) \/ Abort(q)
    BY <2>3, LedgerStutters DEF SetOpen, vars, Ledger!vars, Inside, CheckedOut, HaveBeenIn
  <2> QED
    BY <2>1, <2>2, <2>3, Steps
<1> QED
  BY <1>1, <1>2, <1>3, <1>4, PTL DEF Spec, LedgerSpec, Ledger!Spec

---------------------------------------------------------------------------
\* Repeated admissions

\* The checkIns that found r not in and are about to write.
Pending(r) == { q \in Requests : Writes(q, "checkIn") /\ r \in req[q].regs }

\* Every admission of r beyond the first uses up a request that was pending
\* when r was not in; once r is in, no further request becomes pending.
AdmAt(r) ==
    /\ ~reg[r].in => admitted[r] = 0
    /\ admitted[r] + Cardinality(Pending(r)) <= Cardinality(Requests)

AdmInv == \A r \in Regs : AdmAt(r)

LEMMA PendingCount ==
  ASSUME NEW S \in SUBSET Requests
  PROVE  /\ IsFiniteSet(S)
         /\ Cardinality(S) \in Nat /\ Cardinality(Requests) \in Nat
         /\ Cardinality(S) <= Cardinality(Requests)
  BY FiniteRequests, FS_Subset, FS_CardinalityType

\* What a step does to one registration, in counts.
LEMMA AdmRule ==
  ASSUME TypeOK, NEW r \in Regs, AdmAt(r),
         ~reg'[r].in => admitted'[r] = 0,
         \/ admitted'[r] = 0
         \/ admitted'[r] = admitted[r] /\ Pending(r)' \subseteq Pending(r)
         \/ \E q \in Pending(r) : /\ admitted'[r] = admitted[r] + 1
                                  /\ Pending(r)' \subseteq Pending(r) \ {q}
  PROVE  AdmAt(r)'
<1>1. Pending(r) \subseteq Requests /\ Pending(r)' \subseteq Requests
  BY DEF Pending
<1>2. /\ IsFiniteSet(Pending(r)) /\ IsFiniteSet(Pending(r)')
      /\ Cardinality(Pending(r)) \in Nat /\ Cardinality(Pending(r)') \in Nat
      /\ Cardinality(Requests) \in Nat
      /\ Cardinality(Pending(r)') <= Cardinality(Requests)
  BY <1>1, PendingCount
<1>3. admitted[r] \in Nat
  BY DEF TypeOK
<1>4. admitted'[r] + Cardinality(Pending(r)') <= Cardinality(Requests)
  <2>1. CASE admitted'[r] = 0
    BY <2>1, <1>2
  <2>2. CASE admitted'[r] = admitted[r] /\ Pending(r)' \subseteq Pending(r)
    <3>1. Cardinality(Pending(r)') <= Cardinality(Pending(r))
      BY <2>2, <1>2, FS_Subset
    <3> QED
      BY <2>2, <3>1, <1>2, <1>3 DEF AdmAt
  <2>3. ASSUME NEW q \in Pending(r), admitted'[r] = admitted[r] + 1,
               Pending(r)' \subseteq Pending(r) \ {q}
        PROVE  admitted'[r] + Cardinality(Pending(r)') <= Cardinality(Requests)
    <3>1. /\ IsFiniteSet(Pending(r) \ {q})
          /\ Cardinality(Pending(r) \ {q}) = Cardinality(Pending(r)) - 1
      BY <1>2, FS_RemoveElement
    <3>2. Cardinality(Pending(r)') <= Cardinality(Pending(r) \ {q})
      BY <2>3, <3>1, FS_Subset
    <3> QED
      BY <2>3, <3>1, <3>2, <1>2, <1>3 DEF AdmAt
  <2> QED
    BY <2>1, <2>2, <2>3
<1>5. Cardinality(Pending(r)') = Cardinality(Pending(r))'
  OBVIOUS
<1> QED
  BY <1>4, <1>5 DEF AdmAt

\* Only the update of a checkIn admits, and only what it found.
LEMMA AdmStep ==
  ASSUME TypeOK, NEW q \in Requests, Updates(q), NEW r \in Regs
  PROVE  \/ admitted'[r] = 0
         \/ reg'[r].in /\ admitted'[r] = admitted[r]
         \/ reg'[r].in /\ admitted'[r] = admitted[r] + 1 /\ q \in Pending(r)
<1>1. CASE CheckInWrite(q)
  <2>1. PICK rows : Write(rows, Targets(q))
    BY <1>1 DEF CheckInWrite
  <2>2. r \in Targets(q) => q \in Pending(r)
    BY <1>1 DEF CheckInWrite, Targets, Pending
  <2> QED
    BY <2>1, <2>2 DEF Write
<1>2. CASE ~CheckInWrite(q)
  <2>1. PICK rows : Write(rows, {})
    BY <1>2 DEF Updates, UndoCheckInWrite, CheckOutWrite, UndoCheckOutWrite,
                ImportWrite, PurgeWrite
  <2> QED
    BY <2>1 DEF Write
<1> QED
  BY <1>1, <1>2

LEMMA DonePending ==
  ASSUME TypeOK, NEW q \in Requests, Done(q), NEW r \in Regs
  PROVE  Pending(r)' \subseteq Pending(r) \ {q}
  BY DoneStep DEF Pending, Writes

LEMMA AdmInvStep == TypeOK /\ AdmInv /\ [Next]_vars => AdmInv'
<1> SUFFICES ASSUME TypeOK, AdmInv, [Next]_vars, NEW r \in Regs PROVE AdmAt(r)'
  BY DEF AdmInv
<1>0. AdmAt(r)
  BY DEF AdmInv
<1>1. ASSUME NEW q \in Requests, Finds(q) PROVE AdmAt(r)'
  <2>1. reg' = reg /\ admitted' = admitted
    BY <1>1, FindsStep
  <2>2. CASE reg[r].in
    <3>1. Pending(r)' \subseteq Pending(r)
      BY <1>1, <2>2, FindsStep DEF Pending, Writes
    <3> QED
      BY <1>0, <2>1, <2>2, <3>1, AdmRule
  <2>3. CASE ~reg[r].in
    BY <1>0, <2>1, <2>3, AdmRule DEF AdmAt
  <2> QED
    BY <2>2, <2>3
<1>2. ASSUME NEW q \in Requests, Updates(q) PROVE AdmAt(r)'
  <2>1. Pending(r)' \subseteq Pending(r) \ {q}
    BY <1>2, UpdatesWrite, DonePending
  <2>2. ~reg'[r].in => admitted'[r] = 0
    BY <1>2, AdmStep
  <2> QED
    BY <1>0, <1>2, <2>1, <2>2, AdmStep, AdmRule
<1>3. ASSUME NEW q \in Requests, Abort(q) PROVE AdmAt(r)'
  <2>1. reg' = reg /\ admitted' = admitted /\ Pending(r)' \subseteq Pending(r)
    BY <1>3, DonePending DEF Abort
  <2> QED
    BY <1>0, <2>1, AdmRule DEF AdmAt
<1>4. CASE Offices
  <2>1. PICK x \in Regs : \E row : Write([reg EXCEPT ![x] = row], {})
    BY <1>4, OfficesWrite
  <2>2. /\ ~reg'[r].in => admitted'[r] = 0
        /\ reg'[r].in => admitted'[r] = admitted[r]
    BY <2>1 DEF Write
  <2>3. Pending(r)' = Pending(r)
    BY <1>4, OfficesWrite DEF Pending, Writes
  <2> QED
    BY <1>0, <2>2, <2>3, AdmRule
<1>5. CASE SetOpen \/ UNCHANGED vars
  <2>1. reg' = reg /\ admitted' = admitted /\ Pending(r)' = Pending(r)
    BY <1>5 DEF SetOpen, vars, Pending, Writes
  <2> QED
    BY <1>0, <2>1, AdmRule DEF AdmAt
<1> QED
  BY <1>1, <1>2, <1>3, <1>4, <1>5, Steps

\* Scanning twice at the same time may be answered with success twice, but
\* never more often than requests run at the same time.
THEOREM AdmissionsAreBounded == Spec => []AdmissionsBounded
<1>1. Init => TypeOK /\ AdmInv
  <2> SUFFICES ASSUME Init PROVE AdmInv
    BY InitTyped
  <2>1. \A r \in Regs : Pending(r) \subseteq Requests /\ admitted[r] = 0
    BY DEF Init, Pending
  <2> QED
    BY <2>1, PendingCount DEF AdmInv, AdmAt
<1>2. (TypeOK /\ AdmInv) /\ [Next]_vars => (TypeOK /\ AdmInv)'
  BY NextTyped, AdmInvStep
<1>3. TypeOK /\ AdmInv => AdmissionsBounded
  <2> SUFFICES ASSUME TypeOK, AdmInv, NEW r \in Regs
               PROVE  admitted[r] <= Cardinality(Requests)
    BY DEF AdmissionsBounded
  <2>1. Pending(r) \subseteq Requests /\ admitted[r] \in Nat
    BY DEF Pending, TypeOK
  <2> QED
    BY <2>1, PendingCount DEF AdmInv, AdmAt
<1> QED
  BY <1>1, <1>2, <1>3, PTL DEF Spec

---------------------------------------------------------------------------
\* Check-ins that end

\* Whose update may end the check-in of r.
EndedBy(q, r) == Ends(q, r) \/ MissedByImport(q, r)

LEMMA EndStep ==
  ASSUME TypeOK, NEW q \in Requests, Updates(q), NEW r \in Regs,
         reg[r].in, reg'[r].present, ~reg'[r].in
  PROVE  EndedBy(q, r)
<1>0. pc'[q] = "idle"
  BY UpdatesWrite, DoneStep
<1>1. CASE CheckInWrite(q)
  BY <1>1 DEF CheckInWrite, Write, TypeOK, Row
<1>2. CASE UndoCheckInWrite(q)
  BY <1>0, <1>2 DEF UndoCheckInWrite, Write, Targets, Writes, EndedBy, Ends
<1>3. CASE CheckOutWrite(q)
  BY <1>3 DEF CheckOutWrite, Write, TypeOK, Row
<1>4. CASE UndoCheckOutWrite(q)
  BY <1>4 DEF UndoCheckOutWrite, Write, TypeOK, Row
<1>5. CASE ImportWrite(q)
  <2>1. r \in Targets(q) /\ ~Kept(req[q])
    BY <1>5 DEF ImportWrite, Write, TypeOK, Row
  <2>2. req[q].row.deleted \/ ~req[q].row.in
    BY <2>1 DEF Kept
  <2> QED
    BY <1>0, <1>5, <2>1, <2>2 DEF ImportWrite, Writes, Targets, EndedBy, Ends, MissedByImport
<1>6. CASE PurgeWrite(q)
  BY <1>6 DEF PurgeWrite, Write, Gone
<1> QED
  BY <1>1, <1>2, <1>3, <1>4, <1>5, <1>6 DEF Updates

\* bulkImport keeps the check-in that it found: the presence of a registration
\* that goes on existing ends with undoCheckIn, with the restoring of a deleted
\* one, or with an import that looked before the scan.
THEOREM SeenCheckInsAreKept == Spec => SeenCheckInKept
<1>1. Init => TypeOK
  BY InitTyped
<1>2. TypeOK /\ [Next]_vars => TypeOK'
  BY NextTyped
<1>3. TypeOK /\ [Next]_vars =>
        [\A r \in Regs : reg[r].in /\ reg'[r].present /\ ~reg'[r].in =>
            \E q \in Requests : Ends(q, r) \/ MissedByImport(q, r)]_vars
  <2> SUFFICES ASSUME TypeOK, [Next]_vars, NEW r \in Regs,
                      reg[r].in, reg'[r].present, ~reg'[r].in
               PROVE  \E q \in Requests : Ends(q, r) \/ MissedByImport(q, r)
    OBVIOUS
  <2>1. \A q \in Requests : ~Finds(q) /\ ~Abort(q)
    BY FindsStep DEF Abort
  <2>2. ~Offices /\ ~SetOpen /\ ~UNCHANGED vars
    BY OfficesKeep DEF SetOpen, vars
  <2>3. PICK q \in Requests : Updates(q)
    BY <2>1, <2>2, Steps
  <2> QED
    BY <2>3, EndStep DEF EndedBy
<1> QED
  BY <1>1, <1>2, <1>3, PTL DEF Spec, SeenCheckInKept

=============================================================================
