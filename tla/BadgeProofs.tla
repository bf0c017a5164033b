---------------------------- MODULE BadgeProofs ----------------------------
(***************************************************************************)
(* What BadgeGeneration guarantees for any sets of slots and templates and *)
(* any bounds on rows and Chromium processes.                              *)
(***************************************************************************)
EXTENDS BadgeGeneration, TLAPS

---------------------------------------------------------------------------
\* What a slot is left with, and what the other slots keep.

Moved(q, call, r) ==
    /\ pc' \in [Requests -> Calls] /\ req' \in [Requests -> Request]
    /\ pc'[q] = call /\ req'[q] = r
    /\ \A p \in Requests : p # q => pc'[p] = pc[p] /\ req'[p] = req[p]

LEMMA Moves ==
  ASSUME TypeOK, NEW q \in Requests, NEW call \in Calls, NEW r \in Request,
         Arrive(q, call, r) \/ Goto(q, call, r)
  PROVE  Moved(q, call, r)
  BY DEF TypeOK, Arrive, Goto, Moved

LEMMA NoRequestFits == NoRequest \in Request /\ "idle" \in Calls
  BY BadgeAssumption DEF NoRequest, Request, Calls

LEMMA Ends ==
  ASSUME TypeOK, NEW q \in Requests, End(q)
  PROVE  Moved(q, "idle", NoRequest)
  BY Moves, NoRequestFits DEF End

\* The local variables of a slot that goes on.
LEMMA BadgeKinds ==
  ASSUME TypeOK
  PROVE  /\ badge.id \in 0 .. MaxId
         /\ badge.id = 0 <=> badge = NoBadge
         /\ badge # NoBadge => badge \in Badge
<1>1. CASE badge = NoBadge
  BY <1>1, BadgeAssumption DEF NoBadge
<1>2. CASE badge # NoBadge
  <2>1. badge \in Badge
    BY <1>2 DEF TypeOK
  <2>2. badge.id \in 1 .. MaxId
    BY <2>1 DEF Badge
  <2> QED
    BY <1>2, <2>1, <2>2, BadgeAssumption
<1> QED
  BY <1>1, <1>2

LEMMA Carried ==
  ASSUME TypeOK, NEW q \in Requests
  PROVE  /\ req[q] \in Request
         /\ badge.id \in 0 .. MaxId
         /\ badge.id = 0 <=> badge = NoBadge
         /\ [NoRequest EXCEPT !.row = badge.id] \in Request
         /\ [NoRequest EXCEPT !.serve = TRUE] \in Request
         /\ [req[q] EXCEPT !.row = badge.id] \in Request
         /\ [req[q] EXCEPT !.template = chosen] \in Request
         /\ NoRequest.row = 0
         /\ [NoRequest EXCEPT !.row = badge.id].row = badge.id
         /\ [NoRequest EXCEPT !.serve = TRUE].row = 0
         /\ [req[q] EXCEPT !.row = badge.id].row = badge.id
         /\ [req[q] EXCEPT !.row = badge.id].template = req[q].template
         /\ [req[q] EXCEPT !.template = chosen].row = req[q].row
         /\ [req[q] EXCEPT !.template = chosen].template = chosen
<1>1. /\ req[q] \in Request /\ chosen \in Templates \cup { None }
  BY DEF TypeOK
<1>2. NoRequest \in Request
  BY NoRequestFits
<1>3. badge.id \in 0 .. MaxId
  BY BadgeKinds
<1> QED
  BY <1>1, <1>2, <1>3, BadgeKinds DEF Request, NoRequest

---------------------------------------------------------------------------
\* What TypeOK says of the slots, and a step that moves one of them.

SlotsOK ==
    /\ pc \in [Requests -> Calls]
    /\ req \in [Requests -> Request]
    /\ \A q \in Requests :
          /\ pc[q] \in Generating \cup { "findBadge" } => req[q].template # None
          /\ pc[q] \in HaveRow => req[q].row # 0
          /\ req[q].row <= made

LEMMA SlotStep ==
  ASSUME TypeOK, NEW q \in Requests, NEW call \in Calls, NEW r \in Request,
         Arrive(q, call, r) \/ Goto(q, call, r),
         made' \in Nat, made <= made', r.row <= made',
         call \in Generating \cup { "findBadge" } => r.template # None,
         call \in HaveRow => r.row # 0
  PROVE  SlotsOK'
<1>1. Moved(q, call, r)
  BY Moves
<1>2. \A p \in Requests : req[p].row \in Nat /\ made \in Nat
  BY BadgeAssumption DEF TypeOK, Request
<1> QED
  BY <1>1, <1>2 DEF TypeOK, SlotsOK, Moved

\* The calls that need neither a template nor a row.
Free == Calls \ (Generating \cup { "findBadge", "markFailed" })

LEMMA FreeStep ==
  ASSUME TypeOK, NEW q \in Requests, NEW call \in Free, NEW r \in Request,
         Arrive(q, call, r) \/ Goto(q, call, r),
         made' = made, r.row <= made
  PROVE  SlotsOK'
  BY SlotStep, BadgeAssumption DEF Free, HaveRow, TypeOK

LEMMA EndStep ==
  ASSUME TypeOK, NEW q \in Requests, End(q), made' = made
  PROVE  SlotsOK'
<1>1. "idle" \in Free
  BY DEF Free, Calls, Generating
<1>2. NoRequest.row <= made
  BY BadgeAssumption DEF NoRequest, TypeOK
<1> QED
  BY <1>1, <1>2, FreeStep, NoRequestFits DEF End

LEMMA SlotsStep ==
  ASSUME TypeOK, NEW q \in Requests, Step(q)
  PROVE  SlotsOK'
<1>0. /\ made \in Nat /\ MaxId \in Nat /\ req[q].row \in 0 .. MaxId /\ req[q].row <= made
      /\ badge.id <= made /\ 0 <= made
      /\ req[q] \in Request
      /\ pc[q] \in Generating \cup { "findBadge" } => req[q].template # None
      /\ pc[q] \in HaveRow => req[q].row # 0
  BY BadgeAssumption DEF TypeOK, Request
<1>1. { "idle", "generate", "rescue", "fetch", "show", "showLaunch", "deleteFile",
        "deleteRow" } \subseteq Free
  BY DEF Free, Calls, Generating
<1>2. CASE GenerateBegin(q) \/ Show(q)
  BY <1>0, <1>1, <1>2, FreeStep, Carried, NoRequestFits DEF GenerateBegin, Show, Preview,
      TestBadge, EventPdf
<1>3. CASE ReadTemplate(q)
  <2>1. made' = made
    BY <1>3 DEF ReadTemplate
  <2>2. CASE chosen = None
    <3>1. Goto(q, "rescue", [req[q] EXCEPT !.template = chosen])
      BY <1>3, <2>2 DEF ReadTemplate
    <3> QED
      BY <1>0, <1>1, <2>1, <3>1, FreeStep, Carried
  <2>3. CASE chosen # None
    <3>1. Goto(q, "findBadge", [req[q] EXCEPT !.template = chosen])
      BY <1>3, <2>3 DEF ReadTemplate
    <3>2. "findBadge" \in Calls /\ "findBadge" \notin HaveRow
      BY DEF Calls, HaveRow, Generating
    <3>3. /\ [req[q] EXCEPT !.template = chosen] \in Request
          /\ [req[q] EXCEPT !.template = chosen].row = req[q].row
          /\ [req[q] EXCEPT !.template = chosen].template = chosen
      BY Carried
    <3>4. made' \in Nat /\ made <= made'
      BY <1>0, <2>1
    <3> QED
      BY <1>0, <2>1, <2>3, <3>1, <3>2, <3>3, <3>4, SlotStep
  <2> QED
    BY <2>2, <2>3
<1>4. CASE FindBadge(q)
  <2>1. /\ Goto(q, "mark", [req[q] EXCEPT !.row = badge.id])
        /\ made' = made /\ pc[q] = "findBadge"
    BY <1>4 DEF FindBadge
  <2>2. "mark" \in Calls /\ "mark" \notin HaveRow
    BY DEF Calls, HaveRow, Generating
  <2>3. /\ [req[q] EXCEPT !.row = badge.id] \in Request
        /\ [req[q] EXCEPT !.row = badge.id].row = badge.id
        /\ [req[q] EXCEPT !.row = badge.id].template = req[q].template
    BY Carried
  <2>4. made' \in Nat /\ made <= made' /\ req[q].template # None
    BY <1>0, <2>1
  <2> QED
    BY <1>0, <2>1, <2>2, <2>3, <2>4, SlotStep
<1>5. CASE CreateRow(q)
  <2>1. /\ Goto(q, "browser", [req[q] EXCEPT !.row = made + 1])
        /\ made' = made + 1 /\ made < MaxId /\ pc[q] = "mark"
    BY <1>5 DEF CreateRow
  <2>2. /\ [req[q] EXCEPT !.row = made + 1].row = made + 1
        /\ [req[q] EXCEPT !.row = made + 1].template = req[q].template
        /\ [req[q] EXCEPT !.row = made + 1] \in Request
    BY <1>0, <2>1 DEF Request
  <2>3. "browser" \in Calls /\ "mark" \in Generating
    BY DEF Calls, Generating
  <2>4. /\ req[q].template # None /\ made' \in Nat /\ made <= made'
        /\ made + 1 # 0 /\ made + 1 <= made'
    BY <1>0, <2>1, <2>3
  <2> QED
    BY <2>1, <2>2, <2>3, <2>4, SlotStep
<1>6. CASE ReuseRow(q) \/ UploadPdf(q) \/ UploadImage(q) \/ Complete(q)
  <2>1. \E call \in { "browser", "uploadImage", "complete", "link" } :
           Goto(q, call, req[q])
    BY <1>6 DEF ReuseRow, UploadPdf, UploadImage, Complete
  <2>2. made' = made /\ pc[q] \in Generating /\ req[q].row # 0
    BY <1>0, <1>6 DEF ReuseRow, UploadPdf, UploadImage, Complete, Generating, HaveRow
  <2>3. { "browser", "uploadImage", "complete", "link" } \subseteq Calls
    BY DEF Calls, Generating
  <2> QED
    BY <1>0, <2>1, <2>2, <2>3, SlotStep
<1>7. CASE Fail(q) \/ DeleteFile(q)
  <2>1. /\ made' = made
        /\ Goto(q, "rescue", req[q]) \/ Goto(q, "deleteRow", req[q])
    BY <1>7 DEF Fail, DeleteFile
  <2> QED
    BY <1>0, <1>1, <2>1, FreeStep
<1>8. CASE GetBrowser(q)
  <2>1. /\ made' = made
        /\ \/ End(q) \/ Goto(q, "showLaunch", req[q])
           \/ /\ Goto(q, "uploadPdf", req[q]) \/ Goto(q, "launch", req[q])
              /\ pc[q] = "browser"
    BY <1>8 DEF GetBrowser
  <2>2. /\ "uploadPdf" \in Calls /\ "launch" \in Calls
        /\ "browser" \in Generating /\ "browser" \in HaveRow
    BY DEF Calls, Generating, HaveRow
  <2> QED
    BY <1>0, <1>1, <2>1, <2>2, SlotStep, FreeStep, EndStep
<1>9. CASE Launch(q)
  <2>1. /\ made' = made
        /\ End(q) \/ (Goto(q, "uploadPdf", req[q]) /\ pc[q] = "launch")
    BY <1>9 DEF Launch
  <2>2. "uploadPdf" \in Calls /\ "launch" \in Generating /\ "launch" \in HaveRow
    BY DEF Calls, Generating, HaveRow
  <2> QED
    BY <1>0, <2>1, <2>2, SlotStep, EndStep
<1>10. CASE Link(q)
  <2>1. made' = made /\ (End(q) \/ Goto(q, "fetch", req[q]))
    BY <1>10 DEF Link
  <2> QED
    BY <1>0, <1>1, <2>1, EndStep, FreeStep
<1>11. CASE Rescue(q)
  <2>1. /\ made' = made
        /\ \/ End(q)
           \/ badge # NoBadge /\ Goto(q, "markFailed", [NoRequest EXCEPT !.row = badge.id])
    BY <1>11 DEF Rescue
  <2>2. "markFailed" \in Calls /\ "markFailed" \notin Generating \cup { "findBadge" }
    BY DEF Calls, Generating
  <2>3. /\ [NoRequest EXCEPT !.row = badge.id] \in Request
        /\ [NoRequest EXCEPT !.row = badge.id].row = badge.id
        /\ badge # NoBadge => badge.id # 0
    BY Carried
  <2>4. made' \in Nat /\ made <= made'
    BY <1>0, <2>1
  <2>5. CASE End(q)
    BY <2>1, <2>5, EndStep
  <2>6. CASE ~End(q)
    BY <1>0, <2>1, <2>2, <2>3, <2>4, <2>6, SlotStep
  <2> QED
    BY <2>5, <2>6
<1>12. CASE MarkFailed(q) \/ Fetch(q) \/ DeleteRow(q) \/ Abort(q)
  BY <1>12, EndStep DEF MarkFailed, Fetch, DeleteRow, Abort
<1>13. CASE DownloadBegin(q)
  <2>1. /\ made' = made
        /\ \/ Arrive(q, "fetch", NoRequest)
           \/ Arrive(q, "generate", [NoRequest EXCEPT !.serve = TRUE])
    BY <1>13 DEF DownloadBegin
  <2> QED
    BY <1>0, <1>1, <2>1, FreeStep, Carried, NoRequestFits
<1>14. CASE DeleteBegin(q)
  <2>1. /\ made' = made
        /\ \/ Arrive(q, "deleteFile", [NoRequest EXCEPT !.row = badge.id])
           \/ Arrive(q, "deleteRow", [NoRequest EXCEPT !.row = badge.id])
    BY <1>14 DEF DeleteBegin
  <2> QED
    BY <1>0, <1>1, <2>1, FreeStep, Carried
<1> QED
  BY <1>2, <1>3, <1>4, <1>5, <1>6, <1>7, <1>8, <1>9, <1>10, <1>11, <1>12, <1>13, <1>14
  DEF Step, Generate

---------------------------------------------------------------------------
\* The rest of TypeOK.

LEMMA RowStep ==
  ASSUME TypeOK, [Next]_vars
  PROVE  /\ badge' \in Badge \cup { NoBadge }
         /\ badge'.id <= made'
         /\ made' \in 0 .. MaxId
<1>0. /\ badge.id <= made /\ made \in 0 .. MaxId /\ badge \in Badge \cup { NoBadge }
      /\ badge.id = 0 <=> badge = NoBadge
      /\ NoBadge.id = 0 /\ MaxId \in Nat
  BY BadgeKinds, BadgeAssumption DEF TypeOK, NoBadge
<1>1. CASE badge' = badge /\ made' = made
  BY <1>0, <1>1
<1>2. CASE badge' = NoBadge /\ made' = made
  BY <1>0, <1>2
<1>3. ASSUME NEW b \in Badge, badge' = b, b.id = badge.id, made' = made
      PROVE  /\ badge' \in Badge \cup { NoBadge }
             /\ badge'.id <= made'
             /\ made' \in 0 .. MaxId
  BY <1>0, <1>3
<1>4. ASSUME NEW q \in Requests, CreateRow(q)
      PROVE  /\ badge' \in Badge /\ badge'.id <= made' /\ made' \in 0 .. MaxId
  <2>1. req[q].template \in Templates
    BY <1>4 DEF CreateRow, TypeOK, Request, Generating
  <2> QED
    BY <1>0, <1>4, <2>1 DEF CreateRow, Badge, Statuses
<1>5. ASSUME NEW q \in Requests, ReuseRow(q) \/ Complete(q) \/ MarkFailed(q)
      PROVE  /\ badge' \in Badge \cup { NoBadge } /\ badge'.id <= made' /\ made' \in 0 .. MaxId
  <2>1. made' = made
    BY <1>5 DEF ReuseRow, Complete, MarkFailed
  <2>2. CASE badge.id # req[q].row
    BY <1>1, <1>5, <2>1, <2>2 DEF ReuseRow, Complete, MarkFailed
  <2>3. CASE badge.id = req[q].row
    <3>1. req[q].row # 0
      BY <1>5 DEF ReuseRow, Complete, MarkFailed, TypeOK, HaveRow, Generating
    <3>2. badge \in Badge
      BY <1>0, <2>3, <3>1
    <3>3. ReuseRow(q) => req[q].template \in Templates
      BY DEF ReuseRow, TypeOK, Request, Generating
    <3>4. \/ badge' = [badge EXCEPT !.status = "generating", !.template = req[q].template,
                                    !.orphan = FALSE] /\ req[q].template \in Templates
          \/ badge' = [badge EXCEPT !.status = "completed", !.url = TRUE, !.quick = FALSE]
          \/ badge' = [badge EXCEPT !.status = "failed"]
      BY <1>5, <2>3, <3>3 DEF ReuseRow, Complete, MarkFailed
    <3>5. badge' \in Badge /\ badge'.id = badge.id
      BY <3>2, <3>4 DEF Badge, Statuses
    <3> QED
      BY <1>0, <2>1, <3>5
  <2> QED
    BY <2>2, <2>3
<1>6. ASSUME NEW t \in Templates, BulkUpsert(t)
      PROVE  /\ badge' \in Badge /\ badge'.id <= made' /\ made' \in 0 .. MaxId
  <2>1. CASE badge = NoBadge
    BY <1>0, <1>6, <2>1 DEF BulkUpsert, Badge, Statuses
  <2>2. CASE badge # NoBadge
    <3>1. badge \in Badge
      BY <1>0, <2>2
    <3>2. /\ badge' = [badge EXCEPT !.status = "completed", !.template = t, !.quick = TRUE]
          /\ made' = made
      BY <1>6, <2>2 DEF BulkUpsert
    <3>3. badge' \in Badge /\ badge'.id = badge.id
      BY <3>1, <3>2 DEF Badge, Statuses
    <3> QED
      BY <1>0, <3>2, <3>3
  <2> QED
    BY <2>1, <2>2
<1>7. ASSUME NEW q \in Requests, Abort(q)
      PROVE  /\ badge' \in Badge \cup { NoBadge } /\ badge'.id <= made' /\ made' \in 0 .. MaxId
  <2>1. /\ made' = made
        /\ \/ badge' = badge
           \/ badge.status = "generating" /\ badge' = [badge EXCEPT !.orphan = TRUE]
    BY <1>7 DEF Abort
  <2>2. badge.status = "generating" => badge \in Badge
    BY <1>0 DEF NoBadge
  <2>3. CASE badge' = badge
    BY <1>1, <2>1, <2>3
  <2>4. CASE badge' # badge
    <3>1. badge' \in Badge /\ badge'.id = badge.id
      BY <2>1, <2>2, <2>4 DEF Badge
    <3> QED
      BY <1>0, <2>1, <3>1
  <2> QED
    BY <2>3, <2>4
<1>8. ASSUME NEW q \in Requests, Show(q) \/ DeleteRow(q)
      PROVE  /\ badge' \in Badge \cup { NoBadge } /\ badge'.id <= made' /\ made' \in 0 .. MaxId
  <2>1. made' = made /\ badge' \in { badge, NoBadge }
    BY <1>8 DEF Show, Preview, TestBadge, EventPdf, DeleteRow
  <2> QED
    BY <1>1, <1>2, <2>1
<1>9. ASSUME NEW q \in Requests,
             \/ GenerateBegin(q) \/ ReadTemplate(q) \/ FindBadge(q) \/ GetBrowser(q)
             \/ Launch(q) \/ UploadPdf(q) \/ UploadImage(q) \/ Link(q) \/ Fail(q)
             \/ Rescue(q) \/ DownloadBegin(q) \/ Fetch(q) \/ DeleteBegin(q) \/ DeleteFile(q)
      PROVE  badge' = badge /\ made' = made
  BY <1>9 DEF GenerateBegin, ReadTemplate, FindBadge, GetBrowser, Launch, UploadPdf,
       UploadImage, Link, Fail, Rescue, DownloadBegin, Fetch, DeleteBegin, DeleteFile
<1>10. CASE Assign \/ BrowserDies \/ UNCHANGED vars
  BY <1>1, <1>10 DEF Assign, BrowserDies, vars
<1> QED
  BY <1>1, <1>4, <1>5, <1>6, <1>7, <1>8, <1>9, <1>10 DEF Next, Step, Generate

LEMMA TypeStep ==
  ASSUME TypeOK, [Next]_vars
  PROVE  TypeOK'
<1>1. /\ badge' \in Badge \cup { NoBadge }
      /\ badge'.id <= made'
      /\ made' \in 0 .. MaxId
  BY RowStep
<1>2. SlotsOK'
  <2>1. ASSUME NEW q \in Requests, Step(q) PROVE SlotsOK'
    BY <2>1, SlotsStep
  <2>2. CASE /\ UNCHANGED <<pc, req>>
             /\ made' \in Nat /\ made <= made'
    BY <2>2, BadgeAssumption DEF TypeOK, SlotsOK, Request
  <2>3. ASSUME NEW t \in Templates, BulkUpsert(t) PROVE SlotsOK'
    BY <2>2, <2>3, BadgeAssumption DEF BulkUpsert, TypeOK
  <2>4. CASE Assign \/ BrowserDies \/ UNCHANGED vars
    BY <2>2, <2>4, BadgeAssumption DEF Assign, BrowserDies, vars, TypeOK
  <2> QED
    BY <2>1, <2>3, <2>4 DEF Next
<1>3. alone' \in BOOLEAN
  <2>1. ASSUME NEW q \in Requests, Step(q) PROVE alone' \in BOOLEAN
    BY <2>1 DEF TypeOK, Step, Generate, Arrive, Goto, End, GenerateBegin, ReadTemplate,
         FindBadge, CreateRow, ReuseRow, GetBrowser, Launch, UploadPdf, UploadImage, Complete,
         Link, Fail, Rescue, MarkFailed, DownloadBegin, Fetch, Show, Preview, TestBadge,
             EventPdf, DeleteBegin, DeleteFile,
         DeleteRow, Abort
  <2> QED
    BY <2>1 DEF TypeOK, Next, BulkUpsert, Assign, BrowserDies, vars
<1>4. /\ chosen' \in Templates \cup { None }
      /\ files' \in [pdf : Templates \cup { None }, image : Templates \cup { None }]
      /\ links' \in BOOLEAN
      /\ connected' \in BOOLEAN
      /\ chromium' \in 0 .. MaxChromium
  <2>1. ASSUME NEW q \in Requests, Step(q)
        PROVE  /\ chosen' = chosen
               /\ files' \in [pdf : Templates \cup { None }, image : Templates \cup { None }]
               /\ links' \in BOOLEAN
               /\ connected' \in BOOLEAN
               /\ chromium' \in 0 .. MaxChromium
    <3>1. CASE UploadPdf(q) \/ UploadImage(q)
      BY <3>1 DEF UploadPdf, UploadImage, Browser, TypeOK, Request
    <3>2. CASE Launch(q)
      BY <3>2, BadgeAssumption DEF Launch, Storage, TypeOK
    <3>3. CASE Link(q)
      BY <3>3 DEF Link, Browser, TypeOK
    <3>4. CASE ~(UploadPdf(q) \/ UploadImage(q) \/ Launch(q) \/ Link(q))
      BY <2>1, <3>4 DEF TypeOK, Step, Generate, Storage, Browser, GenerateBegin,
           ReadTemplate, FindBadge, CreateRow, ReuseRow, GetBrowser, Complete,
           Fail, Rescue, MarkFailed, DownloadBegin, Fetch, Show, Preview, TestBadge,
               EventPdf, DeleteBegin, DeleteFile,
           DeleteRow, Abort
    <3> QED
      BY <3>1, <3>2, <3>3, <3>4
  <2>2. CASE BrowserDies
    <3>1. chromium \in 0 .. MaxChromium /\ MaxChromium \in Nat
      BY BadgeAssumption DEF TypeOK
    <3>2. chromium' \in 0 .. MaxChromium
      BY <2>2, <3>1 DEF BrowserDies
    <3>3. connected' \in BOOLEAN
      BY <2>2 DEF BrowserDies
    <3>4. chosen' = chosen /\ files' = files /\ links' = links
      BY <2>2 DEF BrowserDies, Storage
    <3> QED
      BY <3>2, <3>3, <3>4 DEF TypeOK
  <2>3. CASE Assign \/ (\E t \in Templates : BulkUpsert(t)) \/ UNCHANGED vars
    BY <2>3 DEF Assign, BulkUpsert, Storage, Browser, vars, TypeOK
  <2>4. CASE \E q \in Requests : Step(q)
    <3>1. PICK q \in Requests : Step(q)
      BY <2>4
    <3>2. chosen \in Templates \cup { None }
      BY DEF TypeOK
    <3> QED
      BY <2>1, <3>1, <3>2
  <2> QED
    BY <2>2, <2>3, <2>4 DEF Next
<1> QED
  BY <1>1, <1>2, <1>3, <1>4 DEF TypeOK, SlotsOK

LEMMA TypeInit == Init => TypeOK
<1> SUFFICES ASSUME Init PROVE TypeOK
  OBVIOUS
<1>1. /\ chosen \in Templates \cup { None }
      /\ badge \in Badge \cup { NoBadge }
      /\ made \in 0 .. MaxId /\ badge.id <= made
      /\ files \in [pdf : Templates \cup { None }, image : Templates \cup { None }]
      /\ chromium \in 0 .. MaxChromium
  BY BadgeAssumption DEF Init, NoBadge
<1>5. links \in BOOLEAN /\ connected \in BOOLEAN /\ alone \in BOOLEAN
  BY DEF Init
<1>2. pc \in [Requests -> Calls] /\ req \in [Requests -> Request]
  BY NoRequestFits DEF Init
<1>3. ASSUME NEW q \in Requests
      PROVE  pc[q] = "idle" /\ req[q].row = 0 /\ req[q].row <= made
  BY BadgeAssumption DEF Init, NoRequest
<1>4. "idle" \notin Generating \cup { "findBadge" } /\ "idle" \notin HaveRow
  BY DEF Generating, HaveRow
<1> QED
  BY <1>1, <1>2, <1>3, <1>4, <1>5 DEF TypeOK

\* Every reachable state is well typed; a request that completes a badge or
\* marks it failed has found one, and no file is rendered without a template.
THEOREM TypeCorrect == Spec => []TypeOK
<1>1. Init => TypeOK
  BY TypeInit
<1>2. TypeOK /\ [Next]_vars => TypeOK'
  BY TypeStep
<1> QED
  BY <1>1, <1>2, PTL DEF Spec

---------------------------------------------------------------------------
\* The files.  A slot that has uploaded one leaves it there, whatever the other
\* slots do: nothing sets a file back to None.

LinksInv ==
    /\ LinksLead
    /\ \A q \in Requests :
          /\ pc[q] = "uploadImage" => files.pdf # None
          /\ pc[q] \in { "complete", "link" } => files.pdf # None /\ files.image # None

Stored == files.pdf # None /\ files.image # None

LEMMA FilesStay ==
  ASSUME TypeOK, [Next]_vars
  PROVE  /\ files.pdf # None => files'.pdf # None
         /\ files.image # None => files'.image # None
<1>1. ASSUME NEW q \in Requests, UploadPdf(q) \/ UploadImage(q)
      PROVE  /\ files.pdf # None => files'.pdf # None
             /\ files.image # None => files'.image # None
  BY <1>1 DEF UploadPdf, UploadImage, TypeOK, Generating
<1>2. ASSUME NEW q \in Requests, Step(q), ~(UploadPdf(q) \/ UploadImage(q))
      PROVE  files' = files
  BY <1>2 DEF Step, Generate, Storage, GenerateBegin, ReadTemplate, FindBadge, CreateRow,
       ReuseRow, GetBrowser, Launch, Complete, Link, Fail, Rescue, MarkFailed, DownloadBegin,
       Fetch, Show, Preview, TestBadge, EventPdf, DeleteBegin, DeleteFile, DeleteRow, Abort
<1>3. ASSUME ~\E q \in Requests : Step(q)
      PROVE  files' = files
  BY <1>3 DEF Next, Assign, BrowserDies, BulkUpsert, Storage, vars
<1> QED
  BY <1>1, <1>2, <1>3

\* Where a slot can come to the calls that follow an upload, or to a download.
LEMMA Reached ==
  ASSUME TypeOK, NEW q \in Requests, Step(q), NEW p \in Requests
  PROVE  \/ pc'[p] = pc[p]
         \/ pc'[p] \notin { "uploadImage", "complete", "link", "fetch" }
         \/ UploadPdf(q) /\ p = q /\ pc'[p] = "uploadImage"
         \/ UploadImage(q) /\ p = q /\ pc'[p] = "complete"
         \/ Complete(q) /\ p = q /\ pc'[p] = "link"
         \/ Link(q) /\ p = q
         \/ DownloadBegin(q) /\ p = q /\ badge.url
<1>0. pc \in [Requests -> Calls]
  BY DEF TypeOK
<1>1. CASE UploadPdf(q) \/ UploadImage(q) \/ Complete(q) \/ Link(q)
  BY <1>0, <1>1 DEF UploadPdf, UploadImage, Complete, Link, Goto, End
<1>2. CASE \/ GenerateBegin(q) \/ ReadTemplate(q) \/ FindBadge(q) \/ CreateRow(q)
           \/ ReuseRow(q) \/ GetBrowser(q) \/ Launch(q) \/ Fail(q)
  BY <1>0, <1>2 DEF Arrive, Goto, End, GenerateBegin, ReadTemplate, FindBadge, CreateRow,
       ReuseRow, GetBrowser, Launch, Fail
<1>3. CASE \/ Rescue(q) \/ MarkFailed(q) \/ DownloadBegin(q) \/ Fetch(q) \/ Show(q)
           \/ DeleteBegin(q) \/ DeleteFile(q) \/ DeleteRow(q) \/ Abort(q)
  BY <1>0, <1>3 DEF Arrive, Goto, End, Rescue, MarkFailed, DownloadBegin, Fetch, Show,
      Preview, TestBadge, EventPdf,
       DeleteBegin, DeleteFile, DeleteRow, Abort
<1> QED
  BY <1>1, <1>2, <1>3 DEF Step, Generate

\* Only Complete gives the row its links.
LEMMA UrlStep ==
  ASSUME TypeOK, [Next]_vars, badge'.url, ~badge.url
  PROVE  \E q \in Requests : Complete(q)
<1>1. badge \in Badge \/ badge = NoBadge
  BY DEF TypeOK
<1>2. badge = NoBadge => badge \in [id : {0}, status : {"failed"}, template : {None},
                                    url : BOOLEAN, quick : BOOLEAN, orphan : BOOLEAN]
  BY DEF NoBadge
<1>3. ASSUME NEW q \in Requests, Step(q), ~Complete(q)
      PROVE  badge'.url = badge.url \/ badge' = NoBadge \/ CreateRow(q)
  BY <1>1, <1>2, <1>3 DEF Badge, Step, Generate, GenerateBegin, ReadTemplate, FindBadge,
       ReuseRow, GetBrowser, Launch, UploadPdf, UploadImage, Link, Fail, Rescue,
       MarkFailed, DownloadBegin, Fetch, Show, Preview, TestBadge, EventPdf, DeleteBegin,
           DeleteFile, DeleteRow, Abort
<1>4. NoBadge.url = FALSE /\ \A q \in Requests : CreateRow(q) => badge'.url = FALSE
  BY DEF NoBadge, CreateRow
<1>5. ASSUME NEW t \in Templates, BulkUpsert(t)
      PROVE  badge'.url = badge.url \/ badge'.url = FALSE
  BY <1>1, <1>2, <1>5 DEF BulkUpsert, Badge
<1>6. CASE Assign \/ BrowserDies \/ UNCHANGED vars
  BY <1>6 DEF Assign, BrowserDies, vars
<1> QED
  BY <1>3, <1>4, <1>5, <1>6 DEF Next

LEMMA LinksStep ==
  ASSUME TypeOK, LinksInv, [Next]_vars
  PROVE  LinksInv'
<1>1. Stored => Stored'
  BY FilesStay DEF Stored
<1>2. ASSUME NEW p \in Requests
      PROVE  /\ pc'[p] = "uploadImage" => files'.pdf # None
             /\ pc'[p] \in { "complete", "link", "fetch" } => Stored'
  <2>1. CASE pc'[p] = pc[p]
    BY <1>1, <2>1, FilesStay DEF LinksInv, LinksLead, Stored
  <2>2. ASSUME NEW q \in Requests, Step(q), pc'[p] # pc[p]
        PROVE  /\ pc'[p] = "uploadImage" => files'.pdf # None
               /\ pc'[p] \in { "complete", "link", "fetch" } => Stored'
    <3>1. UploadPdf(q) => files'.pdf # None
      BY DEF UploadPdf, TypeOK, Generating
    <3>2. UploadImage(q) => Stored'
      <4>1. UploadImage(q) => files'.image # None /\ files.pdf # None
        BY DEF UploadImage, TypeOK, Generating, LinksInv
      <4> QED
        BY <4>1, FilesStay DEF Stored
    <3>3. Complete(q) \/ Link(q) => Stored'
      BY <1>1 DEF Complete, Link, LinksInv, Stored
    <3>4. badge.url => Stored'
      BY <1>1 DEF LinksInv, LinksLead, Stored
    <3> QED
      BY <2>2, <3>1, <3>2, <3>3, <3>4, Reached DEF Stored
  <2>3. ASSUME ~\E q \in Requests : Step(q)
        PROVE  pc'[p] = pc[p]
    BY <2>3 DEF Next, Assign, BrowserDies, BulkUpsert, vars
  <2> QED
    BY <2>1, <2>2, <2>3
<1>3. badge'.url => Stored'
  <2>1. CASE badge.url
    BY <1>1, <2>1 DEF LinksInv, LinksLead, Stored
  <2>2. ASSUME NEW q \in Requests, Complete(q) PROVE Stored'
    BY <1>1, <2>2 DEF Complete, LinksInv, Stored
  <2> QED
    BY <2>1, <2>2, UrlStep
<1>4. links' => Stored'
  <2>1. ASSUME NEW q \in Requests, Link(q) PROVE Stored'
    BY <1>1, <2>1 DEF Link, LinksInv, Stored
  <2>2. ASSUME NEW q \in Requests, Step(q), ~Link(q) PROVE links' = links
    BY <2>2 DEF Step, Generate, Storage, GenerateBegin, ReadTemplate, FindBadge, CreateRow,
         ReuseRow, GetBrowser, Launch, UploadPdf, UploadImage, Complete, Fail, Rescue,
         MarkFailed, DownloadBegin, Fetch, Show, Preview, TestBadge, EventPdf,
             DeleteBegin, DeleteFile, DeleteRow, Abort
  <2>3. ASSUME ~\E q \in Requests : Step(q) PROVE links' = links
    BY <2>3 DEF Next, Assign, BrowserDies, BulkUpsert, Storage, vars
  <2>4. links => Stored'
    BY <1>1 DEF LinksInv, LinksLead, Stored
  <2> QED
    BY <2>1, <2>2, <2>3, <2>4
<1> QED
  BY <1>2, <1>3, <1>4 DEF LinksInv, LinksLead, Stored

\* Every link to the badge's files leads to them, whatever generations, deletions
\* and downloads overlap.
THEOREM LinksAlwaysLead == Spec => []LinksLead
<1>1. Init => LinksInv
  BY DEF Init, LinksInv, LinksLead, NoBadge
<1>2. TypeOK /\ LinksInv /\ [Next]_vars => LinksInv'
  BY LinksStep
<1>3. LinksInv => LinksLead
  BY DEF LinksInv
<1> QED
  BY <1>1, <1>2, <1>3, TypeCorrect, PTL DEF Spec

---------------------------------------------------------------------------
\* A badge that is being generated.  GeneratingHasRequest is inductive together
\* with TypeOK: a step of the request that is to settle the badge leaves it
\* about to do so, or the badge settled, or orphaned.

\* A request that goes on is still about to settle the same badge.
LEMMA Settling ==
  ASSUME TypeOK, NEW q \in Requests, Settles(q), Step(q),
         badge.status = "generating", ~badge.orphan,
         badge'.status = "generating", ~badge'.orphan
  PROVE  Settles(q)'
<1>0. badge # NoBadge /\ badge \in Badge
  BY BadgeKinds DEF NoBadge
<1>1. CASE GetBrowser(q) \/ Launch(q) \/ UploadPdf(q) \/ UploadImage(q) \/ Fail(q)
  BY <1>1 DEF GetBrowser, Launch, UploadPdf, UploadImage, Fail, Settles, Goto, End, TypeOK
<1>2. CASE Rescue(q)
  <2>1. Goto(q, "markFailed", [NoRequest EXCEPT !.row = badge.id]) /\ badge' = badge
    BY <1>0, <1>2 DEF Rescue
  <2>2. [NoRequest EXCEPT !.row = badge.id].row = badge.id
    BY DEF NoRequest
  <2> QED
    BY <2>1, <2>2 DEF Goto, Settles, TypeOK
<1>3. CASE Complete(q)
  BY <1>0, <1>3 DEF Complete, Badge
<1>4. CASE MarkFailed(q)
  BY <1>0, <1>4 DEF MarkFailed, Badge, Settles
<1>5. CASE Abort(q)
  BY <1>0, <1>5 DEF Abort, Badge
<1>6. CASE \/ GenerateBegin(q) \/ ReadTemplate(q) \/ FindBadge(q) \/ CreateRow(q)
           \/ ReuseRow(q) \/ Link(q) \/ DownloadBegin(q) \/ Fetch(q) \/ Show(q)
           \/ DeleteBegin(q) \/ DeleteFile(q) \/ DeleteRow(q)
  BY <1>6 DEF Settles, GenerateBegin, ReadTemplate, FindBadge, CreateRow, ReuseRow, Link,
       DownloadBegin, Fetch, Show, Preview, TestBadge, EventPdf, DeleteBegin, DeleteFile,
           DeleteRow, Arrive
<1> QED
  BY <1>1, <1>2, <1>3, <1>4, <1>5, <1>6 DEF Step, Generate

\* A step of another request leaves it alone, unless the badge changes hands.
LEMMA SettlingStays ==
  ASSUME TypeOK, NEW q \in Requests, NEW p \in Requests, p # q, Settles(p), Step(q),
         badge'.id = badge.id
  PROVE  Settles(p)'
<1>1. pc'[p] = pc[p] /\ req'[p] = req[p]
  BY DEF TypeOK, Step, Generate, Arrive, Goto, End, GenerateBegin, ReadTemplate,
       FindBadge, CreateRow, ReuseRow, GetBrowser, Launch, UploadPdf, UploadImage, Complete,
       Link, Fail, Rescue, MarkFailed, DownloadBegin, Fetch, Show, Preview, TestBadge,
           EventPdf, DeleteBegin, DeleteFile,
       DeleteRow, Abort
<1> QED
  BY <1>1 DEF Settles

\* The badge comes to be generating, or is no longer orphaned, only by a request
\* that is then about to settle it.
LEMMA Taken ==
  ASSUME TypeOK, NEW q \in Requests, CreateRow(q) \/ ReuseRow(q)
  PROVE  Settles(q)'
<1>1. CASE CreateRow(q)
  <2>1. /\ Goto(q, "browser", [req[q] EXCEPT !.row = made + 1])
        /\ badge'.id = made + 1
    BY <1>1 DEF CreateRow
  <2>2. [req[q] EXCEPT !.row = made + 1].row = made + 1
    BY DEF TypeOK, Request
  <2> QED
    BY <2>1, <2>2 DEF Goto, Settles, TypeOK
<1>2. CASE ReuseRow(q)
  <2>1. badge \in Badge /\ badge.id = req[q].row
    BY <1>2, BadgeKinds DEF ReuseRow
  <2>2. badge'.id = badge.id
    BY <1>2, <2>1 DEF ReuseRow, Badge
  <2> QED
    BY <1>2, <2>1, <2>2 DEF ReuseRow, Goto, Settles, TypeOK
<1> QED
  BY <1>1, <1>2

LEMMA OtherSteps ==
  ASSUME TypeOK, NEW q \in Requests, Step(q), ~CreateRow(q), ~ReuseRow(q),
         badge'.status = "generating", ~badge'.orphan
  PROVE  badge.status = "generating" /\ ~badge.orphan /\ badge'.id = badge.id
<1>1. badge' # NoBadge
  BY DEF NoBadge
<1>2. badge \in Badge \/ badge = NoBadge
  BY DEF TypeOK
<1>3. CASE Complete(q)
  <2>1. badge # NoBadge
    BY <1>3, BadgeKinds DEF Complete, TypeOK, HaveRow, Generating
  <2> QED
    BY <1>2, <1>3, <2>1 DEF Complete, Badge
<1>4. CASE MarkFailed(q)
  <2>1. badge.id = req[q].row => badge # NoBadge
    BY <1>4, BadgeKinds DEF MarkFailed, TypeOK, HaveRow
  <2> QED
    BY <1>2, <1>4, <2>1 DEF MarkFailed, Badge
<1>5. CASE Abort(q)
  <2>1. badge.status = "generating" => badge # NoBadge
    BY DEF NoBadge
  <2> QED
    BY <1>2, <1>5, <2>1 DEF Abort, Badge
<1>6. CASE Show(q) \/ DeleteRow(q)
  BY <1>1, <1>6 DEF Show, Preview, TestBadge, EventPdf, DeleteRow
<1>7. CASE ~(Complete(q) \/ MarkFailed(q) \/ Abort(q) \/ Show(q) \/ DeleteRow(q))
  <2>1. badge' = badge
    BY <1>7 DEF Step, Generate, GenerateBegin, ReadTemplate, FindBadge, GetBrowser, Launch,
         UploadPdf, UploadImage, Link, Fail, Rescue, DownloadBegin, Fetch, DeleteBegin,
         DeleteFile
  <2> QED
    BY <2>1
<1> QED
  BY <1>3, <1>4, <1>5, <1>6, <1>7

\* A badge is never left generating by a request that still runs: it has one
\* that will complete it or mark it failed, for any number of overlapping
\* generations, deletions and downloads.
THEOREM GeneratingIsSettled == Spec => []GeneratingHasRequest
<1>1. Init => GeneratingHasRequest
  BY DEF Init, GeneratingHasRequest, NoBadge
<1>2. TypeOK /\ GeneratingHasRequest /\ [Next]_vars => GeneratingHasRequest'
  <2> SUFFICES ASSUME TypeOK, GeneratingHasRequest, [Next]_vars,
                      badge'.status = "generating", ~badge'.orphan
               PROVE  \E p \in Requests : Settles(p)'
    BY DEF GeneratingHasRequest
  <2>1. ASSUME NEW q \in Requests, Step(q)
        PROVE  \E p \in Requests : Settles(p)'
    <3>1. CASE CreateRow(q) \/ ReuseRow(q)
      BY <3>1, Taken
    <3>2. CASE ~CreateRow(q) /\ ~ReuseRow(q)
      <4>1. badge.status = "generating" /\ ~badge.orphan /\ badge'.id = badge.id
        BY <2>1, <3>2, OtherSteps
      <4>2. PICK p \in Requests : Settles(p)
        BY <4>1 DEF GeneratingHasRequest
      <4> QED
        BY <2>1, <4>1, <4>2, Settling, SettlingStays
    <3> QED
      BY <3>1, <3>2
  <2>2. ASSUME NEW t \in Templates, BulkUpsert(t) PROVE FALSE
    <3>1. badge \in Badge \/ badge = NoBadge
      BY DEF TypeOK
    <3> QED
      BY <2>2, <3>1 DEF BulkUpsert, Badge
  <2>3. CASE UNCHANGED <<badge, pc, req>>
    BY <2>3 DEF GeneratingHasRequest, Settles
  <2>4. CASE Assign \/ BrowserDies \/ UNCHANGED vars
    BY <2>3, <2>4 DEF Assign, BrowserDies, vars
  <2> QED
    BY <2>1, <2>2, <2>4 DEF Next
<1> QED
  BY <1>1, <1>2, TypeCorrect, PTL DEF Spec

---------------------------------------------------------------------------
\* While requests do not overlap, the one that runs has the badge to itself: the
\* row is generating with its template until both files are stored.

OneRuns == alone => \A p, q \in Requests : pc[p] # "idle" /\ pc[q] # "idle" => p = q

Rendering == { "browser", "launch", "uploadPdf", "uploadImage", "complete" }

Owned(q) ==
    /\ pc[q] \in Rendering => badge.status = "generating" /\ badge.template = req[q].template
    /\ pc[q] \in { "uploadImage", "complete" } => files.pdf = req[q].template
    /\ pc[q] = "complete" => files.image = req[q].template

MatchInv ==
    /\ FilesMatchAlone
    /\ OneRuns
    /\ alone => \A q \in Requests : Owned(q)

\* The request that makes a step is then the only one.
LEMMA Single ==
  ASSUME TypeOK, OneRuns, NEW q \in Requests, Step(q), alone'
  PROVE  /\ alone
         /\ \A p \in Requests : p # q => pc[p] = "idle" /\ pc'[p] = "idle"
<1>1. \/ \E call, r : Arrive(q, call, r)
      \/ pc[q] # "idle" /\ \E call, r : Goto(q, call, r)
  <2>1. CASE GenerateBegin(q) \/ Show(q) \/ DownloadBegin(q) \/ DeleteBegin(q)
    BY <2>1 DEF GenerateBegin, Show, Preview, TestBadge, EventPdf, DownloadBegin,
        DeleteBegin
  <2>2. CASE \/ ReadTemplate(q) \/ FindBadge(q) \/ CreateRow(q) \/ ReuseRow(q)
             \/ UploadPdf(q) \/ UploadImage(q) \/ Complete(q) \/ Fail(q) \/ DeleteFile(q)
    BY <2>2 DEF ReadTemplate, FindBadge, CreateRow, ReuseRow, UploadPdf, UploadImage,
         Complete, Fail, DeleteFile, Generating
  <2>3. CASE \/ GetBrowser(q) \/ Launch(q) \/ Link(q) \/ Rescue(q) \/ MarkFailed(q)
             \/ Fetch(q) \/ DeleteRow(q) \/ Abort(q)
    BY <2>3 DEF GetBrowser, Launch, Link, Rescue, MarkFailed, Fetch, DeleteRow, Abort, End
  <2> QED
    BY <2>1, <2>2, <2>3 DEF Step, Generate
<1>2. ASSUME NEW call, NEW r, Arrive(q, call, r)
      PROVE  /\ alone
             /\ \A p \in Requests : p # q => pc[p] = "idle" /\ pc'[p] = "idle"
  BY <1>2 DEF Arrive, TypeOK
<1>3. ASSUME NEW call, NEW r, Goto(q, call, r), pc[q] # "idle"
      PROVE  /\ alone
             /\ \A p \in Requests : p # q => pc[p] = "idle" /\ pc'[p] = "idle"
  BY <1>3 DEF Goto, TypeOK, OneRuns
<1> QED
  BY <1>1, <1>2, <1>3

\* What the step leaves of the request's hold on the badge and the files.
LEMMA OwnedStep ==
  ASSUME TypeOK, MatchInv, alone, NEW q \in Requests, Step(q)
  PROVE  /\ Owned(q)'
         /\ badge'.status = "completed" /\ ~badge'.quick =>
               files'.pdf = badge'.template /\ files'.image = badge'.template
<1>0. /\ Owned(q) /\ badge \in Badge \cup { NoBadge } /\ req[q] \in Request
      /\ pc \in [Requests -> Calls] /\ req \in [Requests -> Request]
      /\ files \in [pdf : Templates \cup { None }, image : Templates \cup { None }]
      /\ badge.status = "completed" /\ ~badge.quick =>
               files.pdf = badge.template /\ files.image = badge.template
  BY DEF MatchInv, FilesMatchAlone, TypeOK
<1>1. CASE CreateRow(q)
  <2>1. /\ Goto(q, "browser", [req[q] EXCEPT !.row = made + 1])
        /\ badge'.status = "generating" /\ badge'.template = req[q].template
    BY <1>1 DEF CreateRow
  <2>2. [req[q] EXCEPT !.row = made + 1].template = req[q].template
    BY <1>0 DEF Request
  <2> QED
    BY <1>0, <2>1, <2>2 DEF Goto, Owned
<1>2. CASE ReuseRow(q)
  <2>1. badge \in Badge
    BY <1>2, BadgeKinds DEF ReuseRow
  <2>2. badge'.status = "generating" /\ badge'.template = req[q].template
    BY <1>2, <2>1 DEF ReuseRow, Badge
  <2> QED
    BY <1>0, <1>2, <2>2 DEF ReuseRow, Goto, Owned
<1>3. CASE UploadPdf(q) \/ UploadImage(q)
  <2>1. badge.status # "completed" /\ badge' = badge
    BY <1>0, <1>3 DEF UploadPdf, UploadImage, Owned, Rendering
  <2> QED
    BY <1>0, <1>3, <2>1 DEF UploadPdf, UploadImage, Goto, Owned, Rendering
<1>4. CASE Complete(q)
  <2>1. badge \in Badge
    BY <1>0, <1>4, BadgeKinds DEF Complete, TypeOK, HaveRow, Generating
  <2>2. badge'.template = badge.template /\ files' = files /\ pc'[q] = "link"
    BY <1>0, <1>4, <2>1 DEF Complete, Goto, Badge, Storage
  <2> QED
    BY <1>0, <1>4, <2>2 DEF Complete, Owned, Rendering
<1>5. CASE GetBrowser(q) \/ Launch(q)
  BY <1>0, <1>5 DEF GetBrowser, Launch, Goto, End, Owned, Rendering, Storage
<1>6. CASE MarkFailed(q)
  <2>1. badge'.status = "failed" \/ badge' = badge
    BY <1>0, <1>6 DEF MarkFailed, Badge, NoBadge
  <2> QED
    BY <1>0, <1>6, <2>1 DEF MarkFailed, Goto, End, Owned, Rendering, Storage
<1>7. CASE Abort(q)
  <2>1. badge' = badge \/ badge'.status = "generating"
    BY <1>0, <1>7 DEF Abort, Badge, NoBadge
  <2> QED
    BY <1>0, <1>7, <2>1 DEF Abort, Goto, End, Owned, Rendering, Storage
<1>8. CASE Show(q) \/ DeleteRow(q)
  <2>1. badge' = badge \/ badge'.status = "failed"
    BY <1>8 DEF Show, Preview, TestBadge, EventPdf, DeleteRow, NoBadge
  <2> QED
    BY <1>0, <1>8, <2>1 DEF Show, Preview, TestBadge, EventPdf, DeleteRow, Arrive, Goto,
        End, Owned, Rendering, Storage
<1>9. CASE \/ GenerateBegin(q) \/ ReadTemplate(q) \/ FindBadge(q) \/ Link(q) \/ Fail(q)
           \/ Rescue(q) \/ DownloadBegin(q) \/ Fetch(q) \/ DeleteBegin(q) \/ DeleteFile(q)
  <2>1. badge' = badge /\ files' = files /\ pc'[q] \notin Rendering
    BY <1>0, <1>9 DEF GenerateBegin, ReadTemplate, FindBadge, Link, Fail, Rescue,
         DownloadBegin, Fetch, DeleteBegin, DeleteFile, Arrive, Goto, End, Rendering, Storage
  <2> QED
    BY <1>0, <2>1 DEF Owned, Rendering
<1> QED
  BY <1>1, <1>2, <1>3, <1>4, <1>5, <1>6, <1>7, <1>8, <1>9 DEF Step, Generate

LEMMA MatchStep ==
  ASSUME TypeOK, MatchInv, [Next]_vars
  PROVE  MatchInv'
<1>1. ASSUME NEW q \in Requests, Step(q), alone' PROVE MatchInv'
  <2>1. /\ alone
        /\ \A p \in Requests : p # q => pc[p] = "idle" /\ pc'[p] = "idle"
    BY <1>1, Single DEF MatchInv
  <2>2. /\ Owned(q)'
        /\ badge'.status = "completed" /\ ~badge'.quick =>
              files'.pdf = badge'.template /\ files'.image = badge'.template
    BY <1>1, <2>1, OwnedStep
  <2>3. ASSUME NEW p \in Requests, p # q PROVE Owned(p)'
    BY <2>1, <2>3 DEF Owned, Rendering
  <2> QED
    BY <2>1, <2>2, <2>3 DEF MatchInv, FilesMatchAlone, OneRuns
<1>2. ASSUME NEW t \in Templates, BulkUpsert(t), alone' PROVE MatchInv'
  <2>1. /\ \A p \in Requests : pc'[p] = "idle"
        /\ badge \in Badge \/ badge = NoBadge
    BY <1>2 DEF BulkUpsert, TypeOK
  <2>2. badge'.quick
    BY <1>2, <2>1 DEF BulkUpsert, Badge
  <2> QED
    BY <2>1, <2>2 DEF MatchInv, FilesMatchAlone, OneRuns, Owned, Rendering
<1>3. CASE Assign \/ BrowserDies \/ UNCHANGED vars
  BY <1>3 DEF Assign, BrowserDies, vars, Storage, MatchInv, FilesMatchAlone, OneRuns, Owned
<1>4. CASE ~alone'
  BY <1>4 DEF MatchInv, FilesMatchAlone, OneRuns
<1> QED
  BY <1>1, <1>2, <1>3, <1>4 DEF Next

\* While requests do not overlap, a badge that was rendered last shows the
\* template its row names, whatever failed, was deleted or was reassigned.
THEOREM FilesMatchWhenAlone == Spec => []FilesMatchAlone
<1>1. Init => MatchInv
  BY DEF Init, MatchInv, FilesMatchAlone, OneRuns, Owned, Rendering, NoBadge
<1>2. TypeOK /\ MatchInv /\ [Next]_vars => MatchInv'
  BY MatchStep
<1>3. MatchInv => FilesMatchAlone
  BY DEF MatchInv
<1> QED
  BY <1>1, <1>2, <1>3, TypeCorrect, PTL DEF Spec

=============================================================================
