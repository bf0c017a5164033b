--------------------------- MODULE EventTagsProofs ---------------------------
(***************************************************************************)
(* What EventTags guarantees for any sets of slots, events and tags, and   *)
(* any size of the connection pool.                                        *)
(***************************************************************************)
EXTENDS EventTags, FiniteSetTheorems, TLAPS

Calls == { "idle", "tags" } \cup InTransaction

\* What a slot is left with, and what the other slots keep.
Moved(q, call, r) ==
    /\ pc' \in [Requests -> Calls] /\ req' \in [Requests -> Request]
    /\ pc'[q] = call /\ req'[q] = r
    /\ \A p \in Requests : p # q => pc'[p] = pc[p] /\ req'[p] = req[p]

LEMMA Moves ==
  ASSUME TypeOK, NEW q \in Requests, NEW call \in Calls, NEW r \in Request,
         Arrive(q, call, r) \/ Goto(q, call, r)
  PROVE  Moved(q, call, r)
  BY DEF TypeOK, Arrive, Goto, Moved, Calls

LEMMA NoRequestFits ==
  /\ NoRequest \in Request
  /\ \A e \in Events, want \in SUBSET Tags :
        [NoRequest EXCEPT !.event = e, !.want = want] \in Request
  /\ \A ids \in SUBSET Events : [NoRequest EXCEPT !.ids = ids] \in Request
  BY DEF NoRequest, Request

LEMMA CallNames ==
  /\ Calls = { "idle", "tags", "delete", "write", "link", "lock" }
  /\ InTransaction = { "delete", "write", "link", "lock" }
  BY DEF Calls, InTransaction

---------------------------------------------------------------------------
\* The step of one slot, by the call it goes on with and what it knows then.

ReadReq(q) == [req[q] EXCEPT !.remove = TagsOf(req[q].event) \ req[q].want,
                             !.add = req[q].want \ TagsOf(req[q].event)]
DeleteReq(q) == [req[q] EXCEPT !.gone = req[q].remove \cap TagsOf(req[q].event)]
DecReq(q, t) == [req[q] EXCEPT !.remove = req[q].remove \ { t }, !.dec = req[q].dec \cup { t }]
IncReq(q, t) == [req[q] EXCEPT !.add = req[q].add \ { t }, !.inc = req[q].inc \cup { t }]
LinkReq(q) == [req[q] EXCEPT !.made = req[q].inc]
LockReq(q, e) == [req[q] EXCEPT !.held = req[q].held \cup { e }]

LEMMA Fields ==
  ASSUME NEW r \in Request
  PROVE  /\ r.event \in Events \cup { NoEvent }
         /\ r.want \subseteq Tags /\ r.remove \subseteq Tags /\ r.add \subseteq Tags
         /\ r.gone \subseteq Tags /\ r.dec \subseteq Tags /\ r.inc \subseteq Tags
         /\ r.made \subseteq Tags /\ r.ids \subseteq Events /\ r.held \subseteq Events
  BY DEF Request

LEMMA NextRequests ==
  ASSUME TypeOK, NEW q \in Requests
  PROVE  /\ req[q] \in Request
         /\ ReadReq(q) \in Request /\ DeleteReq(q) \in Request
         /\ LinkReq(q) \in Request
         /\ \A t \in Tags : DecReq(q, t) \in Request /\ IncReq(q, t) \in Request
         /\ \A e \in Events : LockReq(q, e) \in Request
<1>1. req[q] \in Request
  BY DEF TypeOK
<1>2. TagsOf(req[q].event) \subseteq Tags
  BY DEF TagsOf
<1>3. ReadReq(q) \in Request
  BY <1>1, <1>2 DEF ReadReq, Request
<1>4. DeleteReq(q) \in Request
  BY <1>1, <1>2 DEF DeleteReq, Request
<1>5. LinkReq(q) \in Request
  BY <1>1 DEF LinkReq, Request
<1>6. \A t \in Tags : DecReq(q, t) \in Request /\ IncReq(q, t) \in Request
  BY <1>1 DEF DecReq, IncReq, Request
<1>7. \A e \in Events : LockReq(q, e) \in Request
  BY <1>1 DEF LockReq, Request
<1> QED
  BY <1>1, <1>3, <1>4, <1>5, <1>6, <1>7

---------------------------------------------------------------------------
\* The inductive invariant.

\* What a request has done so far, by the call it makes next.
Progress(call, r) ==
    /\ call = "idle" => r = NoRequest
    /\ call \in { "tags", "delete", "write", "link" } => r.event \in Events
    /\ call \in { "idle", "tags", "delete", "lock" } =>
          r.gone = {} /\ r.dec = {} /\ r.inc = {} /\ r.made = {}
    /\ call = "delete" => r.remove \cap r.add = {}
    /\ call \in { "write", "link" } =>
          /\ r.gone \subseteq r.dec \cup r.remove
          /\ (r.inc \cup r.add) \cap (r.dec \cup r.remove) = {}
    /\ call = "write" => r.made = r.inc
    /\ call = "link" => r.made \subseteq r.inc /\ r.remove = {}

\* The links that r has deleted are there for everybody else, those it has made
\* are not there yet.
Pending(r) ==
    /\ \A t \in r.gone : <<r.event, t>> \in links
    /\ \A t \in r.made : r.event \in Stored /\ <<r.event, t>> \notin links

\* No two transactions have deleted or made the same link.
Apart(r, s) == r.event = s.event => (r.gone \cup r.made) \cap (s.gone \cup s.made) = {}

RequestsOK ==
    /\ \A q \in Requests : Progress(pc[q], req[q]) /\ Pending(req[q])
    /\ \A p, q \in Requests : p # q => Apart(req[p], req[q])

\* A request that meets no other finds every link it has read.
Undisturbed(call, r) ==
    /\ call = "delete" =>
          r.remove \subseteq TagsOf(r.event) /\ r.want = (TagsOf(r.event) \ r.remove) \cup r.add
    /\ call \in { "write", "link" } =>
          /\ r.dec \cup r.remove \subseteq r.gone
          /\ r.want = (TagsOf(r.event) \ r.gone) \cup r.inc \cup r.add

AloneOK ==
    alone =>
        /\ \A p, q \in Requests : p # q => pc[p] = "idle" \/ pc[q] = "idle"
        /\ \A q \in Requests : Undisturbed(pc[q], req[q])
        /\ \A t \in Tags : missed[t] = 0

IInv == TypeOK /\ RequestsOK /\ CountAccounted /\ AloneOK

---------------------------------------------------------------------------
\* Steps that write nothing but the request's own slot, and maybe an event.

LEMMA QuietRequests ==
  ASSUME TypeOK, RequestsOK, NEW q \in Requests, NEW call \in Calls, NEW r \in Request,
         Arrive(q, call, r) \/ Goto(q, call, r),
         Progress(call, r), Pending(r),
         \A p \in Requests : p # q => Apart(req[p], r),
         links' = links, Stored \subseteq Stored'
  PROVE  RequestsOK'
<1>1. Moved(q, call, r)
  BY Moves
<1>2. \A p \in Requests : Progress(pc[p], req[p])'
  BY <1>1 DEF Moved, RequestsOK, Progress
<1>3. \A p \in Requests : Pending(req[p])'
  BY <1>1 DEF Moved, RequestsOK, Pending
<1>4. ASSUME NEW p \in Requests, NEW s \in Requests, p # s
      PROVE  Apart(req[p], req[s])'
  <2>1. CASE p # q /\ s # q
    BY <1>1, <1>4, <2>1 DEF Moved, RequestsOK, Apart
  <2>2. CASE p = q
    <3>1. Apart(req[s], r) /\ req'[p] = r /\ req'[s] = req[s]
      BY <1>1, <1>4, <2>2 DEF Moved
    <3> QED
      BY <3>1 DEF Apart
  <2>3. CASE s = q
    <3>1. Apart(req[p], r) /\ req'[s] = r /\ req'[p] = req[p]
      BY <1>1, <1>4, <2>3 DEF Moved
    <3> QED
      BY <3>1 DEF Apart
  <2> QED
    BY <2>1, <2>2, <2>3
<1> QED
  BY <1>2, <1>3, <1>4 DEF RequestsOK

\* A request without a link of its own is apart from all.
LEMMA ApartFromAll ==
  ASSUME NEW r, r.gone = {}, r.made = {}
  PROVE  Pending(r) /\ \A p \in Requests : Apart(req[p], r)
  BY DEF Pending, Apart

LEMMA QuietAlone ==
  ASSUME TypeOK, AloneOK, NEW q \in Requests, NEW call \in Calls, NEW r \in Request,
         \/ Arrive(q, call, r)
         \/ Goto(q, call, r) /\ pc[q] # "idle",
         alone => Undisturbed(call, r),
         links' = links, missed' = missed
  PROVE  AloneOK'
<1>1. Moved(q, call, r)
  BY Moves
<1>2. SUFFICES ASSUME alone' PROVE AloneOK'
  BY DEF AloneOK
<1>3. alone /\ \A p \in Requests : p # q => pc[p] = "idle"
  BY <1>2 DEF Arrive, Goto, AloneOK
<1>4. \A p, s \in Requests : p # s => pc'[p] = "idle" \/ pc'[s] = "idle"
  BY <1>1, <1>3 DEF Moved
<1>5. \A p \in Requests : Undisturbed(pc[p], req[p])'
  BY <1>1, <1>3 DEF Moved, AloneOK, Undisturbed, TagsOf
<1>6. \A t \in Tags : missed'[t] = 0
  BY <1>3 DEF AloneOK
<1> QED
  BY <1>4, <1>5, <1>6 DEF AloneOK

LEMMA QuietType ==
  ASSUME TypeOK, NEW q \in Requests, NEW call \in Calls, NEW r \in Request,
         Arrive(q, call, r) \/ Goto(q, call, r),
         UNCHANGED <<Rows, History>>
  PROVE  TypeOK'
<1>1. Moved(q, call, r)
  BY Moves
<1>2. started' \in 0 .. MaxStarted /\ alone' \in BOOLEAN
  <2>1. started' \in 0 .. MaxStarted
    BY EventTagsAssumption DEF TypeOK, Arrive, Goto
  <2>2. alone' \in BOOLEAN
    <3>1. alone' = alone \/ alone' = (alone /\ \A p \in Requests : pc[p] = "idle")
      BY DEF Arrive, Goto
    <3> QED
      BY <3>1 DEF TypeOK
  <2> QED
    BY <2>1, <2>2
<1>3. Stored' = Stored
  BY DEF Rows, Stored
<1> QED
  BY <1>1, <1>2, <1>3 DEF TypeOK, Moved, Rows, History, Calls

LEMMA QuietCount ==
  ASSUME CountAccounted, UNCHANGED <<links, usage, History>>
  PROVE  CountAccounted'
  BY DEF CountAccounted, EventsOf, History

\* All of it for a step that goes on with r and writes nothing.
LEMMA QuietStep ==
  ASSUME IInv, NEW q \in Requests, NEW call \in Calls, NEW r \in Request,
         \/ Arrive(q, call, r)
         \/ Goto(q, call, r) /\ pc[q] # "idle",
         UNCHANGED <<Rows, History>>,
         Progress(call, r), Pending(r),
         \A p \in Requests : p # q => Apart(req[p], r),
         alone => Undisturbed(call, r)
  PROVE  IInv'
<1>1. links' = links /\ missed' = missed /\ Stored' = Stored /\ UNCHANGED <<links, usage, History>>
  BY DEF Rows, History, Stored
<1>2. TypeOK'
  BY QuietType DEF IInv
<1>3. RequestsOK'
  BY <1>1, QuietRequests DEF IInv
<1>4. CountAccounted'
  BY <1>1, QuietCount DEF IInv
<1>5. AloneOK'
  BY <1>1, QuietAlone DEF IInv
<1> QED
  BY <1>2, <1>3, <1>4, <1>5 DEF IInv

\* Beginning anew, with nothing done.
LEMMA Fresh ==
  /\ Progress("idle", NoRequest) /\ Undisturbed("idle", NoRequest)
  /\ Pending(NoRequest) /\ \A p \in Requests : Apart(req[p], NoRequest)
  BY DEF Progress, Undisturbed, NoRequest, Pending, Apart

LEMMA EndStep ==
  ASSUME IInv, NEW q \in Requests, pc[q] # "idle", End(q), UNCHANGED <<Rows, History>>
  PROVE  IInv'
<1>1. "idle" \in Calls /\ NoRequest \in Request
  BY CallNames, NoRequestFits
<1> QED
  BY <1>1, Fresh, QuietStep DEF End

---------------------------------------------------------------------------
\* Arrivals.

LEMMA StartReq ==
  ASSUME NEW e \in Events, NEW want \in SUBSET Tags,
         NEW r, r = [NoRequest EXCEPT !.event = e, !.want = want]
  PROVE  /\ r \in Request /\ Progress("tags", r) /\ Undisturbed("tags", r)
         /\ Pending(r) /\ \A p \in Requests : Apart(req[p], r)
<1>1. /\ r.gone = {} /\ r.dec = {} /\ r.inc = {} /\ r.made = {} /\ r.event = e
  BY DEF NoRequest
<1>2. r \in Request
  BY NoRequestFits
<1> QED
  BY <1>1, <1>2, ApartFromAll DEF Progress, Undisturbed

LEMMA DeletionReq ==
  ASSUME NEW ids \in SUBSET Events, NEW r, r = [NoRequest EXCEPT !.ids = ids]
  PROVE  /\ r \in Request /\ Progress("lock", r) /\ Undisturbed("lock", r)
         /\ Pending(r) /\ \A p \in Requests : Apart(req[p], r)
<1>1. /\ r.gone = {} /\ r.dec = {} /\ r.inc = {} /\ r.made = {}
  BY DEF NoRequest
<1>2. r \in Request
  BY NoRequestFits
<1> QED
  BY <1>1, <1>2, ApartFromAll DEF Progress, Undisturbed

LEMMA BeginStep ==
  ASSUME IInv, NEW q \in Requests, Begin(q)
  PROVE  IInv'
<1>0. "idle" \in Calls /\ "tags" \in Calls /\ "lock" \in Calls
  BY CallNames
<1>1. CASE Update(q)
  <2>1. PICK e \in Stored, want \in SUBSET Tags :
          /\ Arrive(q, "tags", [NoRequest EXCEPT !.event = e, !.want = want])
          /\ UNCHANGED <<Rows, History>>
    BY <1>1 DEF Update
  <2>2. e \in Events
    BY DEF Stored
  <2> QED
    BY <1>0, <2>1, <2>2, StartReq, QuietStep
<1>2. CASE Remove(q)
  <2>1. PICK e \in Stored :
          /\ Arrive(q, "lock", [NoRequest EXCEPT !.ids = { e }])
          /\ UNCHANGED <<Rows, History>>
    BY <1>2 DEF Remove
  <2>2. { e } \in SUBSET Events
    BY DEF Stored
  <2> QED
    BY <1>0, <2>1, <2>2, DeletionReq, QuietStep
<1>3. CASE BulkDelete(q)
  <2>1. PICK ids \in SUBSET Events :
          /\ Arrive(q, "lock", [NoRequest EXCEPT !.ids = ids])
          /\ UNCHANGED <<Rows, History>>
    BY <1>3 DEF BulkDelete
  <2> QED
    BY <1>0, <2>1, DeletionReq, QuietStep
<1>4. CASE Create(q)
  <2>1. PICK e \in Events, want \in SUBSET Tags :
          /\ event[e] = "unmade"
          /\ event' = [event EXCEPT ![e] = "stored"]
          /\ Arrive(q, IF want = {} THEN "idle" ELSE "tags",
                    IF want = {} THEN NoRequest
                    ELSE [NoRequest EXCEPT !.event = e, !.want = want])
          /\ UNCHANGED <<tags, links, usage, History>>
    BY <1>4 DEF Create
  <2> DEFINE call == IF want = {} THEN "idle" ELSE "tags"
             r == IF want = {} THEN NoRequest
                  ELSE [NoRequest EXCEPT !.event = e, !.want = want]
  <2>2. /\ call \in Calls /\ r \in Request /\ Progress(call, r) /\ Undisturbed(call, r)
        /\ Pending(r) /\ \A p \in Requests : Apart(req[p], r)
    <3>1. CASE want = {}
      BY <1>0, <3>1, Fresh, NoRequestFits
    <3>2. CASE want # {}
      BY <1>0, <3>2, StartReq
    <3> QED
      BY <3>1, <3>2
  <2>3. Arrive(q, call, r)
    BY <2>1
  <2> HIDE DEF call, r
  <2>4. Stored \subseteq Stored' /\ event' \in [Events -> { "unmade", "stored", "deleted" }]
    BY <2>1 DEF Stored, IInv, TypeOK
  <2>5. RequestsOK'
    BY <2>1, <2>2, <2>3, <2>4, QuietRequests DEF IInv
  <2>6. AloneOK'
    BY <2>1, <2>2, <2>3, QuietAlone DEF IInv, History
  <2>7. CountAccounted'
    BY <2>1, QuietCount DEF IInv
  <2>8. TypeOK'
    <3>1. Moved(q, call, r)
      BY <2>2, <2>3, Moves DEF IInv
    <3>2. started' \in 0 .. MaxStarted
      BY <2>3, EventTagsAssumption DEF Arrive, IInv, TypeOK
    <3>3. alone' = (alone /\ \A p \in Requests : pc[p] = "idle")
      BY <2>3 DEF Arrive
    <3>4. alone' \in BOOLEAN
      BY <3>3
    <3>5. links' \subseteq Stored' \X tags'
      BY <2>1, <2>4 DEF IInv, TypeOK
    <3> QED
      BY <2>1, <2>4, <3>1, <3>2, <3>4, <3>5 DEF IInv, TypeOK, Moved, Calls, History
  <2> QED
    BY <2>5, <2>6, <2>7, <2>8 DEF IInv
<1> QED
  BY <1>1, <1>2, <1>3, <1>4 DEF Begin

---------------------------------------------------------------------------
\* The calls of updateEventTags before it commits.

LEMMA AboutSlot ==
  ASSUME IInv, NEW q \in Requests
  PROVE  /\ req[q] \in Request /\ pc[q] \in Calls
         /\ Progress(pc[q], req[q]) /\ Pending(req[q])
         /\ \A p \in Requests : p # q => Apart(req[p], req[q])
         /\ alone => Undisturbed(pc[q], req[q])
  BY DEF IInv, TypeOK, RequestsOK, AloneOK, Calls

LEMMA ReadStep ==
  ASSUME IInv, NEW q \in Requests, ReadLinks(q)
  PROVE  IInv'
<1> DEFINE r == ReadReq(q)
<1>1. /\ r \in Request /\ "delete" \in Calls /\ pc[q] = "tags"
      /\ Goto(q, "delete", r) /\ UNCHANGED <<Rows, History>>
  BY NextRequests, CallNames DEF IInv, ReadLinks, ReadReq
<1>2. /\ r.gone = req[q].gone /\ r.dec = req[q].dec /\ r.inc = req[q].inc
      /\ r.made = req[q].made /\ r.event = req[q].event /\ r.want = req[q].want
      /\ r.remove = TagsOf(req[q].event) \ req[q].want
      /\ r.add = req[q].want \ TagsOf(req[q].event)
      /\ req[q] \in Request
  BY NextRequests DEF IInv, ReadReq, Request
<1>3. Progress("delete", r)
  BY <1>1, <1>2, AboutSlot DEF Progress
<1>4. Undisturbed("delete", r)
  BY <1>2 DEF Undisturbed
<1>5. r.gone = {} /\ r.made = {}
  BY <1>1, <1>2, AboutSlot DEF Progress
<1> HIDE DEF r
<1> QED
  BY <1>1, <1>3, <1>4, <1>5, ApartFromAll, QuietStep

LEMMA DeleteLinksStep ==
  ASSUME IInv, NEW q \in Requests, DeleteLinks(q)
  PROVE  IInv'
<1> DEFINE r == DeleteReq(q)
           old == req[q]
<1>1. /\ r \in Request /\ "write" \in Calls /\ pc[q] = "delete"
      /\ Goto(q, "write", r) /\ UNCHANGED <<Rows, History>>
      /\ \A t \in old.remove : Free(LinkHolders(old.event, t), q)
  BY NextRequests, CallNames DEF IInv, DeleteLinks, DeleteReq
<1>2. /\ r.gone = old.remove \cap TagsOf(old.event) /\ r.dec = old.dec /\ r.inc = old.inc
      /\ r.made = old.made /\ r.event = old.event /\ r.want = old.want
      /\ r.remove = old.remove /\ r.add = old.add
      /\ old \in Request
  BY NextRequests DEF IInv, DeleteReq, Request
<1>3. Progress("delete", old) /\ (alone => Undisturbed("delete", old))
  BY <1>1, AboutSlot
<1>4. old.dec = {} /\ old.inc = {} /\ old.made = {} /\ old.remove \cap old.add = {}
      /\ old.event \in Events
  BY <1>3 DEF Progress
<1> HIDE DEF r, old
<1>5. Progress("write", r)
  BY <1>2, <1>4 DEF Progress
<1>6. alone => Undisturbed("write", r)
  BY <1>2, <1>3, <1>4 DEF Undisturbed
<1>7. Pending(r)
  BY <1>2, <1>4 DEF Pending, TagsOf
<1>8. ASSUME NEW p \in Requests, p # q PROVE Apart(req[p], r)
  <2>1. SUFFICES ASSUME req[p].event = old.event, NEW t, t \in req[p].gone \cup req[p].made,
                        t \in r.gone
                 PROVE  FALSE
    BY <1>2, <1>4 DEF Apart
  <2>2. p \in LinkHolders(old.event, t)
    BY <2>1 DEF LinkHolders
  <2> QED
    BY <1>1, <1>2, <1>8, <2>1, <2>2 DEF Free
<1> QED
  BY <1>1, <1>5, <1>6, <1>7, <1>8, QuietStep

LEMMA DecrementStep ==
  ASSUME IInv, NEW q \in Requests, NEW t \in Tags, Decrement(q, t)
  PROVE  IInv'
<1> DEFINE r == DecReq(q, t)
           old == req[q]
<1>1. /\ r \in Request /\ "write" \in Calls /\ pc[q] = "write" /\ t \in old.remove
      /\ Goto(q, "write", r) /\ UNCHANGED <<Rows, History>>
  BY NextRequests, CallNames DEF IInv, Decrement, DecReq
<1>2. /\ r.gone = old.gone /\ r.dec = old.dec \cup { t } /\ r.inc = old.inc
      /\ r.made = old.made /\ r.event = old.event /\ r.want = old.want
      /\ r.remove = old.remove \ { t } /\ r.add = old.add
  <2>1. old \in Request
    BY AboutSlot
  <2> QED
    BY <2>1 DEF DecReq, Request
<1>3. /\ Progress("write", old) /\ (alone => Undisturbed("write", old))
      /\ Pending(old) /\ \A p \in Requests : p # q => Apart(req[p], old)
  BY <1>1, AboutSlot
<1> HIDE DEF r, old
<1>4. r.dec \cup r.remove = old.dec \cup old.remove
  BY <1>1, <1>2
<1>5. Progress("write", r)
  BY <1>2, <1>3, <1>4 DEF Progress
<1>6. alone => Undisturbed("write", r)
  BY <1>2, <1>3, <1>4 DEF Undisturbed
<1>7. Pending(r) /\ \A p \in Requests : p # q => Apart(req[p], r)
  BY <1>2, <1>3 DEF Pending, Apart
<1> QED
  BY <1>1, <1>5, <1>6, <1>7, QuietStep

LEMMA UpsertStep ==
  ASSUME IInv, NEW q \in Requests, NEW t \in Tags, Upsert(q, t)
  PROVE  IInv'
<1> DEFINE r == IncReq(q, t)
           old == req[q]
<1>1. /\ r \in Request /\ "link" \in Calls /\ pc[q] = "write" /\ t \in old.add
      /\ old.remove = {}
      /\ Goto(q, "link", r) /\ UNCHANGED <<Rows, History>>
  BY NextRequests, CallNames DEF IInv, Upsert, IncReq
<1>2. /\ r.gone = old.gone /\ r.dec = old.dec /\ r.inc = old.inc \cup { t }
      /\ r.made = old.made /\ r.event = old.event /\ r.want = old.want
      /\ r.remove = old.remove /\ r.add = old.add \ { t }
  <2>1. old \in Request
    BY AboutSlot
  <2> QED
    BY <2>1 DEF IncReq, Request
<1>3. /\ Progress("write", old) /\ (alone => Undisturbed("write", old))
      /\ Pending(old) /\ \A p \in Requests : p # q => Apart(req[p], old)
  BY <1>1, AboutSlot
<1> HIDE DEF r, old
<1>4. r.inc \cup r.add = old.inc \cup old.add
  BY <1>1, <1>2
<1>5. Progress("link", r)
  BY <1>1, <1>2, <1>3, <1>4 DEF Progress
<1>6. alone => Undisturbed("link", r)
  BY <1>2, <1>3, <1>4 DEF Undisturbed
<1>7. Pending(r) /\ \A p \in Requests : p # q => Apart(req[p], r)
  BY <1>2, <1>3 DEF Pending, Apart
<1> QED
  BY <1>1, <1>5, <1>6, <1>7, QuietStep

LEMMA LinkStep ==
  ASSUME IInv, NEW q \in Requests, LinkTag(q)
  PROVE  IInv'
<1> DEFINE r == LinkReq(q)
           old == req[q]
<1>1. /\ r \in Request /\ "write" \in Calls /\ pc[q] = "link"
      /\ \A t \in old.inc \ old.made : Free(LinkHolders(old.event, t), q)
      /\ old.event \in Stored
      /\ \A t \in old.inc \ old.made : <<old.event, t>> \notin links
      /\ Goto(q, "write", r) /\ UNCHANGED <<Rows, History>>
  BY NextRequests, CallNames DEF IInv, LinkTag, Linkable, LinkRejected, LinkReq
<1>2. /\ r.gone = old.gone /\ r.dec = old.dec /\ r.inc = old.inc
      /\ r.made = old.inc /\ r.event = old.event /\ r.want = old.want
      /\ r.remove = old.remove /\ r.add = old.add
      /\ old \in Request
  BY NextRequests DEF IInv, LinkReq, Request
<1>3. /\ Progress("link", old) /\ (alone => Undisturbed("link", old))
      /\ Pending(old) /\ \A p \in Requests : p # q => Apart(req[p], old)
  BY <1>1, AboutSlot
<1> HIDE DEF r, old
<1>4. Progress("write", r)
  BY <1>2, <1>3 DEF Progress
<1>5. alone => Undisturbed("write", r)
  BY <1>2, <1>3 DEF Undisturbed
<1>6. Pending(r)
  BY <1>1, <1>2, <1>3 DEF Pending
<1>7. ASSUME NEW p \in Requests, p # q PROVE Apart(req[p], r)
  <2>1. SUFFICES ASSUME req[p].event = old.event, NEW t, t \in req[p].gone \cup req[p].made,
                        t \in r.gone \cup r.made
                 PROVE  FALSE
    BY <1>2 DEF Apart
  <2>2. CASE t \in old.gone \cup old.made
    BY <1>3, <1>7, <2>1, <2>2 DEF Apart
  <2>3. CASE t \in old.inc \ old.made
    <3>1. p \in LinkHolders(old.event, t)
      BY <2>1 DEF LinkHolders
    <3> QED
      BY <1>1, <1>7, <2>3, <3>1 DEF Free
  <2> QED
    BY <1>2, <2>1, <2>2, <2>3
<1> QED
  BY <1>1, <1>4, <1>5, <1>6, <1>7, QuietStep

LEMMA LockStep ==
  ASSUME IInv, NEW q \in Requests, NEW e \in Events, LockEvent(q, e)
  PROVE  IInv'
<1> DEFINE r == LockReq(q, e)
           old == req[q]
<1>1. /\ r \in Request /\ "lock" \in Calls /\ pc[q] = "lock"
      /\ Goto(q, "lock", r) /\ UNCHANGED <<Rows, History>>
  BY NextRequests, CallNames DEF IInv, LockEvent, LockReq
<1>2. /\ r.gone = old.gone /\ r.dec = old.dec /\ r.inc = old.inc /\ r.made = old.made
      /\ old \in Request
  BY NextRequests DEF IInv, LockReq, Request
<1>3. Progress("lock", old)
  BY <1>1, AboutSlot
<1> HIDE DEF r, old
<1>4. Progress("lock", r)
  BY <1>2, <1>3 DEF Progress
<1>5. Undisturbed("lock", r)
  BY DEF Undisturbed
<1>6. r.gone = {} /\ r.made = {}
  BY <1>4 DEF Progress
<1> QED
  BY <1>1, <1>4, <1>5, <1>6, ApartFromAll, QuietStep

---------------------------------------------------------------------------
\* The two steps that write rows which others share.

\* How many events use a tag, when links come or go.
LEMMA UseCounted ==
  ASSUME NEW t \in Tags
  PROVE  /\ Cardinality(EventsOf(t)) \in Nat
         /\ \A e \in Events :
              /\ e \notin EventsOf(t) =>
                    Cardinality(EventsOf(t) \cup { e }) = Cardinality(EventsOf(t)) + 1
              /\ e \in EventsOf(t) =>
                    Cardinality(EventsOf(t) \ { e }) = Cardinality(EventsOf(t)) - 1
         /\ \A D \in SUBSET Events :
              /\ Cardinality(EventsOf(t) \cap D) \in Nat
              /\ Cardinality(EventsOf(t) \ D)
                    = Cardinality(EventsOf(t)) - Cardinality(EventsOf(t) \cap D)
<1>1. IsFiniteSet(EventsOf(t))
  <2>1. EventsOf(t) \in SUBSET Events
    BY DEF EventsOf
  <2> QED
    BY <2>1, EventTagsAssumption, FS_Subset
<1>2. Cardinality(EventsOf(t)) \in Nat
  BY <1>1, FS_CardinalityType
<1>3. ASSUME NEW e \in Events, e \notin EventsOf(t)
      PROVE  Cardinality(EventsOf(t) \cup { e }) = Cardinality(EventsOf(t)) + 1
  BY <1>1, <1>3, FS_AddElement
<1>4. ASSUME NEW e \in Events, e \in EventsOf(t)
      PROVE  Cardinality(EventsOf(t) \ { e }) = Cardinality(EventsOf(t)) - 1
  BY <1>1, <1>4, FS_RemoveElement
<1>5. ASSUME NEW D \in SUBSET Events
      PROVE  /\ Cardinality(EventsOf(t) \cap D) \in Nat
             /\ Cardinality(EventsOf(t) \ D)
                   = Cardinality(EventsOf(t)) - Cardinality(EventsOf(t) \cap D)
  <2>1. IsFiniteSet(EventsOf(t) \cap D)
    BY <1>1, FS_Intersection
  <2> QED
    BY <1>1, <2>1, FS_CardinalityType, FS_Difference
<1> QED
  BY <1>2, <1>3, <1>4, <1>5

LEMMA EndsFree ==
  ASSUME IInv, NEW q \in Requests, End(q)
  PROVE  /\ Moved(q, "idle", NoRequest)
         /\ started' = started /\ alone' = alone
         /\ pc' \in [Requests -> Calls] /\ req' \in [Requests -> Request]
<1>1. "idle" \in Calls /\ NoRequest \in Request
  BY CallNames, NoRequestFits
<1>2. Goto(q, "idle", NoRequest)
  BY DEF End
<1>3. Moved(q, "idle", NoRequest)
  BY <1>1, <1>2, Moves DEF IInv
<1> QED
  BY <1>2, <1>3 DEF Goto, Moved

\* When a request ends and every other one keeps what it has pending.
LEMMA OthersKeep ==
  ASSUME IInv, NEW q \in Requests, Moved(q, "idle", NoRequest),
         \A p \in Requests : p # q => Pending(req[p])'
  PROVE  RequestsOK'
<1>1. ASSUME NEW p \in Requests PROVE Progress(pc[p], req[p])' /\ Pending(req[p])'
  <2>1. CASE p = q
    <3>1. pc'[p] = "idle" /\ req'[p] = NoRequest
      BY <2>1 DEF Moved
    <3> QED
      BY <3>1 DEF Progress, Pending, NoRequest
  <2>2. CASE p # q
    BY <2>2 DEF Moved, IInv, RequestsOK, Progress
  <2> QED
    BY <2>1, <2>2
<1>2. ASSUME NEW p \in Requests, NEW s \in Requests, p # s PROVE Apart(req[p], req[s])'
  <2>1. CASE p # q /\ s # q
    BY <1>2, <2>1 DEF Moved, IInv, RequestsOK, Apart
  <2>2. CASE p = q \/ s = q
    <3>1. req'[p] = NoRequest \/ req'[s] = NoRequest
      BY <2>2 DEF Moved
    <3>2. NoRequest.gone = {} /\ NoRequest.made = {}
      BY DEF NoRequest
    <3> QED
      BY <3>1, <3>2 DEF Apart
  <2> QED
    BY <2>1, <2>2
<1> QED
  BY <1>1, <1>2 DEF RequestsOK

\* When the only request that runs ends, none is left to be disturbed.
LEMMA AloneEnds ==
  ASSUME IInv, NEW q \in Requests, pc[q] # "idle", Moved(q, "idle", NoRequest),
         alone' = alone,
         alone => \A t \in Tags : missed'[t] = 0
  PROVE  AloneOK'
<1>1. SUFFICES ASSUME alone' PROVE AloneOK'
  BY DEF AloneOK
<1>2. \A p \in Requests : pc'[p] = "idle"
  BY <1>1 DEF Moved, IInv, AloneOK
<1>3. \A p \in Requests : Undisturbed(pc[p], req[p])'
  BY <1>2 DEF Undisturbed
<1> QED
  BY <1>1, <1>2, <1>3 DEF AloneOK

LEMMA CommitStep ==
  ASSUME IInv, NEW q \in Requests, Commit(q)
  PROVE  IInv'
<1> DEFINE r == req[q]
<1>1. /\ pc[q] = "write" /\ r.remove = {} /\ r.add = {}
      /\ links' = (links \ ({ r.event } \X r.gone)) \cup ({ r.event } \X r.made)
      /\ tags' = tags \cup r.inc
      /\ usage' = [t \in Tags |-> IF t \in r.inc THEN usage[t] + 1
                                  ELSE IF t \in r.dec THEN usage[t] - 1
                                  ELSE usage[t]]
      /\ missed' = [t \in Tags |-> IF t \in r.dec \ r.gone THEN missed[t] + 1
                                   ELSE missed[t]]
      /\ End(q) /\ event' = event /\ cascaded' = cascaded
  BY DEF Commit, Counted
<1>2. /\ r \in Request /\ Progress("write", r) /\ Pending(r)
      /\ \A p \in Requests : p # q => Apart(req[p], r)
      /\ alone => Undisturbed("write", r)
  BY <1>1, AboutSlot
<1>3. /\ r.event \in Events /\ r.gone \subseteq r.dec /\ r.made = r.inc
      /\ r.inc \cap r.dec = {} /\ r.inc \subseteq Tags /\ r.dec \subseteq Tags
  BY <1>1, <1>2, Fields DEF Progress
<1> HIDE DEF r
<1>4. Moved(q, "idle", NoRequest) /\ started' = started /\ alone' = alone
  BY <1>1, EndsFree
<1>5. TypeOK'
  <2>1. Stored' = Stored
    BY <1>1 DEF Stored
  <2>2. links' \subseteq Stored' \X tags'
    BY <1>1, <1>2, <1>3, <2>1 DEF Pending, IInv, TypeOK
  <2>3. tags' \subseteq Tags
    BY <1>1, <1>3 DEF IInv, TypeOK
  <2>4. usage' \in [Tags -> Int]
    BY <1>1 DEF IInv, TypeOK
  <2>5. missed' \in [Tags -> Nat]
    BY <1>1 DEF IInv, TypeOK
  <2> QED
    BY <1>1, <1>4, <2>2, <2>3, <2>4, <2>5 DEF Moved, IInv, TypeOK, Calls
<1>6. RequestsOK'
  <2>1. ASSUME NEW p \in Requests, p # q PROVE Pending(req[p])'
    <3>1. req'[p] = req[p] /\ Pending(req[p]) /\ Apart(req[p], r)
      BY <1>2, <1>4, <2>1 DEF Moved, IInv, RequestsOK
    <3>2. Stored' = Stored
      BY <1>1 DEF Stored
    <3>3. ASSUME NEW t \in req[p].gone PROVE <<req[p].event, t>> \in links'
      BY <1>1, <3>1, <3>3 DEF Pending, Apart
    <3>4. ASSUME NEW t \in req[p].made PROVE <<req[p].event, t>> \notin links'
      BY <1>1, <3>1, <3>4 DEF Pending, Apart
    <3> QED
      BY <3>1, <3>2, <3>3, <3>4 DEF Pending
  <2> QED
    BY <1>4, <2>1, OthersKeep
<1>7. CountAccounted'
  <2>1. SUFFICES ASSUME NEW t \in Tags
                 PROVE  usage'[t] = Cardinality(EventsOf(t)') + cascaded'[t] - missed'[t]
    BY DEF CountAccounted
  <2>2. /\ usage[t] = Cardinality(EventsOf(t)) + cascaded[t] - missed[t]
        /\ cascaded[t] \in Nat /\ missed[t] \in Nat /\ usage[t] \in Int
    BY DEF IInv, CountAccounted, TypeOK
  <2>3. CASE t \in r.inc
    <3>1. EventsOf(t)' = EventsOf(t) \cup { r.event } /\ r.event \notin EventsOf(t)
      BY <1>1, <1>2, <1>3, <2>3 DEF EventsOf, Pending
    <3>2. usage'[t] = usage[t] + 1 /\ missed'[t] = missed[t]
      BY <1>1, <1>3, <2>3
    <3>3. Cardinality(EventsOf(t)') = Cardinality(EventsOf(t)) + 1
      BY <1>3, <3>1, UseCounted
    <3> QED
      BY <1>1, <2>2, <3>2, <3>3, UseCounted
  <2>4. CASE t \in r.gone
    <3>1. EventsOf(t)' = EventsOf(t) \ { r.event } /\ r.event \in EventsOf(t)
      BY <1>1, <1>2, <1>3, <2>4 DEF EventsOf, Pending
    <3>2. usage'[t] = usage[t] - 1 /\ missed'[t] = missed[t]
      BY <1>1, <1>3, <2>4
    <3>3. Cardinality(EventsOf(t)') = Cardinality(EventsOf(t)) - 1
      BY <1>3, <3>1, UseCounted
    <3> QED
      BY <1>1, <2>2, <3>2, <3>3, UseCounted
  <2>5. CASE t \notin r.inc /\ t \notin r.gone
    <3>1. EventsOf(t)' = EventsOf(t)
      BY <1>1, <1>3, <2>5 DEF EventsOf
    <3>2. CASE t \in r.dec
      <4>1. usage'[t] = usage[t] - 1 /\ missed'[t] = missed[t] + 1
        BY <1>1, <2>5, <3>2
      <4> QED
        BY <1>1, <2>2, <3>1, <4>1, UseCounted
    <3>3. CASE t \notin r.dec
      <4>1. usage'[t] = usage[t] /\ missed'[t] = missed[t]
        BY <1>1, <2>5, <3>3
      <4> QED
        BY <1>1, <2>2, <3>1, <4>1
    <3> QED
      BY <3>2, <3>3
  <2> QED
    BY <2>3, <2>4, <2>5
<1>8. AloneOK'
  <2>1. ASSUME alone, NEW t \in Tags PROVE missed'[t] = 0
    <3>1. missed[t] = 0 /\ r.dec \subseteq r.gone
      BY <1>1, <1>2, <2>1 DEF IInv, AloneOK, Undisturbed
    <3> QED
      BY <1>1, <3>1
  <2> QED
    BY <1>1, <1>4, <2>1, AloneEnds
<1> QED
  BY <1>5, <1>6, <1>7, <1>8 DEF IInv

LEMMA DeleteEventsStep ==
  ASSUME IInv, NEW q \in Requests, DeleteEvents(q)
  PROVE  IInv'
<1> DEFINE D == Deletes(q)
<1>1. /\ pc[q] = "lock"
      /\ \A e \in req[q].held, t \in Tags : Free(LinkHolders(e, t), q)
      /\ event' = [e \in Events |-> IF e \in D THEN "deleted" ELSE event[e]]
      /\ links' = { l \in links : l[1] \notin D }
      /\ cascaded' = [t \in Tags |-> cascaded[t] + Cardinality(EventsOf(t) \cap D)]
      /\ End(q) /\ tags' = tags /\ usage' = usage /\ missed' = missed
  BY DEF DeleteEvents
<1>2. D \subseteq req[q].held /\ D \subseteq Events
  BY DEF Deletes, Stored
<1> HIDE DEF D
<1>3. Moved(q, "idle", NoRequest) /\ started' = started /\ alone' = alone
  BY <1>1, EndsFree
<1>4. Stored' = Stored \ D
  BY <1>1, <1>2 DEF Stored, IInv, TypeOK
<1>5. TypeOK'
  <2>1. event' \in [Events -> { "unmade", "stored", "deleted" }]
    BY <1>1 DEF IInv, TypeOK
  <2>2. links' \subseteq Stored' \X tags'
    BY <1>1, <1>4 DEF IInv, TypeOK
  <2>3. cascaded' \in [Tags -> Nat]
    <3>1. ASSUME NEW t \in Tags PROVE cascaded[t] + Cardinality(EventsOf(t) \cap D) \in Nat
      <4>1. Cardinality(EventsOf(t) \cap D) \in Nat
        BY <1>2, UseCounted
      <4>2. cascaded[t] \in Nat
        BY DEF IInv, TypeOK
      <4> QED
        BY <4>1, <4>2
    <3> QED
      BY <1>1, <3>1
  <2> QED
    BY <1>1, <1>3, <2>1, <2>2, <2>3 DEF Moved, IInv, TypeOK, Calls
<1>6. RequestsOK'
  <2>1. ASSUME NEW p \in Requests, p # q PROVE Pending(req[p])'
    <3>1. req'[p] = req[p] /\ Pending(req[p]) /\ req[p] \in Request
      BY <1>3, <2>1 DEF Moved, IInv, RequestsOK, TypeOK
    <3>2. ASSUME NEW t \in req[p].gone \cup req[p].made PROVE req[p].event \notin D
      <4>1. SUFFICES ASSUME req[p].event \in D PROVE FALSE
        OBVIOUS
      <4>2. p \in LinkHolders(req[p].event, t) /\ t \in Tags
        BY <3>1, Fields DEF LinkHolders
      <4> QED
        BY <1>1, <1>2, <2>1, <4>1, <4>2 DEF Free
    <3>3. ASSUME NEW t \in req[p].gone PROVE <<req[p].event, t>> \in links'
      BY <1>1, <3>1, <3>2 DEF Pending
    <3>4. ASSUME NEW t \in req[p].made
          PROVE  req[p].event \in Stored' /\ <<req[p].event, t>> \notin links'
      BY <1>1, <1>4, <3>1, <3>2 DEF Pending
    <3> QED
      BY <3>1, <3>3, <3>4 DEF Pending
  <2> QED
    BY <1>3, <2>1, OthersKeep
<1>7. CountAccounted'
  <2>1. SUFFICES ASSUME NEW t \in Tags
                 PROVE  usage'[t] = Cardinality(EventsOf(t)') + cascaded'[t] - missed'[t]
    BY DEF CountAccounted
  <2>2. /\ usage[t] = Cardinality(EventsOf(t)) + cascaded[t] - missed[t]
        /\ cascaded[t] \in Nat /\ missed[t] \in Nat
    BY DEF IInv, CountAccounted, TypeOK
  <2>3. EventsOf(t)' = EventsOf(t) \ D
    BY <1>1 DEF EventsOf
  <2>4. /\ Cardinality(EventsOf(t) \cap D) \in Nat
        /\ Cardinality(EventsOf(t) \ D)
              = Cardinality(EventsOf(t)) - Cardinality(EventsOf(t) \cap D)
        /\ Cardinality(EventsOf(t)) \in Nat
    BY <1>2, UseCounted
  <2>5. cascaded'[t] = cascaded[t] + Cardinality(EventsOf(t) \cap D)
    BY <1>1
  <2> QED
    BY <1>1, <2>2, <2>3, <2>4, <2>5
<1>8. AloneOK'
  BY <1>1, <1>3, AloneEnds DEF IInv, AloneOK
<1> QED
  BY <1>5, <1>6, <1>7, <1>8 DEF IInv

---------------------------------------------------------------------------
LEMMA CreateTagStep ==
  ASSUME IInv, NEW t \in Tags, CreateTag(t)
  PROVE  IInv'
<1>1. /\ tags' = tags \cup { t }
      /\ UNCHANGED <<event, links, usage, pc, req, started, alone, History>>
  BY DEF CreateTag
<1>2. TypeOK'
  BY <1>1 DEF IInv, TypeOK, Stored, History
<1>3. RequestsOK'
  BY <1>1 DEF IInv, RequestsOK, Progress, Pending, Apart, Stored
<1>4. CountAccounted'
  BY <1>1, QuietCount DEF IInv
<1>5. AloneOK'
  BY <1>1 DEF IInv, AloneOK, Undisturbed, TagsOf, History
<1> QED
  BY <1>2, <1>3, <1>4, <1>5 DEF IInv

LEMMA SlotStep ==
  ASSUME IInv, NEW q \in Requests,
         Begin(q) \/ Step(q) \/ Abort(q) \/ Victim(q) \/ Starve(q)
  PROVE  IInv'
<1>1. CASE Begin(q)
  BY <1>1, BeginStep
<1>2. CASE \E t \in Tags : Decrement(q, t) \/ Upsert(q, t)
  BY <1>2, DecrementStep, UpsertStep
<1>3. CASE ReadLinks(q) \/ DeleteLinks(q) \/ LinkTag(q) \/ Commit(q)
  BY <1>3, ReadStep, DeleteLinksStep, LinkStep, CommitStep
<1>4. CASE LinkFails(q) \/ Abort(q) \/ Starve(q)
  <2>1. pc[q] # "idle" /\ End(q) /\ UNCHANGED <<Rows, History>>
    BY <1>4 DEF LinkFails, Linkable, Abort, Starve, Counted
  <2> QED
    BY <2>1, EndStep
<1>5. CASE Victim(q)
  <2>1. End(q) /\ UNCHANGED <<Rows, History>> /\ Needs(q) # {}
    BY <1>5 DEF Victim, Deadlocked
  <2>2. pc[q] # "idle"
    BY <2>1 DEF Needs
  <2> QED
    BY <2>1, <2>2, EndStep
<1>6. CASE DeleteEvents(q) \/ \E e \in Events : LockEvent(q, e)
  BY <1>6, DeleteEventsStep, LockStep
<1> QED
  BY <1>1, <1>2, <1>3, <1>4, <1>5, <1>6 DEF Step, UpdateStep, DeleteStep

LEMMA InvInit == Init => IInv
<1> SUFFICES ASSUME Init PROVE IInv
  OBVIOUS
<1>1. TypeOK
  <2>1. /\ event \in [Events -> { "unmade", "stored", "deleted" }]
        /\ tags \subseteq Tags /\ links \subseteq Stored \X tags
        /\ pc \in [Requests -> { "idle", "tags" } \cup InTransaction]
        /\ req \in [Requests -> Request]
    BY NoRequestFits DEF Init
  <2>2. /\ usage \in [Tags -> Int] /\ started \in 0 .. MaxStarted
        /\ cascaded \in [Tags -> Nat] /\ missed \in [Tags -> Nat]
    BY EventTagsAssumption DEF Init
  <2>3. alone \in BOOLEAN
    BY DEF Init
  <2> QED
    BY <2>1, <2>2, <2>3 DEF TypeOK
<1>2. RequestsOK
  BY Fresh DEF Init, RequestsOK
<1>3. \A t \in Tags : EventsOf(t) = {}
  BY DEF Init, EventsOf
<1>4. CountAccounted
  BY <1>3, FS_EmptySet DEF Init, CountAccounted
<1>5. AloneOK
  BY DEF Init, AloneOK, Undisturbed
<1> QED
  BY <1>1, <1>2, <1>4, <1>5 DEF IInv

LEMMA InvNext == IInv /\ [Next]_vars => IInv'
<1> SUFFICES ASSUME IInv, [Next]_vars PROVE IInv'
  OBVIOUS
<1>1. CASE UNCHANGED vars
  BY <1>1 DEF vars, IInv, TypeOK, RequestsOK, CountAccounted, AloneOK, Progress, Pending,
     Apart, Undisturbed, Stored, EventsOf, TagsOf
<1>2. CASE \E q \in Requests :
             Begin(q) \/ Step(q) \/ Abort(q) \/ Victim(q) \/ Starve(q)
  BY <1>2, SlotStep
<1>3. CASE \E t \in Tags : CreateTag(t)
  BY <1>3, CreateTagStep
<1> QED
  BY <1>1, <1>2, <1>3 DEF Next

LEMMA Invariant == Spec => []IInv
  BY InvInit, InvNext, PTL DEF Spec

---------------------------------------------------------------------------
\* Every reachable state is well typed: in particular no tag is linked to an event
\* that is deleted, though an update may run on while its event is being deleted.
THEOREM TypeCorrect == Spec => []TypeOK
<1>1. IInv => TypeOK
  BY DEF IInv
<1> QED
  BY <1>1, Invariant, PTL

\* usage_count is the number of events that use the tag, plus the links that were
\* deleted with their event, less the decrements of links that were gone already.
THEOREM CountsAccounted == Spec => []CountAccounted
<1>1. IInv => CountAccounted
  BY DEF IInv
<1> QED
  BY <1>1, Invariant, PTL

\* While requests come one after the other no decrement misses its link.
THEOREM MissesNeedOverlap == Spec => []NoMissAlone
<1>1. IInv => NoMissAlone
  BY DEF IInv, AloneOK, NoMissAlone
<1> QED
  BY <1>1, Invariant, PTL

\* While requests come one after the other an update that commits leaves its event
\* with exactly the tags it was asked for.
Applied(q) ==
    Counted(q) /\ pc'[q] = "idle" /\ alone' /\ <<links, tags>>' # <<links, tags>>
        => { t \in Tags : <<req[q].event, t>> \in links' } = req[q].want

LEMMA AppliedStep ==
  ASSUME IInv, [Next]_vars, NEW q \in Requests
  PROVE  Applied(q)
<1>1. SUFFICES ASSUME Counted(q), pc'[q] = "idle", alone', <<links, tags>>' # <<links, tags>>
               PROVE  { t \in Tags : <<req[q].event, t>> \in links' } = req[q].want
  BY DEF Applied
<1>2. pc[q] = "write" /\ pc'[q] # pc[q]
  BY <1>1 DEF Counted
<1>3. Next /\ ~ \E t \in Tags : CreateTag(t)
  BY <1>2 DEF vars, CreateTag
<1>4. PICK p \in Requests : Begin(p) \/ Step(p) \/ Abort(p) \/ Victim(p) \/ Starve(p)
  BY <1>3 DEF Next
<1>5. p = q
  <2>1. SUFFICES ASSUME p # q PROVE pc'[q] = pc[q]
    BY <1>2
  <2>2. pc \in [Requests -> Calls]
    BY DEF IInv, TypeOK, Calls
  <2>3. PICK call \in { "idle", "tags", "delete", "write", "link", "lock" } :
          pc' = [pc EXCEPT ![p] = call]
    BY <1>4 DEF Begin, Step, UpdateStep, DeleteStep, Abort, Victim, Starve, Create, Update,
       Remove, BulkDelete, ReadLinks, DeleteLinks, Decrement, Upsert, LinkTag, LinkFails,
       Commit, DeleteEvents, LockEvent, Arrive, Goto, End
  <2> QED
    BY <2>1, <2>2, <2>3
<1>6. ~(Abort(q) \/ Victim(q) \/ Starve(q))
  BY <1>1 DEF Abort, Victim, Starve, Rows
<1>7. Commit(q)
  BY <1>1, <1>2, <1>4, <1>5, <1>6 DEF Counted, Begin, Step, UpdateStep, DeleteStep, Create,
     Update, Remove, BulkDelete, Arrive, ReadLinks, DeleteLinks, Decrement, Upsert, LinkTag,
     LinkFails, Linkable, DeleteEvents, LockEvent
<1> DEFINE r == req[q]
<1>8. /\ r.remove = {} /\ r.add = {}
      /\ links' = (links \ ({ r.event } \X r.gone)) \cup ({ r.event } \X r.made)
      /\ alone' = alone
  BY <1>7 DEF Commit, Counted, End, Goto
<1>9. /\ r \in Request /\ Progress("write", r) /\ Undisturbed("write", r)
  BY <1>1, <1>2, <1>8, AboutSlot
<1>10. r.made = r.inc /\ r.inc \subseteq Tags
       /\ r.want = (TagsOf(r.event) \ r.gone) \cup r.inc
       /\ (r.inc \cup r.add) \cap (r.dec \cup r.remove) = {}
  BY <1>8, <1>9, Fields DEF Progress, Undisturbed
<1> HIDE DEF r
<1>11. { t \in Tags : <<r.event, t>> \in links' } = r.want
  BY <1>8, <1>10 DEF TagsOf
<1> QED
  BY <1>11 DEF r

THEOREM UpdatesApply == Spec => UpdateAppliesAlone
<1>1. IInv /\ [Next]_vars => \A q \in Requests : Applied(q)
  BY AppliedStep
<1>2. IInv /\ [Next]_vars => [\A q \in Requests :
          Counted(q) /\ pc'[q] = "idle" /\ alone' /\ <<links, tags>>' # <<links, tags>>
              => { t \in Tags : <<req[q].event, t>> \in links' } = req[q].want]_vars
  BY <1>1 DEF Applied
<1> QED
  BY <1>2, Invariant, PTL DEF Spec, UpdateAppliesAlone

=============================================================================
