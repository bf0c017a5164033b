--------------------------- MODULE EventSetupProofs ---------------------------
(***************************************************************************)
(* What EventSetup guarantees for any slots, templates, rules, types and   *)
(* users, from any consistent configuration.                               *)
(***************************************************************************)
EXTENDS EventSetup, TLAPS

AllCalls == Calls \cup { "idle" }

InRule == { "unlink", "unlinking", "link" }
InEvent == { "template", "setting", "leave", "leaving", "assign" }
InSetting == { "leave", "leaving", "assign" }
Replacing == { "unlinking", "link", "leaving", "assign" }

\* WritesRule, for any request.
Writing(r) == r.template # Undefined \/ r.priority # Undefined

\* What a request is made of, by the call it makes next.
Shape(call, r) ==
    /\ call = "idle" => r = NoRequest
    /\ (call = "insert" \/ (call = "unset" /\ r.op = "create")) =>
          r.active \in BOOLEAN /\ r.default \in BOOLEAN
    /\ (call = "unset" /\ r.op # "create") => r.template \in Templates
    /\ call \in { "write", "count", "delete", "badge" } => r.template \in Templates
    /\ call = "badge" => r.registration \in Registrations
    /\ call \in { "types", "priority", "insertRule" } =>
          r.template \in Templates /\ r.types \in SUBSET Types
    /\ (call = "insertRule" \/ (call = "types" /\ ~r.append)) => r.priority \in Int
    /\ call \in { "ruleTemplate", "ruleTypes", "ruleRow" } \cup InRule =>
          r.rule \in Rules /\ r.template \in Templates \cup { Undefined }
    /\ call = "deleteRule" => r.rule \in Rules
    /\ call \in { "deleteType", "cascade" } => r.type \in Types
    /\ call \in { "unlink", "unlinking" } => r.types # Undefined
    /\ call \in { "leave", "leaving" } => r.users # Undefined

\* What its locks keep for it, in the tables tm and rl.
HeldIn(call, r, tm, rl) ==
    /\ (call \in InSetting /\ r.template \in Templates) => r.template \in StoredIn(tm)
    /\ call \in InRule /\ Writing(r) =>
          /\ r.rule \in StoredIn(rl)
          /\ r.template \in Templates => r.template \in StoredIn(tm)
          /\ r.priority # Undefined =>
                \A o \in StoredIn(rl) \ { r.rule } : rl[o].priority # r.priority

Held(call, r) == HeldIn(call, r, template, rule)

\* What keeps two transactions apart: the rows that both write.
Apart(call1, s1, call2, s2) ==
    /\ ~(call1 \in InEvent /\ call2 \in InEvent /\ s1.columns /\ s2.columns)
    /\ ~(call1 \in InSetting /\ call2 \in InSetting
            /\ s1.template # Undefined /\ s2.template # Undefined)
    /\ call1 \in InRule /\ call2 \in InRule /\ Writing(s1) /\ Writing(s2) =>
          s1.rule # s2.rule /\ (s1.priority = Undefined \/ s1.priority # s2.priority)

Shapes == \A p \in Requests : Shape(pc[p], req[p])
AllHeld == \A p \in Requests : Held(pc[p], req[p])
AllApart == \A p \in Requests, q \in Requests : p # q => Apart(pc[p], req[p], pc[q], req[q])

IInv == TypeOK /\ Shapes /\ AllHeld /\ AllApart

---------------------------------------------------------------------------
\* The tables, and the steps of one slot.

Tables == [template |-> template, rule |-> rule, types |-> types,
           setting |-> setting, users |-> users, badge |-> badge]

LEMMA TablesConsistent ==
  Consistent(Tables) <=>
    /\ template \in [Templates -> TemplateRow]
    /\ rule \in [Rules -> RuleRow]
    /\ types \subseteq Types
    /\ setting \in StoredTemplates \cup { NoTemplate }
    /\ users \subseteq Users
    /\ badge \in [Registrations -> StoredTemplates \cup { NoTemplate }]
    /\ \A r \in StoredRules :
          /\ rule[r].template \in StoredTemplates
          /\ rule[r].types \subseteq types
          /\ \A o \in StoredRules \ { r } : rule[o].priority # rule[r].priority
    /\ \A t \in StoredTemplates, o \in StoredTemplates :
          template[t].code = template[o].code => t = o
  BY DEF Consistent, Tables, StoredTemplates, StoredRules

Moved(q, call, r) ==
    /\ pc' \in [Requests -> AllCalls] /\ req' \in [Requests -> Request]
    /\ pc'[q] = call /\ req'[q] = r
    /\ \A p \in Requests : p # q => pc'[p] = pc[p] /\ req'[p] = req[p]
    /\ started' \in 0 .. MaxStarted /\ alone' \in BOOLEAN
    /\ \A e \in errors' : e[1] \in Ops

LEMMA NoRequestFits ==
  /\ NoRequest \in Request /\ NoRequest.gone = {} /\ NoRequest.left = {}
  /\ NoRequest.users = Undefined /\ NoRequest.types = Undefined
  BY DEF NoRequest, Request, Ops, Flag

\* The request s is r, or r after the commit of another that replaced the same rows.
Kept(call, r, s) ==
    \/ s = r
    \/ /\ call \in Replacing
       /\ s.op = r.op /\ s.template = r.template /\ s.scope = r.scope /\ s.code = r.code
       /\ s.rule = r.rule /\ s.priority = r.priority /\ s.types = r.types
       /\ s.users = r.users /\ s.columns = r.columns

\* The request of q has ended, and may have changed others that replace the same.
Settled(q) ==
    /\ pc' \in [Requests -> AllCalls] /\ req' \in [Requests -> Request]
    /\ pc'[q] = "idle" /\ req'[q] = NoRequest
    /\ \A p \in Requests : p # q => pc'[p] = pc[p] /\ Kept(pc[p], req[p], req'[p])
    /\ started' \in 0 .. MaxStarted /\ alone' \in BOOLEAN
    /\ \A e \in errors' : e[1] \in Ops

LEMMA KeptStands ==
  ASSUME NEW call, NEW r, NEW s, Kept(call, r, s)
  PROVE  /\ Shape(call, r) => Shape(call, s)
         /\ \A tm, rl : HeldIn(call, r, tm, rl) => HeldIn(call, s, tm, rl)
         /\ \A c, o : /\ Apart(call, r, c, o) => Apart(call, s, c, o)
                      /\ Apart(c, o, call, r) => Apart(c, o, call, s)
<1>1. CASE s = r
  BY <1>1
<1>2. CASE s # r
  <2>1. Shape(call, r) => Shape(call, s)
    BY <1>2 DEF Kept, Shape, Replacing, InRule
  <2>2. \A tm, rl : HeldIn(call, r, tm, rl) => HeldIn(call, s, tm, rl)
    BY <1>2 DEF Kept, HeldIn, Writing
  <2>3. \A c, o : /\ Apart(call, r, c, o) => Apart(call, s, c, o)
                  /\ Apart(c, o, call, r) => Apart(c, o, call, s)
    BY <1>2 DEF Kept, Apart, Writing
  <2> QED
    BY <2>1, <2>2, <2>3
<1> QED
  BY <1>1, <1>2

LEMMA Arrives ==
  ASSUME TypeOK, NEW q \in Requests, NEW call \in AllCalls, NEW r \in Request,
         Arrive(q, call, r)
  PROVE  Moved(q, call, r)
<1>1. started' \in 0 .. MaxStarted
  BY EventSetupAssumption DEF TypeOK, Arrive
<1>2. alone' \in BOOLEAN
  BY DEF TypeOK, Arrive
<1> QED
  BY <1>1, <1>2 DEF TypeOK, Arrive, Moved, AllCalls

LEMMA Goes ==
  ASSUME TypeOK, NEW q \in Requests, NEW call \in AllCalls, NEW r \in Request,
         Goto(q, call, r)
  PROVE  Moved(q, call, r)
  BY DEF TypeOK, Goto, Moved, AllCalls

LEMMA Ends ==
  ASSUME TypeOK, NEW q \in Requests, End(q)
  PROVE  Moved(q, "idle", NoRequest)
  BY Goes, NoRequestFits DEF End, AllCalls

LEMMA Fails ==
  ASSUME TypeOK, NEW q \in Requests, NEW why, Fail(q, why)
  PROVE  Moved(q, "idle", NoRequest)
<1>1. req[q].op \in Ops
  BY DEF TypeOK, Request
<1>2. \A e \in errors' : e[1] \in Ops
  BY <1>1 DEF TypeOK, Fail
<1>3. started' \in 0 .. MaxStarted /\ alone' \in BOOLEAN
  BY DEF TypeOK, Fail
<1> QED
  BY <1>2, <1>3, NoRequestFits DEF TypeOK, Fail, Moved, AllCalls

LEMMA IdleStands ==
  /\ Shape("idle", NoRequest)
  /\ \A tm, rl : HeldIn("idle", NoRequest, tm, rl)
  /\ \A call, r : Apart("idle", NoRequest, call, r) /\ Apart(call, r, "idle", NoRequest)
  BY NoRequestFits DEF Shape, HeldIn, Apart, InRule, InEvent, InSetting

---------------------------------------------------------------------------
\* A step that changes no table.
LEMMA QuietStep ==
  ASSUME IInv, NEW q \in Requests, NEW call, NEW r, Moved(q, call, r),
         UNCHANGED <<rows, asked>>,
         Shape(call, r), Held(call, r),
         \A p \in Requests : p # q =>
             Apart(call, r, pc[p], req[p]) /\ Apart(pc[p], req[p], call, r)
  PROVE  IInv'
<1>0. UNCHANGED <<template, rule, types, setting, users, badge,
                  askedTypes, askedUsers, strayTypes, strayUsers>>
  BY DEF rows, asked
<1>1. TypeOK'
  BY <1>0 DEF IInv, TypeOK, Moved, AllCalls
<1>3. Shapes'
  BY DEF IInv, Shapes, Moved
<1>4. AllHeld'
  <2> SUFFICES ASSUME NEW p \in Requests PROVE HeldIn(pc'[p], req'[p], template', rule')
    BY DEF AllHeld, Held
  <2>1. Held(pc[p], req[p])
    BY DEF IInv, AllHeld
  <2> QED
    BY <1>0, <2>1 DEF Held, Moved
<1>5. AllApart'
  BY DEF IInv, AllApart, Moved
<1> QED
  BY <1>1, <1>3, <1>4, <1>5 DEF IInv

HistoryOK ==
    /\ askedTypes \in [Rules -> SUBSET Types] /\ askedUsers \in SUBSET Users
    /\ strayTypes \in [Rules -> SUBSET (Types \cup Users)]
    /\ strayUsers \in SUBSET (Types \cup Users)

\* A step that writes its tables and ends the request.
LEMMA WritingStep ==
  ASSUME IInv, NEW q \in Requests, Settled(q), Consistent(Tables)', HistoryOK',
         \A p \in Requests : p # q => HeldIn(pc[p], req[p], template', rule')
  PROVE  IInv'
<1>1. TypeOK'
  BY DEF IInv, TypeOK, Settled, AllCalls, Tables, HistoryOK
<1>2. Shapes'
  <2> SUFFICES ASSUME NEW p \in Requests PROVE Shape(pc'[p], req'[p])
    BY DEF Shapes
  <2>1. Shape(pc[p], req[p])
    BY DEF IInv, Shapes
  <2> QED
    BY <2>1, IdleStands, KeptStands DEF Settled
<1>3. AllHeld'
  <2> SUFFICES ASSUME NEW p \in Requests PROVE HeldIn(pc'[p], req'[p], template', rule')
    BY DEF AllHeld, Held
  <2>1. CASE p = q
    BY <2>1, IdleStands DEF Settled
  <2>2. CASE p # q
    BY <2>2, KeptStands DEF Settled
  <2> QED
    BY <2>1, <2>2
<1>4. AllApart'
  <2> SUFFICES ASSUME NEW p \in Requests, NEW o \in Requests, p # o
               PROVE  Apart(pc'[p], req'[p], pc'[o], req'[o])
    BY DEF AllApart
  <2>1. CASE p = q \/ o = q
    BY <2>1, IdleStands DEF Settled
  <2>2. CASE p # q /\ o # q
    <3>1. Apart(pc[p], req[p], pc[o], req[o])
      BY DEF IInv, AllApart
    <3>2. Apart(pc[p], req'[p], pc[o], req[o])
      BY <2>2, <3>1, KeptStands DEF Settled
    <3>3. Apart(pc[p], req'[p], pc[o], req'[o])
      BY <2>2, <3>2, KeptStands DEF Settled
    <3> QED
      BY <2>2, <3>3 DEF Settled
  <2> QED
    BY <2>1, <2>2
<1> QED
  BY <1>1, <1>2, <1>3, <1>4 DEF IInv

LEMMA QuietEnd ==
  ASSUME IInv, NEW q \in Requests, Moved(q, "idle", NoRequest), UNCHANGED <<rows, asked>>
  PROVE  IInv'
  BY QuietStep, IdleStands DEF Held

---------------------------------------------------------------------------
\* The arrival of a request, which holds nothing yet.
LEMMA ArrivalStep ==
  ASSUME IInv, NEW q \in Requests, NEW call \in AllCalls \ (InRule \cup InEvent \cup { "idle" }),
         NEW r \in Request,
         Arrive(q, call, r), UNCHANGED <<rows, asked>>, Shape(call, r)
  PROVE  IInv'
<1>1. Moved(q, call, r)
  BY Arrives DEF IInv
<1>2. Held(call, r)
  BY DEF Held, HeldIn, InRule, InEvent, InSetting
<1>3. \A p \in Requests : p # q =>
          Apart(call, r, pc[p], req[p]) /\ Apart(pc[p], req[p], call, r)
  <2>1. call \notin InEvent /\ call \notin InSetting /\ call \notin InRule
    BY DEF InEvent, InSetting
  <2> QED
    BY <2>1 DEF Apart
<1> QED
  BY <1>1, <1>2, <1>3, QuietStep

LEMMA OrTypes ==
  /\ \A p \in Patches : /\ p[1] \in Flag /\ p[2] \in Flag
                        /\ Or(p[1], FALSE) \in BOOLEAN /\ Or(p[2], TRUE) \in BOOLEAN
  BY EventSetupAssumption DEF Or, Flag

LEMMA ArrivesCreating ==
  ASSUME IInv, NEW q \in Requests, NEW s \in Scopes, NEW c \in Codes,
         NEW a \in BOOLEAN, NEW d \in BOOLEAN, NEW call \in { "unset", "insert" },
         NEW op \in { "create", "createTemplate", "duplicateTemplate" },
         call = "unset" => op = "create",
         Arrive(q, call, [NoRequest EXCEPT !.op = op, !.scope = s, !.code = c,
                                           !.active = a, !.default = d]),
         UNCHANGED <<rows, asked>>
  PROVE  IInv'
<1> DEFINE r == [NoRequest EXCEPT !.op = op, !.scope = s, !.code = c,
                                  !.active = a, !.default = d]
<1>1. r \in Request
  BY DEF NoRequest, Request, Ops, Flag
<1>2. Shape(call, r)
  BY DEF NoRequest, Shape, InRule
<1>3. call \in AllCalls \ (InRule \cup InEvent \cup { "idle" })
  BY DEF AllCalls, Calls, InRule, InEvent
<1> QED
  BY <1>1, <1>2, <1>3, ArrivalStep

LEMMA CreateBegins ==
  ASSUME IInv, NEW q \in Requests,
         Create(q) \/ CreateTemplate(q) \/ DuplicateTemplate(q)
  PROVE  IInv'
<1>1. CASE Create(q)
  <2>1. PICK s \in Scopes, c \in Codes, p \in Patches :
            Arrive(q, IF p[1] = TRUE THEN "unset" ELSE "insert",
                   [NoRequest EXCEPT !.op = "create", !.scope = s, !.code = c,
                                     !.default = Or(p[1], FALSE), !.active = Or(p[2], TRUE)])
    BY <1>1 DEF Create
  <2> DEFINE call == IF p[1] = TRUE THEN "unset" ELSE "insert"
  <2>2. call \in { "unset", "insert" }
    OBVIOUS
  <2>3. UNCHANGED <<rows, asked>>
    BY <1>1 DEF Create
  <2>4. Arrive(q, call, [NoRequest EXCEPT !.op = "create", !.scope = s, !.code = c,
                             !.active = Or(p[2], TRUE), !.default = Or(p[1], FALSE)])
    BY <2>1 DEF NoRequest
  <2>5. Or(p[1], FALSE) \in BOOLEAN /\ Or(p[2], TRUE) \in BOOLEAN
    BY OrTypes
  <2>6. CASE call = "unset"
    BY <2>3, <2>4, <2>5, <2>6, ArrivesCreating
  <2>7. CASE call = "insert"
    BY <2>3, <2>4, <2>5, <2>7, ArrivesCreating
  <2> HIDE DEF call
  <2> QED
    BY <2>2, <2>6, <2>7
<1>2. CASE CreateTemplate(q)
  <2>1. PICK s \in Scopes, c \in Codes, p \in Patches :
            Arrive(q, "insert",
                   [NoRequest EXCEPT !.op = "createTemplate", !.scope = s, !.code = c,
                                     !.default = Or(p[1], FALSE), !.active = Or(p[2], TRUE)])
    BY <1>2 DEF CreateTemplate
  <2>2. UNCHANGED <<rows, asked>>
    BY <1>2 DEF CreateTemplate
  <2>3. Arrive(q, "insert", [NoRequest EXCEPT !.op = "createTemplate", !.scope = s, !.code = c,
                                 !.active = Or(p[2], TRUE), !.default = Or(p[1], FALSE)])
    BY <2>1 DEF NoRequest
  <2> QED
    BY <2>2, <2>3, OrTypes, ArrivesCreating
<1>3. CASE DuplicateTemplate(q)
  <2>1. PICK t \in StoredTemplates, c \in Codes :
            Arrive(q, "insert",
                   [NoRequest EXCEPT !.op = "duplicateTemplate", !.scope = ScopeOf[t],
                                     !.code = c, !.active = TRUE, !.default = FALSE])
    BY <1>3 DEF DuplicateTemplate
  <2>2. UNCHANGED <<rows, asked>>
    BY <1>3 DEF DuplicateTemplate
  <2>3. ScopeOf[t] \in Scopes
    BY EventSetupAssumption, TablesConsistent DEF IInv, TypeOK, Tables, StoredTemplates, StoredIn
  <2> QED
    BY <2>1, <2>2, <2>3, ArrivesCreating
<1> QED
  BY <1>1, <1>2, <1>3

LEMMA StoredExist ==
  ASSUME TypeOK
  PROVE  StoredTemplates \subseteq Templates /\ StoredRules \subseteq Rules
  BY TablesConsistent DEF TypeOK, Tables, StoredTemplates, StoredRules, StoredIn

LEMMA TemplateBegins ==
  ASSUME IInv, NEW q \in Requests,
         Update(q) \/ UpdateTemplate(q) \/ Remove(q) \/ DeleteTemplate(q) \/ GenerateBadge(q)
  PROVE  IInv'
<1>a. \A call \in { "unset", "write", "count", "delete", "badge" } :
          call \in AllCalls \ (InRule \cup InEvent \cup { "idle" })
  BY DEF AllCalls, Calls, InRule, InEvent
<1>b. StoredTemplates \subseteq Templates
  BY StoredExist DEF IInv
<1>1. CASE Update(q)
  <2>1. PICK t \in StoredTemplates, p \in Patches :
            Arrive(q, IF p[1] = TRUE /\ ~template[t].default THEN "unset" ELSE "write",
                   [NoRequest EXCEPT !.op = "update", !.template = t, !.scope = ScopeOf[t],
                                     !.default = p[1], !.active = p[2]])
    BY <1>1 DEF Update
  <2> DEFINE r == [NoRequest EXCEPT !.op = "update", !.template = t, !.scope = ScopeOf[t],
                                    !.default = p[1], !.active = p[2]]
             call == IF p[1] = TRUE /\ ~template[t].default THEN "unset" ELSE "write"
  <2>2. call \in { "unset", "write" }
    OBVIOUS
  <2>3. r \in Request
    BY OrTypes, <1>b, EventSetupAssumption DEF NoRequest, Request, Ops, Flag
  <2> HIDE DEF call
  <2>4. Shape(call, r)
    BY <2>2, <1>b DEF NoRequest, Shape, InRule
  <2>5. Arrive(q, call, r) /\ UNCHANGED <<rows, asked>>
    BY <1>1, <2>1 DEF Update, call
  <2> HIDE DEF r
  <2> QED
    BY <1>a, <2>2, <2>3, <2>4, <2>5, ArrivalStep
<1>2. CASE UpdateTemplate(q)
  <2>1. PICK t \in StoredTemplates, p \in Patches, c \in Codes \cup { Undefined } :
            Arrive(q, "write",
                   [NoRequest EXCEPT !.op = "updateTemplate", !.template = t, !.code = c,
                                     !.default = p[1], !.active = p[2]])
    BY <1>2 DEF UpdateTemplate
  <2> DEFINE r == [NoRequest EXCEPT !.op = "updateTemplate", !.template = t, !.code = c,
                                    !.default = p[1], !.active = p[2]]
  <2>2. r \in Request
    BY OrTypes, <1>b DEF NoRequest, Request, Ops, Flag
  <2>3. Shape("write", r)
    BY <1>b DEF NoRequest, Shape, InRule
  <2>4. Arrive(q, "write", r) /\ UNCHANGED <<rows, asked>>
    BY <1>2, <2>1 DEF UpdateTemplate
  <2> HIDE DEF r
  <2> QED
    BY <1>a, <2>2, <2>3, <2>4, ArrivalStep
<1>3. CASE Remove(q)
  <2>1. PICK t \in StoredTemplates :
            Arrive(q, "count", [NoRequest EXCEPT !.op = "remove", !.template = t])
    BY <1>3 DEF Remove
  <2> DEFINE r == [NoRequest EXCEPT !.op = "remove", !.template = t]
  <2>2. r \in Request
    BY <1>b DEF NoRequest, Request, Ops, Flag
  <2>3. Shape("count", r)
    BY <1>b DEF NoRequest, Shape, InRule
  <2>4. Arrive(q, "count", r) /\ UNCHANGED <<rows, asked>>
    BY <1>3, <2>1 DEF Remove
  <2> HIDE DEF r
  <2> QED
    BY <1>a, <2>2, <2>3, <2>4, ArrivalStep
<1>4. CASE DeleteTemplate(q)
  <2>1. PICK t \in StoredTemplates :
            Arrive(q, "delete", [NoRequest EXCEPT !.op = "deleteTemplate", !.template = t])
    BY <1>4 DEF DeleteTemplate
  <2> DEFINE r == [NoRequest EXCEPT !.op = "deleteTemplate", !.template = t]
  <2>2. r \in Request
    BY <1>b DEF NoRequest, Request, Ops, Flag
  <2>3. Shape("delete", r)
    BY <1>b DEF NoRequest, Shape, InRule
  <2>4. Arrive(q, "delete", r) /\ UNCHANGED <<rows, asked>>
    BY <1>4, <2>1 DEF DeleteTemplate
  <2> HIDE DEF r
  <2> QED
    BY <1>a, <2>2, <2>3, <2>4, ArrivalStep
<1>5. CASE GenerateBadge(q)
  <2>1. PICK g \in Registrations, t \in TemplatesForEvent \cup ({ setting } \ { NoTemplate }) :
            Arrive(q, "badge", [NoRequest EXCEPT !.op = "generateBadge", !.registration = g,
                                                 !.template = t])
    BY <1>5 DEF GenerateBadge
  <2>2. TemplatesForEvent \subseteq StoredTemplates
    BY DEF TemplatesForEvent
  <2>3. setting \in StoredTemplates \cup { NoTemplate }
    BY TablesConsistent DEF IInv, TypeOK, Tables
  <2>4. t \in StoredTemplates
    BY <2>2, <2>3
  <2> DEFINE r == [NoRequest EXCEPT !.op = "generateBadge", !.registration = g, !.template = t]
  <2>5. r \in Request
    BY <1>b, <2>4 DEF NoRequest, Request, Ops, Flag
  <2>6. Shape("badge", r)
    BY <1>b, <2>4 DEF NoRequest, Shape, InRule
  <2>7. Arrive(q, "badge", r) /\ UNCHANGED <<rows, asked>>
    BY <1>5, <2>1 DEF GenerateBadge
  <2> HIDE DEF r
  <2> QED
    BY <1>a, <2>5, <2>6, <2>7, ArrivalStep
<1> QED
  BY <1>1, <1>2, <1>3, <1>4, <1>5

LEMMA EventBegins ==
  ASSUME IInv, NEW q \in Requests,
         UpdateEvent(q) \/ CreateBadgeRule(q) \/ UpdateBadgeRule(q) \/ DeleteBadgeRule(q)
         \/ RemoveType(q)
  PROVE  IInv'
<1>a. \A call \in { "lock", "types", "ruleTemplate", "deleteRule", "deleteType" } :
          call \in AllCalls \ (InRule \cup InEvent \cup { "idle" })
  BY DEF AllCalls, Calls, InRule, InEvent
<1>b. StoredTemplates \subseteq Templates /\ StoredRules \subseteq Rules /\ types \subseteq Types
  BY StoredExist, TablesConsistent DEF IInv, TypeOK, Tables
<1>c. Priorities \subseteq Int
  BY EventSetupAssumption
<1>1. CASE UpdateEvent(q)
  <2>1. PICK t \in Templates \cup { NoTemplate, Undefined }, us \in { Undefined } \cup SUBSET Users,
             c \in BOOLEAN :
            Arrive(q, "lock", [NoRequest EXCEPT !.op = "updateEvent", !.template = t,
                                                !.users = us, !.columns = c])
    BY <1>1 DEF UpdateEvent
  <2> DEFINE r == [NoRequest EXCEPT !.op = "updateEvent", !.template = t, !.users = us,
                                    !.columns = c]
  <2>b. r \in [op : Ops, template : Templates \cup { NoTemplate, Undefined },
               scope : { Undefined }, code : { Undefined }, active : { Undefined },
               default : { Undefined }, rule : { Undefined }, priority : { Undefined },
               append : BOOLEAN, types : { Undefined }, users : { Undefined } \cup SUBSET Users,
               columns : BOOLEAN, type : { Undefined }, registration : { Undefined },
               gone : { {} }, left : { {} }, stray : { {} }]
    BY DEF NoRequest, Ops
  <2>2. r \in Request
    BY <2>b DEF Request, Flag
  <2>3. Shape("lock", r)
    BY DEF NoRequest, Shape, InRule
  <2>4. Arrive(q, "lock", r) /\ UNCHANGED <<rows, asked>>
    BY <1>1, <2>1 DEF UpdateEvent
  <2> HIDE DEF r
  <2> QED
    BY <1>a, <2>2, <2>3, <2>4, ArrivalStep
<1>2. CASE CreateBadgeRule(q)
  <2>1. PICK t \in StoredTemplates, ks \in SUBSET Types, n \in Priorities \cup { Undefined } :
            Arrive(q, "types",
                   [NoRequest EXCEPT !.op = "createBadgeRule", !.template = t, !.types = ks,
                                     !.priority = n, !.append = (n = Undefined)])
    BY <1>2 DEF CreateBadgeRule
  <2> DEFINE r == [NoRequest EXCEPT !.op = "createBadgeRule", !.template = t, !.types = ks,
                                    !.priority = n, !.append = (n = Undefined)]
  <2>2. r \in Request
    BY <1>b, <1>c DEF NoRequest, Request, Ops, Flag
  <2>3. Shape("types", r)
    BY <1>b, <1>c DEF NoRequest, Shape, InRule
  <2>4. Arrive(q, "types", r) /\ UNCHANGED <<rows, asked>>
    BY <1>2, <2>1 DEF CreateBadgeRule
  <2> HIDE DEF r
  <2> QED
    BY <1>a, <2>2, <2>3, <2>4, ArrivalStep
<1>3. CASE UpdateBadgeRule(q)
  <2>1. PICK u \in StoredRules, t \in Templates \cup { Undefined },
             ks \in { Undefined } \cup SUBSET Types, n \in Priorities \cup { Undefined } :
            Arrive(q, "ruleTemplate",
                   [NoRequest EXCEPT !.op = "updateBadgeRule", !.rule = u, !.template = t,
                                     !.types = ks, !.priority = n])
    BY <1>3 DEF UpdateBadgeRule
  <2> DEFINE r == [NoRequest EXCEPT !.op = "updateBadgeRule", !.rule = u, !.template = t,
                                    !.types = ks, !.priority = n]
  <2>b. r \in [op : Ops, template : Templates \cup { Undefined },
               scope : { Undefined }, code : { Undefined }, active : { Undefined },
               default : { Undefined }, rule : Rules, priority : Priorities \cup { Undefined },
               append : BOOLEAN, types : { Undefined } \cup SUBSET Types, users : { Undefined },
               columns : { FALSE }, type : { Undefined }, registration : { Undefined },
               gone : { {} }, left : { {} }, stray : { {} }]
    BY <1>b DEF NoRequest, Ops
  <2>2. r \in Request
    BY <1>c, <2>b DEF Request, Flag
  <2>3. Shape("ruleTemplate", r)
    BY <1>b DEF NoRequest, Shape, InRule
  <2>4. Arrive(q, "ruleTemplate", r) /\ UNCHANGED <<rows, asked>>
    BY <1>3, <2>1 DEF UpdateBadgeRule
  <2> HIDE DEF r
  <2> QED
    BY <1>a, <2>2, <2>3, <2>4, ArrivalStep
<1>4. CASE DeleteBadgeRule(q)
  <2>1. PICK u \in StoredRules :
            Arrive(q, "deleteRule", [NoRequest EXCEPT !.op = "deleteBadgeRule", !.rule = u])
    BY <1>4 DEF DeleteBadgeRule
  <2> DEFINE r == [NoRequest EXCEPT !.op = "deleteBadgeRule", !.rule = u]
  <2>2. r \in Request
    BY <1>b DEF NoRequest, Request, Ops, Flag
  <2>3. Shape("deleteRule", r)
    BY <1>b DEF NoRequest, Shape, InRule
  <2>4. Arrive(q, "deleteRule", r) /\ UNCHANGED <<rows, asked>>
    BY <1>4, <2>1 DEF DeleteBadgeRule
  <2> HIDE DEF r
  <2> QED
    BY <1>a, <2>2, <2>3, <2>4, ArrivalStep
<1>5. CASE RemoveType(q)
  <2>1. PICK k \in types :
            Arrive(q, "deleteType", [NoRequest EXCEPT !.op = "removeType", !.type = k])
    BY <1>5 DEF RemoveType
  <2> DEFINE r == [NoRequest EXCEPT !.op = "removeType", !.type = k]
  <2>2. r \in Request
    BY <1>b DEF NoRequest, Request, Ops, Flag
  <2>3. Shape("deleteType", r)
    BY <1>b DEF NoRequest, Shape, InRule
  <2>4. Arrive(q, "deleteType", r) /\ UNCHANGED <<rows, asked>>
    BY <1>5, <2>1 DEF RemoveType
  <2> HIDE DEF r
  <2> QED
    BY <1>a, <2>2, <2>3, <2>4, ArrivalStep
<1> QED
  BY <1>1, <1>2, <1>3, <1>4, <1>5

---------------------------------------------------------------------------
\* The calls that change no table.

LEMMA FreeStep ==
  ASSUME IInv, NEW q \in Requests, NEW call \in AllCalls \ (InRule \cup InEvent),
         NEW r \in Request,
         Goto(q, call, r), UNCHANGED <<rows, asked>>, Shape(call, r)
  PROVE  IInv'
<1>1. Moved(q, call, r)
  BY Goes DEF IInv
<1>2. Held(call, r)
  BY DEF Held, HeldIn, InRule, InEvent, InSetting
<1>3. \A p \in Requests : p # q =>
          Apart(call, r, pc[p], req[p]) /\ Apart(pc[p], req[p], call, r)
  <2>1. call \notin InEvent /\ call \notin InSetting /\ call \notin InRule
    BY DEF InEvent, InSetting
  <2> QED
    BY <2>1 DEF Apart
<1> QED
  BY <1>1, <1>2, <1>3, QuietStep

LEMMA EventStep ==
  ASSUME IInv, NEW q \in Requests, NEW call \in InEvent, NEW r \in Request,
         Goto(q, call, r), UNCHANGED <<rows, asked>>, Shape(call, r),
         r.columns => \A p \in Requests : p # q => ~(pc[p] \in InEvent /\ req[p].columns),
         call \in InSetting /\ r.template # Undefined =>
             \A p \in Requests : p # q => ~(pc[p] \in InSetting /\ req[p].template # Undefined),
         call \in InSetting /\ r.template \in Templates => r.template \in StoredTemplates
  PROVE  IInv'
<1>1. Moved(q, call, r)
  BY Goes DEF IInv, InEvent, AllCalls, Calls
<1>2. Held(call, r)
  BY DEF Held, HeldIn, InRule, InEvent, StoredTemplates
<1>3. \A p \in Requests : p # q =>
          Apart(call, r, pc[p], req[p]) /\ Apart(pc[p], req[p], call, r)
  BY DEF Apart, InEvent, InRule
<1> QED
  BY <1>1, <1>2, <1>3, QuietStep

LEMMA RuleStep ==
  ASSUME IInv, NEW q \in Requests, NEW call \in InRule, NEW r \in Request,
         Goto(q, call, r), UNCHANGED <<rows, asked>>, Shape(call, r), Held(call, r),
         \A p \in Requests : p # q /\ pc[p] \in InRule /\ Writing(req[p]) /\ Writing(r) =>
             /\ r.rule # req[p].rule
             /\ r.priority = Undefined \/ r.priority # req[p].priority
             /\ req[p].priority = Undefined \/ r.priority # req[p].priority
  PROVE  IInv'
<1>1. Moved(q, call, r)
  BY Goes DEF IInv, InRule, AllCalls, Calls
<1>2. \A p \in Requests : p # q =>
          Apart(call, r, pc[p], req[p]) /\ Apart(pc[p], req[p], call, r)
  BY DEF Apart, InEvent, InSetting, InRule
<1> QED
  BY <1>1, <1>2, QuietStep

LEMMA Knows ==
  ASSUME IInv, NEW q \in Requests
  PROVE  /\ req[q] \in Request /\ pc[q] \in AllCalls
         /\ Shape(pc[q], req[q]) /\ Held(pc[q], req[q])
         /\ \A p \in Requests : p # q =>
               Apart(pc[p], req[p], pc[q], req[q]) /\ Apart(pc[q], req[q], pc[p], req[p])
  BY DEF IInv, TypeOK, AllCalls, Shapes, AllHeld, AllApart

LEMMA FailingStep ==
  ASSUME IInv, NEW q \in Requests, NEW why, Fail(q, why)
  PROVE  IInv'
  BY Fails, QuietEnd DEF IInv, Fail

LEMMA EndingStep ==
  ASSUME IInv, NEW q \in Requests, End(q), UNCHANGED <<rows, asked>>
  PROVE  IInv'
  BY Ends, QuietEnd DEF IInv

LEMMA ChecksKeep ==
  ASSUME IInv, NEW q \in Requests,
         CountUses(q) \/ CheckTypes(q) \/ NextPriority(q) \/ CheckRuleTemplate(q)
         \/ CheckRuleTypes(q) \/ DeleteTypeWaits(q)
  PROVE  IInv'
<1>a. \A call \in { "delete", "priority", "insertRule", "ruleTypes", "ruleRow", "cascade" } :
          call \in AllCalls \ (InRule \cup InEvent)
  BY DEF AllCalls, Calls, InRule, InEvent
<1>b. req[q] \in Request /\ Shape(pc[q], req[q])
  BY Knows
<1>1. CASE CountUses(q)
  <2>1. Shape("delete", req[q])
    BY <1>1, <1>b DEF CountUses, Shape, InRule
  <2> QED
    BY <1>1, <1>a, <1>b, <2>1, FreeStep, EndingStep DEF CountUses
<1>2. CASE CheckTypes(q)
  <2>1. CASE req[q].types \subseteq types /\ req[q].append
    <3>1. Shape("priority", req[q])
      BY <1>2, <1>b DEF CheckTypes, Shape, InRule
    <3>2. Goto(q, "priority", req[q]) /\ UNCHANGED <<rows, asked>>
      BY <1>2, <2>1 DEF CheckTypes
    <3> QED
      BY <1>a, <1>b, <3>1, <3>2, FreeStep
  <2>2. CASE req[q].types \subseteq types /\ ~req[q].append
    <3>1. Shape("insertRule", req[q])
      BY <1>2, <1>b, <2>2 DEF CheckTypes, Shape, InRule
    <3>2. Goto(q, "insertRule", req[q]) /\ UNCHANGED <<rows, asked>>
      BY <1>2, <2>2 DEF CheckTypes
    <3> QED
      BY <1>a, <1>b, <3>1, <3>2, FreeStep
  <2>3. CASE ~(req[q].types \subseteq types)
    BY <1>2, <2>3, EndingStep DEF CheckTypes
  <2> QED
    BY <2>1, <2>2, <2>3
<1>3. CASE NextPriority(q)
  <2>1. PICK n \in { m + 1 : m \in UsedPriorities } \cup { 0 } :
            Goto(q, "insertRule", [req[q] EXCEPT !.priority = n])
    BY <1>3 DEF NextPriority
  <2>2. UsedPriorities \subseteq Int
    BY StoredExist, TablesConsistent
    DEF IInv, TypeOK, Tables, UsedPriorities, StoredRules, RuleRow
  <2>3. n \in Int
    BY <2>2
  <2> DEFINE r == [req[q] EXCEPT !.priority = n]
  <2>4. r \in Request
    BY <1>b, <2>3 DEF Request
  <2>5. Shape("insertRule", r)
    BY <1>3, <1>b, <2>3 DEF NextPriority, Shape, Request, InRule
  <2>6. Goto(q, "insertRule", r) /\ UNCHANGED <<rows, asked>>
    BY <1>3, <2>1 DEF NextPriority
  <2> HIDE DEF r
  <2> QED
    BY <1>a, <2>4, <2>5, <2>6, FreeStep
<1>4. CASE CheckRuleTemplate(q)
  <2>1. Shape("ruleTypes", req[q])
    BY <1>4, <1>b DEF CheckRuleTemplate, Shape, InRule
  <2> QED
    BY <1>4, <1>a, <1>b, <2>1, FreeStep, EndingStep DEF CheckRuleTemplate
<1>5. CASE CheckRuleTypes(q)
  <2>1. Shape("ruleRow", req[q])
    BY <1>5, <1>b DEF CheckRuleTypes, Shape, InRule
  <2> QED
    BY <1>5, <1>a, <1>b, <2>1, FreeStep, EndingStep DEF CheckRuleTypes
<1>6. CASE DeleteTypeWaits(q)
  <2>1. Shape("cascade", req[q])
    BY <1>6, <1>b DEF DeleteTypeWaits, Shape, InRule
  <2> QED
    BY <1>6, <1>a, <1>b, <2>1, FreeStep DEF DeleteTypeWaits
<1> QED
  BY <1>1, <1>2, <1>3, <1>4, <1>5, <1>6

LEMMA EventCallsKeep ==
  ASSUME IInv, NEW q \in Requests,
         LockEvent(q) \/ CheckAssigned(q) \/ SetSetting(q) \/ Leave(q) \/ Left(q)
  PROVE  IInv'
<1>a. req[q] \in Request /\ Shape(pc[q], req[q]) /\ Held(pc[q], req[q])
  BY Knows
<1>b. pc[q] \in InEvent /\ req[q].columns =>
          \A p \in Requests : p # q => ~(pc[p] \in InEvent /\ req[p].columns)
  BY Knows DEF Apart
<1>c. pc[q] \in InSetting /\ req[q].template # Undefined =>
          \A p \in Requests : p # q => ~(pc[p] \in InSetting /\ req[p].template # Undefined)
  BY Knows DEF Apart
<1>1. CASE LockEvent(q)
  <2>1. req[q].columns => \A p \in Requests : ~(pc[p] \in InEvent /\ req[p].columns)
    BY <1>1 DEF LockEvent, HoldsEvent, InEvent
  <2>2. Shape("template", req[q]) /\ Shape("setting", req[q])
    BY <1>1, <1>a DEF LockEvent, Shape, InRule
  <2>3. PICK call \in { "template", "setting" } :
            Goto(q, call, req[q]) /\ UNCHANGED <<rows, asked>>
    BY <1>1 DEF LockEvent
  <2> QED
    BY <1>a, <2>1, <2>2, <2>3, EventStep DEF InEvent, InSetting
<1>2. CASE CheckAssigned(q)
  <2>1. CASE End(q)
    BY <1>2, <2>1, EndingStep DEF CheckAssigned
  <2>2. CASE Goto(q, "setting", req[q])
    <3>1. Shape("setting", req[q])
      BY <1>2, <1>a DEF CheckAssigned, Shape, InRule
    <3>2. pc[q] \in InEvent
      BY <1>2 DEF CheckAssigned, InEvent
    <3>3. UNCHANGED <<rows, asked>>
      BY <1>2 DEF CheckAssigned
    <3> QED
      BY <1>a, <1>b, <2>2, <3>1, <3>2, <3>3, EventStep DEF InEvent, InSetting
  <2> QED
    BY <1>2, <2>1, <2>2 DEF CheckAssigned
<1>3. CASE SetSetting(q)
  <2>1. pc[q] \in InEvent
    BY <1>3 DEF SetSetting, InEvent
  <2>2. req[q].template \in Templates => req[q].template \in StoredTemplates
    BY <1>3 DEF SetSetting, AssignRejected
  <2>3. UNCHANGED <<rows, asked>>
    BY <1>3 DEF SetSetting
  <2>a. req[q].template # Undefined =>
            \A p \in Requests : ~(pc[p] \in InSetting /\ req[p].template # Undefined)
    BY <1>3 DEF SetSetting, SettingFree, HoldsSetting, InSetting
  <2>4. CASE req[q].users = Undefined
    <3>1. Shape("assign", req[q])
      BY <1>3, <1>a DEF SetSetting, Shape, InRule
    <3>2. Goto(q, "assign", req[q])
      BY <1>3, <2>4 DEF SetSetting
    <3> QED
      BY <1>a, <1>b, <2>1, <2>2, <2>3, <2>a, <3>1, <3>2, EventStep DEF InEvent
  <2>5. CASE req[q].users # Undefined
    <3>1. Shape("leave", req[q])
      BY <1>3, <1>a, <2>5 DEF SetSetting, Shape, InRule
    <3>2. Goto(q, "leave", req[q])
      BY <1>3, <2>5 DEF SetSetting
    <3> QED
      BY <1>a, <1>b, <2>1, <2>2, <2>3, <2>a, <3>1, <3>2, EventStep DEF InEvent
  <2> QED
    BY <2>4, <2>5
<1>4. CASE Leave(q)
  <2> DEFINE r == [req[q] EXCEPT !.left = users]
  <2>1. pc[q] \in InEvent /\ pc[q] \in InSetting /\ pc[q] = "leave"
    BY <1>4 DEF Leave, InEvent, InSetting
  <2>2. users \subseteq Users
    BY TablesConsistent DEF IInv, TypeOK, Tables
  <2>3. r \in Request
    BY <1>a, <2>2 DEF Request
  <2>4. r.users # Undefined /\ r.columns = req[q].columns /\ r.template = req[q].template
    BY <1>4, <1>a DEF Leave, Shape, Request
  <2>5. Shape("assign", r) /\ Shape("leaving", r)
    BY <1>4, <1>a DEF Leave, Shape, Request, InRule
  <2>6. req[q].template \in Templates => req[q].template \in StoredTemplates
    BY <1>a, <2>1 DEF Held, HeldIn, StoredTemplates
  <2>7. PICK call \in { "assign", "leaving" } : Goto(q, call, r) /\ UNCHANGED <<rows, asked>>
    BY <1>4 DEF Leave
  <2> HIDE DEF r
  <2>8. call \in InEvent
    BY DEF InEvent
  <2> QED
    BY <1>b, <1>c, <2>1, <2>3, <2>4, <2>5, <2>6, <2>7, <2>8, EventStep
<1>5. CASE Left(q)
  <2>1. pc[q] \in InEvent /\ pc[q] \in InSetting /\ pc[q] = "leaving"
    BY <1>5 DEF Left, InEvent, InSetting
  <2>2. Shape("assign", req[q])
    BY <1>a, <2>1 DEF Shape, InRule
  <2>3. req[q].template \in Templates => req[q].template \in StoredTemplates
    BY <1>a, <2>1 DEF Held, HeldIn, StoredTemplates
  <2>4. Goto(q, "assign", req[q]) /\ UNCHANGED <<rows, asked>>
    BY <1>5 DEF Left
  <2> QED
    BY <1>a, <1>b, <1>c, <2>1, <2>2, <2>3, <2>4, EventStep DEF InEvent
<1> QED
  BY <1>1, <1>2, <1>3, <1>4, <1>5

LEMMA RuleCallsKeep ==
  ASSUME IInv, NEW q \in Requests, UpdateRule(q) \/ Unlink(q) \/ Unlinked(q)
  PROVE  IInv'
<1>a. req[q] \in Request /\ Shape(pc[q], req[q]) /\ Held(pc[q], req[q])
  BY Knows
<1>b. pc[q] \in InRule =>
        \A p \in Requests : p # q /\ pc[p] \in InRule /\ Writing(req[p]) /\ Writing(req[q]) =>
             /\ req[q].rule # req[p].rule
             /\ req[q].priority = Undefined \/ req[q].priority # req[p].priority
             /\ req[p].priority = Undefined \/ req[q].priority # req[p].priority
  BY Knows DEF Apart
<1>1. CASE UpdateRule(q)
  <2>1. req[q].rule \in StoredRules
        /\ (req[q].template \in Templates => req[q].template \in StoredTemplates)
        /\ \A o \in StoredRules \ { req[q].rule } : rule[o].priority # req[q].priority
    BY <1>1 DEF UpdateRule, UpdateRuleRejected
  <2>2. Held("unlink", req[q]) /\ Held("link", req[q])
    BY <2>1 DEF Held, HeldIn, InSetting, StoredTemplates, StoredRules
  <2>3. \A p \in Requests : p # q /\ pc[p] \in InRule /\ Writing(req[p]) /\ Writing(req[q]) =>
             /\ req[q].rule # req[p].rule
             /\ req[q].priority = Undefined \/ req[q].priority # req[p].priority
             /\ req[p].priority = Undefined \/ req[q].priority # req[p].priority
    <3> SUFFICES ASSUME NEW p \in Requests, p # q, pc[p] \in InRule, Writing(req[p]),
                        Writing(req[q])
                 PROVE  /\ req[q].rule # req[p].rule
                        /\ req[q].priority = Undefined \/ req[q].priority # req[p].priority
                        /\ req[p].priority = Undefined \/ req[q].priority # req[p].priority
      OBVIOUS
    <3>1. HoldsRule(p, req[p].rule)
      BY DEF HoldsRule, InRule, Writing, WritesRule
    <3>2. req[p].rule \in Rules
      BY Knows DEF Shape, InRule
    <3>3. req[q].rule # req[p].rule
      BY <1>1, <3>1 DEF UpdateRule, RuleFree, Writing, WritesRule
    <3>4. req[q].priority = Undefined \/ req[q].priority # req[p].priority
      BY <1>1, <3>1, <3>2 DEF UpdateRule, PriorityFree
    <3> QED
      BY <3>3, <3>4
  <2>4. CASE req[q].types = Undefined
    <3>1. Shape("link", req[q])
      BY <1>1, <1>a DEF UpdateRule, Shape, InRule
    <3>2. Goto(q, "link", req[q]) /\ UNCHANGED <<rows, asked>>
      BY <1>1, <2>4 DEF UpdateRule
    <3> QED
      BY <1>a, <2>2, <2>3, <3>1, <3>2, RuleStep DEF InRule
  <2>5. CASE req[q].types # Undefined
    <3>1. Shape("unlink", req[q])
      BY <1>1, <1>a, <2>5 DEF UpdateRule, Shape, Request, InRule
    <3>2. Goto(q, "unlink", req[q]) /\ UNCHANGED <<rows, asked>>
      BY <1>1, <2>5 DEF UpdateRule
    <3> QED
      BY <1>a, <2>2, <2>3, <3>1, <3>2, RuleStep DEF InRule
  <2> QED
    BY <2>4, <2>5
<1>2. CASE Unlink(q)
  <2> DEFINE r == [req[q] EXCEPT !.gone = rule[req[q].rule].types]
  <2>1. pc[q] = "unlink" /\ pc[q] \in InRule
    BY <1>2 DEF Unlink, InRule
  <2>a. PICK call \in { "unlinking", "link" } : Goto(q, call, r) /\ UNCHANGED <<rows, asked>>
    BY <1>2 DEF Unlink
  <2>2. rule[req[q].rule].types \in SUBSET Types
    BY <1>a, <2>1, TablesConsistent DEF Shape, IInv, TypeOK, Tables, RuleRow
  <2>3. /\ r \in Request
        /\ r.rule = req[q].rule /\ r.template = req[q].template
        /\ r.priority = req[q].priority /\ r.types = req[q].types
    BY <1>a, <2>2 DEF Request
  <2> HIDE DEF r
  <2>4. Shape(call, r)
    BY <1>a, <2>1, <2>3 DEF Shape, InRule
  <2>5. Held(call, r)
    BY <1>a, <2>1, <2>3 DEF Held, HeldIn, InRule, InSetting, Writing
  <2>6. Writing(r) <=> Writing(req[q])
    BY <2>3 DEF Writing
  <2>7. call \in InRule
    BY DEF InRule
  <2> QED
    BY <1>b, <2>1, <2>a, <2>3, <2>4, <2>5, <2>6, <2>7, RuleStep
<1>3. CASE Unlinked(q)
  <2>1. pc[q] = "unlinking" /\ pc[q] \in InRule
    BY <1>3 DEF Unlinked, InRule
  <2>2. Shape("link", req[q])
    BY <1>a, <2>1 DEF Shape, InRule
  <2>3. Held("link", req[q])
    BY <1>a, <2>1 DEF Held, HeldIn, InRule, InSetting
  <2>4. Goto(q, "link", req[q]) /\ UNCHANGED <<rows, asked>>
    BY <1>3 DEF Unlinked
  <2> QED
    BY <1>a, <1>b, <2>1, <2>2, <2>3, <2>4, RuleStep DEF InRule
<1> QED
  BY <1>1, <1>2, <1>3

LEMMA FailuresKeep ==
  ASSUME IInv, NEW q \in Requests,
         \/ InsertFails(q) \/ WriteFails(q) \/ DeleteFails(q) \/ SetSettingFails(q)
         \/ InsertRuleFails(q) \/ UpdateRuleFails(q) \/ LinkFails(q) \/ DeleteRuleFails(q)
         \/ DeleteTypeFails(q) \/ Victim(q) \/ WriteBadgeFails(q) \/ Abort(q)
  PROVE  IInv'
<1>1. CASE Abort(q)
  BY <1>1, EndingStep DEF Abort
<1>2. CASE ~Abort(q)
  <2>1. PICK why : Fail(q, why)
    BY <1>2 DEF InsertFails, WriteFails, DeleteFails, SetSettingFails, InsertRuleFails,
                UpdateRuleFails, LinkFails, DeleteRuleFails, DeleteTypeFails, Victim,
                WriteBadgeFails
  <2> QED
    BY <2>1, FailingStep
<1> QED
  BY <1>1, <1>2

---------------------------------------------------------------------------
\* The calls that write.

\* Consistent, for tables tm, rl, ty, st, us and bd.
Sound(tm, rl, ty, st, us, bd) ==
    /\ tm \in [Templates -> TemplateRow] /\ rl \in [Rules -> RuleRow]
    /\ ty \subseteq Types /\ us \subseteq Users
    /\ st \in StoredIn(tm) \cup { NoTemplate }
    /\ bd \in [Registrations -> StoredIn(tm) \cup { NoTemplate }]
    /\ \A r \in StoredIn(rl) : rl[r].template \in StoredIn(tm) /\ rl[r].types \subseteq ty
    /\ \A r \in StoredIn(rl), o \in StoredIn(rl) : rl[o].priority = rl[r].priority => o = r
    /\ \A t \in StoredIn(tm), o \in StoredIn(tm) : tm[t].code = tm[o].code => t = o

LEMMA SoundTables ==
  ASSUME IInv
  PROVE  /\ Sound(template, rule, types, setting, users, badge)
         /\ StoredTemplates = StoredIn(template) /\ StoredRules = StoredIn(rule)
         /\ \A t \in StoredIn(template) : t \in Templates /\ template[t].state = "stored"
         /\ \A r \in StoredIn(rule) : r \in Rules /\ rule[r].state = "stored"
  BY DEF IInv, TypeOK, Consistent, Sound, StoredTemplates, StoredRules, StoredIn

LEMMA EndSettles ==
  ASSUME IInv, NEW q \in Requests, End(q)
  PROVE  Settled(q)
  BY Ends DEF IInv, Moved, Settled, Kept

LEMMA Histories ==
  ASSUME IInv
  PROVE  HistoryOK /\ (UNCHANGED asked => HistoryOK')
  BY DEF IInv, TypeOK, HistoryOK, asked

LEMMA Writes ==
  ASSUME IInv, NEW q \in Requests, Settled(q), HistoryOK',
         Sound(template', rule', types', setting', users', badge'),
         \A p \in Requests : p # q => HeldIn(pc[p], req[p], template', rule')
  PROVE  IInv'
<1>1. Consistent(Tables)'
  BY DEF Sound, Consistent, Tables
<1> QED
  BY <1>1, WritingStep

LEMMA Others ==
  ASSUME IInv, NEW q \in Requests, NEW p \in Requests, p # q
  PROVE  /\ HeldIn(pc[p], req[p], template, rule)
         /\ Shape(pc[p], req[p]) /\ req[p] \in Request
  BY Knows DEF Held

\* Templates that stay keep what refers to them.
LEMMA MoreTemplates ==
  ASSUME NEW call, NEW r, NEW tm, NEW tm2, NEW rl,
         HeldIn(call, r, tm, rl), StoredIn(tm) \subseteq StoredIn(tm2)
  PROVE  HeldIn(call, r, tm2, rl)
  BY DEF HeldIn

LEMMA UnsetDefaultsKeeps ==
  ASSUME IInv, NEW q \in Requests, UnsetDefaults(q)
  PROVE  IInv'
<1> DEFINE call == IF req[q].op = "create" THEN "insert" ELSE "write"
<1>a. /\ pc[q] = "unset" /\ Goto(q, call, req[q])
      /\ UNCHANGED <<rule, types, setting, users, badge, asked>>
      /\ template' = [t \in Templates |->
             IF t \in InScope(req[q].scope)
             THEN [template[t] EXCEPT !.default = FALSE] ELSE template[t]]
  BY DEF UnsetDefaults
<1>b. req[q] \in Request /\ Shape(pc[q], req[q])
  BY Knows
<1>c. call \in AllCalls \ (InRule \cup InEvent \cup { "idle" })
  BY DEF AllCalls, Calls, InRule, InEvent
<1>d. Shape(call, req[q])
  BY <1>a, <1>b DEF Shape, InRule
<1> HIDE DEF call
<1>e. Moved(q, call, req[q])
  BY <1>a, <1>b, <1>c, Goes DEF IInv
<1>f. Sound(template, rule, types, setting, users, badge)
  BY SoundTables
<1>g. \A t \in Templates : /\ template'[t] \in TemplateRow
                           /\ template'[t].state = template[t].state
                           /\ template'[t].code = template[t].code
  <2> SUFFICES ASSUME NEW t \in Templates
               PROVE  /\ template'[t] \in TemplateRow
                      /\ template'[t].state = template[t].state
                      /\ template'[t].code = template[t].code
    OBVIOUS
  <2>1. template[t] \in TemplateRow
    BY <1>f DEF Sound
  <2> DEFINE row == template[t]
             unset == [row EXCEPT !.default = FALSE]
  <2>2. unset \in TemplateRow /\ unset.state = row.state /\ unset.code = row.code
    BY <2>1 DEF TemplateRow
  <2>3. template'[t] = unset \/ template'[t] = row
    BY <1>a
  <2> HIDE DEF row, unset
  <2>4. row = template[t]
    BY DEF row
  <2> QED
    BY <2>1, <2>2, <2>3, <2>4
<1>h. template' \in [Templates -> TemplateRow]
  <2>1. template' = [t \in Templates |-> template'[t]]
    BY <1>a
  <2> QED
    BY <1>g, <2>1
<1>i. StoredIn(template') = StoredIn(template)
  BY <1>f, <1>g, <1>h DEF Sound, StoredIn
<1>j. \A t \in StoredIn(template) : t \in Templates
  BY SoundTables
<1>1. Sound(template', rule', types', setting', users', badge')
  <2>1. \A t \in StoredIn(template'), o \in StoredIn(template') :
            template'[t].code = template'[o].code => t = o
    BY <1>f, <1>g, <1>i, <1>j DEF Sound
  <2> QED
    BY <1>a, <1>f, <1>h, <1>i, <2>1 DEF Sound
<1>2. TypeOK'
  <2>1. Consistent(Tables)'
    BY <1>1 DEF Sound, Consistent, Tables
  <2>2. HistoryOK'
    BY <1>a, Histories
  <2> QED
    BY <1>e, <2>1, <2>2 DEF TypeOK, Moved, AllCalls, Tables, HistoryOK
<1>4. Shapes'
  BY <1>d, <1>e DEF IInv, Shapes, Moved
<1>5. AllHeld'
  <2> SUFFICES ASSUME NEW p \in Requests PROVE HeldIn(pc'[p], req'[p], template', rule')
    BY DEF AllHeld, Held
  <2>1. CASE p = q
    BY <1>c, <1>e, <2>1 DEF Moved, HeldIn, InRule, InEvent, InSetting
  <2>2. CASE p # q
    BY <1>a, <1>e, <1>i, <2>2, Others, MoreTemplates DEF Moved
  <2> QED
    BY <2>1, <2>2
<1>6. AllApart'
  <2>1. \A p \in Requests : p # q => Apart(pc[p], req[p], call, req[q])
                                     /\ Apart(call, req[q], pc[p], req[p])
    BY <1>c DEF Apart, InEvent, InSetting
  <2> QED
    BY <1>e, <2>1 DEF IInv, AllApart, Moved
<1> QED
  BY <1>2, <1>4, <1>5, <1>6 DEF IInv

LEMMA InsertKeeps ==
  ASSUME IInv, NEW q \in Requests, Insert(q)
  PROVE  IInv'
<1>a. PICK t \in Templates :
          /\ template[t].state = "unmade"
          /\ template' = [template EXCEPT ![t] =
                 [state |-> "stored", code |-> req[q].code,
                  active |-> req[q].active, default |-> req[q].default]]
  BY DEF Insert
<1>b. /\ pc[q] = "insert" /\ End(q) /\ CodeFree(req[q].code, NoTemplate)
      /\ UNCHANGED <<rule, types, setting, users, badge, asked>>
  BY DEF Insert
<1>c. Sound(template, rule, types, setting, users, badge)
  BY SoundTables
<1>d. /\ req[q].code \in Codes \cup { Undefined }
      /\ req[q].active \in BOOLEAN /\ req[q].default \in BOOLEAN
  BY <1>b, Knows DEF Shape, Request
<1>e. template' \in [Templates -> TemplateRow]
  BY <1>a, <1>c, <1>d DEF Sound, TemplateRow
<1>f. StoredIn(template') = StoredIn(template) \cup { t } /\ t \notin StoredIn(template)
  BY <1>a, <1>c DEF Sound, StoredIn
<1>g. \A o \in StoredIn(template) : template[o].code # req[q].code
  BY <1>b, SoundTables, EventSetupAssumption DEF CodeFree
<1>h. \A o \in StoredIn(template) : template'[o] = template[o]
  BY <1>a, <1>c, <1>f, SoundTables DEF Sound
<1>i. template'[t].code = req[q].code
  BY <1>a, <1>c DEF Sound
<1>1. \A o \in StoredIn(template'), u \in StoredIn(template') :
          template'[o].code = template'[u].code => o = u
  BY <1>c, <1>f, <1>g, <1>h, <1>i DEF Sound
<1>2. Sound(template', rule', types', setting', users', badge')
  BY <1>1, <1>b, <1>c, <1>e, <1>f DEF Sound
<1>3. \A p \in Requests : p # q => HeldIn(pc[p], req[p], template', rule')
  BY <1>b, <1>f, Others, MoreTemplates
<1> QED
  BY <1>2, <1>3, <1>b, EndSettles, Histories, Writes

LEMMA WriteKeeps ==
  ASSUME IInv, NEW q \in Requests, Write(q)
  PROVE  IInv'
<1> DEFINE t == req[q].template
           row == [state |-> "stored", code |-> Or(req[q].code, template[t].code),
                   active |-> Or(req[q].active, template[t].active),
                   default |-> Or(req[q].default, template[t].default)]
<1>a. /\ template' = [template EXCEPT ![t] = row] /\ End(q)
      /\ UNCHANGED <<rule, types, setting, users, badge, asked>>
  BY DEF Write
<1>b. /\ t \in StoredIn(template)
      /\ req[q].code \in Codes =>
            \A o \in StoredIn(template) \ { t } : template[o].code # req[q].code
  BY SoundTables DEF Write, WriteRejected, CodeFree
<1>c. Sound(template, rule, types, setting, users, badge) /\ t \in Templates
  BY <1>b, SoundTables
<1>d. req[q] \in Request
  BY Knows
<1>e. row \in TemplateRow
  BY <1>c, <1>d DEF Sound, TemplateRow, Request, Or, Flag
<1>f. row.state = "stored" /\ row.code = Or(req[q].code, template[t].code)
  OBVIOUS
<1> HIDE DEF row
<1>g. template' \in [Templates -> TemplateRow]
  BY <1>a, <1>c, <1>e DEF Sound
<1>h. \A o \in Templates : template'[o] = IF o = t THEN row ELSE template[o]
  BY <1>a, <1>c DEF Sound
<1>i. StoredIn(template') = StoredIn(template)
  BY <1>b, <1>c, <1>f, <1>g, <1>h DEF Sound, StoredIn
<1>j. \A o \in StoredIn(template) \ { t } : row.code # template[o].code
  BY <1>b, <1>c, <1>d, <1>f DEF Sound, Or, Request
<1>k. \A o \in StoredIn(template) : o \in Templates
  BY SoundTables
<1>1. \A o \in StoredIn(template'), u \in StoredIn(template') :
          template'[o].code = template'[u].code => o = u
  BY <1>c, <1>h, <1>i, <1>j, <1>k DEF Sound
<1>2. Sound(template', rule', types', setting', users', badge')
  BY <1>1, <1>a, <1>c, <1>g, <1>i DEF Sound
<1>3. \A p \in Requests : p # q => HeldIn(pc[p], req[p], template', rule')
  BY <1>a, <1>i, Others, MoreTemplates
<1> QED
  BY <1>2, <1>3, <1>a, EndSettles, Histories, Writes

LEMMA DeleteKeeps ==
  ASSUME IInv, NEW q \in Requests, Delete(q)
  PROVE  IInv'
<1> DEFINE t == req[q].template
<1>a. /\ template' = [template EXCEPT ![t] = DeletedTemplate]
      /\ rule' = [r \in Rules |-> IF rule[r].template = t THEN DeletedRule ELSE rule[r]]
      /\ UNCHANGED <<types, setting, users, badge, asked>> /\ End(q)
      /\ \A p \in Requests : ~HoldsTemplate(p, t)
  BY DEF Delete
<1>b. /\ t \in StoredIn(template) /\ setting # t
      /\ \A g \in Registrations : badge[g] # t
  BY SoundTables DEF Delete, DeleteRejected
<1>c. Sound(template, rule, types, setting, users, badge) /\ t \in Templates
  BY <1>b, SoundTables
<1>d. DeletedTemplate \in TemplateRow /\ DeletedTemplate.state # "stored"
  BY DEF DeletedTemplate, TemplateRow
<1>e. DeletedRule \in RuleRow /\ DeletedRule.state # "stored"
  BY DEF DeletedRule, RuleRow
<1>f. template' \in [Templates -> TemplateRow] /\ rule' \in [Rules -> RuleRow]
  BY <1>a, <1>c, <1>d, <1>e DEF Sound
<1>g. \A o \in Templates : template'[o] = IF o = t THEN DeletedTemplate ELSE template[o]
  BY <1>a, <1>c DEF Sound
<1>h. StoredIn(template') = StoredIn(template) \ { t }
  BY <1>c, <1>d, <1>f, <1>g DEF Sound, StoredIn
<1>i. \A r \in StoredIn(rule') : /\ r \in StoredIn(rule) /\ rule'[r] = rule[r]
                                 /\ rule[r].template # t
  BY <1>a, <1>c, <1>e, <1>f DEF Sound, StoredIn
<1>j. \A r \in StoredIn(rule) : rule[r].template # t => r \in StoredIn(rule')
  BY <1>a, <1>c, <1>f DEF Sound, StoredIn
<1>k. \A o \in StoredIn(template) : o \in Templates
  BY SoundTables
<1>1. Sound(template', rule', types', setting', users', badge')
  <2>1. setting' \in StoredIn(template') \cup { NoTemplate }
    BY <1>a, <1>b, <1>c, <1>h DEF Sound
  <2>2. badge' \in [Registrations -> StoredIn(template') \cup { NoTemplate }]
    BY <1>a, <1>b, <1>c, <1>h DEF Sound
  <2>3. \A r \in StoredIn(rule') : rule'[r].template \in StoredIn(template')
                                   /\ rule'[r].types \subseteq types'
    BY <1>a, <1>c, <1>h, <1>i DEF Sound
  <2>4. \A r \in StoredIn(rule'), o \in StoredIn(rule') :
            rule'[o].priority = rule'[r].priority => o = r
    BY <1>c, <1>i DEF Sound
  <2>5. \A o \in StoredIn(template'), u \in StoredIn(template') :
            template'[o].code = template'[u].code => o = u
    BY <1>c, <1>g, <1>h, <1>k DEF Sound
  <2>6. types' \subseteq Types /\ users' \subseteq Users
    BY <1>a, <1>c DEF Sound
  <2> QED
    BY <1>f, <2>1, <2>2, <2>3, <2>4, <2>5, <2>6 DEF Sound
<1>2. \A p \in Requests : p # q => HeldIn(pc[p], req[p], template', rule')
  <2> SUFFICES ASSUME NEW p \in Requests, p # q
               PROVE  HeldIn(pc[p], req[p], template', rule')
    OBVIOUS
  <2>1. HeldIn(pc[p], req[p], template, rule) /\ Shape(pc[p], req[p])
    BY Others
  <2>2. pc[p] \in InSetting /\ req[p].template \in Templates => req[p].template # t
    BY <1>a, EventSetupAssumption DEF HoldsTemplate, HoldsSetting, InSetting
  <2>3. CASE pc[p] \in InRule /\ Writing(req[p])
    <3>1. req[p].rule \in Rules
      BY <2>1, <2>3 DEF Shape
    <3>2. HoldsRule(p, req[p].rule)
      BY <2>3 DEF HoldsRule, InRule, Writing, WritesRule
    <3>3. rule[req[p].rule].template # t /\ req[p].template # t
      BY <1>a, <3>1, <3>2 DEF HoldsTemplate
    <3>4. req[p].rule \in StoredIn(rule') /\ rule'[req[p].rule] = rule[req[p].rule]
      BY <1>i, <1>j, <2>1, <2>3, <3>3 DEF HeldIn
    <3>5. req[p].template \in Templates => req[p].template \in StoredIn(template')
      BY <1>h, <2>1, <2>3, <3>3 DEF HeldIn
    <3>6. req[p].priority # Undefined =>
              \A o \in StoredIn(rule') \ { req[p].rule } : rule'[o].priority # req[p].priority
      BY <1>i, <2>1, <2>3 DEF HeldIn
    <3> QED
      BY <2>3, <3>4, <3>5, <3>6 DEF HeldIn, InRule, InSetting
  <2>4. CASE ~(pc[p] \in InRule /\ Writing(req[p]))
    BY <1>h, <2>1, <2>2, <2>4 DEF HeldIn
  <2> QED
    BY <2>3, <2>4
<1> QED
  BY <1>1, <1>2, <1>a, EndSettles, Histories, Writes

\* What the end of an update of the event leaves to others.
LEMMA AssignSettles ==
  ASSUME IInv, NEW q \in Requests, Assign(q)
  PROVE  Settled(q)
<1>a. /\ pc' = [pc EXCEPT ![q] = "idle"] /\ req' = AfterAssign(q)
      /\ UNCHANGED <<started, alone, errors>>
  BY DEF Assign
<1>b. req[q].users \in { Undefined } \cup SUBSET Users
  BY Knows DEF Request
<1>c. \A p \in Requests : p # q =>
          req'[p] \in Request /\ Kept(pc[p], req[p], req'[p])
  <2> SUFFICES ASSUME NEW p \in Requests, p # q
               PROVE  req'[p] \in Request /\ Kept(pc[p], req[p], req'[p])
    OBVIOUS
  <2> DEFINE r == req[p]
             after(stray) == [r EXCEPT !.left = r.left \ req[q].left, !.stray = stray]
  <2>1. r \in Request
    BY Knows
  <2>2. CASE pc[p] \in { "leaving", "assign" } /\ Undefined \notin { r.users, req[q].users }
    <3>1. PICK stray \in { r.stray, r.stray \cup req[q].users } : req'[p] = after(stray)
      BY <1>a, <2>2 DEF AfterAssign
    <3>2. stray \in SUBSET (Types \cup Users)
      BY <1>b, <2>1, <2>2 DEF Request
    <3> DEFINE w == after(stray)
    <3>3. w \in Request
      BY <2>1, <3>2 DEF Request
    <3>4. /\ w.op = r.op /\ w.template = r.template /\ w.scope = r.scope /\ w.code = r.code
          /\ w.rule = r.rule /\ w.priority = r.priority /\ w.types = r.types
          /\ w.users = r.users /\ w.columns = r.columns
      BY <2>1 DEF Request
    <3> HIDE DEF w
    <3>5. Kept(pc[p], r, w)
      BY <2>2, <3>4 DEF Kept, Replacing
    <3> QED
      BY <3>1, <3>3, <3>5 DEF w
  <2>3. CASE ~(pc[p] \in { "leaving", "assign" } /\ Undefined \notin { r.users, req[q].users })
    <3>1. req'[p] = req[p]
      BY <1>a, <2>3 DEF AfterAssign
    <3> QED
      BY <2>1, <3>1 DEF Kept
  <2> QED
    BY <2>2, <2>3
<1>1. req' = [p \in Requests |-> req'[p]] /\ req'[q] = NoRequest
  BY <1>a DEF AfterAssign
<1>2. req' \in [Requests -> Request]
  BY <1>c, <1>1, NoRequestFits
<1>3. /\ pc' \in [Requests -> AllCalls] /\ pc'[q] = "idle"
      /\ \A p \in Requests : p # q => pc'[p] = pc[p]
  BY <1>a DEF IInv, TypeOK, AllCalls
<1>4. started' \in 0 .. MaxStarted /\ alone' \in BOOLEAN /\ \A e \in errors' : e[1] \in Ops
  BY <1>a DEF IInv, TypeOK
<1> QED
  BY <1>c, <1>1, <1>2, <1>3, <1>4 DEF Settled

LEMMA AssignKeeps ==
  ASSUME IInv, NEW q \in Requests, Assign(q)
  PROVE  IInv'
<1>a. /\ pc[q] = "assign"
      /\ setting' = Or(req[q].template, setting)
      /\ users' = (users \ req[q].left) \cup Or(req[q].users, {})
      /\ askedUsers' = Or(req[q].users, askedUsers)
      /\ strayUsers' = IF req[q].users = Undefined THEN strayUsers ELSE req[q].stray
      /\ UNCHANGED <<template, rule, types, badge, askedTypes, strayTypes>>
  BY DEF Assign
<1>b. req[q] \in Request /\ Held(pc[q], req[q])
  BY Knows
<1>c. Sound(template, rule, types, setting, users, badge)
  BY SoundTables
<1>d. /\ req[q].users \in { Undefined } \cup SUBSET Users
      /\ req[q].template \in Templates \cup { NoTemplate, Undefined }
      /\ req[q].left \in SUBSET Users /\ req[q].stray \in SUBSET (Types \cup Users)
  BY <1>b DEF Request
<1>e. users' \subseteq Users
  BY <1>a, <1>c, <1>d DEF Or, Sound
<1>f. setting' \in StoredIn(template') \cup { NoTemplate }
  BY <1>a, <1>b, <1>c, <1>d DEF Held, HeldIn, InSetting, Or, Sound
<1>g. HistoryOK'
  BY <1>a, <1>d, Histories DEF HistoryOK, Or
<1>1. Sound(template', rule', types', setting', users', badge')
  BY <1>a, <1>c, <1>e, <1>f DEF Sound
<1>2. \A p \in Requests : p # q => HeldIn(pc[p], req[p], template', rule')
  BY <1>a, Others
<1> QED
  BY <1>1, <1>2, <1>g, AssignSettles, Writes

LEMMA WriteBadgeKeeps ==
  ASSUME IInv, NEW q \in Requests, WriteBadge(q)
  PROVE  IInv'
<1>a. /\ req[q].template \in StoredIn(template) /\ End(q)
      /\ badge' = [badge EXCEPT ![req[q].registration] = req[q].template]
      /\ UNCHANGED <<template, rule, types, setting, users, asked>>
  BY SoundTables DEF WriteBadge
<1>b. Sound(template, rule, types, setting, users, badge)
  BY SoundTables
<1>1. Sound(template', rule', types', setting', users', badge')
  BY <1>a, <1>b DEF Sound
<1>2. \A p \in Requests : p # q => HeldIn(pc[p], req[p], template', rule')
  BY <1>a, Others
<1> QED
  BY <1>1, <1>2, <1>a, EndSettles, Histories, Writes

---------------------------------------------------------------------------
\* The calls that write a rule or an attendee type.

\* The row of one rule is written, and no other transaction holds its priority.
Fits(q, R, row) ==
    /\ row \in RuleRow /\ row.state = "stored"
    /\ row.template \in StoredIn(template) /\ row.types \subseteq types
    /\ \A o \in StoredIn(rule) \ { R } : rule[o].priority # row.priority
    /\ \A p \in Requests :
          /\ p # q /\ pc[p] \in InRule /\ Writing(req[p])
          /\ req[p].rule # R /\ req[p].priority # Undefined
          => req[p].priority # row.priority

LEMMA RuleWritten ==
  ASSUME IInv, NEW q \in Requests, Settled(q), HistoryOK', NEW R \in Rules, NEW row,
         rule' = [rule EXCEPT ![R] = row], Fits(q, R, row),
         UNCHANGED <<template, types, setting, users, badge>>
  PROVE  IInv'
<1> USE DEF Fits
<1>a. Sound(template, rule, types, setting, users, badge)
  BY SoundTables
<1>b. rule' \in [Rules -> RuleRow]
  BY <1>a DEF Sound
<1>c. \A o \in Rules : rule'[o] = IF o = R THEN row ELSE rule[o]
  BY <1>a DEF Sound
<1>d. StoredIn(rule') = StoredIn(rule) \cup { R }
  BY <1>a, <1>b, <1>c DEF Sound, StoredIn
<1>e. \A o \in StoredIn(rule) : o \in Rules
  BY SoundTables
<1>1. Sound(template', rule', types', setting', users', badge')
  <2>1. \A r \in StoredIn(rule') :
            rule'[r].template \in StoredIn(template) /\ rule'[r].types \subseteq types
    BY <1>a, <1>c, <1>d, <1>e DEF Sound
  <2>2. \A r \in StoredIn(rule'), o \in StoredIn(rule') :
            rule'[o].priority = rule'[r].priority => o = r
    BY <1>a, <1>c, <1>d, <1>e DEF Sound
  <2> QED
    BY <1>a, <1>b, <2>1, <2>2 DEF Sound
<1>2. \A p \in Requests : p # q => HeldIn(pc[p], req[p], template', rule')
  <2> SUFFICES ASSUME NEW p \in Requests, p # q
               PROVE  HeldIn(pc[p], req[p], template', rule')
    OBVIOUS
  <2>1. HeldIn(pc[p], req[p], template, rule)
    BY Others
  <2>2. CASE pc[p] \in InRule /\ Writing(req[p])
    <3>1. req[p].rule \in StoredIn(rule')
      BY <1>d, <2>1, <2>2 DEF HeldIn
    <3>2. req[p].priority # Undefined =>
              \A o \in StoredIn(rule') \ { req[p].rule } : rule'[o].priority # req[p].priority
      BY <1>c, <1>d, <1>e, <2>1, <2>2 DEF HeldIn
    <3> QED
      BY <2>1, <2>2, <3>1, <3>2 DEF HeldIn, InRule, InSetting
  <2>3. CASE ~(pc[p] \in InRule /\ Writing(req[p]))
    BY <2>1, <2>3 DEF HeldIn
  <2> QED
    BY <2>2, <2>3
<1> QED
  BY <1>1, <1>2, Writes

LEMMA InsertRuleKeeps ==
  ASSUME IInv, NEW q \in Requests, InsertRule(q)
  PROVE  IInv'
<1> DEFINE row == [state |-> "stored", template |-> req[q].template,
                   priority |-> req[q].priority, types |-> req[q].types]
<1>a. PICK R \in Rules : /\ rule[R].state = "unmade"
                         /\ rule' = [rule EXCEPT ![R] = row]
                         /\ askedTypes' = [askedTypes EXCEPT ![R] = req[q].types]
  BY DEF InsertRule
<1>b. /\ pc[q] = "insertRule" /\ End(q) /\ PriorityFree(q)
      /\ UNCHANGED <<template, types, setting, users, badge, askedUsers,
                     strayTypes, strayUsers>>
  BY DEF InsertRule
<1>c. /\ req[q].template \in StoredIn(template)
      /\ req[q].types \subseteq types
      /\ \A o \in StoredIn(rule) : rule[o].priority # req[q].priority
  BY SoundTables DEF InsertRule, InsertRuleRejected, UsedPriorities
<1>d. /\ req[q].template \in Templates /\ req[q].types \in SUBSET Types
      /\ req[q].priority \in Int
  BY <1>b, Knows DEF Shape
<1>1. row \in RuleRow /\ row.state = "stored" /\ row.template = req[q].template
      /\ row.priority = req[q].priority /\ row.types = req[q].types
  BY <1>d DEF RuleRow
<1>2. HistoryOK'
  BY <1>a, <1>b, <1>d, Histories DEF HistoryOK
<1> HIDE DEF row
<1>3. \A p \in Requests :
          /\ p # q /\ pc[p] \in InRule /\ Writing(req[p])
          /\ req[p].rule # R /\ req[p].priority # Undefined
          => req[p].priority # row.priority
  <2> SUFFICES ASSUME NEW p \in Requests, p # q, pc[p] \in InRule, Writing(req[p])
               PROVE  req[p].priority # row.priority
    OBVIOUS
  <2>1. req[p].rule \in Rules
    BY Others DEF Shape
  <2>2. HoldsRule(p, req[p].rule)
    BY DEF HoldsRule, InRule, Writing, WritesRule
  <2>3. req[q].priority # Undefined
    BY <1>d, EventSetupAssumption
  <2> QED
    BY <1>1, <1>b, <2>1, <2>2, <2>3 DEF PriorityFree
<1>4. Fits(q, R, row)
  BY <1>1, <1>3, <1>c DEF Fits
<1> QED
  BY <1>2, <1>4, <1>a, <1>b, EndSettles, RuleWritten DEF row

\* What the end of an update leaves to others.
LEMMA LinkSettles ==
  ASSUME IInv, NEW q \in Requests, Link(q)
  PROVE  Settled(q)
<1>a. /\ pc' = [pc EXCEPT ![q] = "idle"] /\ req' = AfterLink(q)
      /\ UNCHANGED <<started, alone, errors>>
  BY DEF Link
<1>b. req[q].types \in { Undefined } \cup SUBSET Types
  BY Knows DEF Request
<1>c. \A p \in Requests : p # q =>
          req'[p] \in Request /\ Kept(pc[p], req[p], req'[p])
  <2> SUFFICES ASSUME NEW p \in Requests, p # q
               PROVE  req'[p] \in Request /\ Kept(pc[p], req[p], req'[p])
    OBVIOUS
  <2> DEFINE r == req[p]
             after(stray) == [r EXCEPT !.gone = r.gone \ req[q].gone, !.stray = stray]
             same == /\ pc[p] \in { "unlinking", "link" } /\ r.rule = req[q].rule
                     /\ Undefined \notin { r.types, req[q].types }
  <2>1. r \in Request
    BY Knows
  <2>2. CASE same
    <3>1. PICK stray \in { r.stray, r.stray \cup req[q].types } : req'[p] = after(stray)
      BY <1>a, <2>2 DEF AfterLink
    <3>2. stray \in SUBSET (Types \cup Users)
      BY <1>b, <2>1, <2>2 DEF Request
    <3> DEFINE w == after(stray)
    <3>3. w \in Request
      BY <2>1, <3>2 DEF Request
    <3>4. /\ w.op = r.op /\ w.template = r.template /\ w.scope = r.scope /\ w.code = r.code
          /\ w.rule = r.rule /\ w.priority = r.priority /\ w.types = r.types
          /\ w.users = r.users /\ w.columns = r.columns
      BY <2>1 DEF Request
    <3> HIDE DEF w
    <3>5. Kept(pc[p], r, w)
      BY <2>2, <3>4 DEF Kept, Replacing
    <3> QED
      BY <3>1, <3>3, <3>5 DEF w
  <2>3. CASE ~same
    <3>1. req'[p] = req[p]
      BY <1>a, <2>3 DEF AfterLink
    <3> QED
      BY <2>1, <3>1 DEF Kept
  <2> QED
    BY <2>2, <2>3
<1>1. req' = [p \in Requests |-> req'[p]] /\ req'[q] = NoRequest
  BY <1>a DEF AfterLink
<1>2. req' \in [Requests -> Request]
  BY <1>c, <1>1, NoRequestFits
<1>3. /\ pc' \in [Requests -> AllCalls] /\ pc'[q] = "idle"
      /\ \A p \in Requests : p # q => pc'[p] = pc[p]
  BY <1>a DEF IInv, TypeOK, AllCalls
<1>4. started' \in 0 .. MaxStarted /\ alone' \in BOOLEAN /\ \A e \in errors' : e[1] \in Ops
  BY <1>a DEF IInv, TypeOK
<1> QED
  BY <1>c, <1>1, <1>2, <1>3, <1>4 DEF Settled

LEMMA LinkKeeps ==
  ASSUME IInv, NEW q \in Requests, Link(q)
  PROVE  IInv'
<1> DEFINE R == req[q].rule
           row == Replaced(q)
<1>0. /\ pc[q] = "link" /\ LinkRejected(q) = "no"
      /\ rule' = [rule EXCEPT ![R] = row]
      /\ askedTypes' = [askedTypes EXCEPT ![R] = Or(req[q].types, askedTypes[R])]
      /\ strayTypes' = [strayTypes EXCEPT ![R] =
             IF req[q].types = Undefined THEN strayTypes[R] ELSE req[q].stray]
      /\ UNCHANGED <<template, types, setting, users, badge, askedUsers, strayUsers>>
  BY DEF Link
<1>a. /\ req[q] \in Request /\ Held(pc[q], req[q]) /\ Shape(pc[q], req[q])
      /\ \A p \in Requests : p # q => Apart(pc[p], req[p], pc[q], req[q])
  BY Knows
<1>b. Sound(template, rule, types, setting, users, badge)
  BY SoundTables
<1>c. R \in StoredIn(rule) /\ R \in Rules /\ Or(req[q].types, {}) \subseteq types
  BY <1>0, SoundTables DEF LinkRejected
<1>d. rule[R] \in RuleRow
  BY <1>b, <1>c DEF Sound
<1>e. /\ row.state = "stored"
      /\ row.template = Or(req[q].template, rule[R].template)
      /\ row.priority = Or(req[q].priority, rule[R].priority)
      /\ row.types = (rule[R].types \ req[q].gone) \cup Or(req[q].types, {})
  BY DEF Replaced
<1>x. pc[q] \in InRule
  BY <1>0 DEF InRule
<1>f. row.template \in StoredIn(template)
  <2>1. rule[R].template \in StoredIn(template)
    BY <1>b, <1>c DEF Sound
  <2>2. req[q].template \in Templates \cup { Undefined }
    BY <1>a, <1>x DEF Shape
  <2>3. req[q].template \in Templates => req[q].template \in StoredIn(template)
    BY <1>a, <1>x, EventSetupAssumption DEF Held, HeldIn, Writing
  <2> QED
    BY <1>e, <2>1, <2>2, <2>3 DEF Or
<1>g. row.types \subseteq types
  BY <1>b, <1>c, <1>e DEF Sound
<1>h. row.priority \in Int
  BY <1>a, <1>d, <1>e DEF Or, Request, RuleRow
<1>i. row \in RuleRow
  <2>1. row = [state |-> row.state, template |-> row.template,
               priority |-> row.priority, types |-> row.types]
    BY DEF Replaced
  <2>2. row.template \in Templates /\ row.types \subseteq Types
    BY <1>b, <1>f, <1>g, SoundTables DEF Sound
  <2> HIDE DEF row
  <2> QED
    BY <1>e, <1>h, <2>1, <2>2 DEF RuleRow
<1>j. \A o \in StoredIn(rule) \ { R } : rule[o].priority # row.priority
  BY <1>a, <1>b, <1>c, <1>e, <1>x DEF Held, HeldIn, Or, Sound, Writing
<1>k. \A p \in Requests :
          /\ p # q /\ pc[p] \in InRule /\ Writing(req[p])
          /\ req[p].rule # R /\ req[p].priority # Undefined
          => req[p].priority # row.priority
  <2> SUFFICES ASSUME NEW p \in Requests, p # q, pc[p] \in InRule, Writing(req[p]),
                      req[p].rule # R, req[p].priority # Undefined
               PROVE  req[p].priority # row.priority
    OBVIOUS
  <2>1. req[q].priority # Undefined => req[p].priority # req[q].priority
    BY <1>a, <1>x DEF Apart, Writing
  <2>2. rule[R].priority # req[p].priority
    BY <1>c, Others DEF HeldIn
  <2> QED
    BY <1>e, <2>1, <2>2 DEF Or
<1> HIDE DEF row
<1>l. Fits(q, R, row)
  BY <1>e, <1>f, <1>g, <1>i, <1>j, <1>k DEF Fits
<1>m. HistoryOK'
  BY <1>0, <1>a, <1>c, Histories DEF HistoryOK, Or, Request
<1> QED
  BY <1>0, <1>c, <1>l, <1>m, LinkSettles, RuleWritten

LEMMA DeleteRuleKeeps ==
  ASSUME IInv, NEW q \in Requests, DeleteRule(q)
  PROVE  IInv'
<1> DEFINE R == req[q].rule
<1>a. /\ R \in StoredIn(rule) /\ End(q) /\ RuleFree(q)
      /\ rule' = [rule EXCEPT ![R] = DeletedRule]
      /\ UNCHANGED <<template, types, setting, users, badge, asked>>
  BY SoundTables DEF DeleteRule
<1>b. Sound(template, rule, types, setting, users, badge)
  BY SoundTables
<1>c. DeletedRule \in RuleRow /\ DeletedRule.state # "stored"
  BY DEF DeletedRule, RuleRow
<1>d. rule' \in [Rules -> RuleRow]
  BY <1>a, <1>b, <1>c DEF Sound
<1>e. \A o \in Rules : rule'[o] = IF o = R THEN DeletedRule ELSE rule[o]
  BY <1>a, <1>b DEF Sound
<1>f. StoredIn(rule') = StoredIn(rule) \ { R }
  BY <1>b, <1>c, <1>d, <1>e DEF Sound, StoredIn
<1>g. \A o \in StoredIn(rule') : o \in StoredIn(rule) /\ rule'[o] = rule[o]
  BY <1>e, <1>f, SoundTables
<1>1. Sound(template', rule', types', setting', users', badge')
  <2>1. \A r \in StoredIn(rule') : /\ rule'[r].template \in StoredIn(template)
                                   /\ rule'[r].types \subseteq types
    BY <1>b, <1>g DEF Sound
  <2>2. \A r \in StoredIn(rule'), o \in StoredIn(rule') :
            rule'[o].priority = rule'[r].priority => o = r
    BY <1>b, <1>g DEF Sound
  <2> QED
    BY <1>a, <1>b, <1>d, <2>1, <2>2 DEF Sound
<1>2. \A p \in Requests : p # q => HeldIn(pc[p], req[p], template', rule')
  <2> SUFFICES ASSUME NEW p \in Requests, p # q
               PROVE  HeldIn(pc[p], req[p], template', rule')
    OBVIOUS
  <2>1. HeldIn(pc[p], req[p], template, rule)
    BY Others
  <2>2. CASE pc[p] \in InRule /\ Writing(req[p])
    <3>1. req[p].rule # R
      BY <1>a, <2>2 DEF RuleFree, HoldsRule, InRule, Writing, WritesRule
    <3>2. req[p].rule \in StoredIn(rule') /\ rule'[req[p].rule] = rule[req[p].rule]
      BY <1>f, <1>g, <2>1, <2>2, <3>1 DEF HeldIn
    <3>3. req[p].priority # Undefined =>
              \A o \in StoredIn(rule') \ { req[p].rule } : rule'[o].priority # req[p].priority
      BY <1>g, <2>1, <2>2 DEF HeldIn
    <3> QED
      BY <1>a, <2>1, <2>2, <3>2, <3>3 DEF HeldIn, InRule, InSetting
  <2>3. CASE ~(pc[p] \in InRule /\ Writing(req[p]))
    BY <1>a, <2>1, <2>3 DEF HeldIn
  <2> QED
    BY <2>2, <2>3
<1> QED
  BY <1>1, <1>2, <1>a, EndSettles, Histories, Writes

LEMMA DeleteTypeKeeps ==
  ASSUME IInv, NEW q \in Requests, DeleteType(q)
  PROVE  IInv'
<1> DEFINE k == req[q].type
<1>a. /\ types' = types \ { k } /\ End(q) /\ ~TypeLinked(k)
      /\ rule' = [r \in Rules |-> [rule[r] EXCEPT !.types = rule[r].types \ { k }]]
      /\ UNCHANGED <<template, setting, users, badge, asked>>
  BY DEF DeleteType
<1>b. Sound(template, rule, types, setting, users, badge)
  BY SoundTables
<1>c. \A r \in Rules : /\ rule'[r] \in RuleRow
                       /\ rule'[r].types = rule[r].types \ { k }
                       /\ rule'[r].state = rule[r].state
                       /\ rule'[r].template = rule[r].template
                       /\ rule'[r].priority = rule[r].priority
  <2> SUFFICES ASSUME NEW r \in Rules
               PROVE  /\ rule'[r] \in RuleRow
                      /\ rule'[r].types = rule[r].types \ { k }
                      /\ rule'[r].state = rule[r].state
                      /\ rule'[r].template = rule[r].template
                      /\ rule'[r].priority = rule[r].priority
    OBVIOUS
  <2>1. rule[r] \in RuleRow
    BY <1>b DEF Sound
  <2> DEFINE row == rule[r]
             rest == [row EXCEPT !.types = row.types \ { k }]
  <2>2. /\ rest \in RuleRow /\ rest.types = row.types \ { k } /\ rest.state = row.state
        /\ rest.template = row.template /\ rest.priority = row.priority
    BY <2>1 DEF RuleRow
  <2>3. rule'[r] = rest
    BY <1>a
  <2> HIDE DEF row, rest
  <2>4. row = rule[r]
    BY DEF row
  <2> QED
    BY <2>2, <2>3, <2>4
<1>d. rule' \in [Rules -> RuleRow]
  <2>1. rule' = [r \in Rules |-> rule'[r]]
    BY <1>a
  <2> QED
    BY <1>c, <2>1
<1>e. StoredIn(rule') = StoredIn(rule)
  BY <1>b, <1>c, <1>d DEF Sound, StoredIn
<1>f. \A r \in StoredIn(rule) : r \in Rules
  BY SoundTables
<1>1. Sound(template', rule', types', setting', users', badge')
  <2>1. \A r \in StoredIn(rule') : /\ rule'[r].template \in StoredIn(template)
                                   /\ rule'[r].types \subseteq types'
    BY <1>a, <1>b, <1>c, <1>e, <1>f DEF Sound
  <2>2. \A r \in StoredIn(rule'), o \in StoredIn(rule') :
            rule'[o].priority = rule'[r].priority => o = r
    BY <1>b, <1>c, <1>e, <1>f DEF Sound
  <2> QED
    BY <1>a, <1>b, <1>d, <2>1, <2>2 DEF Sound
<1>2. \A p \in Requests : p # q => HeldIn(pc[p], req[p], template', rule')
  <2> SUFFICES ASSUME NEW p \in Requests, p # q
               PROVE  HeldIn(pc[p], req[p], template', rule')
    OBVIOUS
  <2>1. HeldIn(pc[p], req[p], template, rule)
    BY Others
  <2>2. \A o \in StoredIn(rule') : rule'[o].priority = rule[o].priority
    BY <1>c, <1>e, <1>f
  <2> QED
    BY <1>a, <1>e, <2>1, <2>2 DEF HeldIn
<1> QED
  BY <1>1, <1>2, <1>a, EndSettles, Histories, Writes

---------------------------------------------------------------------------
LEMMA InitInv == Init => IInv
<1> SUFFICES ASSUME Init PROVE IInv
  OBVIOUS
<1>1. PICK s \in Starts : /\ template = s.template /\ rule = s.rule /\ types = s.types
                          /\ setting = s.setting /\ users = s.users /\ badge = s.badge
                          /\ askedTypes = [r \in Rules |-> s.rule[r].types]
                          /\ askedUsers = s.users
  BY DEF Init
<1>2. Consistent(s)
  BY EventSetupAssumption
<1>3. Consistent(Tables)
  BY <1>1, <1>2 DEF Consistent, Tables
<1>4. rule \in [Rules -> RuleRow] /\ users \subseteq Users
  BY <1>3, TablesConsistent
<1>5. askedTypes \in [Rules -> SUBSET Types]
  BY <1>1, <1>4 DEF RuleRow
<1>6. /\ pc \in [Requests -> AllCalls] /\ req \in [Requests -> Request]
      /\ \A q \in Requests : pc[q] = "idle" /\ req[q] = NoRequest
      /\ started \in 0 .. MaxStarted /\ alone \in BOOLEAN /\ errors = {}
  BY NoRequestFits, EventSetupAssumption DEF Init, AllCalls
<1>8. strayTypes \in [Rules -> SUBSET (Types \cup Users)] /\ strayUsers = {}
  BY DEF Init
<1>7. TypeOK
  BY <1>1, <1>3, <1>4, <1>5, <1>6, <1>8 DEF TypeOK, Tables, AllCalls
<1>9. Shapes /\ AllHeld /\ AllApart
  BY <1>6, IdleStands DEF Shapes, AllHeld, Held, AllApart
<1> QED
  BY <1>7, <1>9 DEF IInv

LEMMA StepInv == IInv /\ [Next]_vars => IInv'
<1> SUFFICES ASSUME IInv, [Next]_vars PROVE IInv'
  OBVIOUS
<1>1. CASE Next
  <2>1. PICK q \in Requests : Begin(q) \/ Proceed(q) \/ Abort(q)
    BY <1>1 DEF Next
  <2>2. CASE Begin(q)
    BY <2>2, CreateBegins, TemplateBegins, EventBegins DEF Begin
  <2>3. CASE Proceed(q)
    BY <2>3, ChecksKeep, EventCallsKeep, RuleCallsKeep, FailuresKeep,
       UnsetDefaultsKeeps, InsertKeeps, WriteKeeps, DeleteKeeps, AssignKeeps,
       InsertRuleKeeps, LinkKeeps, DeleteRuleKeeps, DeleteTypeKeeps,
       WriteBadgeKeeps DEF Proceed
  <2>4. CASE Abort(q)
    BY <2>4, FailuresKeep
  <2> QED
    BY <2>1, <2>2, <2>3, <2>4
<1>2. CASE UNCHANGED vars
  BY <1>2 DEF vars, IInv, TypeOK, Shapes, AllHeld, Held, AllApart
<1> QED
  BY <1>1, <1>2

LEMMA Inv == Spec => []IInv
  BY InitInv, StepInv, PTL DEF Spec

---------------------------------------------------------------------------
\* Whatever requests overlap, the rows stay consistent: no rule, badge or setting
\* refers to a template that is gone, no rule to a deleted type, and neither
\* priorities nor codes are taken twice.  (BadgeTemplatesService.remove,
\* EventsService.update, createBadgeRule, updateBadgeRule, AttendeeTypesService.remove)
THEOREM TypeCorrect == Spec => []TypeOK
<1>1. IInv => TypeOK
  BY DEF IInv
<1> QED
  BY <1>1, Inv, PTL

\* No request but the update of the event changes the template of its settings.
\* (EventsService.update, BadgeTemplatesService.remove)
THEOREM SettingKept == Spec => AssignedUntilUpdated
<1>1. IInv /\ [Next]_vars =>
         [setting' # setting =>
             \E q \in Requests : pc[q] = "assign" /\ req[q].template = setting']_vars
  <2> SUFFICES ASSUME IInv, Next, setting' # setting
               PROVE  \E q \in Requests : pc[q] = "assign" /\ req[q].template = setting'
    BY DEF vars
  <2>1. PICK q \in Requests : Begin(q) \/ Proceed(q) \/ Abort(q)
    BY DEF Next
  <2>2. ~Begin(q)
    BY DEF Begin, Create, CreateTemplate, DuplicateTemplate, Update, UpdateTemplate, Remove,
           DeleteTemplate, UpdateEvent, CreateBadgeRule, UpdateBadgeRule, DeleteBadgeRule,
           RemoveType, GenerateBadge, rows
  <2>3. ~Abort(q)
    BY DEF Abort, rows
  <2>4. Assign(q)
    BY <2>1, <2>2, <2>3 DEF Proceed, UnsetDefaults, Insert, InsertFails, Write, WriteFails,
       CountUses, Delete, DeleteFails, LockEvent, CheckAssigned, SetSetting, SetSettingFails,
       Leave, Left, CheckTypes, NextPriority, InsertRule, InsertRuleFails, CheckRuleTemplate,
       CheckRuleTypes, UpdateRule, UpdateRuleFails, Unlink, Unlinked, Link, LinkFails,
       DeleteRule, DeleteRuleFails, DeleteType, DeleteTypeWaits, DeleteTypeFails, Victim,
       WriteBadge, WriteBadgeFails, Fail, rows
  <2> QED
    BY <2>4 DEF Assign, Or
<1> QED
  BY <1>1, Inv, PTL DEF Spec, AssignedUntilUpdated

---------------------------------------------------------------------------
\* What is kept apart, and what is not: the rows that a replacement does not
\* delete were asked for by others that overlap it.

Mixed(call, r, us, rl) ==
    /\ r.users = Undefined => r.left = {}
    /\ (call \in { "leaving", "assign" } /\ r.users # Undefined) => us \ r.left \subseteq r.stray
    /\ r.types = Undefined => r.gone = {}
    /\ (call \in { "unlinking", "link" } /\ r.types # Undefined) =>
          rl[r.rule].types \ r.gone \subseteq r.stray
    /\ call \in { "ruleTemplate", "ruleTypes", "ruleRow" } \cup InRule =>
          rl[r.rule].state # "unmade"

AllMixed == \A p \in Requests : Mixed(pc[p], req[p], users, rule)

MixInv == ReplacedAsAsked /\ AllMixed

LEMMA IdleMixed == \A us, rl : Mixed("idle", NoRequest, us, rl)
  BY DEF Mixed, NoRequest, InRule

\* A step that writes neither rules nor types nor users.
LEMMA MixStands ==
  ASSUME MixInv, NEW q \in Requests, NEW call, NEW r,
         UNCHANGED <<rule, types, users, asked>>,
         pc' = [pc EXCEPT ![q] = call], req' = [req EXCEPT ![q] = r], IInv,
         Mixed(call, r, users, rule)
  PROVE  MixInv'
<1>1. ReplacedAsAsked'
  BY DEF MixInv, ReplacedAsAsked, StoredRules, asked
<1>2. AllMixed'
  <2> SUFFICES ASSUME NEW p \in Requests PROVE Mixed(pc'[p], req'[p], users', rule')
    BY DEF AllMixed
  <2>1. Mixed(pc[p], req[p], users, rule) /\ users' = users /\ rule' = rule
    BY DEF MixInv, AllMixed
  <2>2. \/ p = q /\ pc'[p] = call /\ req'[p] = r
        \/ pc'[p] = pc[p] /\ req'[p] = req[p]
    BY DEF IInv, TypeOK
  <2> QED
    BY <2>1, <2>2
<1> QED
  BY <1>1, <1>2 DEF MixInv

LEMMA MixArrives ==
  ASSUME IInv, MixInv, NEW q \in Requests, NEW call, NEW r, Arrive(q, call, r),
         UNCHANGED <<rows, asked>>, r.left = {}, r.gone = {},
         call \notin Replacing \cup InRule \cup { "ruleTypes", "ruleRow" },
         call = "ruleTemplate" => rule[r.rule].state # "unmade"
  PROVE  MixInv'
<1>1. Mixed(call, r, users, rule)
  BY DEF Mixed, Replacing
<1>2. pc' = [pc EXCEPT ![q] = call] /\ req' = [req EXCEPT ![q] = r]
  BY DEF Arrive
<1> QED
  BY <1>1, <1>2, MixStands DEF rows

LEMMA MixBegins ==
  ASSUME IInv, MixInv, NEW q \in Requests, Begin(q)
  PROVE  MixInv'
<1>1. ASSUME NEW call \in { "unset", "insert", "write", "count", "delete", "badge", "lock",
                            "types", "ruleTemplate", "deleteRule", "deleteType" },
             NEW r, Arrive(q, call, r), UNCHANGED <<rows, asked>>, r.left = {}, r.gone = {},
             call = "ruleTemplate" => rule[r.rule].state # "unmade"
      PROVE  MixInv'
  <2>1. call \notin Replacing \cup InRule \cup { "ruleTypes", "ruleRow" }
    BY DEF Replacing, InRule
  <2> QED
    BY <1>1, <2>1, MixArrives
<1>2. CASE Create(q)
  <2>1. PICK s \in Scopes, c \in Codes, p \in Patches :
            /\ Arrive(q, IF p[1] = TRUE THEN "unset" ELSE "insert",
                      [NoRequest EXCEPT !.op = "create", !.scope = s, !.code = c,
                                        !.default = Or(p[1], FALSE), !.active = Or(p[2], TRUE)])
            /\ UNCHANGED <<rows, asked>>
    BY <1>2 DEF Create
  <2> DEFINE call == IF p[1] = TRUE THEN "unset" ELSE "insert"
             r == [NoRequest EXCEPT !.op = "create", !.scope = s, !.code = c,
                                    !.default = Or(p[1], FALSE), !.active = Or(p[2], TRUE)]
  <2>2. r.left = {} /\ r.gone = {} /\ call \in { "unset", "insert" }
    BY DEF NoRequest
  <2>3. Arrive(q, call, r)
    BY <2>1
  <2> HIDE DEF r, call
  <2> QED
    BY <1>1, <2>1, <2>2, <2>3
<1>3. CASE Update(q)
  <2>1. PICK t \in StoredTemplates, p \in Patches :
            /\ Arrive(q, IF p[1] = TRUE /\ ~template[t].default THEN "unset" ELSE "write",
                      [NoRequest EXCEPT !.op = "update", !.template = t, !.scope = ScopeOf[t],
                                        !.default = p[1], !.active = p[2]])
            /\ UNCHANGED <<rows, asked>>
    BY <1>3 DEF Update
  <2> DEFINE call == IF p[1] = TRUE /\ ~template[t].default THEN "unset" ELSE "write"
             r == [NoRequest EXCEPT !.op = "update", !.template = t, !.scope = ScopeOf[t],
                                    !.default = p[1], !.active = p[2]]
  <2>2. r.left = {} /\ r.gone = {} /\ call \in { "unset", "write" }
    BY DEF NoRequest
  <2>3. Arrive(q, call, r)
    BY <2>1
  <2> HIDE DEF r, call
  <2> QED
    BY <1>1, <2>1, <2>2, <2>3
<1>4. CASE CreateTemplate(q)
  <2>1. PICK r : /\ r.left = {} /\ r.gone = {}
                 /\ Arrive(q, "insert", r) /\ UNCHANGED <<rows, asked>>
    BY <1>4 DEF CreateTemplate, NoRequest
  <2> QED
    BY <1>1, <2>1
<1>5. CASE DuplicateTemplate(q)
  <2>1. PICK r : /\ r.left = {} /\ r.gone = {}
                 /\ Arrive(q, "insert", r) /\ UNCHANGED <<rows, asked>>
    BY <1>5 DEF DuplicateTemplate, NoRequest
  <2> QED
    BY <1>1, <2>1
<1>6. CASE UpdateTemplate(q)
  <2>1. PICK r : /\ r.left = {} /\ r.gone = {}
                 /\ Arrive(q, "write", r) /\ UNCHANGED <<rows, asked>>
    BY <1>6 DEF UpdateTemplate, NoRequest
  <2> QED
    BY <1>1, <2>1
<1>7. CASE Remove(q)
  <2>1. PICK r : /\ r.left = {} /\ r.gone = {}
                 /\ Arrive(q, "count", r) /\ UNCHANGED <<rows, asked>>
    BY <1>7 DEF Remove, NoRequest
  <2> QED
    BY <1>1, <2>1
<1>8. CASE DeleteTemplate(q)
  <2>1. PICK r : /\ r.left = {} /\ r.gone = {}
                 /\ Arrive(q, "delete", r) /\ UNCHANGED <<rows, asked>>
    BY <1>8 DEF DeleteTemplate, NoRequest
  <2> QED
    BY <1>1, <2>1
<1>9. CASE GenerateBadge(q)
  <2>1. PICK r : /\ r.left = {} /\ r.gone = {}
                 /\ Arrive(q, "badge", r) /\ UNCHANGED <<rows, asked>>
    BY <1>9 DEF GenerateBadge, NoRequest
  <2> QED
    BY <1>1, <2>1
<1>10. CASE UpdateEvent(q)
  <2>1. PICK r : /\ r.left = {} /\ r.gone = {}
                 /\ Arrive(q, "lock", r) /\ UNCHANGED <<rows, asked>>
    BY <1>10 DEF UpdateEvent, NoRequest
  <2> QED
    BY <1>1, <2>1
<1>11. CASE CreateBadgeRule(q)
  <2>1. PICK r : /\ r.left = {} /\ r.gone = {}
                 /\ Arrive(q, "types", r) /\ UNCHANGED <<rows, asked>>
    BY <1>11 DEF CreateBadgeRule, NoRequest
  <2> QED
    BY <1>1, <2>1
<1>12. CASE UpdateBadgeRule(q)
  <2>1. PICK r : /\ r.left = {} /\ r.gone = {} /\ r.rule \in StoredRules
                 /\ Arrive(q, "ruleTemplate", r) /\ UNCHANGED <<rows, asked>>
    BY <1>12 DEF UpdateBadgeRule, NoRequest
  <2>2. rule[r.rule].state # "unmade"
    BY <2>1, SoundTables
  <2> QED
    BY <1>1, <2>1, <2>2
<1>13. CASE DeleteBadgeRule(q)
  <2>1. PICK r : /\ r.left = {} /\ r.gone = {}
                 /\ Arrive(q, "deleteRule", r) /\ UNCHANGED <<rows, asked>>
    BY <1>13 DEF DeleteBadgeRule, NoRequest
  <2> QED
    BY <1>1, <2>1
<1>14. CASE RemoveType(q)
  <2>1. PICK r : /\ r.left = {} /\ r.gone = {}
                 /\ Arrive(q, "deleteType", r) /\ UNCHANGED <<rows, asked>>
    BY <1>14 DEF RemoveType, NoRequest
  <2> QED
    BY <1>1, <2>1
<1> QED
  BY <1>2, <1>3, <1>4, <1>5, <1>6, <1>7, <1>8, <1>9, <1>10, <1>11, <1>12, <1>13, <1>14 DEF Begin

\* The checks, and the calls of transactions that only take locks.
LEMMA MixPasses ==
  ASSUME IInv, MixInv, NEW q \in Requests,
         \/ UnsetDefaults(q) \/ CountUses(q) \/ LockEvent(q) \/ CheckAssigned(q)
         \/ SetSetting(q) \/ Left(q) \/ CheckTypes(q) \/ CheckRuleTemplate(q)
         \/ CheckRuleTypes(q) \/ UpdateRule(q) \/ Unlinked(q) \/ DeleteTypeWaits(q)
  PROVE  MixInv'
<1>a. Mixed(pc[q], req[q], users, rule) /\ Shape(pc[q], req[q])
  BY Knows DEF MixInv, AllMixed
<1>b. UNCHANGED <<rule, types, users, asked>>
  BY DEF UnsetDefaults, CountUses, LockEvent, CheckAssigned, SetSetting, Left, CheckTypes,
         CheckRuleTemplate, CheckRuleTypes, UpdateRule, Unlinked, DeleteTypeWaits, rows
<1>1. ASSUME NEW call, Goto(q, call, req[q]), Mixed(call, req[q], users, rule)
      PROVE  MixInv'
  BY <1>b, <1>1, MixStands DEF Goto
<1>2. ASSUME End(q) PROVE MixInv'
  BY <1>b, <1>2, IdleMixed, MixStands DEF End, Goto
<1>3. CASE UnsetDefaults(q)
  <2>1. PICK call \in { "insert", "write" } : Goto(q, call, req[q])
    BY <1>3 DEF UnsetDefaults
  <2> QED
    BY <1>a, <1>1, <2>1 DEF Mixed, InRule
<1>4. CASE CountUses(q)
  <2>1. Goto(q, "delete", req[q]) \/ End(q)
    BY <1>4 DEF CountUses
  <2> QED
    BY <1>a, <1>1, <1>2, <2>1 DEF Mixed, InRule
<1>5. CASE LockEvent(q)
  <2>1. PICK call \in { "template", "setting" } : Goto(q, call, req[q])
    BY <1>5 DEF LockEvent
  <2> QED
    BY <1>a, <1>1, <2>1 DEF Mixed, InRule
<1>6. CASE CheckAssigned(q)
  <2>1. Goto(q, "setting", req[q]) \/ End(q)
    BY <1>6 DEF CheckAssigned
  <2> QED
    BY <1>a, <1>1, <1>2, <2>1 DEF Mixed, InRule
<1>7. CASE SetSetting(q)
  <2>1. PICK call \in { "assign", "leave" } :
            Goto(q, call, req[q]) /\ (call = "assign" => req[q].users = Undefined)
    BY <1>7 DEF SetSetting
  <2> QED
    BY <1>a, <1>1, <2>1 DEF Mixed, InRule
<1>8. CASE Left(q)
  <2>1. pc[q] = "leaving" /\ Goto(q, "assign", req[q])
    BY <1>8 DEF Left
  <2> QED
    BY <1>a, <1>1, <2>1 DEF Mixed, InRule
<1>9. CASE CheckTypes(q)
  <2>1. PICK call \in { "priority", "insertRule" } : Goto(q, call, req[q]) \/ End(q)
    BY <1>9 DEF CheckTypes
  <2> QED
    BY <1>a, <1>1, <1>2, <2>1 DEF Mixed, InRule
<1>10. CASE CheckRuleTemplate(q)
  <2>1. pc[q] = "ruleTemplate" /\ (Goto(q, "ruleTypes", req[q]) \/ End(q))
    BY <1>10 DEF CheckRuleTemplate
  <2> QED
    BY <1>a, <1>1, <1>2, <2>1 DEF Mixed, InRule
<1>11. CASE CheckRuleTypes(q)
  <2>1. pc[q] = "ruleTypes" /\ (Goto(q, "ruleRow", req[q]) \/ End(q))
    BY <1>11 DEF CheckRuleTypes
  <2> QED
    BY <1>a, <1>1, <1>2, <2>1 DEF Mixed, InRule
<1>12. CASE UpdateRule(q)
  <2>1. PICK call \in { "link", "unlink" } :
            /\ pc[q] = "ruleRow" /\ Goto(q, call, req[q])
            /\ call = "link" => req[q].types = Undefined
    BY <1>12 DEF UpdateRule
  <2> QED
    BY <1>a, <1>1, <2>1 DEF Mixed, InRule
<1>13. CASE Unlinked(q)
  <2>1. pc[q] = "unlinking" /\ Goto(q, "link", req[q])
    BY <1>13 DEF Unlinked
  <2> QED
    BY <1>a, <1>1, <2>1 DEF Mixed, InRule
<1>14. CASE DeleteTypeWaits(q)
  <2>1. Goto(q, "cascade", req[q])
    BY <1>14 DEF DeleteTypeWaits
  <2> QED
    BY <1>a, <1>1, <2>1 DEF Mixed, InRule
<1> QED
  BY <1>3, <1>4, <1>5, <1>6, <1>7, <1>8, <1>9, <1>10, <1>11, <1>12, <1>13, <1>14

\* The calls that keep something for the next one in the request.
LEMMA MixCarries ==
  ASSUME IInv, MixInv, NEW q \in Requests, NextPriority(q) \/ Leave(q) \/ Unlink(q)
  PROVE  MixInv'
<1>a. /\ Mixed(pc[q], req[q], users, rule) /\ Shape(pc[q], req[q]) /\ req[q] \in Request
  BY Knows DEF MixInv, AllMixed
<1>b. UNCHANGED <<rule, types, users, asked>>
  BY DEF NextPriority, Leave, Unlink, rows
<1>1. ASSUME NEW call, NEW r, Goto(q, call, r), Mixed(call, r, users, rule) PROVE MixInv'
  BY <1>b, <1>1, MixStands DEF Goto
<1>2. CASE NextPriority(q)
  <2>1. PICK n : pc[q] = "priority" /\ Goto(q, "insertRule", [req[q] EXCEPT !.priority = n])
    BY <1>2 DEF NextPriority
  <2> DEFINE r == [req[q] EXCEPT !.priority = n]
  <2>2. /\ r.left = req[q].left /\ r.gone = req[q].gone /\ r.types = req[q].types
        /\ r.users = req[q].users
    BY <1>a DEF Request
  <2>3. Goto(q, "insertRule", r)
    BY <2>1
  <2> HIDE DEF r
  <2>4. Mixed("insertRule", r, users, rule)
    BY <1>a, <2>2 DEF Mixed, InRule
  <2> QED
    BY <1>1, <2>3, <2>4
<1>3. CASE Leave(q)
  <2> DEFINE r == [req[q] EXCEPT !.left = users]
  <2>1. PICK call \in { "assign", "leaving" } : pc[q] = "leave" /\ Goto(q, call, r)
    BY <1>3 DEF Leave
  <2>2. /\ r.left = users /\ r.gone = req[q].gone /\ r.types = req[q].types
        /\ r.users = req[q].users
    BY <1>a DEF Request
  <2>3. r.users # Undefined
    BY <1>a, <2>1, <2>2 DEF Shape
  <2> HIDE DEF r
  <2>4. Mixed(call, r, users, rule)
    BY <1>a, <2>2, <2>3 DEF Mixed, InRule
  <2> QED
    BY <1>1, <2>1, <2>4
<1>4. CASE Unlink(q)
  <2> DEFINE r == [req[q] EXCEPT !.gone = rule[req[q].rule].types]
  <2>1. PICK call \in { "link", "unlinking" } : pc[q] = "unlink" /\ Goto(q, call, r)
    BY <1>4 DEF Unlink
  <2>2. /\ r.left = req[q].left /\ r.gone = rule[req[q].rule].types
        /\ r.types = req[q].types /\ r.users = req[q].users /\ r.rule = req[q].rule
    BY <1>a DEF Request
  <2>3. r.types # Undefined /\ rule[r.rule].state # "unmade"
    BY <1>a, <2>1, <2>2 DEF Shape, Mixed, InRule
  <2> HIDE DEF r
  <2>4. Mixed(call, r, users, rule)
    BY <1>a, <2>2, <2>3 DEF Mixed
  <2> QED
    BY <1>1, <2>1, <2>4
<1> QED
  BY <1>2, <1>3, <1>4

LEMMA MixFails ==
  ASSUME IInv, MixInv, NEW q \in Requests,
         \/ InsertFails(q) \/ WriteFails(q) \/ DeleteFails(q) \/ SetSettingFails(q)
         \/ InsertRuleFails(q) \/ UpdateRuleFails(q) \/ LinkFails(q) \/ DeleteRuleFails(q)
         \/ DeleteTypeFails(q) \/ Victim(q) \/ WriteBadgeFails(q) \/ Abort(q)
         \/ Insert(q) \/ Write(q) \/ WriteBadge(q)
  PROVE  MixInv'
<1>1. /\ pc' = [pc EXCEPT ![q] = "idle"] /\ req' = [req EXCEPT ![q] = NoRequest]
      /\ UNCHANGED <<rule, types, users, asked>>
  <2>1. ASSUME NEW why, Fail(q, why)
        PROVE  /\ pc' = [pc EXCEPT ![q] = "idle"] /\ req' = [req EXCEPT ![q] = NoRequest]
               /\ UNCHANGED <<rule, types, users, asked>>
    BY <2>1 DEF Fail, rows
  <2>2. CASE Abort(q) \/ Insert(q) \/ Write(q) \/ WriteBadge(q)
    BY <2>2 DEF Abort, Insert, Write, WriteBadge, End, Goto, rows
  <2>3. CASE ~(Abort(q) \/ Insert(q) \/ Write(q) \/ WriteBadge(q))
    BY <2>1, <2>3 DEF InsertFails, WriteFails, DeleteFails, SetSettingFails, InsertRuleFails,
                UpdateRuleFails, LinkFails, DeleteRuleFails, DeleteTypeFails, Victim,
                WriteBadgeFails
  <2> QED
    BY <2>2, <2>3
<1> QED
  BY <1>1, IdleMixed, MixStands

\* A step that takes types or rules away.
LEMMA MixLess ==
  ASSUME IInv, MixInv, NEW q \in Requests, End(q), UNCHANGED <<users, asked>>,
         types' \subseteq types, StoredIn(rule') \subseteq StoredIn(rule),
         \A r \in Rules : /\ rule'[r].types \subseteq rule[r].types
                          /\ rule[r].state # "unmade" => rule'[r].state # "unmade",
         \A r \in StoredIn(rule') : rule[r].types \cap types' \subseteq rule'[r].types
  PROVE  MixInv'
<1>a. \A r \in StoredIn(rule) : r \in Rules
  BY SoundTables
<1>b. asked' = asked /\ askedTypes' = askedTypes /\ strayTypes' = strayTypes
      /\ askedUsers' = askedUsers /\ strayUsers' = strayUsers
  BY DEF asked
<1>1. ReplacedAsAsked'
  <2>1. ASSUME NEW r \in StoredIn(rule')
        PROVE  /\ askedTypes[r] \cap types' \subseteq rule'[r].types
               /\ rule'[r].types \subseteq askedTypes[r] \cup strayTypes[r]
    <3>1. /\ askedTypes[r] \cap types \subseteq rule[r].types
          /\ rule[r].types \subseteq askedTypes[r] \cup strayTypes[r]
      BY <2>1 DEF MixInv, ReplacedAsAsked, StoredRules
    <3>2. rule'[r].types \subseteq rule[r].types
      BY <1>a, <2>1
    <3> QED
      BY <2>1, <3>1, <3>2
  <2>2. askedUsers \subseteq users /\ users \subseteq askedUsers \cup strayUsers
    BY DEF MixInv, ReplacedAsAsked
  <2> QED
    BY <1>b, <2>1, <2>2 DEF ReplacedAsAsked, StoredRules
<1>2. AllMixed'
  <2> SUFFICES ASSUME NEW p \in Requests PROVE Mixed(pc'[p], req'[p], users', rule')
    BY DEF AllMixed
  <2>1. CASE p = q
    BY <2>1, IdleMixed, Ends DEF Moved, IInv
  <2>2. CASE p # q
    <3>1. pc'[p] = pc[p] /\ req'[p] = req[p] /\ users' = users
      BY <2>2, Ends DEF Moved, IInv
    <3>2. Mixed(pc[p], req[p], users, rule) /\ Shape(pc[p], req[p])
      BY Knows DEF MixInv, AllMixed
    <3>3. pc[p] \in { "ruleTemplate", "ruleTypes", "ruleRow" } \cup InRule =>
              req[p].rule \in Rules
      BY <3>2 DEF Shape
    <3>4. (pc[p] \in { "unlinking", "link" } /\ req[p].types # Undefined) =>
              rule'[req[p].rule].types \ req[p].gone \subseteq req[p].stray
      BY <3>2, <3>3 DEF Mixed, InRule
    <3>5. Mixed(pc[p], req[p], users, rule')
      BY <3>2, <3>3, <3>4 DEF Mixed
    <3> QED
      BY <3>1, <3>5
  <2> QED
    BY <2>1, <2>2
<1> QED
  BY <1>1, <1>2 DEF MixInv

LEMMA MixDeletes ==
  ASSUME IInv, MixInv, NEW q \in Requests, Delete(q) \/ DeleteRule(q) \/ DeleteType(q)
  PROVE  MixInv'
<1>a. rule \in [Rules -> RuleRow]
  BY SoundTables DEF Sound
<1>b. DeletedRule.types = {} /\ DeletedRule.state = "deleted"
  BY DEF DeletedRule
<1>1. CASE Delete(q) \/ DeleteRule(q)
  <2>1. /\ End(q) /\ UNCHANGED <<users, asked, types>>
        /\ DOMAIN rule' = Rules
        /\ \A r \in Rules : rule'[r] = DeletedRule \/ rule'[r] = rule[r]
    BY <1>a, <1>1 DEF Delete, DeleteRule
  <2>2. \A r \in StoredIn(rule') : r \in StoredIn(rule) /\ rule'[r] = rule[r]
    BY <1>a, <1>b, <2>1 DEF StoredIn
  <2>3. \A r \in Rules : /\ rule'[r].types \subseteq rule[r].types
                         /\ rule[r].state # "unmade" => rule'[r].state # "unmade"
    BY <1>b, <2>1
  <2> QED
    BY <2>1, <2>2, <2>3, MixLess
<1>2. CASE DeleteType(q)
  <2> DEFINE k == req[q].type
  <2>1. /\ End(q) /\ UNCHANGED <<users, asked>> /\ types' = types \ { k }
        /\ rule' = [r \in Rules |-> [rule[r] EXCEPT !.types = rule[r].types \ { k }]]
    BY <1>2 DEF DeleteType
  <2>2. \A r \in Rules : rule'[r].types = rule[r].types \ { k } /\ rule'[r].state = rule[r].state
    BY <1>a, <2>1 DEF RuleRow
  <2>3. StoredIn(rule') = StoredIn(rule) /\ StoredIn(rule) \subseteq Rules
    BY <1>a, <2>1, <2>2 DEF StoredIn
  <2> HIDE DEF k
  <2>4. \A r \in StoredIn(rule') : rule[r].types \cap types' \subseteq rule'[r].types
    BY <2>1, <2>2, <2>3
  <2> QED
    BY <2>1, <2>2, <2>3, <2>4, MixLess
<1> QED
  BY <1>1, <1>2

LEMMA MixInserts ==
  ASSUME IInv, MixInv, NEW q \in Requests, InsertRule(q)
  PROVE  MixInv'
<1> DEFINE row == [state |-> "stored", template |-> req[q].template,
                   priority |-> req[q].priority, types |-> req[q].types]
<1>a. PICK R \in Rules : /\ rule[R].state = "unmade"
                         /\ rule' = [rule EXCEPT ![R] = row]
                         /\ askedTypes' = [askedTypes EXCEPT ![R] = req[q].types]
  BY DEF InsertRule
<1>b. /\ End(q) /\ types' = types /\ users' = users /\ askedUsers' = askedUsers
      /\ strayTypes' = strayTypes /\ strayUsers' = strayUsers
  BY DEF InsertRule
<1>c. row.types = req[q].types /\ row.state = "stored"
  OBVIOUS
<1> HIDE DEF row
<1>d. rule \in [Rules -> RuleRow] /\ askedTypes \in [Rules -> SUBSET Types]
  BY SoundTables, Histories DEF Sound, HistoryOK
<1>e. \A r \in Rules : rule'[r] = (IF r = R THEN row ELSE rule[r])
                       /\ askedTypes'[r] = (IF r = R THEN req[q].types ELSE askedTypes[r])
  BY <1>a, <1>d
<1>f. \A r \in StoredIn(rule') : r \in Rules /\ (r # R => r \in StoredIn(rule))
  BY <1>a, <1>d, <1>e DEF StoredIn
<1>1. ReplacedAsAsked'
  <2>1. ASSUME NEW r \in StoredIn(rule')
        PROVE  /\ askedTypes'[r] \cap types \subseteq rule'[r].types
               /\ rule'[r].types \subseteq askedTypes'[r] \cup strayTypes[r]
    <3>1. CASE r = R
      BY <1>c, <1>e, <3>1
    <3>2. CASE r # R
      <4>1. rule'[r] = rule[r] /\ askedTypes'[r] = askedTypes[r] /\ r \in StoredIn(rule)
        BY <1>e, <1>f, <2>1, <3>2
      <4> QED
        BY <4>1 DEF MixInv, ReplacedAsAsked, StoredRules
    <3> QED
      BY <3>1, <3>2
  <2>2. askedUsers \subseteq users /\ users \subseteq askedUsers \cup strayUsers
    BY DEF MixInv, ReplacedAsAsked
  <2> QED
    BY <1>b, <2>1, <2>2 DEF ReplacedAsAsked, StoredRules
<1>2. AllMixed'
  <2> SUFFICES ASSUME NEW p \in Requests PROVE Mixed(pc'[p], req'[p], users', rule')
    BY DEF AllMixed
  <2>1. CASE p = q
    BY <1>b, <2>1, IdleMixed, Ends DEF Moved, IInv
  <2>2. CASE p # q
    <3>1. pc'[p] = pc[p] /\ req'[p] = req[p] /\ users' = users
      BY <1>b, <2>2, Ends DEF Moved, IInv
    <3>2. Mixed(pc[p], req[p], users, rule) /\ Shape(pc[p], req[p])
      BY Knows DEF MixInv, AllMixed
    <3>3. pc[p] \in { "ruleTemplate", "ruleTypes", "ruleRow" } \cup InRule =>
              rule'[req[p].rule] = rule[req[p].rule]
      BY <1>a, <1>e, <3>2 DEF Shape, Mixed
    <3>4. Mixed(pc[p], req[p], users, rule')
      BY <3>2, <3>3 DEF Mixed, InRule
    <3> QED
      BY <3>1, <3>4
  <2> QED
    BY <2>1, <2>2
<1> QED
  BY <1>1, <1>2 DEF MixInv

\* The two ends of a replacement.  What the other replacements of the same rows do
\* not delete is what they did not delete so far, and what this one has made.
LEMMA MixAssigns ==
  ASSUME IInv, MixInv, NEW q \in Requests, Assign(q)
  PROVE  MixInv'
<1>a. /\ pc[q] = "assign"
      /\ users' = (users \ req[q].left) \cup Or(req[q].users, {})
      /\ askedUsers' = Or(req[q].users, askedUsers)
      /\ strayUsers' = IF req[q].users = Undefined THEN strayUsers ELSE req[q].stray
      /\ pc' = [pc EXCEPT ![q] = "idle"] /\ req' = AfterAssign(q)
      /\ rule' = rule /\ types' = types /\ askedTypes' = askedTypes
      /\ strayTypes' = strayTypes
  BY DEF Assign
<1>b. Mixed(pc[q], req[q], users, rule)
  BY DEF MixInv, AllMixed
<1>c. askedUsers \subseteq users /\ users \subseteq askedUsers \cup strayUsers
  BY DEF MixInv, ReplacedAsAsked
<1>1. ReplacedAsAsked'
  <2>1. askedUsers' \subseteq users' /\ users' \subseteq askedUsers' \cup strayUsers'
    <3>1. CASE req[q].users = Undefined
      BY <1>a, <1>b, <1>c, <3>1 DEF Mixed, Or
    <3>2. CASE req[q].users # Undefined
      BY <1>a, <1>b, <3>2 DEF Mixed, Or
    <3> QED
      BY <3>1, <3>2
  <2> QED
    BY <1>a, <2>1 DEF MixInv, ReplacedAsAsked, StoredRules
<1>2. AllMixed'
  <2> SUFFICES ASSUME NEW p \in Requests PROVE Mixed(pc'[p], req'[p], users', rule')
    BY DEF AllMixed
  <2>a. pc'[q] = "idle" /\ (p # q => pc'[p] = pc[p]) /\ req'[q] = NoRequest
    BY <1>a DEF IInv, TypeOK, AfterAssign
  <2>b. Mixed(pc[p], req[p], users, rule) /\ req[p] \in Request
    BY Knows DEF MixInv, AllMixed
  <2>1. CASE p = q
    BY <2>1, <2>a, IdleMixed
  <2>2. CASE p # q /\ pc[p] \in { "leaving", "assign" }
             /\ Undefined \notin { req[p].users, req[q].users }
    <3> DEFINE r == req[p]
               stray == IF \/ r.columns /\ req[q].columns
                           \/ Undefined \notin { r.template, req[q].template }
                        THEN r.stray ELSE r.stray \cup req[q].users
               w == [r EXCEPT !.left = r.left \ req[q].left, !.stray = stray]
    <3>1. req'[p] = w
      BY <1>a, <2>2 DEF AfterAssign
    <3>2. Apart(pc[p], r, pc[q], req[q])
      BY <2>2, Knows
    <3>3. stray = r.stray \cup req[q].users
      BY <1>a, <2>2, <3>2 DEF Apart, InEvent, InSetting
    <3> HIDE DEF stray
    <3>4. /\ w.left = r.left \ req[q].left /\ w.stray = stray /\ w.users = r.users
          /\ w.types = r.types /\ w.gone = r.gone /\ w.rule = r.rule
      BY <2>b DEF Request
    <3>5. users \ r.left \subseteq r.stray
      BY <2>2, <2>b DEF Mixed
    <3>6. users' = (users \ req[q].left) \cup req[q].users
      BY <1>a, <2>2 DEF Or
    <3>7. users' \ w.left \subseteq w.stray
      BY <3>3, <3>4, <3>5, <3>6
    <3> HIDE DEF w, r
    <3>8. Mixed(pc[p], w, users', rule')
      BY <1>a, <2>2, <2>b, <3>4, <3>7 DEF Mixed, InRule, r
    <3> QED
      BY <2>2, <2>a, <3>1, <3>8
  <2>3. CASE p # q /\ ~(pc[p] \in { "leaving", "assign" }
                        /\ Undefined \notin { req[p].users, req[q].users })
    <3>1. req'[p] = req[p]
      BY <1>a, <2>3 DEF AfterAssign
    <3>2. (pc[p] \in { "leaving", "assign" } /\ req[p].users # Undefined) => users' = users
      BY <1>a, <1>b, <2>3 DEF Mixed, Or
    <3>3. Mixed(pc[p], req[p], users', rule')
      BY <1>a, <2>b, <3>2 DEF Mixed
    <3> QED
      BY <2>3, <2>a, <3>1, <3>3
  <2> QED
    BY <2>1, <2>2, <2>3
<1> QED
  BY <1>1, <1>2 DEF MixInv

LEMMA MixLinks ==
  ASSUME IInv, MixInv, NEW q \in Requests, Link(q)
  PROVE  MixInv'
<1> DEFINE R == req[q].rule
           row == Replaced(q)
<1>a. /\ pc[q] = "link" /\ LinkRejected(q) = "no"
      /\ rule' = [rule EXCEPT ![R] = row]
      /\ askedTypes' = [askedTypes EXCEPT ![R] = Or(req[q].types, askedTypes[R])]
      /\ strayTypes' = [strayTypes EXCEPT ![R] =
             IF req[q].types = Undefined THEN strayTypes[R] ELSE req[q].stray]
      /\ pc' = [pc EXCEPT ![q] = "idle"] /\ req' = AfterLink(q)
      /\ types' = types /\ users' = users /\ askedUsers' = askedUsers
      /\ strayUsers' = strayUsers
  BY DEF Link
<1>b. Mixed(pc[q], req[q], users, rule) /\ R \in StoredIn(rule) /\ R \in Rules
  BY <1>a, SoundTables DEF MixInv, AllMixed, LinkRejected
<1>c. rule \in [Rules -> RuleRow] /\ askedTypes \in [Rules -> SUBSET Types]
      /\ strayTypes \in [Rules -> SUBSET (Types \cup Users)]
  BY SoundTables, Histories DEF Sound, HistoryOK
<1>d. row.state = "stored"
      /\ row.types = (rule[R].types \ req[q].gone) \cup Or(req[q].types, {})
  BY DEF Replaced
<1> HIDE DEF row
<1>e. \A r \in Rules : rule'[r] = IF r = R THEN row ELSE rule[r]
  BY <1>a, <1>b, <1>c
<1>f. /\ askedTypes'[R] = Or(req[q].types, askedTypes[R])
      /\ strayTypes'[R] = IF req[q].types = Undefined THEN strayTypes[R] ELSE req[q].stray
      /\ \A r \in Rules : r # R => askedTypes'[r] = askedTypes[r]
                                   /\ strayTypes'[r] = strayTypes[r]
  BY <1>a, <1>b, <1>c
<1>g. \A r \in StoredIn(rule') : r \in Rules /\ r \in StoredIn(rule)
  BY <1>a, <1>b, <1>c, <1>e DEF StoredIn
<1>h. /\ askedTypes[R] \cap types \subseteq rule[R].types
      /\ rule[R].types \subseteq askedTypes[R] \cup strayTypes[R]
  BY <1>b DEF MixInv, ReplacedAsAsked, StoredRules
<1>i. req[q].types = Undefined => row.types = rule[R].types
  BY <1>b, <1>d DEF Mixed, Or
<1> HIDE DEF R
<1>1. ReplacedAsAsked'
  <2>1. ASSUME NEW r \in StoredIn(rule')
        PROVE  /\ askedTypes'[r] \cap types \subseteq rule'[r].types
               /\ rule'[r].types \subseteq askedTypes'[r] \cup strayTypes'[r]
    <3>1. CASE r = R /\ req[q].types = Undefined
      BY <1>b, <1>e, <1>f, <1>h, <1>i, <3>1 DEF Or
    <3>2. CASE r = R /\ req[q].types # Undefined
      <4>1. rule[R].types \ req[q].gone \subseteq req[q].stray
        BY <1>a, <1>b, <3>2 DEF Mixed, R
      <4>2. /\ askedTypes'[R] = req[q].types /\ strayTypes'[R] = req[q].stray
            /\ rule'[R].types = (rule[R].types \ req[q].gone) \cup req[q].types
        BY <1>b, <1>d, <1>e, <1>f, <3>2 DEF Or
      <4> QED
        BY <3>2, <4>1, <4>2
    <3>3. CASE r # R
      <4>1. /\ rule'[r] = rule[r] /\ askedTypes'[r] = askedTypes[r]
            /\ strayTypes'[r] = strayTypes[r] /\ r \in StoredIn(rule)
        BY <1>e, <1>f, <1>g, <2>1, <3>3
      <4> QED
        BY <4>1 DEF MixInv, ReplacedAsAsked, StoredRules
    <3> QED
      BY <3>1, <3>2, <3>3
  <2>2. askedUsers \subseteq users /\ users \subseteq askedUsers \cup strayUsers
    BY DEF MixInv, ReplacedAsAsked
  <2> QED
    BY <1>a, <2>1, <2>2 DEF ReplacedAsAsked, StoredRules
<1>2. AllMixed'
  <2> SUFFICES ASSUME NEW p \in Requests PROVE Mixed(pc'[p], req'[p], users', rule')
    BY DEF AllMixed
  <2>a. pc'[q] = "idle" /\ (p # q => pc'[p] = pc[p]) /\ req'[q] = NoRequest
    BY <1>a DEF IInv, TypeOK, AfterLink
  <2>b. /\ Mixed(pc[p], req[p], users, rule) /\ req[p] \in Request /\ Shape(pc[p], req[p])
    BY Knows DEF MixInv, AllMixed
  <2>c. pc[p] \in { "ruleTemplate", "ruleTypes", "ruleRow" } \cup InRule =>
            /\ req[p].rule \in Rules
            /\ rule'[req[p].rule].state # "unmade"
    BY <1>b, <1>d, <1>e, <2>b DEF Shape, Mixed
  <2>1. CASE p = q
    BY <2>1, <2>a, IdleMixed
  <2>2. CASE p # q /\ pc[p] \in { "unlinking", "link" } /\ req[p].rule = R
             /\ Undefined \notin { req[p].types, req[q].types }
    <3> DEFINE r == req[p]
               stray == IF WritesRule(p) /\ WritesRule(q)
                        THEN r.stray ELSE r.stray \cup req[q].types
               w == [r EXCEPT !.gone = r.gone \ req[q].gone, !.stray = stray]
    <3>1. req'[p] = w
      BY <1>a, <2>2 DEF AfterLink, R
    <3>2. Apart(pc[p], r, pc[q], req[q])
      BY <2>2, Knows
    <3>3. stray = r.stray \cup req[q].types
      BY <1>a, <2>2, <3>2 DEF Apart, InRule, Writing, WritesRule, R
    <3> HIDE DEF stray
    <3>4. /\ w.gone = r.gone \ req[q].gone /\ w.stray = stray /\ w.users = r.users
          /\ w.types = r.types /\ w.left = r.left /\ w.rule = r.rule
      BY <2>b DEF Request
    <3>5. rule[R].types \ r.gone \subseteq r.stray
      BY <2>2, <2>b DEF Mixed
    <3>6. rule'[R].types = (rule[R].types \ req[q].gone) \cup req[q].types
      BY <1>b, <1>d, <1>e, <2>2 DEF Or
    <3>7. rule'[R].types \ w.gone \subseteq w.stray
      BY <3>3, <3>4, <3>5, <3>6
    <3> HIDE DEF w, r
    <3>8. Mixed(pc[p], w, users', rule')
      <4>1. /\ r.users = Undefined => w.left = {}
            /\ r.types # Undefined /\ w.rule = R /\ rule'[R].state # "unmade"
        BY <2>2, <2>b, <2>c, <3>4 DEF Mixed, InRule, r
      <4> QED
        BY <2>2, <3>4, <3>7, <4>1 DEF Mixed
    <3> QED
      BY <2>2, <2>a, <3>1, <3>8
  <2>3. CASE p # q /\ ~(pc[p] \in { "unlinking", "link" } /\ req[p].rule = R
                        /\ Undefined \notin { req[p].types, req[q].types })
    <3>1. req'[p] = req[p]
      BY <1>a, <2>3 DEF AfterLink, R
    <3>2. (pc[p] \in { "unlinking", "link" } /\ req[p].types # Undefined) =>
              rule'[req[p].rule].types = rule[req[p].rule].types
      BY <1>e, <1>i, <2>3, <2>c DEF InRule
    <3>3. Mixed(pc[p], req[p], users, rule')
      BY <2>b, <2>c, <3>2 DEF Mixed
    <3> QED
      BY <1>a, <2>3, <2>a, <3>1, <3>3
  <2> QED
    BY <2>1, <2>2, <2>3
<1> QED
  BY <1>1, <1>2 DEF MixInv

LEMMA InitMix == Init => MixInv
<1> SUFFICES ASSUME Init PROVE MixInv
  OBVIOUS
<1>1. \A p \in Requests : pc[p] = "idle" /\ req[p] = NoRequest
  BY DEF Init
<1>2. AllMixed
  BY <1>1, IdleMixed DEF AllMixed
<1>3. PICK s \in Starts : /\ rule = s.rule /\ users = s.users /\ askedUsers = s.users
                          /\ askedTypes = [r \in Rules |-> s.rule[r].types]
  BY DEF Init
<1>4. \A r \in StoredIn(rule) : r \in Rules
  BY InitInv, SoundTables
<1>5. ReplacedAsAsked
  BY <1>3, <1>4 DEF ReplacedAsAsked, StoredRules
<1> QED
  BY <1>2, <1>5 DEF MixInv

LEMMA StepMix == IInv /\ MixInv /\ [Next]_vars => MixInv'
<1> SUFFICES ASSUME IInv, MixInv, [Next]_vars PROVE MixInv'
  OBVIOUS
<1>1. CASE Next
  <2>1. PICK q \in Requests : Begin(q) \/ Proceed(q) \/ Abort(q)
    BY <1>1 DEF Next
  <2>2. CASE Proceed(q)
    BY <2>2, MixPasses, MixCarries, MixFails, MixDeletes, MixInserts, MixAssigns, MixLinks
    DEF Proceed
  <2> QED
    BY <2>1, <2>2, MixBegins, MixFails
<1>2. CASE UNCHANGED vars
  BY <1>2 DEF vars, MixInv, ReplacedAsAsked, AllMixed, StoredRules
<1> QED
  BY <1>1, <1>2

\* A rule keeps the attendee types of the last replacement, less those deleted since,
\* and the event the users of the last one.  What else they have was asked for by
\* replacements that overlap it and share with it no row that both write: two that
\* both write the rule, or the event, or its settings, never mix.  (updateBadgeRule,
\* EventsService.update)
THEOREM SetsReplacedAsAsked == Spec => []ReplacedAsAsked
<1>1. MixInv => ReplacedAsAsked
  BY DEF MixInv
<1> QED
  BY <1>1, InitMix, StepMix, Inv, PTL DEF Spec

---------------------------------------------------------------------------
\* One request at a time: what the checks of a request that runs alone have
\* found still holds when it writes.

InsertCalls == { "types", "priority", "insertRule" }
UpdateCalls == { "ruleTemplate", "ruleTypes", "ruleRow" } \cup InRule

\* Which handler makes which call.
OpOf(call) ==
    CASE call = "idle"                        -> { "none" }
      [] call = "unset"                       -> { "create", "update" }
      [] call = "insert"                      -> { "create", "createTemplate", "duplicateTemplate" }
      [] call = "write"                       -> { "update", "updateTemplate" }
      [] call = "count"                       -> { "remove" }
      [] call = "delete"                      -> { "remove", "deleteTemplate" }
      [] call \in InEvent \cup { "lock" }     -> { "updateEvent" }
      [] call \in InsertCalls                 -> { "createBadgeRule" }
      [] call \in UpdateCalls                 -> { "updateBadgeRule" }
      [] call = "deleteRule"                  -> { "deleteBadgeRule" }
      [] call \in { "deleteType", "cascade" } -> { "removeType" }
      [] call = "badge"                       -> { "generateBadge" }

Operates(call, r) ==
    /\ r.op \in OpOf(call)
    /\ r.op = "update" => r.code = Undefined /\ r.template \in Templates
                          /\ r.scope = ScopeOf[r.template]

NoDefaultIn(s, tm) == \A o \in StoredIn(tm) : ScopeOf[o] = s => ~tm[o].default

\* What holds in the tables tm, rl, ty and the setting st at the next call.
ForeseenIn(call, r, tm, rl, ty, st) ==
    /\ r.op = "create" => \A o \in StoredIn(tm) : tm[o].code # r.code
    /\ (r.op = "create" /\ call = "insert" /\ r.default) => NoDefaultIn(r.scope, tm)
    /\ (call \in { "write", "delete", "badge", "count" } \cup InsertCalls \/ r.op = "update") =>
          r.template \in StoredIn(tm)
    /\ (r.op = "update" /\ call = "write" /\ r.default = TRUE) =>
          NoDefaultIn(r.scope, tm) \/ tm[r.template].default
    /\ (r.op = "remove" /\ call = "delete") => st # r.template
    /\ (call \in { "setting" } \cup InSetting \cup (UpdateCalls \ { "ruleTemplate" })) =>
          r.template \notin Templates \ StoredIn(tm)
    /\ call \in { "priority", "insertRule" } => r.types \subseteq ty
    /\ (call \in UpdateCalls \cup { "deleteRule" }) => r.rule \in StoredIn(rl)
    /\ (call \in UpdateCalls \ { "ruleTemplate", "ruleTypes" }) => Or(r.types, {}) \subseteq ty
    /\ (call = "link" /\ r.types # Undefined) => rl[r.rule].types \subseteq r.gone
    /\ call = "deleteType" => r.type \in ty
    /\ call # "unlinking" /\ call # "cascade"

Foreseen(call, r) == ForeseenIn(call, r, template, rule, types, setting)

OneBusy == \A p \in Requests, q \in Requests : pc[p] # "idle" /\ pc[q] # "idle" => p = q
AllOperate == \A p \in Requests : Operates(pc[p], req[p])
AllForeseen == \A p \in Requests : Foreseen(pc[p], req[p])

AloneInv == AllOperate /\ (alone => OneBusy /\ AllForeseen)

LEMMA OpsByCall ==
  /\ OpOf("idle") = { "none" } /\ OpOf("unset") = { "create", "update" }
  /\ OpOf("insert") = { "create", "createTemplate", "duplicateTemplate" }
  /\ OpOf("write") = { "update", "updateTemplate" } /\ OpOf("count") = { "remove" }
  /\ OpOf("delete") = { "remove", "deleteTemplate" }
  /\ \A call \in InEvent \cup { "lock" } : OpOf(call) = { "updateEvent" }
  /\ \A call \in InsertCalls : OpOf(call) = { "createBadgeRule" }
  /\ \A call \in UpdateCalls : OpOf(call) = { "updateBadgeRule" }
  /\ OpOf("deleteRule") = { "deleteBadgeRule" }
  /\ OpOf("deleteType") = { "removeType" } /\ OpOf("cascade") = { "removeType" }
  /\ OpOf("badge") = { "generateBadge" }
  BY DEF OpOf, InEvent, InsertCalls, UpdateCalls, InRule, InSetting

LEMMA IdleForeseen ==
  /\ Operates("idle", NoRequest)
  /\ \A tm, rl, ty, st : ForeseenIn("idle", NoRequest, tm, rl, ty, st)
  BY OpsByCall
  DEF Operates, ForeseenIn, NoRequest, InsertCalls, UpdateCalls, InRule, InSetting

\* A step of slot q that leaves the others idle, if it was and is alone.
LEMMA AloneAfter ==
  ASSUME IInv, AloneInv, NEW q \in Requests, NEW call, NEW r,
         pc' = [pc EXCEPT ![q] = call], req' = [req EXCEPT ![q] = r],
         Operates(call, r),
         alone' => alone /\ \A p \in Requests : p # q => pc[p] = "idle",
         alone' => ForeseenIn(call, r, template', rule', types', setting')
  PROVE  AloneInv'
<1>1. /\ pc'[q] = call /\ req'[q] = r
      /\ \A p \in Requests : p # q => pc'[p] = pc[p] /\ req'[p] = req[p]
  BY DEF IInv, TypeOK
<1>2. AllOperate'
  <2> SUFFICES ASSUME NEW p \in Requests PROVE Operates(pc'[p], req'[p])
    BY DEF AllOperate, Operates
  <2>1. Operates(pc[p], req[p])
    BY DEF AloneInv, AllOperate
  <2> QED
    BY <1>1, <2>1
<1>3. ASSUME alone' PROVE OneBusy' /\ AllForeseen'
  <2>1. \A p \in Requests : p # q => pc'[p] = "idle" /\ req'[p] = NoRequest
    BY <1>1, <1>3, Knows DEF Shape
  <2>2. OneBusy'
    BY <2>1 DEF OneBusy
  <2>3. \A p \in Requests :
            ForeseenIn(pc'[p], req'[p], template', rule', types', setting')
    BY <1>1, <1>3, <2>1, IdleForeseen
  <2>4. AllForeseen'
    BY <2>3 DEF AllForeseen, Foreseen
  <2> QED
    BY <2>2, <2>4
<1> QED
  BY <1>2, <1>3 DEF AloneInv

LEMMA BusyAlone ==
  ASSUME AloneInv, NEW q \in Requests, pc[q] # "idle"
  PROVE  /\ Operates(pc[q], req[q])
         /\ alone => /\ Foreseen(pc[q], req[q])
                     /\ \A p \in Requests : p # q => pc[p] = "idle"
  BY DEF AloneInv, AllOperate, OneBusy, AllForeseen

LEMMA ArrivesAlone ==
  ASSUME IInv, AloneInv, NEW q \in Requests, NEW call, NEW r,
         Arrive(q, call, r), UNCHANGED <<rows, asked>>,
         Operates(call, r), Foreseen(call, r)
  PROVE  AloneInv' /\ errors' = errors
<1>1. UNCHANGED <<template, rule, types, setting>>
  BY DEF rows
<1>2. alone' => alone /\ \A p \in Requests : p # q => pc[p] = "idle"
  BY DEF Arrive
<1>3. ForeseenIn(call, r, template', rule', types', setting')
  BY <1>1 DEF Foreseen
<1>4. pc' = [pc EXCEPT ![q] = call] /\ req' = [req EXCEPT ![q] = r] /\ errors' = errors
  BY DEF Arrive
<1> QED
  BY <1>2, <1>3, <1>4, AloneAfter

LEMMA GoesAlone ==
  ASSUME IInv, AloneInv, NEW q \in Requests, NEW call, NEW r, pc[q] # "idle",
         Goto(q, call, r), UNCHANGED <<rows, asked>>,
         Operates(call, r), alone => Foreseen(call, r)
  PROVE  AloneInv' /\ errors' = errors
<1>1. UNCHANGED <<template, rule, types, setting>>
  BY DEF rows
<1>2. alone' => alone /\ \A p \in Requests : p # q => pc[p] = "idle"
  BY BusyAlone DEF Goto
<1>3. alone' => ForeseenIn(call, r, template', rule', types', setting')
  BY <1>1 DEF Foreseen, Goto
<1>4. pc' = [pc EXCEPT ![q] = call] /\ req' = [req EXCEPT ![q] = r] /\ errors' = errors
  BY DEF Goto
<1> QED
  BY <1>2, <1>3, <1>4, AloneAfter

LEMMA EndsAlone ==
  ASSUME IInv, AloneInv, NEW q \in Requests, pc[q] # "idle", End(q)
  PROVE  AloneInv' /\ errors' = errors
<1>1. /\ pc' = [pc EXCEPT ![q] = "idle"] /\ req' = [req EXCEPT ![q] = NoRequest]
      /\ errors' = errors /\ alone' = alone
  BY DEF End, Goto
<1> QED
  BY <1>1, BusyAlone, IdleForeseen, AloneAfter

LEMMA FailsAlone ==
  ASSUME IInv, AloneInv, ChecksSuffice, NEW q \in Requests, NEW why, pc[q] # "idle",
         Fail(q, why), alone => <<req[q].op, why>> \in Unchecked
  PROVE  AloneInv' /\ ChecksSuffice'
<1>1. /\ pc' = [pc EXCEPT ![q] = "idle"] /\ req' = [req EXCEPT ![q] = NoRequest]
      /\ alone' = alone
  BY DEF Fail
<1>2. AloneInv'
  BY <1>1, BusyAlone, IdleForeseen, AloneAfter
<1>3. errors' = errors \/ (alone /\ errors' = errors \cup { <<req[q].op, why>> })
  BY DEF Fail
<1>4. Unchecked' = Unchecked
  BY DEF Unchecked
<1> QED
  BY <1>2, <1>3, <1>4 DEF ChecksSuffice

---------------------------------------------------------------------------
\* The arrivals.

LEMMA CreateAlone ==
  ASSUME IInv, AloneInv, NEW q \in Requests,
         Create(q) \/ CreateTemplate(q) \/ DuplicateTemplate(q)
  PROVE  AloneInv' /\ errors' = errors
<1>1. CASE Create(q)
  <2>1. PICK s \in Scopes, c \in Codes, p \in Patches :
            /\ CodeFree(c, NoTemplate)
            /\ Arrive(q, IF p[1] = TRUE THEN "unset" ELSE "insert",
                      [NoRequest EXCEPT !.op = "create", !.scope = s, !.code = c,
                                        !.default = Or(p[1], FALSE), !.active = Or(p[2], TRUE)])
            /\ UNCHANGED <<rows, asked>>
    BY <1>1 DEF Create
  <2> DEFINE call == IF p[1] = TRUE THEN "unset" ELSE "insert"
             r == [NoRequest EXCEPT !.op = "create", !.scope = s, !.code = c,
                                    !.default = Or(p[1], FALSE), !.active = Or(p[2], TRUE)]
  <2>2. r.op = "create" /\ r.code = c /\ r.default = Or(p[1], FALSE)
    BY DEF NoRequest
  <2>3. call = "unset" \/ (call = "insert" /\ Or(p[1], FALSE) = FALSE)
    BY OrTypes DEF Or
  <2>4. \A o \in StoredIn(template) : template[o].code # c
    <3>1. NoTemplate \notin StoredIn(template)
      BY SoundTables, EventSetupAssumption
    <3> QED
      BY <2>1, <3>1 DEF CodeFree, StoredTemplates
  <2>5. Arrive(q, call, r)
    BY <2>1
  <2> HIDE DEF r, call
  <2>6. Operates(call, r)
    BY <2>2, <2>3, OpsByCall DEF Operates
  <2>7. Foreseen(call, r)
    BY <2>2, <2>3, <2>4 DEF Foreseen, ForeseenIn, InsertCalls, UpdateCalls, InRule, InSetting
  <2> QED
    BY <2>1, <2>5, <2>6, <2>7, ArrivesAlone
<1>2. CASE CreateTemplate(q) \/ DuplicateTemplate(q)
  <2>1. PICK r :
            r.op \in { "createTemplate", "duplicateTemplate" } /\ Arrive(q, "insert", r)
            /\ UNCHANGED <<rows, asked>>
    BY <1>2 DEF CreateTemplate, DuplicateTemplate, NoRequest
  <2>2. Operates("insert", r)
    BY <2>1, OpsByCall DEF Operates
  <2>3. Foreseen("insert", r)
    BY <2>1 DEF Foreseen, ForeseenIn, InsertCalls, UpdateCalls, InRule, InSetting
  <2> QED
    BY <2>1, <2>2, <2>3, ArrivesAlone
<1> QED
  BY <1>1, <1>2

LEMMA TemplateAlone ==
  ASSUME IInv, AloneInv, NEW q \in Requests,
         Update(q) \/ UpdateTemplate(q) \/ Remove(q) \/ DeleteTemplate(q) \/ GenerateBadge(q)
  PROVE  AloneInv' /\ errors' = errors
<1>a. StoredTemplates = StoredIn(template) /\ StoredTemplates \subseteq Templates
  BY SoundTables, StoredExist DEF IInv
<1>1. CASE Update(q)
  <2>1. PICK t \in StoredTemplates, p \in Patches :
            /\ Arrive(q, IF p[1] = TRUE /\ ~template[t].default THEN "unset" ELSE "write",
                      [NoRequest EXCEPT !.op = "update", !.template = t, !.scope = ScopeOf[t],
                                        !.default = p[1], !.active = p[2]])
            /\ UNCHANGED <<rows, asked>>
    BY <1>1 DEF Update
  <2> DEFINE call == IF p[1] = TRUE /\ ~template[t].default THEN "unset" ELSE "write"
             r == [NoRequest EXCEPT !.op = "update", !.template = t, !.scope = ScopeOf[t],
                                    !.default = p[1], !.active = p[2]]
  <2>2. /\ r.op = "update" /\ r.template = t /\ r.scope = ScopeOf[t]
        /\ r.default = p[1] /\ r.code = Undefined
    BY DEF NoRequest
  <2>3. call = "unset" \/ (call = "write" /\ (p[1] = TRUE => template[t].default))
    OBVIOUS
  <2>4. Arrive(q, call, r)
    BY <2>1
  <2> HIDE DEF r, call
  <2>5. Operates(call, r)
    BY <1>a, <2>2, <2>3, OpsByCall DEF Operates
  <2>6. Foreseen(call, r)
    BY <1>a, <2>2, <2>3 DEF Foreseen, ForeseenIn, InsertCalls, UpdateCalls, InRule, InSetting
  <2> QED
    BY <2>1, <2>4, <2>5, <2>6, ArrivesAlone
<1>2. ASSUME NEW call, NEW r, Arrive(q, call, r), UNCHANGED <<rows, asked>>,
             r.template \in StoredTemplates,
             \/ call = "write" /\ r.op = "updateTemplate"
             \/ call = "count" /\ r.op = "remove"
             \/ call = "delete" /\ r.op = "deleteTemplate"
      PROVE  AloneInv' /\ errors' = errors
  <2>1. Operates(call, r)
    BY <1>2, OpsByCall DEF Operates
  <2>2. Foreseen(call, r)
    BY <1>a, <1>2 DEF Foreseen, ForeseenIn, InsertCalls, UpdateCalls, InRule, InSetting
  <2> QED
    BY <1>2, <2>1, <2>2, ArrivesAlone
<1>3. CASE UpdateTemplate(q)
  <2>1. PICK r : /\ r.op = "updateTemplate" /\ r.template \in StoredTemplates
                 /\ Arrive(q, "write", r) /\ UNCHANGED <<rows, asked>>
    BY <1>3 DEF UpdateTemplate, NoRequest
  <2> QED
    BY <1>2, <2>1
<1>4. CASE Remove(q)
  <2>1. PICK r : /\ r.op = "remove" /\ r.template \in StoredTemplates
                 /\ Arrive(q, "count", r) /\ UNCHANGED <<rows, asked>>
    BY <1>4 DEF Remove, NoRequest
  <2> QED
    BY <1>2, <2>1
<1>5. CASE DeleteTemplate(q)
  <2>1. PICK r : /\ r.op = "deleteTemplate" /\ r.template \in StoredTemplates
                 /\ Arrive(q, "delete", r) /\ UNCHANGED <<rows, asked>>
    BY <1>5 DEF DeleteTemplate, NoRequest
  <2> QED
    BY <1>2, <2>1
<1>6. CASE GenerateBadge(q)
  <2>1. TemplatesForEvent \cup ({ setting } \ { NoTemplate }) \subseteq StoredTemplates
    BY TablesConsistent DEF TemplatesForEvent, IInv, TypeOK, Tables
  <2>2. PICK r : /\ r.op = "generateBadge" /\ r.template \in StoredTemplates
                 /\ Arrive(q, "badge", r) /\ UNCHANGED <<rows, asked>>
    BY <1>6, <2>1 DEF GenerateBadge, NoRequest
  <2>3. Operates("badge", r)
    BY <2>2, OpsByCall DEF Operates
  <2>4. Foreseen("badge", r)
    BY <1>a, <2>2 DEF Foreseen, ForeseenIn, InsertCalls, UpdateCalls, InRule, InSetting
  <2> QED
    BY <2>2, <2>3, <2>4, ArrivesAlone
<1> QED
  BY <1>1, <1>3, <1>4, <1>5, <1>6

LEMMA EventAlone ==
  ASSUME IInv, AloneInv, NEW q \in Requests,
         UpdateEvent(q) \/ CreateBadgeRule(q) \/ UpdateBadgeRule(q) \/ DeleteBadgeRule(q)
         \/ RemoveType(q)
  PROVE  AloneInv' /\ errors' = errors
<1>a. StoredTemplates = StoredIn(template) /\ StoredRules = StoredIn(rule)
  BY SoundTables
<1>1. CASE UpdateEvent(q)
  <2>1. PICK r : r.op = "updateEvent" /\ Arrive(q, "lock", r) /\ UNCHANGED <<rows, asked>>
    BY <1>1 DEF UpdateEvent, NoRequest
  <2>2. Operates("lock", r)
    BY <2>1, OpsByCall DEF Operates
  <2>3. Foreseen("lock", r)
    BY <2>1 DEF Foreseen, ForeseenIn, InsertCalls, UpdateCalls, InRule, InSetting
  <2> QED
    BY <2>1, <2>2, <2>3, ArrivesAlone
<1>2. CASE CreateBadgeRule(q)
  <2>1. PICK r : /\ r.op = "createBadgeRule" /\ r.template \in StoredTemplates
                 /\ Arrive(q, "types", r) /\ UNCHANGED <<rows, asked>>
    BY <1>2 DEF CreateBadgeRule, NoRequest
  <2>2. Operates("types", r)
    BY <2>1, OpsByCall DEF Operates, InsertCalls
  <2>3. Foreseen("types", r)
    BY <1>a, <2>1 DEF Foreseen, ForeseenIn, InsertCalls, UpdateCalls, InRule, InSetting
  <2> QED
    BY <2>1, <2>2, <2>3, ArrivesAlone
<1>3. CASE UpdateBadgeRule(q)
  <2>1. PICK r : /\ r.op = "updateBadgeRule" /\ r.rule \in StoredRules
                 /\ Arrive(q, "ruleTemplate", r) /\ UNCHANGED <<rows, asked>>
    BY <1>3 DEF UpdateBadgeRule, NoRequest
  <2>2. Operates("ruleTemplate", r)
    BY <2>1, OpsByCall DEF Operates, UpdateCalls
  <2>3. Foreseen("ruleTemplate", r)
    BY <1>a, <2>1 DEF Foreseen, ForeseenIn, InsertCalls, UpdateCalls, InRule, InSetting
  <2> QED
    BY <2>1, <2>2, <2>3, ArrivesAlone
<1>4. CASE DeleteBadgeRule(q)
  <2>1. PICK r : /\ r.op = "deleteBadgeRule" /\ r.rule \in StoredRules
                 /\ Arrive(q, "deleteRule", r) /\ UNCHANGED <<rows, asked>>
    BY <1>4 DEF DeleteBadgeRule, NoRequest
  <2>2. Operates("deleteRule", r)
    BY <2>1, OpsByCall DEF Operates
  <2>3. Foreseen("deleteRule", r)
    BY <1>a, <2>1 DEF Foreseen, ForeseenIn, InsertCalls, UpdateCalls, InRule, InSetting
  <2> QED
    BY <2>1, <2>2, <2>3, ArrivesAlone
<1>5. CASE RemoveType(q)
  <2>1. PICK r : /\ r.op = "removeType" /\ r.type \in types
                 /\ Arrive(q, "deleteType", r) /\ UNCHANGED <<rows, asked>>
    BY <1>5 DEF RemoveType, NoRequest
  <2>2. Operates("deleteType", r)
    BY <2>1, OpsByCall DEF Operates
  <2>3. Foreseen("deleteType", r)
    BY <2>1 DEF Foreseen, ForeseenIn, InsertCalls, UpdateCalls, InRule, InSetting
  <2> QED
    BY <2>1, <2>2, <2>3, ArrivesAlone
<1> QED
  BY <1>1, <1>2, <1>3, <1>4, <1>5

---------------------------------------------------------------------------
\* The calls that follow.

\* A check that hands the request on as it is, having found what the next call needs.
LEMMA PassesAlone ==
  ASSUME IInv, AloneInv, NEW q \in Requests, NEW call, pc[q] # "idle",
         Goto(q, call, req[q]), UNCHANGED <<rows, asked>>,
         req[q].op \in OpOf(call), alone => Foreseen(call, req[q])
  PROVE  AloneInv' /\ errors' = errors
<1>1. Operates(call, req[q])
  BY BusyAlone DEF Operates
<1> QED
  BY <1>1, GoesAlone

LEMMA ChecksAlone ==
  ASSUME IInv, AloneInv, NEW q \in Requests,
         CountUses(q) \/ CheckTypes(q) \/ CheckRuleTemplate(q) \/ CheckRuleTypes(q)
  PROVE  AloneInv' /\ errors' = errors
<1>a. pc[q] # "idle" => /\ req[q].op \in OpOf(pc[q])
                        /\ alone => Foreseen(pc[q], req[q])
  BY BusyAlone DEF Operates
<1>b. StoredTemplates = StoredIn(template)
  BY SoundTables
<1>c. End(q) /\ pc[q] # "idle" => AloneInv' /\ errors' = errors
  BY EndsAlone
<1>1. CASE CountUses(q)
  <2>1. pc[q] = "count" /\ req[q].op = "remove"
    BY <1>1, <1>a, OpsByCall DEF CountUses
  <2>2. CASE setting # req[q].template
    <3>1. alone => Foreseen("delete", req[q])
      BY <1>a, <2>1, <2>2 DEF Foreseen, ForeseenIn, InsertCalls, UpdateCalls, InRule, InSetting
    <3> QED
      BY <1>1, <2>1, <2>2, <3>1, OpsByCall, PassesAlone DEF CountUses
  <2> QED
    BY <1>1, <1>c, <2>1, <2>2 DEF CountUses
<1>2. CASE CheckTypes(q)
  <2>1. pc[q] = "types" /\ req[q].op = "createBadgeRule"
    BY <1>2, <1>a, OpsByCall DEF CheckTypes, InsertCalls
  <2>2. CASE req[q].types \subseteq types
    <3>1. PICK call \in { "priority", "insertRule" } :
              Goto(q, call, req[q]) /\ UNCHANGED <<rows, asked>>
      BY <1>2, <2>2 DEF CheckTypes
    <3>2. alone => Foreseen(call, req[q])
      BY <1>a, <2>1, <2>2 DEF Foreseen, ForeseenIn, InsertCalls, UpdateCalls, InRule, InSetting
    <3>3. req[q].op \in OpOf(call)
      BY <2>1, OpsByCall DEF InsertCalls
    <3> QED
      BY <2>1, <3>1, <3>2, <3>3, PassesAlone
  <2> QED
    BY <1>2, <1>c, <2>1, <2>2 DEF CheckTypes
<1>3. CASE CheckRuleTemplate(q)
  <2>1. pc[q] = "ruleTemplate" /\ req[q].op = "updateBadgeRule"
    BY <1>3, <1>a, OpsByCall DEF CheckRuleTemplate, UpdateCalls
  <2>2. CASE req[q].template \in StoredTemplates \cup { Undefined }
    <3>1. req[q].template \notin Templates \ StoredIn(template)
      BY <1>b, <2>2, EventSetupAssumption
    <3>2. alone => Foreseen("ruleTypes", req[q])
      BY <1>a, <2>1, <3>1 DEF Foreseen, ForeseenIn, InsertCalls, UpdateCalls, InRule, InSetting
    <3>3. req[q].op \in OpOf("ruleTypes")
      BY <2>1, OpsByCall DEF UpdateCalls
    <3>4. Goto(q, "ruleTypes", req[q]) /\ UNCHANGED <<rows, asked>>
      BY <1>3, <2>2 DEF CheckRuleTemplate
    <3> QED
      BY <2>1, <3>2, <3>3, <3>4, PassesAlone
  <2> QED
    BY <1>3, <1>c, <2>1, <2>2 DEF CheckRuleTemplate
<1>4. CASE CheckRuleTypes(q)
  <2>1. pc[q] = "ruleTypes" /\ req[q].op = "updateBadgeRule"
    BY <1>4, <1>a, OpsByCall DEF CheckRuleTypes, UpdateCalls
  <2>2. CASE Or(req[q].types, {}) \subseteq types
    <3>1. alone => Foreseen("ruleRow", req[q])
      BY <1>a, <2>1, <2>2 DEF Foreseen, ForeseenIn, InsertCalls, UpdateCalls, InRule, InSetting
    <3>2. req[q].op \in OpOf("ruleRow")
      BY <2>1, OpsByCall DEF UpdateCalls
    <3>3. Goto(q, "ruleRow", req[q]) /\ UNCHANGED <<rows, asked>>
      BY <1>4, <2>2 DEF CheckRuleTypes
    <3> QED
      BY <2>1, <3>1, <3>2, <3>3, PassesAlone
  <2> QED
    BY <1>4, <1>c, <2>1, <2>2 DEF CheckRuleTypes
<1> QED
  BY <1>1, <1>2, <1>3, <1>4

LEMMA TransactionsAlone ==
  ASSUME IInv, AloneInv, NEW q \in Requests,
         LockEvent(q) \/ CheckAssigned(q) \/ SetSetting(q) \/ UpdateRule(q)
  PROVE  AloneInv' /\ errors' = errors
<1>a. pc[q] # "idle" => /\ req[q].op \in OpOf(pc[q])
                        /\ alone => Foreseen(pc[q], req[q])
  BY BusyAlone DEF Operates
<1>b. StoredTemplates = StoredIn(template)
  BY SoundTables
<1>c. End(q) /\ pc[q] # "idle" => AloneInv' /\ errors' = errors
  BY EndsAlone
<1>1. CASE LockEvent(q)
  <2>1. pc[q] = "lock" /\ req[q].op = "updateEvent"
    BY <1>1, <1>a, OpsByCall DEF LockEvent
  <2>2. PICK call \in { "template", "setting" } :
            /\ Goto(q, call, req[q]) /\ UNCHANGED <<rows, asked>>
            /\ call = "setting" => req[q].template \notin Templates
    BY <1>1 DEF LockEvent
  <2>3. alone => Foreseen(call, req[q])
    BY <1>a, <2>1, <2>2 DEF Foreseen, ForeseenIn, InsertCalls, UpdateCalls, InRule, InSetting
  <2>4. req[q].op \in OpOf(call)
    BY <2>1, OpsByCall DEF InEvent
  <2> QED
    BY <2>1, <2>2, <2>3, <2>4, PassesAlone
<1>2. CASE CheckAssigned(q)
  <2>1. pc[q] = "template" /\ req[q].op = "updateEvent"
    BY <1>2, <1>a, OpsByCall DEF CheckAssigned, InEvent
  <2>2. CASE req[q].template \in StoredTemplates /\ template[req[q].template].active
    <3>1. alone => Foreseen("setting", req[q])
      BY <1>a, <1>b, <2>1, <2>2
      DEF Foreseen, ForeseenIn, InsertCalls, UpdateCalls, InRule, InSetting
    <3>2. req[q].op \in OpOf("setting")
      BY <2>1, OpsByCall DEF InEvent
    <3>3. Goto(q, "setting", req[q]) /\ UNCHANGED <<rows, asked>>
      BY <1>2, <2>2 DEF CheckAssigned
    <3> QED
      BY <2>1, <3>1, <3>2, <3>3, PassesAlone
  <2> QED
    BY <1>2, <1>c, <2>1, <2>2 DEF CheckAssigned
<1>3. CASE SetSetting(q)
  <2>1. pc[q] = "setting" /\ req[q].op = "updateEvent"
    BY <1>3, <1>a, OpsByCall DEF SetSetting, InEvent
  <2>2. PICK call \in { "leave", "assign" } : Goto(q, call, req[q]) /\ UNCHANGED <<rows, asked>>
    BY <1>3 DEF SetSetting
  <2>3. alone => Foreseen(call, req[q])
    BY <1>a, <2>1 DEF Foreseen, ForeseenIn, InsertCalls, UpdateCalls, InRule, InSetting
  <2>4. req[q].op \in OpOf(call)
    BY <2>1, OpsByCall DEF InEvent
  <2> QED
    BY <2>1, <2>2, <2>3, <2>4, PassesAlone
<1>4. CASE UpdateRule(q)
  <2>1. pc[q] = "ruleRow" /\ req[q].op = "updateBadgeRule"
    BY <1>4, <1>a, OpsByCall DEF UpdateRule, UpdateCalls
  <2>2. PICK call \in { "unlink", "link" } :
            /\ Goto(q, call, req[q]) /\ UNCHANGED <<rows, asked>>
            /\ call = "link" => req[q].types = Undefined
    BY <1>4 DEF UpdateRule
  <2>3. alone => Foreseen(call, req[q])
    BY <1>a, <2>1, <2>2 DEF Foreseen, ForeseenIn, InsertCalls, UpdateCalls, InRule, InSetting
  <2>4. req[q].op \in OpOf(call)
    BY <2>1, OpsByCall DEF UpdateCalls, InRule
  <2> QED
    BY <2>1, <2>2, <2>3, <2>4, PassesAlone
<1> QED
  BY <1>1, <1>2, <1>3, <1>4

\* The calls that keep something for the next one in the request.
LEMMA CarriesAlone ==
  ASSUME IInv, AloneInv, NEW q \in Requests, NextPriority(q) \/ Leave(q) \/ Unlink(q)
  PROVE  AloneInv' /\ errors' = errors
<1>a. pc[q] # "idle" => /\ req[q].op \in OpOf(pc[q])
                        /\ alone => Foreseen(pc[q], req[q])
  BY BusyAlone DEF Operates
<1>b. req[q] \in Request
  BY Knows
<1>1. CASE NextPriority(q)
  <2>1. PICK n : Goto(q, "insertRule", [req[q] EXCEPT !.priority = n])
    BY <1>1 DEF NextPriority
  <2> DEFINE r == [req[q] EXCEPT !.priority = n]
  <2>2. pc[q] = "priority" /\ req[q].op = "createBadgeRule" /\ UNCHANGED <<rows, asked>>
    BY <1>1, <1>a, OpsByCall DEF NextPriority, InsertCalls
  <2>3. r.op = req[q].op /\ r.template = req[q].template /\ r.types = req[q].types
    BY <1>b DEF Request
  <2>4. Goto(q, "insertRule", r)
    BY <2>1
  <2> HIDE DEF r
  <2>5. alone => Foreseen("insertRule", r)
    BY <1>a, <2>2, <2>3 DEF Foreseen, ForeseenIn, InsertCalls, UpdateCalls, InRule, InSetting
  <2>6. Operates("insertRule", r)
    BY <2>2, <2>3, OpsByCall DEF Operates, InsertCalls
  <2> QED
    BY <2>2, <2>4, <2>5, <2>6, GoesAlone
<1>2. CASE Leave(q)
  <2> DEFINE r == [req[q] EXCEPT !.left = users]
  <2>1. PICK call \in { "assign", "leaving" } : Goto(q, call, r)
    BY <1>2 DEF Leave
  <2>2. pc[q] = "leave" /\ req[q].op = "updateEvent" /\ UNCHANGED <<rows, asked>>
    BY <1>2, <1>a, OpsByCall DEF Leave, InEvent
  <2>3. r.op = req[q].op /\ r.template = req[q].template
    BY <1>b DEF Request
  <2> HIDE DEF r
  <2>4. alone => Foreseen(call, r)
    BY <1>a, <2>2, <2>3 DEF Foreseen, ForeseenIn, InsertCalls, UpdateCalls, InRule, InSetting
  <2>5. Operates(call, r)
    BY <2>2, <2>3, OpsByCall DEF Operates, InEvent
  <2> QED
    BY <2>1, <2>2, <2>4, <2>5, GoesAlone
<1>3. CASE Unlink(q)
  <2> DEFINE r == [req[q] EXCEPT !.gone = rule[req[q].rule].types]
  <2>1. PICK call \in { "link", "unlinking" } :
            /\ Goto(q, call, r)
            /\ call = "unlinking" => \E o \in Requests : Deleted(o, req[q].rule) # {}
    BY <1>3 DEF Unlink
  <2>2. pc[q] = "unlink" /\ req[q].op = "updateBadgeRule" /\ UNCHANGED <<rows, asked>>
    BY <1>3, <1>a, OpsByCall DEF Unlink, UpdateCalls, InRule
  <2>3. /\ r.op = req[q].op /\ r.template = req[q].template
        /\ r.rule = req[q].rule /\ r.types = req[q].types
        /\ r.gone = rule[req[q].rule].types
    BY <1>b DEF Request
  <2> HIDE DEF r
  <2>a. alone => call = "link"
    BY <2>1, <2>2, BusyAlone DEF Deleted
  <2>4. alone => Foreseen(call, r)
    BY <1>a, <2>a, <2>2, <2>3
    DEF Foreseen, ForeseenIn, InsertCalls, UpdateCalls, InRule, InSetting
  <2>5. Operates(call, r)
    BY <2>2, <2>3, OpsByCall DEF Operates, UpdateCalls, InRule
  <2> QED
    BY <2>1, <2>2, <2>4, <2>5, GoesAlone
<1> QED
  BY <1>1, <1>2, <1>3

\* Alone, nothing has to be waited for.
LEMMA WaitsNotAlone ==
  ASSUME IInv, AloneInv, NEW q \in Requests, DeleteTypeWaits(q) \/ Left(q) \/ Unlinked(q)
  PROVE  AloneInv' /\ errors' = errors
<1>a. pc[q] # "idle" => /\ req[q].op \in OpOf(pc[q])
                        /\ alone => Foreseen(pc[q], req[q])
  BY BusyAlone DEF Operates
<1>1. CASE DeleteTypeWaits(q)
  <2>1. pc[q] = "deleteType" /\ TypeLinked(req[q].type)
        /\ Goto(q, "cascade", req[q]) /\ UNCHANGED <<rows, asked>>
    BY <1>1 DEF DeleteTypeWaits
  <2>2. ~alone
    BY <2>1, BusyAlone DEF TypeLinked
  <2>3. req[q].op \in OpOf("cascade")
    BY <1>a, <2>1, OpsByCall
  <2> QED
    BY <2>1, <2>2, <2>3, PassesAlone
<1>2. CASE Left(q)
  <2>1. pc[q] = "leaving" /\ Goto(q, "assign", req[q]) /\ UNCHANGED <<rows, asked>>
    BY <1>2 DEF Left
  <2>2. req[q].op = "updateEvent"
    BY <1>a, <2>1, OpsByCall DEF InEvent
  <2>3. alone => Foreseen("assign", req[q])
    BY <1>a, <2>1, <2>2 DEF Foreseen, ForeseenIn, InsertCalls, UpdateCalls, InRule, InSetting
  <2>4. req[q].op \in OpOf("assign")
    BY <2>2, OpsByCall DEF InEvent
  <2> QED
    BY <2>1, <2>3, <2>4, PassesAlone
<1>3. CASE Unlinked(q)
  <2>1. pc[q] = "unlinking" /\ Goto(q, "link", req[q]) /\ UNCHANGED <<rows, asked>>
    BY <1>3 DEF Unlinked
  <2>2. ~alone
    BY <1>a, <2>1 DEF Foreseen, ForeseenIn
  <2>3. req[q].op \in OpOf("link")
    BY <1>a, <2>1, OpsByCall DEF UpdateCalls, InRule
  <2> QED
    BY <2>1, <2>2, <2>3, PassesAlone
<1> QED
  BY <1>1, <1>2, <1>3

\* The default marks that other templates lose before one gets it.
LEMMA UnsetAlone ==
  ASSUME IInv, AloneInv, NEW q \in Requests, UnsetDefaults(q)
  PROVE  AloneInv' /\ errors' = errors
<1> DEFINE call == IF req[q].op = "create" THEN "insert" ELSE "write"
<1>1. /\ pc[q] = "unset" /\ Goto(q, call, req[q])
      /\ template' = [t \in Templates |->
             IF t \in InScope(req[q].scope)
             THEN [template[t] EXCEPT !.default = FALSE] ELSE template[t]]
      /\ rule' = rule /\ types' = types /\ setting' = setting
  BY DEF UnsetDefaults
<1>2. /\ Operates("unset", req[q])
      /\ alone => /\ ForeseenIn("unset", req[q], template, rule, types, setting)
                  /\ \A p \in Requests : p # q => pc[p] = "idle"
  BY <1>1, BusyAlone DEF Foreseen
<1>3. \/ req[q].op = "create" /\ call = "insert"
      \/ req[q].op = "update" /\ call = "write"
  BY <1>2, OpsByCall DEF Operates
<1> HIDE DEF call
<1>4. template \in [Templates -> TemplateRow]
  BY SoundTables DEF Sound
<1>5. \A t \in Templates : /\ template'[t].state = template[t].state
                           /\ template'[t].code = template[t].code
                           /\ t \in InScope(req[q].scope) => template'[t].default = FALSE
  <2> SUFFICES ASSUME NEW t \in Templates
               PROVE  /\ template'[t].state = template[t].state
                      /\ template'[t].code = template[t].code
                      /\ t \in InScope(req[q].scope) => template'[t].default = FALSE
    OBVIOUS
  <2> DEFINE row == template[t]
             unset == [row EXCEPT !.default = FALSE]
  <2>1. row \in TemplateRow
    BY <1>4
  <2>2. unset.state = row.state /\ unset.code = row.code /\ unset.default = FALSE
    BY <2>1 DEF TemplateRow
  <2>3. template'[t] = IF t \in InScope(req[q].scope) THEN unset ELSE row
    BY <1>1
  <2> HIDE DEF row, unset
  <2>4. row = template[t]
    BY DEF row
  <2> QED
    BY <2>2, <2>3, <2>4
<1>6. StoredIn(template') = StoredIn(template) /\ StoredIn(template) \subseteq Templates
  BY <1>1, <1>4, <1>5 DEF StoredIn
<1>7. NoDefaultIn(req[q].scope, template')
  BY <1>5, <1>6 DEF NoDefaultIn, InScope, StoredTemplates
<1>8. Operates(call, req[q])
  BY <1>2, <1>3, OpsByCall DEF Operates
<1>9. alone => ForeseenIn(call, req[q], template', rule', types', setting')
  BY <1>1, <1>2, <1>3, <1>5, <1>6, <1>7 DEF ForeseenIn, InsertCalls, UpdateCalls, InRule, InSetting
<1>10. /\ pc' = [pc EXCEPT ![q] = call] /\ req' = [req EXCEPT ![q] = req[q]]
       /\ errors' = errors /\ alone' = alone
  BY <1>1 DEF Goto
<1> QED
  BY <1>2, <1>8, <1>9, <1>10, AloneAfter

\* A step that ends the request of q, and may settle others.
LEMMA SettlesAlone ==
  ASSUME IInv, AloneInv, NEW q \in Requests, pc[q] # "idle", Settled(q), alone' = alone
  PROVE  AloneInv'
<1>1. AllOperate'
  <2> SUFFICES ASSUME NEW p \in Requests PROVE Operates(pc'[p], req'[p])
    BY DEF AllOperate, Operates
  <2>1. CASE p = q
    BY <2>1, IdleForeseen DEF Settled
  <2>2. CASE p # q
    <3>1. Operates(pc[p], req[p]) /\ pc'[p] = pc[p] /\ Kept(pc[p], req[p], req'[p])
      BY <2>2 DEF AloneInv, AllOperate, Settled
    <3> QED
      BY <3>1 DEF Kept, Operates
  <2> QED
    BY <2>1, <2>2
<1>2. ASSUME alone' PROVE OneBusy' /\ AllForeseen'
  <2>1. \A p \in Requests : p # q => pc[p] = "idle" /\ req[p] = NoRequest
    BY <1>2, BusyAlone, Knows DEF Shape
  <2>2. \A p \in Requests : pc'[p] = "idle" /\ req'[p] = NoRequest
    BY <2>1 DEF Settled, Kept, Replacing
  <2>3. \A p \in Requests :
            ForeseenIn(pc'[p], req'[p], template', rule', types', setting')
    BY <2>2, IdleForeseen
  <2> QED
    BY <2>2, <2>3 DEF OneBusy, AllForeseen, Foreseen
<1> QED
  BY <1>1, <1>2 DEF AloneInv

\* The writes, and what ends a request without a rejection.
LEMMA WritesAlone ==
  ASSUME IInv, AloneInv, NEW q \in Requests,
         \/ Insert(q) \/ Write(q) \/ Delete(q) \/ Assign(q) \/ InsertRule(q) \/ Link(q)
         \/ DeleteRule(q) \/ DeleteType(q) \/ WriteBadge(q) \/ Abort(q)
  PROVE  AloneInv' /\ errors' = errors
<1>1. CASE Assign(q) \/ Link(q)
  <2>1. Settled(q)
    BY <1>1, AssignSettles, LinkSettles
  <2>2. pc[q] # "idle" /\ alone' = alone /\ errors' = errors
    BY <1>1 DEF Assign, Link
  <2> QED
    BY <2>1, <2>2, SettlesAlone
<1>2. CASE ~(Assign(q) \/ Link(q))
  <2>1. pc[q] # "idle" /\ End(q)
    BY <1>2 DEF Insert, Write, Delete, InsertRule, DeleteRule, DeleteType, WriteBadge, Abort
  <2> QED
    BY <2>1, EndsAlone
<1> QED
  BY <1>1, <1>2

---------------------------------------------------------------------------
\* The rejections.

LEMMA TemplateRejections ==
  ASSUME IInv, AloneInv, ChecksSuffice, NEW q \in Requests,
         InsertFails(q) \/ WriteFails(q) \/ DeleteFails(q) \/ SetSettingFails(q)
         \/ WriteBadgeFails(q)
  PROVE  AloneInv' /\ ChecksSuffice'
<1>a. pc[q] # "idle" => /\ Operates(pc[q], req[q])
                        /\ alone => Foreseen(pc[q], req[q])
  BY BusyAlone
<1>b. StoredTemplates = StoredIn(template)
  BY SoundTables
<1>1. CASE InsertFails(q)
  <2>1. pc[q] = "insert" /\ ~CodeFree(req[q].code, NoTemplate) /\ Fail(q, "code")
    BY <1>1 DEF InsertFails
  <2>2. alone => req[q].op # "create"
    BY <1>a, <1>b, <2>1 DEF CodeFree, Foreseen, ForeseenIn
  <2>3. alone => <<req[q].op, "code">> \in Unchecked
    BY <1>a, <2>1, <2>2, OpsByCall DEF Operates, Unchecked
  <2> QED
    BY <2>1, <2>3, FailsAlone
<1>2. CASE WriteFails(q)
  <2>1. pc[q] = "write" /\ WriteRejected(q) # "no" /\ Fail(q, WriteRejected(q))
    BY <1>2 DEF WriteFails
  <2>2. alone => WriteRejected(q) = "code" /\ req[q].code \in Codes
    BY <1>a, <1>b, <2>1 DEF WriteRejected, Foreseen, ForeseenIn
  <2>3. alone => req[q].op = "updateTemplate"
    BY <1>a, <2>1, <2>2, OpsByCall, EventSetupAssumption DEF Operates
  <2>4. alone => <<req[q].op, WriteRejected(q)>> \in Unchecked
    BY <2>2, <2>3 DEF Unchecked
  <2> QED
    BY <2>1, <2>4, FailsAlone
<1>3. CASE DeleteFails(q)
  <2>1. pc[q] = "delete" /\ DeleteRejected(q) # "no" /\ Fail(q, DeleteRejected(q))
    BY <1>3 DEF DeleteFails
  <2>2. alone => \/ DeleteRejected(q) = "badge"
                 \/ DeleteRejected(q) = "setting" /\ req[q].op # "remove"
    BY <1>a, <1>b, <2>1 DEF DeleteRejected, Foreseen, ForeseenIn
  <2>3. alone => <<req[q].op, DeleteRejected(q)>> \in Unchecked
    BY <1>a, <2>1, <2>2, OpsByCall DEF Operates, Unchecked
  <2> QED
    BY <2>1, <2>3, FailsAlone
<1>4. CASE SetSettingFails(q)
  <2>1. pc[q] = "setting" /\ req[q].template \in Templates \ StoredTemplates
        /\ Fail(q, "template")
    BY <1>4 DEF SetSettingFails, AssignRejected
  <2>2. ~alone
    BY <1>a, <1>b, <2>1 DEF Foreseen, ForeseenIn
  <2> QED
    BY <2>1, <2>2, FailsAlone
<1>5. CASE WriteBadgeFails(q)
  <2>1. pc[q] = "badge" /\ req[q].template \notin StoredTemplates /\ Fail(q, "template")
    BY <1>5 DEF WriteBadgeFails
  <2>2. ~alone
    BY <1>a, <1>b, <2>1 DEF Foreseen, ForeseenIn
  <2> QED
    BY <2>1, <2>2, FailsAlone
<1> QED
  BY <1>1, <1>2, <1>3, <1>4, <1>5

LEMMA RuleRejections ==
  ASSUME IInv, AloneInv, ChecksSuffice, NEW q \in Requests,
         InsertRuleFails(q) \/ UpdateRuleFails(q) \/ LinkFails(q) \/ DeleteRuleFails(q)
         \/ DeleteTypeFails(q) \/ Victim(q)
  PROVE  AloneInv' /\ ChecksSuffice'
<1>a. \A p \in Requests : pc[p] # "idle" => /\ Operates(pc[p], req[p])
                                            /\ alone => Foreseen(pc[p], req[p])
  BY BusyAlone
<1>b. StoredTemplates = StoredIn(template) /\ StoredRules = StoredIn(rule)
  BY SoundTables
<1>1. CASE InsertRuleFails(q)
  <2>1. pc[q] = "insertRule" /\ InsertRuleRejected(q) # "no" /\ Fail(q, InsertRuleRejected(q))
    BY <1>1 DEF InsertRuleFails
  <2>2. alone => InsertRuleRejected(q) = "priority"
    BY <1>a, <1>b, <2>1 DEF InsertRuleRejected, Foreseen, ForeseenIn, InsertCalls
  <2>3. req[q].op = "createBadgeRule"
    BY <1>a, <2>1, OpsByCall DEF Operates, InsertCalls
  <2>4. alone => <<req[q].op, InsertRuleRejected(q)>> \in Unchecked
    BY <2>2, <2>3 DEF Unchecked
  <2> QED
    BY <2>1, <2>4, FailsAlone
<1>2. CASE UpdateRuleFails(q)
  <2>1. pc[q] = "ruleRow" /\ UpdateRuleRejected(q) # "no" /\ Fail(q, UpdateRuleRejected(q))
    BY <1>2 DEF UpdateRuleFails
  <2>2. alone => UpdateRuleRejected(q) = "priority"
    BY <1>a, <1>b, <2>1 DEF UpdateRuleRejected, Foreseen, ForeseenIn, UpdateCalls
  <2>3. req[q].op = "updateBadgeRule"
    BY <1>a, <2>1, OpsByCall DEF Operates, UpdateCalls
  <2>4. alone => <<req[q].op, UpdateRuleRejected(q)>> \in Unchecked
    BY <2>2, <2>3 DEF Unchecked
  <2> QED
    BY <2>1, <2>4, FailsAlone
<1>3. CASE LinkFails(q)
  <2>1. pc[q] = "link" /\ LinkRejected(q) # "no" /\ Fail(q, LinkRejected(q))
    BY <1>3 DEF LinkFails
  <2>2. alone => /\ req[q].rule \in StoredRules /\ Or(req[q].types, {}) \subseteq types
                 /\ req[q].types # Undefined => rule[req[q].rule].types \subseteq req[q].gone
    BY <1>a, <1>b, <2>1 DEF Foreseen, ForeseenIn, UpdateCalls, InRule
  <2>3. alone => Or(req[q].types, {}) \cap (rule[req[q].rule].types \ req[q].gone) = {}
    BY <2>2 DEF Or
  <2>4. ~alone
    BY <2>1, <2>2, <2>3 DEF LinkRejected
  <2> QED
    BY <2>1, <2>4, FailsAlone
<1>4. CASE DeleteRuleFails(q)
  <2>1. pc[q] = "deleteRule" /\ req[q].rule \notin StoredRules /\ Fail(q, "rule")
    BY <1>4 DEF DeleteRuleFails
  <2>2. ~alone
    BY <1>a, <1>b, <2>1 DEF Foreseen, ForeseenIn
  <2> QED
    BY <2>1, <2>2, FailsAlone
<1>5. CASE DeleteTypeFails(q)
  <2>1. pc[q] = "deleteType" /\ req[q].type \notin types /\ Fail(q, "type")
    BY <1>5 DEF DeleteTypeFails
  <2>2. ~alone
    BY <1>a, <2>1 DEF Foreseen, ForeseenIn
  <2> QED
    BY <2>1, <2>2, FailsAlone
<1>6. CASE Victim(q)
  <2>1. PICK o \in Requests : (Waits(q, o) /\ o # q) \/ DeletesUnder(q, o) \/ DeletesUnder(o, q)
    BY <1>6 DEF Victim, Deadlocked
  <2>2. pc[q] # "idle" /\ pc[o] # "idle" /\ q # o
    BY <2>1 DEF Waits, Deleted, HoldsRule, DeletesUnder
  <2>3. ~alone
    BY <2>2, BusyAlone
  <2>4. Fail(q, "deadlock")
    BY <1>6 DEF Victim
  <2> QED
    BY <2>2, <2>3, <2>4, FailsAlone
<1> QED
  BY <1>1, <1>2, <1>3, <1>4, <1>5, <1>6

LEMMA InitAlone == Init => AloneInv /\ ChecksSuffice
<1> SUFFICES ASSUME Init PROVE AloneInv /\ ChecksSuffice
  OBVIOUS
<1>1. \A p \in Requests : pc[p] = "idle" /\ req[p] = NoRequest
  BY DEF Init
<1>2. AllOperate /\ AllForeseen /\ OneBusy
  BY <1>1, IdleForeseen DEF AllOperate, AllForeseen, Foreseen, OneBusy
<1> QED
  BY <1>2 DEF AloneInv, ChecksSuffice, Init

LEMMA StepAlone == IInv /\ AloneInv /\ ChecksSuffice /\ [Next]_vars => AloneInv' /\ ChecksSuffice'
<1> SUFFICES ASSUME IInv, AloneInv, ChecksSuffice, [Next]_vars
             PROVE  AloneInv' /\ ChecksSuffice'
  OBVIOUS
<1>a. ASSUME AloneInv' /\ errors' = errors PROVE AloneInv' /\ ChecksSuffice'
  BY <1>a DEF ChecksSuffice, Unchecked
<1>1. CASE Next
  <2>1. PICK q \in Requests : Begin(q) \/ Proceed(q) \/ Abort(q)
    BY <1>1 DEF Next
  <2>2. CASE Begin(q)
    BY <1>a, <2>2, CreateAlone, TemplateAlone, EventAlone DEF Begin
  <2>3. CASE Proceed(q)
    BY <1>a, <2>3, ChecksAlone, TransactionsAlone, CarriesAlone, WaitsNotAlone, UnsetAlone,
       WritesAlone, TemplateRejections, RuleRejections DEF Proceed
  <2>4. CASE Abort(q)
    BY <1>a, <2>4, WritesAlone
  <2> QED
    BY <2>1, <2>2, <2>3, <2>4
<1>2. CASE UNCHANGED vars
  BY <1>2 DEF vars, AloneInv, AllOperate, OneBusy, AllForeseen, Foreseen, ChecksSuffice, Unchecked
<1> QED
  BY <1>1, <1>2

LEMMA InvAlone == Spec => [](AloneInv /\ ChecksSuffice)
  BY InitAlone, StepAlone, Inv, PTL DEF Spec

\* A request that runs alone is never rejected by the database for a reason that
\* its handler looks for: what its checks have found still holds when it writes.
\* What is left are the rejections of Unchecked, which no check foresees.
\* (BadgeTemplatesService, EventsService, AttendeeTypesService.remove)
THEOREM RejectionsForeseen == Spec => []ChecksSuffice
  BY InvAlone, PTL

---------------------------------------------------------------------------
\* Only Insert and Write give a template the mark of the default.
LEMMA MarkGiven ==
  ASSUME IInv, NEW q \in Requests, Begin(q) \/ Proceed(q) \/ Abort(q),
         NEW t \in Templates, template'[t].default, ~template[t].default
  PROVE  Insert(q) \/ Write(q)
<1>a. template \in [Templates -> TemplateRow]
  BY SoundTables DEF Sound
<1>1. template' # template
  OBVIOUS
<1>2. ~Begin(q)
  BY <1>1 DEF Begin, Create, CreateTemplate, DuplicateTemplate, Update, UpdateTemplate, Remove,
     DeleteTemplate, UpdateEvent, CreateBadgeRule, UpdateBadgeRule, DeleteBadgeRule,
     RemoveType, GenerateBadge, rows
<1>3. ~Abort(q)
  BY <1>1 DEF Abort, rows
<1>4. UnsetDefaults(q) \/ Insert(q) \/ Write(q) \/ Delete(q)
  BY <1>1, <1>2, <1>3 DEF Proceed, InsertFails, WriteFails,
     CountUses, DeleteFails, LockEvent, CheckAssigned, SetSetting, SetSettingFails,
     Leave, Left, Assign, CheckTypes, NextPriority, InsertRule, InsertRuleFails,
     CheckRuleTemplate, CheckRuleTypes, UpdateRule, UpdateRuleFails, Unlink, Unlinked, Link,
     LinkFails,
     DeleteRule, DeleteRuleFails, DeleteType, DeleteTypeWaits, DeleteTypeFails, Victim,
     WriteBadge, WriteBadgeFails, Fail, rows
<1>5. ~Delete(q)
  <2> SUFFICES ASSUME Delete(q) PROVE FALSE
    OBVIOUS
  <2>1. template'[t] = DeletedTemplate \/ template'[t] = template[t]
    BY <1>a DEF Delete
  <2> QED
    BY <2>1 DEF DeletedTemplate
<1>6. ~UnsetDefaults(q)
  <2> SUFFICES ASSUME UnsetDefaults(q) PROVE FALSE
    OBVIOUS
  <2> DEFINE row == template[t]
             unset == [row EXCEPT !.default = FALSE]
  <2>1. unset.default = FALSE
    BY <1>a DEF TemplateRow
  <2>2. template'[t] = unset \/ template'[t] = row
    BY DEF UnsetDefaults
  <2> QED
    BY <2>1, <2>2
<1> QED
  BY <1>4, <1>5, <1>6

\* A template that BadgeTemplatesService makes the default while requests do not
\* overlap is then the only default of its scope.  (create, update)
THEOREM DefaultIsReplaced == Spec => DefaultReplaces
<1> DEFINE Step(q, t) ==
      (/\ alone
       /\ req[q].op \in { "create", "update" }
       /\ template'[t].default /\ ~template[t].default)
      => \A o \in StoredTemplates \ { t } :
            template'[o].default => ScopeOf[o] # ScopeOf[t]
<1>1. ASSUME IInv, AloneInv, Next, NEW q \in Requests, NEW t \in Templates PROVE Step(q, t)
  <2> SUFFICES ASSUME alone, req[q].op \in { "create", "update" },
                      template'[t].default, ~template[t].default,
                      NEW o \in StoredTemplates \ { t }, template'[o].default,
                      ScopeOf[o] = ScopeOf[t]
               PROVE  FALSE
    OBVIOUS
  <2>a. template \in [Templates -> TemplateRow] /\ StoredTemplates = StoredIn(template)
        /\ o \in Templates
    BY <1>1, SoundTables DEF Sound
  <2>1. PICK p \in Requests : Insert(p) \/ Write(p)
    BY <1>1, MarkGiven DEF Next
  <2>2. pc[q] # "idle"
    BY <1>1, Knows DEF Shape, NoRequest
  <2>3. p = q
    BY <1>1, <2>1, <2>2, BusyAlone DEF Insert, Write
  <2>4. Operates(pc[q], req[q]) /\ Foreseen(pc[q], req[q])
    BY <1>1, <2>2, BusyAlone
  <2>5. CASE Insert(q)
    <3>1. pc[q] = "insert" /\ req[q].op = "create"
      BY <2>4, <2>5, OpsByCall DEF Insert, Operates
    <3>2. PICK n \in Templates : /\ template[n].state = "unmade" /\ ScopeOf[n] = req[q].scope
                                 /\ template' = [template EXCEPT ![n] =
                                       [state |-> "stored", code |-> req[q].code,
                                        active |-> req[q].active, default |-> req[q].default]]
      BY <2>5 DEF Insert
    <3>3. t = n /\ req[q].default
      BY <2>a, <3>2
    <3>4. template[o].default /\ ScopeOf[o] = req[q].scope
      BY <2>a, <3>2, <3>3
    <3>5. NoDefaultIn(req[q].scope, template)
      BY <2>4, <3>1, <3>3 DEF Foreseen, ForeseenIn
    <3> QED
      BY <2>a, <3>4, <3>5 DEF NoDefaultIn
  <2>6. CASE Write(q)
    <3>1. pc[q] = "write" /\ req[q].op = "update" /\ req[q].scope = ScopeOf[req[q].template]
      BY <2>4, <2>6, OpsByCall DEF Write, Operates
    <3>2. /\ t = req[q].template
          /\ template'[t].default = Or(req[q].default, template[t].default)
          /\ template'[o] = template[o]
      <4> DEFINE u == req[q].template
                 row == [state |-> "stored", code |-> Or(req[q].code, template[u].code),
                         active |-> Or(req[q].active, template[u].active),
                         default |-> Or(req[q].default, template[u].default)]
      <4>1. template' = [template EXCEPT ![u] = row]
        BY <2>6 DEF Write
      <4>2. row.default = Or(req[q].default, template[u].default)
        OBVIOUS
      <4> HIDE DEF row
      <4>3. t = u /\ template'[t] = row
        BY <2>a, <4>1
      <4>4. template'[o] = template[o]
        BY <2>a, <4>1, <4>3
      <4> QED
        BY <4>2, <4>3, <4>4
    <3>3. req[q].default = TRUE
      BY <1>1, <3>2, Knows DEF Or, Request, Flag
    <3>4. NoDefaultIn(req[q].scope, template)
      BY <2>4, <3>1, <3>2, <3>3 DEF Foreseen, ForeseenIn
    <3> QED
      BY <2>a, <3>1, <3>2, <3>4 DEF NoDefaultIn
  <2> QED
    BY <2>1, <2>3, <2>5, <2>6
<1>2. IInv /\ AloneInv /\ [Next]_vars =>
         [\A q \in Requests, t \in Templates : Step(q, t)]_vars
  BY <1>1
<1> QED
  BY <1>2, Inv, InvAlone, PTL DEF Spec, DefaultReplaces

=============================================================================
