------------------------------ MODULE EventSetup ------------------------------
(***************************************************************************)
(* How one event is set up, and with what: the badge templates of its      *)
(* organisation and their default, the template assigned in its settings,  *)
(* the users it is assigned to, its badge rules with their priorities and  *)
(* attendee types, and the badges that refer to templates.  Two services   *)
(* write the table of templates, BadgeTemplatesService and BadgesService.  *)
(* Most handlers check first and write later, each call on its own; those  *)
(* of EventsService that run in a transaction show what they write when    *)
(* they commit, and lock the rows they update until then; an update with   *)
(* no column to write is a SELECT for Prisma and locks nothing.  The event *)
(* itself stays; of its own columns only whether a request writes one is   *)
(* kept, what they make an update refuse changes nothing.  Ids are never   *)
(* used again.                                                             *)
(***************************************************************************)
EXTENDS Integers, FiniteSets

CONSTANTS
    Requests,      \* slots for requests in flight at the same time
    Templates,     \* rows of badge_templates, each made once
    Rules,         \* rows of event_badge_rules, each made once
    Types,         \* attendee types of the organisation
    Users,         \* users an event may be assigned to
    Registrations, \* registrations of the event that may get a badge
    Codes,         \* codes of templates
    Scopes,        \* event_id of a template: the event or none, for all events
    ScopeOf,       \* the scope of each template, which never changes
    Priorities,    \* priorities that a client asks for
    Patches,       \* pairs of is_default and is_active that clients send
    NoTemplate,    \* null in place of a template
    Undefined,     \* a field that a client does not send
    Starts,        \* the configurations to start from
    MaxStarted     \* bound on the requests that are ever started

Flag == BOOLEAN \cup { Undefined }

TemplateRow ==
    [state : { "unmade", "stored", "deleted" }, code : Codes \cup { Undefined },
     active : BOOLEAN, default : BOOLEAN]

RuleRow ==
    [state : { "unmade", "stored", "deleted" },
     template : Templates \cup { NoTemplate }, priority : Int, types : SUBSET Types]

DeletedTemplate == [state |-> "deleted", code |-> Undefined, active |-> FALSE, default |-> FALSE]

DeletedRule == [state |-> "deleted", template |-> NoTemplate, priority |-> 0, types |-> {}]

StoredIn(table) == { x \in DOMAIN table : table[x].state = "stored" }

\* The foreign keys and unique indexes hold.
Consistent(s) ==
    /\ s.template \in [Templates -> TemplateRow]
    /\ s.rule \in [Rules -> RuleRow]
    /\ s.types \subseteq Types
    /\ s.setting \in StoredIn(s.template) \cup { NoTemplate }
    /\ s.users \subseteq Users
    /\ s.badge \in [Registrations -> StoredIn(s.template) \cup { NoTemplate }]
    /\ \A r \in StoredIn(s.rule) :
          /\ s.rule[r].template \in StoredIn(s.template)
          /\ s.rule[r].types \subseteq s.types
          /\ \A o \in StoredIn(s.rule) \ { r } : s.rule[o].priority # s.rule[r].priority
    /\ \A t \in StoredIn(s.template), o \in StoredIn(s.template) :
          s.template[t].code = s.template[o].code => t = o

ASSUME EventSetupAssumption ==
    /\ NoTemplate \notin Templates
    /\ Undefined \notin Templates \cup Codes \cup BOOLEAN \cup Int \cup { NoTemplate }
    /\ ScopeOf \in [Templates -> Scopes]
    /\ Priorities \subseteq Nat
    /\ Patches \subseteq Flag \X Flag
    /\ MaxStarted \in Nat
    /\ \A s \in Starts : Consistent(s)

VARIABLES
    template,    \* badge_templates
    rule,        \* event_badge_rules, each with its attendee types
    types,       \* the attendee types that have a row
    setting,     \* event_settings.badge_template_id of the event
    users,       \* event_access: the users the event is assigned to
    badge,       \* for each registration, the template its badge refers to
    pc,          \* for each slot, the call its request makes next
    req,         \* for each slot, what the request asks for and has done
    started,     \* how many requests have been started
    alone,       \* history: have requests only run one after the other so far?
    errors,      \* history: while alone, the writes the database rejected, and why
    askedTypes,  \* history: for each rule, the types last asked for
    askedUsers,  \* history: the users last asked for
    strayTypes,  \* history: for each rule, the types that replacements asked for
                 \* which nothing kept apart from the last one
    strayUsers   \* history: the same for the users

rows == <<template, rule, types, setting, users, badge>>
asked == <<askedTypes, askedUsers, strayTypes, strayUsers>>
vars == <<template, rule, types, setting, users, badge, pc, req, started, alone, errors,
          askedTypes, askedUsers, strayTypes, strayUsers>>

---------------------------------------------------------------------------
Ops ==
    { "none", "create", "update", "remove",
      "createTemplate", "updateTemplate", "deleteTemplate", "duplicateTemplate",
      "updateEvent", "createBadgeRule", "updateBadgeRule", "deleteBadgeRule",
      "removeType", "generateBadge" }

Request ==
    [op : Ops, template : Templates \cup { NoTemplate, Undefined },
     scope : Scopes \cup { Undefined }, code : Codes \cup { Undefined },
     active : Flag, default : Flag,
     rule : Rules \cup { Undefined }, priority : Int \cup { Undefined }, append : BOOLEAN,
     types : { Undefined } \cup SUBSET Types, users : { Undefined } \cup SUBSET Users,
     columns : BOOLEAN,
     type : Types \cup { Undefined }, registration : Registrations \cup { Undefined },
     gone : SUBSET Types, left : SUBSET Users, stray : SUBSET (Types \cup Users)]

NoRequest ==
    [op |-> "none", template |-> Undefined, scope |-> Undefined, code |-> Undefined,
     active |-> Undefined, default |-> Undefined,
     rule |-> Undefined, priority |-> Undefined, append |-> FALSE,
     types |-> Undefined, users |-> Undefined,
     columns |-> FALSE,
     type |-> Undefined, registration |-> Undefined,
     gone |-> {}, left |-> {}, stray |-> {}]

Calls ==
    { "unset", "insert", "write", "count", "delete",
      "lock", "template", "setting", "leave", "leaving", "assign",
      "types", "priority", "insertRule", "ruleTemplate", "ruleTypes", "ruleRow",
      "unlink", "unlinking", "link", "deleteRule", "deleteType", "cascade", "badge" }

Arrive(q, call, r) ==
    /\ pc[q] = "idle"
    /\ started < MaxStarted
    /\ started' = started + 1
    /\ pc' = [pc EXCEPT ![q] = call]
    /\ req' = [req EXCEPT ![q] = r]
    /\ alone' = (alone /\ \A p \in Requests : pc[p] = "idle")
    /\ UNCHANGED errors

Goto(q, call, r) ==
    /\ pc' = [pc EXCEPT ![q] = call]
    /\ req' = [req EXCEPT ![q] = r]
    /\ UNCHANGED <<started, alone, errors>>

End(q) == Goto(q, "idle", NoRequest)

\* The database rejects the write, its transaction is rolled back, and the
\* client gets a 500: no handler catches the error.
Fail(q, why) ==
    /\ pc' = [pc EXCEPT ![q] = "idle"]
    /\ req' = [req EXCEPT ![q] = NoRequest]
    /\ errors' = IF alone THEN errors \cup { <<req[q].op, why>> } ELSE errors
    /\ UNCHANGED <<started, alone, rows, asked>>

Or(value, old) == IF value = Undefined THEN old ELSE value

StoredTemplates == StoredIn(template)
StoredRules == StoredIn(rule)

CodeFree(c, t) == \A o \in StoredTemplates \ { t } : template[o].code # c

InScope(s) == { t \in StoredTemplates : ScopeOf[t] = s }

\* The bounds on rows: a request to make one starts while an id is left for it.
RoomForTemplate(s) ==
    Cardinality({ p \in Requests : pc[p] \in { "unset", "insert" } /\ req[p].scope = s })
      < Cardinality({ t \in Templates : template[t].state = "unmade" /\ ScopeOf[t] = s })

RoomForRule ==
    Cardinality({ p \in Requests : req[p].op = "createBadgeRule" })
      < Cardinality({ r \in Rules : rule[r].state = "unmade" })

---------------------------------------------------------------------------
\* BadgeTemplatesService.create: the code made from the name must be free.
Create(q) ==
    \E s \in Scopes, c \in Codes, p \in Patches :
        /\ RoomForTemplate(s)
        /\ CodeFree(c, NoTemplate)
        /\ Arrive(q, IF p[1] = TRUE THEN "unset" ELSE "insert",
                  [NoRequest EXCEPT !.op = "create", !.scope = s, !.code = c,
                                    !.default = Or(p[1], FALSE), !.active = Or(p[2], TRUE)])
        /\ UNCHANGED <<rows, asked>>

\* BadgesService.createTemplate: neither looks at codes nor at other defaults.
CreateTemplate(q) ==
    \E s \in Scopes, c \in Codes, p \in Patches :
        /\ RoomForTemplate(s)
        /\ Arrive(q, "insert",
                  [NoRequest EXCEPT !.op = "createTemplate", !.scope = s, !.code = c,
                                    !.default = Or(p[1], FALSE), !.active = Or(p[2], TRUE)])
        /\ UNCHANGED <<rows, asked>>

\* BadgesService.duplicateTemplate, for the scope of the template it copies.
DuplicateTemplate(q) ==
    \E t \in StoredTemplates, c \in Codes :
        /\ RoomForTemplate(ScopeOf[t])
        /\ Arrive(q, "insert",
                  [NoRequest EXCEPT !.op = "duplicateTemplate", !.scope = ScopeOf[t], !.code = c,
                                    !.active = TRUE, !.default = FALSE])
        /\ UNCHANGED <<rows, asked>>

\* Mutant: only active templates lose the mark.
UnsetActiveDefaults(q) ==
    /\ pc[q] = "unset"
    /\ template' = [t \in Templates |->
           IF t \in InScope(req[q].scope) /\ template[t].active
           THEN [template[t] EXCEPT !.default = FALSE] ELSE template[t]]
    /\ Goto(q, IF req[q].op = "create" THEN "insert" ELSE "write", req[q])
    /\ UNCHANGED <<rule, types, setting, users, badge, asked>>

\* unsetDefaultTemplates: one updateMany, in no transaction with what follows.
UnsetDefaults(q) ==
    /\ pc[q] = "unset"
    /\ template' = [t \in Templates |->
           IF t \in InScope(req[q].scope)
           THEN [template[t] EXCEPT !.default = FALSE] ELSE template[t]]
    /\ Goto(q, IF req[q].op = "create" THEN "insert" ELSE "write", req[q])
    /\ UNCHANGED <<rule, types, setting, users, badge, asked>>

\* badgeTemplate.create
Insert(q) ==
    /\ pc[q] = "insert"
    /\ CodeFree(req[q].code, NoTemplate)
    /\ \E t \in Templates :
          /\ template[t].state = "unmade"
          /\ ScopeOf[t] = req[q].scope
          /\ template' = [template EXCEPT ![t] =
                 [state |-> "stored", code |-> req[q].code,
                  active |-> req[q].active, default |-> req[q].default]]
    /\ End(q)
    /\ UNCHANGED <<rule, types, setting, users, badge, asked>>

\* Mutant: the error is caught and the insert tried again.
InsertFailsAgain(q) ==
    /\ pc[q] = "insert"
    /\ ~CodeFree(req[q].code, NoTemplate)
    /\ Goto(q, "insert", req[q])
    /\ UNCHANGED <<rows, asked>>

InsertFails(q) ==
    /\ pc[q] = "insert"
    /\ ~CodeFree(req[q].code, NoTemplate)
    /\ Fail(q, "code")

---------------------------------------------------------------------------
\* BadgeTemplatesService.update finds the template, and with it whether it is
\* the default already.
Update(q) ==
    \E t \in StoredTemplates, p \in Patches :
        /\ Arrive(q, IF p[1] = TRUE /\ ~template[t].default THEN "unset" ELSE "write",
                  [NoRequest EXCEPT !.op = "update", !.template = t, !.scope = ScopeOf[t],
                                    !.default = p[1], !.active = p[2]])
        /\ UNCHANGED <<rows, asked>>

\* BadgesService.updateTemplate, which may also change the code.
UpdateTemplate(q) ==
    \E t \in StoredTemplates, p \in Patches, c \in Codes \cup { Undefined } :
        /\ Arrive(q, "write",
                  [NoRequest EXCEPT !.op = "updateTemplate", !.template = t, !.code = c,
                                    !.default = p[1], !.active = p[2]])
        /\ UNCHANGED <<rows, asked>>

WriteRejected(q) ==
    CASE req[q].template \notin StoredTemplates -> "template"
      [] req[q].code \in Codes /\ ~CodeFree(req[q].code, req[q].template) -> "code"
      [] OTHER -> "no"

\* badgeTemplate.update
Write(q) ==
    /\ pc[q] = "write"
    /\ WriteRejected(q) = "no"
    /\ template' = [template EXCEPT ![req[q].template] =
           [state |-> "stored", code |-> Or(req[q].code, template[req[q].template].code),
            active |-> Or(req[q].active, template[req[q].template].active),
            default |-> Or(req[q].default, template[req[q].template].default)]]
    /\ End(q)
    /\ UNCHANGED <<rule, types, setting, users, badge, asked>>

WriteFails(q) ==
    /\ pc[q] = "write"
    /\ WriteRejected(q) # "no"
    /\ Fail(q, WriteRejected(q))

---------------------------------------------------------------------------
\* BadgeTemplatesService.remove
Remove(q) ==
    \E t \in StoredTemplates :
        /\ Arrive(q, "count", [NoRequest EXCEPT !.op = "remove", !.template = t])
        /\ UNCHANGED <<rows, asked>>

\* Mutant: the settings are not looked at.
CountNothing(q) ==
    /\ pc[q] = "count"
    /\ Goto(q, "delete", req[q])
    /\ UNCHANGED <<rows, asked>>

\* It refuses when the settings use the template.  Badges are counted to log a
\* warning.
CountUses(q) ==
    /\ pc[q] = "count"
    /\ IF setting = req[q].template THEN End(q) ELSE Goto(q, "delete", req[q])
    /\ UNCHANGED <<rows, asked>>

\* BadgesService.deleteTemplate
DeleteTemplate(q) ==
    \E t \in StoredTemplates :
        /\ Arrive(q, "delete", [NoRequest EXCEPT !.op = "deleteTemplate", !.template = t])
        /\ UNCHANGED <<rows, asked>>

\* What open transactions lock: the row of the rule or of the event, if they have
\* a column of it to write; the settings, if they assign a template; the links of
\* a rule and the users that they have deleted.
WritesRule(p) == req[p].template # Undefined \/ req[p].priority # Undefined

HoldsRule(p, r) ==
    pc[p] \in { "unlink", "unlinking", "link" } /\ req[p].rule = r /\ WritesRule(p)

HoldsLinks(p, r) == pc[p] = "link" /\ req[p].rule = r /\ req[p].gone # {}

HoldsEvent(p) ==
    pc[p] \in { "template", "setting", "leave", "leaving", "assign" } /\ req[p].columns

HoldsSetting(p) ==
    pc[p] \in { "leave", "leaving", "assign" } /\ req[p].template # Undefined

\* No template is deleted that is assigned or taken by a rule, or was until then.
HoldsTemplate(p, t) ==
    \/ HoldsSetting(p) /\ t \in { setting, req[p].template }
    \/ \E r \in Rules :
          \/ HoldsRule(p, r) /\ t \in { rule[r].template, req[p].template }
          \/ HoldsLinks(p, r) /\ t = rule[r].template

\* The rules of the template go with it.  The foreign key of the settings says
\* SET NULL, but it has two columns and org_id may not be null; that of the
\* badges says RESTRICT.
DeleteRejected(q) ==
    CASE req[q].template \notin StoredTemplates -> "template"
      [] setting = req[q].template -> "setting"
      [] \E g \in Registrations : badge[g] = req[q].template -> "badge"
      [] OTHER -> "no"

\* Mutant: open transactions that use the template are not waited for.
DeleteAtOnce(q) ==
    /\ pc[q] = "delete"
    /\ DeleteRejected(q) = "no"
    /\ template' = [template EXCEPT ![req[q].template] = DeletedTemplate]
    /\ rule' = [r \in Rules |->
           IF rule[r].template = req[q].template THEN DeletedRule ELSE rule[r]]
    /\ End(q)
    /\ UNCHANGED <<types, setting, users, badge, asked>>

\* badgeTemplate.delete
Delete(q) ==
    /\ pc[q] = "delete"
    /\ \A p \in Requests : ~HoldsTemplate(p, req[q].template)
    /\ DeleteRejected(q) = "no"
    /\ template' = [template EXCEPT ![req[q].template] = DeletedTemplate]
    /\ rule' = [r \in Rules |->
           IF rule[r].template = req[q].template THEN DeletedRule ELSE rule[r]]
    /\ End(q)
    /\ UNCHANGED <<types, setting, users, badge, asked>>

DeleteFails(q) ==
    /\ pc[q] = "delete"
    /\ \A p \in Requests : ~HoldsTemplate(p, req[q].template)
    /\ DeleteRejected(q) # "no"
    /\ Fail(q, DeleteRejected(q))

---------------------------------------------------------------------------
\* EventsService.update: one transaction.
UpdateEvent(q) ==
    \E t \in Templates \cup { NoTemplate, Undefined }, us \in { Undefined } \cup SUBSET Users,
       c \in BOOLEAN :
        /\ Arrive(q, "lock",
                  [NoRequest EXCEPT !.op = "updateEvent", !.template = t, !.users = us,
                                    !.columns = c])
        /\ UNCHANGED <<rows, asked>>

\* event.update locks the row of the event until the end if it writes a column.
LockEvent(q) ==
    /\ pc[q] = "lock"
    /\ req[q].columns => \A p \in Requests : ~HoldsEvent(p)
    /\ Goto(q, IF req[q].template \in Templates THEN "template" ELSE "setting", req[q])
    /\ UNCHANGED <<rows, asked>>

\* A template that is not there or not active is refused, and all rolled back.
CheckAssigned(q) ==
    /\ pc[q] = "template"
    /\ IF req[q].template \in StoredTemplates /\ template[req[q].template].active
       THEN Goto(q, "setting", req[q])
       ELSE End(q)
    /\ UNCHANGED <<rows, asked>>

AssignRejected(q) == req[q].template \in Templates \ StoredTemplates

\* eventSetting.update locks the settings if it assigns a template; the foreign key
\* may find it gone by now.
SettingFree(q) ==
    req[q].template # Undefined => \A p \in Requests : ~HoldsSetting(p)

SetSetting(q) ==
    /\ pc[q] = "setting"
    /\ SettingFree(q)
    /\ ~AssignRejected(q)
    /\ Goto(q, IF req[q].users = Undefined THEN "assign" ELSE "leave", req[q])
    /\ UNCHANGED <<rows, asked>>

SetSettingFails(q) ==
    /\ pc[q] = "setting"
    /\ SettingFree(q)
    /\ AssignRejected(q)
    /\ Fail(q, "template")

\* Users whose rows others have deleted.
LeftByOthers(q) ==
    UNION { req[p].left : p \in { p \in Requests \ { q } : pc[p] = "assign" } }

\* eventAccess.deleteMany finds the rows and deletes them,
Leave(q) ==
    /\ pc[q] = "leave"
    /\ Goto(q, IF users \cap LeftByOthers(q) = {} THEN "assign" ELSE "leaving",
            [req[q] EXCEPT !.left = users])
    /\ UNCHANGED <<rows, asked>>

\* or has to wait for others that have deleted some of them.
Left(q) ==
    /\ pc[q] = "leaving"
    /\ req[q].left \cap LeftByOthers(q) = {}
    /\ Goto(q, "assign", req[q])
    /\ UNCHANGED <<rows, asked>>

\* The requests once q has committed: it has taken rows away from the deletions of
\* the others, which do not see the rows it has made.  Those that write no row
\* that q writes may leave them there.
AfterAssign(q) ==
    [p \in Requests |->
        IF p = q THEN NoRequest
        ELSE IF pc[p] \in { "leaving", "assign" } /\ Undefined \notin { req[p].users, req[q].users }
        THEN [req[p] EXCEPT
                !.left = req[p].left \ req[q].left,
                !.stray = IF \/ req[p].columns /\ req[q].columns
                             \/ Undefined \notin { req[p].template, req[q].template }
                          THEN req[p].stray ELSE req[p].stray \cup req[q].users]
        ELSE req[p]]

\* eventAccess.createMany, if users were sent, which skips those that are there and
\* waits for those being deleted; and the end of the transaction.
Assign(q) ==
    /\ pc[q] = "assign"
    /\ Or(req[q].users, {}) \cap LeftByOthers(q) = {}
    /\ setting' = Or(req[q].template, setting)
    /\ users' = (users \ req[q].left) \cup Or(req[q].users, {})
    /\ askedUsers' = Or(req[q].users, askedUsers)
    /\ strayUsers' = IF req[q].users = Undefined THEN strayUsers ELSE req[q].stray
    /\ pc' = [pc EXCEPT ![q] = "idle"]
    /\ req' = AfterAssign(q)
    /\ UNCHANGED <<started, alone, errors, template, rule, types, badge, askedTypes, strayTypes>>

---------------------------------------------------------------------------
\* EventsService.createBadgeRule finds the event and the template,
CreateBadgeRule(q) ==
    \E t \in StoredTemplates, ks \in SUBSET Types, n \in Priorities \cup { Undefined } :
        /\ RoomForRule
        /\ Arrive(q, "types",
                  [NoRequest EXCEPT !.op = "createBadgeRule", !.template = t, !.types = ks,
                                    !.priority = n, !.append = (n = Undefined)])
        /\ UNCHANGED <<rows, asked>>

\* then all attendee types or else refuses,
CheckTypes(q) ==
    /\ pc[q] = "types"
    /\ IF req[q].types \subseteq types
       THEN Goto(q, IF req[q].append THEN "priority" ELSE "insertRule", req[q])
       ELSE End(q)
    /\ UNCHANGED <<rows, asked>>

UsedPriorities == { rule[r].priority : r \in StoredRules }

\* then the highest priority when the client gave none,
NextPriority(q) ==
    /\ pc[q] = "priority"
    /\ \E n \in { m + 1 : m \in UsedPriorities } \cup { 0 } :
          /\ \A m \in UsedPriorities : m < n
          /\ Goto(q, "insertRule", [req[q] EXCEPT !.priority = n])
    /\ UNCHANGED <<rows, asked>>

\* An index entry that an open transaction has made or is replacing must be
\* waited for; so must an attendee type that is being deleted.
PriorityFree(q) ==
    \A p \in Requests \ { q }, r \in Rules :
        HoldsRule(p, r) /\ req[q].priority # Undefined
          => req[q].priority \notin { rule[r].priority, req[p].priority }

TypeHolders(k) == { p \in Requests : pc[p] = "cascade" /\ req[p].type = k }

TypesFree(q) == \A k \in Or(req[q].types, {}) : TypeHolders(k) = {}

InsertRuleRejected(q) ==
    CASE req[q].template \notin StoredTemplates -> "template"
      [] req[q].priority \in UsedPriorities -> "priority"
      [] ~(req[q].types \subseteq types) -> "types"
      [] OTHER -> "no"

\* and makes the rule with its types at once.
InsertRule(q) ==
    /\ pc[q] = "insertRule"
    /\ PriorityFree(q)
    /\ TypesFree(q)
    /\ InsertRuleRejected(q) = "no"
    /\ \E r \in Rules :
          /\ rule[r].state = "unmade"
          /\ rule' = [rule EXCEPT ![r] =
                 [state |-> "stored", template |-> req[q].template,
                  priority |-> req[q].priority, types |-> req[q].types]]
          /\ askedTypes' = [askedTypes EXCEPT ![r] = req[q].types]
    /\ End(q)
    /\ UNCHANGED <<template, types, setting, users, badge, askedUsers, strayTypes, strayUsers>>

InsertRuleFails(q) ==
    /\ pc[q] = "insertRule"
    /\ PriorityFree(q)
    /\ TypesFree(q)
    /\ InsertRuleRejected(q) # "no"
    /\ Fail(q, InsertRuleRejected(q))

---------------------------------------------------------------------------
\* EventsService.updateBadgeRule finds the rule, and what is to replace its
\* template and types,
UpdateBadgeRule(q) ==
    \E r \in StoredRules, t \in Templates \cup { Undefined },
       ks \in { Undefined } \cup SUBSET Types, n \in Priorities \cup { Undefined } :
        /\ Arrive(q, "ruleTemplate",
                  [NoRequest EXCEPT !.op = "updateBadgeRule", !.rule = r, !.template = t,
                                    !.types = ks, !.priority = n])
        /\ UNCHANGED <<rows, asked>>

CheckRuleTemplate(q) ==
    /\ pc[q] = "ruleTemplate"
    /\ IF req[q].template \in StoredTemplates \cup { Undefined }
       THEN Goto(q, "ruleTypes", req[q])
       ELSE End(q)
    /\ UNCHANGED <<rows, asked>>

CheckRuleTypes(q) ==
    /\ pc[q] = "ruleTypes"
    /\ IF Or(req[q].types, {}) \subseteq types THEN Goto(q, "ruleRow", req[q]) ELSE End(q)
    /\ UNCHANGED <<rows, asked>>

RuleFree(q) == \A p \in Requests \ { q } : ~HoldsRule(p, req[q].rule)

UpdateRuleRejected(q) ==
    CASE req[q].rule \notin StoredRules -> "rule"
      [] req[q].template \in Templates \ StoredTemplates -> "template"
      [] \E r \in StoredRules \ { req[q].rule } : rule[r].priority = req[q].priority -> "priority"
      [] OTHER -> "no"

\* Mutant: the transaction does not begin with the row of the rule.
UpdateRuleUnlocked(q) ==
    /\ pc[q] = "ruleRow"
    /\ UpdateRuleRejected(q) = "no"
    /\ Goto(q, IF req[q].types = Undefined THEN "link" ELSE "unlink", req[q])
    /\ UNCHANGED <<rows, asked>>

\* then opens its transaction: eventBadgeRule.update locks the rule, if there is a
\* column to write,
UpdateRule(q) ==
    /\ pc[q] = "ruleRow"
    /\ WritesRule(q) => RuleFree(q)
    /\ PriorityFree(q)
    /\ UpdateRuleRejected(q) = "no"
    /\ Goto(q, IF req[q].types = Undefined THEN "link" ELSE "unlink", req[q])
    /\ UNCHANGED <<rows, asked>>

UpdateRuleFails(q) ==
    /\ pc[q] = "ruleRow"
    /\ WritesRule(q) => RuleFree(q)
    /\ PriorityFree(q)
    /\ UpdateRuleRejected(q) # "no"
    /\ Fail(q, UpdateRuleRejected(q))

\* Links of the rule that another has deleted.
Deleted(o, r) == IF pc[o] = "link" /\ req[o].rule = r THEN req[o].gone \cap rule[r].types ELSE {}

\* eventBadgeRuleAttendeeType.deleteMany finds the links and deletes them,
Unlink(q) ==
    /\ pc[q] = "unlink"
    /\ Goto(q, IF \E o \in Requests : Deleted(o, req[q].rule) # {} THEN "unlinking" ELSE "link",
            [req[q] EXCEPT !.gone = rule[req[q].rule].types])
    /\ UNCHANGED <<rows, asked>>

\* What p waits for o to end for: an attendee type whose deletion waits for links,
\* links that o has deleted, or the key of a rule whose priority o changes.
Waits(p, o) ==
    \/ pc[p] = "cascade" /\ pc[o] = "link" /\ req[p].type \in req[o].gone
    \/ pc[p] = "link" /\ pc[o] = "cascade" /\ req[o].type \in Or(req[p].types, {})
    \/ pc[p] = "unlinking" /\ Deleted(o, req[p].rule) \cap req[p].gone # {}
    \/ pc[p] = "link" /\ Deleted(o, req[p].rule) \cap Or(req[p].types, {}) # {}
    \/ /\ pc[p] = "link" /\ Or(req[p].types, {}) # {}
       /\ HoldsRule(o, req[p].rule)
       /\ req[o].priority \notin { Undefined, rule[req[p].rule].priority }

WaitsForNone(q) == \A o \in Requests \ { q } : ~Waits(q, o)

\* or has to wait,
Unlinked(q) ==
    /\ pc[q] = "unlinking"
    /\ WaitsForNone(q)
    /\ Goto(q, "link", req[q])
    /\ UNCHANGED <<rows, asked>>

\* createMany, if types were sent, and the end.  The keys may find a type gone, a
\* link made meanwhile, or the rule gone, which the answer needs as well.
Replaced(q) ==
    [state |-> "stored", template |-> Or(req[q].template, rule[req[q].rule].template),
     priority |-> Or(req[q].priority, rule[req[q].rule].priority),
     types |-> (rule[req[q].rule].types \ req[q].gone) \cup Or(req[q].types, {})]

LinkRejected(q) ==
    CASE req[q].rule \notin StoredRules -> "rule"
      [] ~(Or(req[q].types, {}) \subseteq types) -> "types"
      [] Or(req[q].types, {}) \cap (rule[req[q].rule].types \ req[q].gone) # {} -> "link"
      [] OTHER -> "no"

\* See AfterAssign.
AfterLink(q) ==
    [p \in Requests |->
        IF p = q THEN NoRequest
        ELSE IF /\ pc[p] \in { "unlinking", "link" } /\ req[p].rule = req[q].rule
                /\ Undefined \notin { req[p].types, req[q].types }
        THEN [req[p] EXCEPT
                !.gone = req[p].gone \ req[q].gone,
                !.stray = IF WritesRule(p) /\ WritesRule(q)
                          THEN req[p].stray ELSE req[p].stray \cup req[q].types]
        ELSE req[p]]

Link(q) ==
    /\ pc[q] = "link"
    /\ WaitsForNone(q)
    /\ LinkRejected(q) = "no"
    /\ rule' = [rule EXCEPT ![req[q].rule] = Replaced(q)]
    /\ askedTypes' = [askedTypes EXCEPT ![req[q].rule] = Or(req[q].types, askedTypes[req[q].rule])]
    /\ strayTypes' = [strayTypes EXCEPT ![req[q].rule] =
           IF req[q].types = Undefined THEN strayTypes[req[q].rule] ELSE req[q].stray]
    /\ pc' = [pc EXCEPT ![q] = "idle"]
    /\ req' = AfterLink(q)
    /\ UNCHANGED <<started, alone, errors, template, types, setting, users, badge,
                   askedUsers, strayUsers>>

LinkFails(q) ==
    /\ pc[q] = "link"
    /\ WaitsForNone(q)
    /\ LinkRejected(q) # "no"
    /\ Fail(q, LinkRejected(q))

---------------------------------------------------------------------------
\* EventsService.deleteBadgeRule
DeleteBadgeRule(q) ==
    \E r \in StoredRules :
        /\ Arrive(q, "deleteRule", [NoRequest EXCEPT !.op = "deleteBadgeRule", !.rule = r])
        /\ UNCHANGED <<rows, asked>>

DeleteRule(q) ==
    /\ pc[q] = "deleteRule"
    /\ RuleFree(q)
    /\ \A p \in Requests : ~HoldsLinks(p, req[q].rule)
    /\ req[q].rule \in StoredRules
    /\ rule' = [rule EXCEPT ![req[q].rule] = DeletedRule]
    /\ End(q)
    /\ UNCHANGED <<template, types, setting, users, badge, asked>>

DeleteRuleFails(q) ==
    /\ pc[q] = "deleteRule"
    /\ RuleFree(q)
    /\ \A p \in Requests : ~HoldsLinks(p, req[q].rule)
    /\ req[q].rule \notin StoredRules
    /\ Fail(q, "rule")

---------------------------------------------------------------------------
\* AttendeeTypesService.remove looks for no use of the type; its deletion takes
\* it from all rules, and waits for those whose types are being replaced.
RemoveType(q) ==
    \E k \in types :
        /\ Arrive(q, "deleteType", [NoRequest EXCEPT !.op = "removeType", !.type = k])
        /\ UNCHANGED <<rows, asked>>

TypeLinked(k) == \E p \in Requests : pc[p] = "link" /\ k \in req[p].gone

\* attendeeType.delete locks the row of the type and deletes, or waits.
DeleteType(q) ==
    /\ pc[q] \in { "deleteType", "cascade" }
    /\ TypeHolders(req[q].type) \subseteq { q }
    /\ ~TypeLinked(req[q].type)
    /\ req[q].type \in types
    /\ types' = types \ { req[q].type }
    /\ rule' = [r \in Rules |-> [rule[r] EXCEPT !.types = rule[r].types \ { req[q].type }]]
    /\ End(q)
    /\ UNCHANGED <<template, setting, users, badge, asked>>

DeleteTypeWaits(q) ==
    /\ pc[q] = "deleteType"
    /\ TypeHolders(req[q].type) = {}
    /\ TypeLinked(req[q].type)
    /\ Goto(q, "cascade", req[q])
    /\ UNCHANGED <<rows, asked>>

DeleteTypeFails(q) ==
    /\ pc[q] = "deleteType"
    /\ TypeHolders(req[q].type) = {}
    /\ req[q].type \notin types
    /\ Fail(q, "type")

\* Requests that wait for each other.
Deadlocked(q) ==
    \E S \in SUBSET Requests : q \in S /\ \A p \in S : \E o \in S \ { p } : Waits(p, o)

\* A deletion of a rule takes its row first and then waits for the links that p has
\* deleted, and p for the row; it is left open whether the deletion has begun.
DeletesUnder(d, p) ==
    /\ pc[p] = "link" /\ req[p].gone # {} /\ Or(req[p].types, {}) # {} /\ ~WritesRule(p)
    /\ \/ pc[d] = "deleteRule" /\ req[d].rule = req[p].rule
       \/ pc[d] = "delete" /\ req[d].template = rule[req[p].rule].template

\* The database ends one request of a deadlock.
Victim(q) ==
    /\ Deadlocked(q) \/ \E p \in Requests : DeletesUnder(q, p) \/ DeletesUnder(p, q)
    /\ Fail(q, "deadlock")

---------------------------------------------------------------------------
\* BadgeTemplatesService.getTemplateForEvent: the assigned template, or a default
\* of whatever scope, or the oldest one (the dates of creation are left out).
TemplatesForEvent ==
    LET usable == { t \in StoredTemplates : template[t].active }
        default == { t \in usable : template[t].default }
    IN  IF setting \in usable THEN { setting }
        ELSE IF default # {} THEN default
        ELSE usable

\* BadgeGenerationService.generateBadge, which takes that template, and
\* generateBadgesBulk, which takes the assigned one, active or not.  Rules decide
\* what previews and printed sheets show, and those keep nothing.
GenerateBadge(q) ==
    \E g \in Registrations, t \in TemplatesForEvent \cup ({ setting } \ { NoTemplate }) :
        /\ Arrive(q, "badge", [NoRequest EXCEPT !.op = "generateBadge", !.registration = g,
                                               !.template = t])
        /\ UNCHANGED <<rows, asked>>

\* Later the badge is written; see BadgeGeneration for what else happens to it.
WriteBadge(q) ==
    /\ pc[q] = "badge"
    /\ req[q].template \in StoredTemplates
    /\ badge' = [badge EXCEPT ![req[q].registration] = req[q].template]
    /\ End(q)
    /\ UNCHANGED <<template, rule, types, setting, users, asked>>

WriteBadgeFails(q) ==
    /\ pc[q] = "badge"
    /\ req[q].template \notin StoredTemplates
    /\ Fail(q, "template")

---------------------------------------------------------------------------
\* The connection or the process dies; the database rolls back.
Abort(q) ==
    /\ pc[q] # "idle"
    /\ End(q)
    /\ UNCHANGED <<rows, asked>>

Begin(q) ==
    \/ Create(q) \/ CreateTemplate(q) \/ DuplicateTemplate(q)
    \/ Update(q) \/ UpdateTemplate(q) \/ Remove(q) \/ DeleteTemplate(q)
    \/ UpdateEvent(q) \/ CreateBadgeRule(q) \/ UpdateBadgeRule(q) \/ DeleteBadgeRule(q)
    \/ RemoveType(q) \/ GenerateBadge(q)

\* The calls of a request, up to its answer.
Proceed(q) ==
    \/ UnsetDefaults(q) \/ Insert(q) \/ InsertFails(q) \/ Write(q) \/ WriteFails(q)
    \/ CountUses(q) \/ Delete(q) \/ DeleteFails(q)
    \/ LockEvent(q) \/ CheckAssigned(q) \/ SetSetting(q) \/ SetSettingFails(q)
    \/ Leave(q) \/ Left(q) \/ Assign(q)
    \/ CheckTypes(q) \/ NextPriority(q) \/ InsertRule(q) \/ InsertRuleFails(q)
    \/ CheckRuleTemplate(q) \/ CheckRuleTypes(q) \/ UpdateRule(q) \/ UpdateRuleFails(q)
    \/ Unlink(q) \/ Unlinked(q) \/ Link(q) \/ LinkFails(q)
    \/ DeleteRule(q) \/ DeleteRuleFails(q)
    \/ DeleteType(q) \/ DeleteTypeWaits(q) \/ DeleteTypeFails(q) \/ Victim(q)
    \/ WriteBadge(q) \/ WriteBadgeFails(q)

Init ==
    /\ \E s \in Starts :
          /\ template = s.template
          /\ rule = s.rule
          /\ types = s.types
          /\ setting = s.setting
          /\ users = s.users
          /\ badge = s.badge
          /\ askedTypes = [r \in Rules |-> s.rule[r].types]
          /\ askedUsers = s.users
    /\ strayTypes = [r \in Rules |-> {}]
    /\ strayUsers = {}
    /\ pc = [q \in Requests |-> "idle"]
    /\ req = [q \in Requests |-> NoRequest]
    /\ started = 0
    /\ alone = TRUE
    /\ errors = {}

Next == \E q \in Requests : Begin(q) \/ Proceed(q) \/ Abort(q)

Spec == Init /\ [][Next]_vars

\* The database answers every call, and tells the victim of a deadlock.
FairSpec == Spec /\ \A q \in Requests : WF_vars(Proceed(q))

---------------------------------------------------------------------------
\* The rows are consistent: nothing refers to a template or type that is gone.
\* This takes the locks of open transactions, not only the foreign keys.
TypeOK ==
    /\ Consistent([template |-> template, rule |-> rule, types |-> types,
                   setting |-> setting, users |-> users, badge |-> badge])
    /\ pc \in [Requests -> Calls \cup { "idle" }]
    /\ req \in [Requests -> Request]
    /\ started \in 0 .. MaxStarted
    /\ alone \in BOOLEAN
    /\ \A e \in errors : e[1] \in Ops
    /\ askedTypes \in [Rules -> SUBSET Types]
    /\ askedUsers \in SUBSET Users
    /\ strayTypes \in [Rules -> SUBSET (Types \cup Users)]
    /\ strayUsers \in SUBSET (Types \cup Users)

\* A rule has the attendee types of the last request that set them, less those
\* deleted since, and an event the users of the last request that set them.  Both
\* are replaced by a deletion and an insert: what else is there was asked for by
\* replacements that overlapped the last one and were not kept apart from it by a
\* row that both write, the rule, the event or its settings.
\* (updateBadgeRule, EventsService.update)
ReplacedAsAsked ==
    /\ \A r \in StoredRules :
          /\ askedTypes[r] \cap types \subseteq rule[r].types
          /\ rule[r].types \subseteq askedTypes[r] \cup strayTypes[r]
    /\ askedUsers \subseteq users
    /\ users \subseteq askedUsers \cup strayUsers

\* The writes that the database may reject while requests do not overlap are
\* only these, for which the handler has no check; every other rejection is
\* foreseen and answered with its own error before it happens.
Unchecked ==
    { <<"remove", "badge">>,
      <<"createTemplate", "code">>, <<"updateTemplate", "code">>,
      <<"duplicateTemplate", "code">>,
      <<"deleteTemplate", "setting">>, <<"deleteTemplate", "badge">>,
      <<"createBadgeRule", "priority">>, <<"updateBadgeRule", "priority">> }

ChecksSuffice == errors \subseteq Unchecked

\* While requests do not overlap, a template that BadgeTemplatesService makes the
\* default is then the only default of its scope, and other scopes keep theirs,
\* whatever BadgesService has left behind.  (create, update)
DefaultReplaces ==
    [][ \A q \in Requests, t \in Templates :
          /\ alone
          /\ req[q].op \in { "create", "update" }
          /\ template'[t].default /\ ~template[t].default
          => \A o \in StoredTemplates \ { t } :
                template'[o].default => ScopeOf[o] # ScopeOf[t] ]_vars

\* The template of the settings is changed by the update of the event that asks
\* for it and by nothing else: the removal of a template, which looks at the
\* settings before it deletes, takes it away from no event that was given it in
\* between.  (BadgeTemplatesService.remove, EventsService.update)
AssignedUntilUpdated ==
    [][ setting' # setting =>
          \E q \in Requests : pc[q] = "assign" /\ req[q].template = setting' ]_vars

\* Every request ends: waits for locks are finite, whether the other transaction
\* commits or one of a deadlock is ended.
EveryRequestEnds == \A q \in Requests : pc[q] # "idle" ~> pc[q] = "idle"

=============================================================================
