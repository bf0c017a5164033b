------------------------------- MODULE EventTags -------------------------------
(***************************************************************************)
(* The tags of the events of one organisation: event_tags, the links, and  *)
(* tags.usage_count, how many events use a tag; with the operations that   *)
(* make and delete events.  Transactions run at READ COMMITTED: what one   *)
(* writes is seen by others when it commits, and a row it has written is   *)
(* locked until then.  What a transaction has done so far is in req; the   *)
(* locks follow from it.  A row of event_tags is a pair of event and tag,  *)
(* and the names of tags are their identity (a tag is never renamed).  The *)
(* codes and the dates that create() validates are left out: what fails    *)
(* there changes nothing.                                                  *)
(***************************************************************************)
EXTENDS Integers, FiniteSets

CONSTANTS
    Requests,      \* slots for requests in flight at the same time
    Events,        \* rows of events, each made once
    Tags,          \* names of tags
    NoEvent,       \* no event
    PoolSize,      \* connections of the Prisma client to the database
    MaxStarted     \* bound on the requests that are ever started

ASSUME EventTagsAssumption ==
    /\ NoEvent \notin Events
    /\ PoolSize \in Nat
    /\ MaxStarted \in Nat
    /\ IsFiniteSet(Events)

VARIABLES
    event,       \* for each event: not made yet, stored or deleted
    tags,        \* the tags that have a row
    links,       \* event_tags
    usage,       \* tags.usage_count; 0 where there is no row
    pc,          \* for each slot, the call its request makes next
    req,         \* for each slot, what the request knows and has done
    started,     \* how many requests have been started
    alone,       \* history: have requests only run one after the other so far?
    cascaded,    \* history: for each tag, the links that went with their event
    missed       \* history: for each tag, decrements whose link was gone before

vars == <<event, tags, links, usage, pc, req, started, alone, cascaded, missed>>

---------------------------------------------------------------------------
\* updateEventTags: event and the tags it wants; of them still to remove and to
\* add; deleted links (gone), tags decremented and upserted, links made.
\* remove and bulkDelete: the events to delete and those it holds locked.
Request ==
    [event : Events \cup { NoEvent }, want : SUBSET Tags,
     remove : SUBSET Tags, add : SUBSET Tags,
     gone : SUBSET Tags, dec : SUBSET Tags, inc : SUBSET Tags, made : SUBSET Tags,
     ids : SUBSET Events, held : SUBSET Events]

NoRequest ==
    [event |-> NoEvent, want |-> {}, remove |-> {}, add |-> {},
     gone |-> {}, dec |-> {}, inc |-> {}, made |-> {},
     ids |-> {}, held |-> {}]

\* The calls inside a transaction, which holds a connection.
InTransaction == { "delete", "write", "link", "lock" }

Stored == { e \in Events : event[e] = "stored" }

EventsOf(t) == { e \in Events : <<e, t>> \in links }

TagsOf(e) == { t \in Tags : <<e, t>> \in links }

TypeOK ==
    /\ event \in [Events -> { "unmade", "stored", "deleted" }]
    /\ tags \subseteq Tags
    /\ links \subseteq Stored \X tags
    /\ usage \in [Tags -> Int]
    /\ pc \in [Requests -> { "idle", "tags" } \cup InTransaction]
    /\ req \in [Requests -> Request]
    /\ started \in 0 .. MaxStarted
    /\ alone \in BOOLEAN
    /\ cascaded \in [Tags -> Nat]
    /\ missed \in [Tags -> Nat]

---------------------------------------------------------------------------
\* The locks that transactions hold, by the rows they have written.

TagHolders(t) == { q \in Requests : t \in req[q].dec \cup req[q].inc }

LinkHolders(e, t) ==
    { q \in Requests : req[q].event = e /\ t \in req[q].gone \cup req[q].made }

\* A row of event_tags that is being inserted keeps its event from deletion.
EventSharers(e) == { q \in Requests : req[q].event = e /\ req[q].made # {} }

EventHolders(e) == { q \in Requests : e \in req[q].held }

Free(holders, q) == holders \subseteq { q }

Connected == { q \in Requests : pc[q] \in InTransaction }

FreeConnection == Cardinality(Connected) < PoolSize

---------------------------------------------------------------------------
Arrive(q, call, r) ==
    /\ pc[q] = "idle"
    /\ started < MaxStarted
    /\ started' = started + 1
    /\ pc' = [pc EXCEPT ![q] = call]
    /\ req' = [req EXCEPT ![q] = r]
    /\ alone' = (alone /\ \A p \in Requests : pc[p] = "idle")

Goto(q, call, r) ==
    /\ pc' = [pc EXCEPT ![q] = call]
    /\ req' = [req EXCEPT ![q] = r]
    /\ UNCHANGED <<started, alone>>

End(q) == Goto(q, "idle", NoRequest)

Rows == <<event, tags, links, usage>>
History == <<cascaded, missed>>

---------------------------------------------------------------------------
\* EventsService.create: one transaction for the event and its settings; its
\* tags follow in a transaction of their own.
Create(q) ==
    \E e \in Events, want \in SUBSET Tags :
        /\ event[e] = "unmade"
        /\ FreeConnection
        /\ event' = [event EXCEPT ![e] = "stored"]
        /\ Arrive(q, IF want = {} THEN "idle" ELSE "tags",
                  IF want = {} THEN NoRequest ELSE [NoRequest EXCEPT !.event = e, !.want = want])
        /\ UNCHANGED <<tags, links, usage, History>>

\* The controller looks for the event.
Update(q) ==
    \E e \in Stored, want \in SUBSET Tags :
        /\ Arrive(q, "tags", [NoRequest EXCEPT !.event = e, !.want = want])
        /\ UNCHANGED <<Rows, History>>

\* Mutant: nothing is removed.
ReadLinksToAdd(q) ==
    /\ pc[q] = "tags"
    /\ FreeConnection
    /\ Goto(q, "delete", [req[q] EXCEPT !.add = req[q].want \ TagsOf(req[q].event)])
    /\ UNCHANGED <<Rows, History>>

\* updateEventTags opens its transaction and reads the links of the event.
ReadLinks(q) ==
    /\ pc[q] = "tags"
    /\ FreeConnection
    /\ Goto(q, "delete", [req[q] EXCEPT !.remove = TagsOf(req[q].event) \ req[q].want,
                                        !.add = req[q].want \ TagsOf(req[q].event)])
    /\ UNCHANGED <<Rows, History>>

\* eventTag.deleteMany: what is left of the links to remove.
DeleteLinks(q) ==
    /\ pc[q] = "delete"
    /\ \A t \in req[q].remove : Free(LinkHolders(req[q].event, t), q)
    /\ Goto(q, "write",
            [req[q] EXCEPT !.gone = req[q].remove \cap TagsOf(req[q].event)])
    /\ UNCHANGED <<Rows, History>>

\* One tag after the other loses 1, whether or not deleteMany found its link.
Decrement(q, t) ==
    /\ pc[q] = "write"
    /\ t \in req[q].remove
    /\ Free(TagHolders(t), q)
    /\ Goto(q, "write", [req[q] EXCEPT !.remove = req[q].remove \ { t },
                                       !.dec = req[q].dec \cup { t }])
    /\ UNCHANGED <<Rows, History>>

\* Then one tag after the other is upserted, made with 1 or incremented,
Upsert(q, t) ==
    /\ pc[q] = "write"
    /\ req[q].remove = {}
    /\ t \in req[q].add
    /\ Free(TagHolders(t), q)
    /\ Goto(q, "link", [req[q] EXCEPT !.add = req[q].add \ { t },
                                      !.inc = req[q].inc \cup { t }])
    /\ UNCHANGED <<Rows, History>>

\* and linked, before the next one.
Linkable(q) ==
    /\ pc[q] = "link"
    /\ \A t \in req[q].inc \ req[q].made : Free(LinkHolders(req[q].event, t), q)
    /\ Free(EventHolders(req[q].event), q)

\* Mutant: event_tags has no foreign key to the event.
LinkRejectedAsDouble(q) ==
    \E t \in req[q].inc \ req[q].made : <<req[q].event, t>> \in links

\* The row is there already (its key is event and tag), or the event is not.
LinkRejected(q) ==
    \/ req[q].event \notin Stored
    \/ \E t \in req[q].inc \ req[q].made : <<req[q].event, t>> \in links

LinkTag(q) ==
    /\ Linkable(q)
    /\ ~LinkRejected(q)
    /\ Goto(q, "write", [req[q] EXCEPT !.made = req[q].inc])
    /\ UNCHANGED <<Rows, History>>

\* Mutant: the error is caught and the insert tried again.
LinkFailsAgain(q) ==
    /\ Linkable(q)
    /\ LinkRejected(q)
    /\ Goto(q, "link", req[q])
    /\ UNCHANGED <<Rows, History>>

\* The error rolls everything back.
LinkFails(q) ==
    /\ Linkable(q)
    /\ LinkRejected(q)
    /\ End(q)
    /\ UNCHANGED <<Rows, History>>

Counted(q) == pc[q] = "write" /\ req[q].remove = {} /\ req[q].add = {}

\* Mutant: the upsert counts a tag when it makes it, and not when it finds it.
CommitNewTags(q) ==
    /\ Counted(q)
    /\ FreeConnection
    /\ links' = (links \ ({ req[q].event } \X req[q].gone)) \cup ({ req[q].event } \X req[q].made)
    /\ tags' = tags \cup req[q].inc
    /\ usage' = [t \in Tags |-> IF t \in req[q].inc \ tags THEN usage[t] + 1
                                ELSE IF t \in req[q].dec THEN usage[t] - 1
                                ELSE usage[t]]
    /\ missed' = [t \in Tags |-> IF t \in req[q].dec \ req[q].gone THEN missed[t] + 1
                                 ELSE missed[t]]
    /\ End(q)
    /\ UNCHANGED <<event, cascaded>>

\* getEventTags reads the answer on a connection of its own, outside of the
\* transaction, which then commits.
Commit(q) ==
    /\ Counted(q)
    /\ FreeConnection
    /\ links' = (links \ ({ req[q].event } \X req[q].gone)) \cup ({ req[q].event } \X req[q].made)
    /\ tags' = tags \cup req[q].inc
    /\ usage' = [t \in Tags |-> IF t \in req[q].inc THEN usage[t] + 1
                                ELSE IF t \in req[q].dec THEN usage[t] - 1
                                ELSE usage[t]]
    /\ missed' = [t \in Tags |-> IF t \in req[q].dec \ req[q].gone THEN missed[t] + 1
                                 ELSE missed[t]]
    /\ End(q)
    /\ UNCHANGED <<event, cascaded>>

---------------------------------------------------------------------------
\* EventsService.remove: a transaction finds the event and counts registrations.
\* To archive the event instead of deleting it takes a registration whose
\* attendee is of another organisation; but the foreign keys of a registration
\* to its event and to its attendee share org_id, so that there is none.
Remove(q) ==
    \E e \in Stored :
        /\ FreeConnection
        /\ Arrive(q, "lock", [NoRequest EXCEPT !.ids = { e }])
        /\ UNCHANGED <<Rows, History>>

\* EventsService.bulkDelete: one deleteMany.
BulkDelete(q) ==
    \E ids \in SUBSET Events :
        /\ ids # {}
        /\ FreeConnection
        /\ Arrive(q, "lock", [NoRequest EXCEPT !.ids = ids])
        /\ UNCHANGED <<Rows, History>>

ToLock(q) == (req[q].ids \cap Stored) \ req[q].held

LockEvent(q, e) ==
    /\ pc[q] = "lock"
    /\ e \in ToLock(q)
    /\ Free(EventSharers(e) \cup EventHolders(e), q)
    /\ Goto(q, "lock", [req[q] EXCEPT !.held = req[q].held \cup { e }])
    /\ UNCHANGED <<Rows, History>>

Deletes(q) == req[q].held \cap Stored

\* The rows go, and by the foreign keys the links with them; the usage_count of
\* a tag does not change.
DeleteEvents(q) ==
    /\ pc[q] = "lock"
    /\ ToLock(q) = {}
    /\ \A e \in req[q].held, t \in Tags : Free(LinkHolders(e, t), q)
    /\ event' = [e \in Events |-> IF e \in Deletes(q) THEN "deleted" ELSE event[e]]
    /\ links' = { l \in links : l[1] \notin Deletes(q) }
    /\ cascaded' = [t \in Tags |-> cascaded[t] + Cardinality(EventsOf(t) \cap Deletes(q))]
    /\ End(q)
    /\ UNCHANGED <<tags, usage, missed>>

---------------------------------------------------------------------------
\* TagsService.createTag: an upsert that sets the colour and no count.
CreateTag(t) ==
    /\ TagHolders(t) = {}
    /\ tags' = tags \cup { t }
    /\ UNCHANGED <<event, links, usage, pc, req, started, alone, History>>

---------------------------------------------------------------------------
\* What may end a request at any call: the 5 seconds of a transaction are over,
\* the connection or the process dies.  The database rolls back.
Abort(q) ==
    /\ pc[q] # "idle"
    /\ End(q)
    /\ UNCHANGED <<Rows, History>>

\* For each step that q may take next, the requests whose locks it needs.
Needs(q) ==
    CASE pc[q] = "delete" ->
            { UNION { LinkHolders(req[q].event, t) : t \in req[q].remove } }
      [] pc[q] = "write" /\ req[q].remove # {} ->
            { TagHolders(t) : t \in req[q].remove }
      [] pc[q] = "write" /\ req[q].remove = {} ->
            { TagHolders(t) : t \in req[q].add }
      [] pc[q] = "link" ->
            { EventHolders(req[q].event)
                \cup UNION { LinkHolders(req[q].event, t) : t \in req[q].inc \ req[q].made } }
      [] pc[q] = "lock" /\ ToLock(q) # {} ->
            { EventSharers(e) \cup EventHolders(e) : e \in ToLock(q) }
      [] pc[q] = "lock" /\ ToLock(q) = {} ->
            { UNION { LinkHolders(e, t) : e \in req[q].held, t \in Tags } }
      [] OTHER -> {}

\* Everyone of S waits for others of S.
Deadlocked(S) ==
    \A q \in S : Needs(q) # {} /\ \A holders \in Needs(q) : (holders \cap S) \ { q } # {}

\* The database ends one of the transactions of a deadlock.
Victim(q) ==
    /\ \E S \in SUBSET Requests : q \in S /\ Deadlocked(S)
    /\ End(q)
    /\ UNCHANGED <<Rows, History>>

\* No connection for the answer becomes free before the transaction's time is over.
Starve(q) ==
    /\ Counted(q)
    /\ ~FreeConnection
    /\ End(q)
    /\ UNCHANGED <<Rows, History>>

---------------------------------------------------------------------------
\* The calls of updateEventTags, and of the two deletions, after the first.
UpdateStep(q) ==
    \/ ReadLinks(q) \/ DeleteLinks(q)
    \/ \E t \in Tags : Decrement(q, t) \/ Upsert(q, t)
    \/ LinkTag(q) \/ LinkFails(q) \/ Commit(q)

DeleteStep(q) == DeleteEvents(q) \/ \E e \in Events : LockEvent(q, e)

Step(q) == UpdateStep(q) \/ DeleteStep(q)

Begin(q) == Create(q) \/ Update(q) \/ Remove(q) \/ BulkDelete(q)

Init ==
    /\ event = [e \in Events |-> "unmade"]
    /\ tags = {} /\ links = {}
    /\ usage = [t \in Tags |-> 0]
    /\ pc = [q \in Requests |-> "idle"]
    /\ req = [q \in Requests |-> NoRequest]
    /\ started = 0 /\ alone = TRUE
    /\ cascaded = [t \in Tags |-> 0]
    /\ missed = [t \in Tags |-> 0]

Next ==
    \/ \E q \in Requests :
          Begin(q) \/ Step(q) \/ Abort(q) \/ Victim(q) \/ Starve(q)
    \/ \E t \in Tags : CreateTag(t)

Spec == Init /\ [][Next]_vars

\* Requests go on, a lock is handed to those that wait for it in turn, and the
\* database ends deadlocks.  No request need come, and none need abort.
Fairness ==
    \A q \in Requests : SF_vars(Step(q)) /\ WF_vars(Victim(q)) /\ WF_vars(Starve(q))

FairSpec == Spec /\ Fairness

---------------------------------------------------------------------------
\* Properties

\* usage_count is the number of events that use the tag, but for two drifts:
\* links that went with their event without being counted down, and decrements
\* by an update whose link another request had already deleted.
CountAccounted ==
    \A t \in Tags : usage[t] = Cardinality(EventsOf(t)) + cascaded[t] - missed[t]

\* A decrement misses its link only when requests overlap.
NoMissAlone == alone => \A t \in Tags : missed[t] = 0

\* An update that commits leaves its event with the tags it was asked for, as
\* long as requests do not overlap.
UpdateAppliesAlone ==
    [][\A q \in Requests :
          Counted(q) /\ pc'[q] = "idle" /\ alone' /\ <<links, tags>>' # <<links, tags>>
              => { t \in Tags : <<req[q].event, t>> \in links' } = req[q].want]_vars

\* No request waits for ever, for a lock or for a connection.
EveryRequestEnds == \A q \in Requests : pc[q] # "idle" ~> pc[q] = "idle"

=============================================================================
