--------------------------- MODULE BadgeGeneration ---------------------------
(***************************************************************************)
(* The badge of one registration: its row, its two files in R2, the links  *)
(* to them that the registration keeps, and the Chromium that renders it.  *)
(* Nothing runs in a transaction.  A file is named by the template it was  *)
(* rendered with; its key is made of the registration's id and so is the   *)
(* same for every badge the registration ever has.  The print counter and  *)
(* usage_count, which the database increments, are left out.               *)
(***************************************************************************)
EXTENDS Naturals, FiniteSets

CONSTANTS
    Requests,      \* slots for requests in flight at the same time
    Templates,     \* badge templates
    None,          \* no template, no file
    MaxId,         \* bound on the badge rows that are ever made
    MaxChromium    \* bound on the Chromium processes that run

ASSUME BadgeAssumption ==
    /\ None \notin Templates
    /\ MaxId \in Nat
    /\ MaxChromium \in Nat

VARIABLES
    chosen,      \* the template that applies to the registration, or None
    badge,       \* the badge row; its id is 0 when there is none
    made,        \* how many badge rows have been made
    files,       \* what is stored under the registration's two keys
    links,       \* does the registration have badge_pdf_url and badge_image_url?
    connected,   \* this.browser is set and connected
    chromium,    \* how many Chromium processes this process has running
    pc,          \* for each slot, the call its request makes next
    req,         \* for each slot, the local variables that the rest of it uses
    alone        \* history: have requests only run one after the other so far?

vars == <<chosen, badge, made, files, links, connected, chromium, pc, req, alone>>

---------------------------------------------------------------------------
Statuses == { "generating", "completed", "failed" }

\* url: pdf_url and image_url, which are set together.  History: it was last
\* completed without being rendered (quick); the request that was to end its
\* generation died (orphan).
Badge ==
    [id : 1 .. MaxId, status : Statuses, template : Templates, url : BOOLEAN,
     quick : BOOLEAN, orphan : BOOLEAN]

NoBadge ==
    [id |-> 0, status |-> "failed", template |-> None, url |-> FALSE,
     quick |-> FALSE, orphan |-> FALSE]

\* serve: a download goes on with the file
Request == [row : 0 .. MaxId, template : Templates \cup { None }, serve : BOOLEAN]

NoRequest == [row |-> 0, template |-> None, serve |-> FALSE]

Generating == { "mark", "browser", "launch", "uploadPdf", "uploadImage", "complete", "link" }

HaveRow == (Generating \ { "mark" }) \cup { "markFailed" }

Calls == Generating \cup
    { "idle", "generate", "findBadge", "rescue", "markFailed", "fetch",
      "show", "showLaunch", "deleteFile", "deleteRow" }

TypeOK ==
    /\ chosen \in Templates \cup { None }
    /\ badge \in Badge \cup { NoBadge }
    /\ made \in 0 .. MaxId
    /\ badge.id <= made
    /\ files \in [pdf : Templates \cup { None }, image : Templates \cup { None }]
    /\ links \in BOOLEAN
    /\ connected \in BOOLEAN
    /\ chromium \in 0 .. MaxChromium
    /\ pc \in [Requests -> Calls]
    /\ req \in [Requests -> Request]
    /\ \A q \in Requests :
          /\ pc[q] \in Generating \cup { "findBadge" } => req[q].template # None
          /\ pc[q] \in HaveRow => req[q].row # 0
          /\ req[q].row <= made
    /\ alone \in BOOLEAN

---------------------------------------------------------------------------
Arrive(q, call, r) ==
    /\ pc[q] = "idle"
    /\ pc' = [pc EXCEPT ![q] = call]
    /\ req' = [req EXCEPT ![q] = r]
    /\ alone' = (alone /\ \A p \in Requests : pc[p] = "idle")

Goto(q, call, r) ==
    /\ pc' = [pc EXCEPT ![q] = call]
    /\ req' = [req EXCEPT ![q] = r]
    /\ UNCHANGED alone

End(q) == Goto(q, "idle", NoRequest)

Storage == <<files, links>>
Browser == <<connected, chromium>>

---------------------------------------------------------------------------
\* generateBadge, which generateBulk calls for one registration after the other
\* and regenerateBadge for that of a badge.  Everything is in one try block, whose
\* handler is Rescue.

GenerateBegin(q) ==
    /\ Arrive(q, "generate", NoRequest)
    /\ UNCHANGED <<chosen, badge, made, Storage, Browser>>

\* The registration and the template that applies to it.
ReadTemplate(q) ==
    /\ pc[q] = "generate"
    /\ Goto(q, IF chosen = None THEN "rescue" ELSE "findBadge",
            [req[q] EXCEPT !.template = chosen])
    /\ UNCHANGED <<chosen, badge, made, Storage, Browser>>

FindBadge(q) ==
    /\ pc[q] = "findBadge"
    /\ Goto(q, "mark", [req[q] EXCEPT !.row = badge.id])
    /\ UNCHANGED <<chosen, badge, made, Storage, Browser>>

\* A new row, if there is still none: registration_id is unique.
CreateRow(q) ==
    /\ pc[q] = "mark" /\ req[q].row = 0
    /\ badge = NoBadge /\ made < MaxId
    /\ made' = made + 1
    /\ badge' = [id |-> made + 1, status |-> "generating", template |-> req[q].template,
                 url |-> FALSE, quick |-> FALSE, orphan |-> FALSE]
    /\ Goto(q, "browser", [req[q] EXCEPT !.row = made + 1])
    /\ UNCHANGED <<chosen, Storage, Browser>>

\* The row that was found, if it is still there.
ReuseRowAsItIs(q) ==
    /\ pc[q] = "mark" /\ req[q].row # 0
    /\ badge.id = req[q].row
    /\ badge' = [badge EXCEPT !.status = "generating", !.orphan = FALSE]
    /\ Goto(q, "browser", req[q])
    /\ UNCHANGED <<chosen, made, Storage, Browser>>

ReuseRow(q) ==
    /\ pc[q] = "mark" /\ req[q].row # 0
    /\ badge.id = req[q].row
    /\ badge' = [badge EXCEPT !.status = "generating", !.template = req[q].template,
                              !.orphan = FALSE]
    /\ Goto(q, "browser", req[q])
    /\ UNCHANGED <<chosen, made, Storage, Browser>>

\* getBrowser looks at this.browser and, if need be, launches a new Chromium,
\* which takes a while.  A page is then rendered in it.
GetBrowser(q) ==
    /\ \/ /\ pc[q] = "browser"
          /\ Goto(q, IF connected THEN "uploadPdf" ELSE "launch", req[q])
       \/ /\ pc[q] = "show"
          /\ IF connected THEN End(q) ELSE Goto(q, "showLaunch", req[q])
    /\ UNCHANGED <<chosen, badge, made, Storage, Browser>>

Launch(q) ==
    /\ chromium < MaxChromium
    /\ chromium' = chromium + 1
    /\ connected' = TRUE
    /\ \/ pc[q] = "launch" /\ Goto(q, "uploadPdf", req[q])
       \/ pc[q] = "showLaunch" /\ End(q)
    /\ UNCHANGED <<chosen, badge, made, Storage>>

UploadPdf(q) ==
    /\ pc[q] = "uploadPdf"
    /\ files' = [files EXCEPT !.pdf = req[q].template]
    /\ Goto(q, "uploadImage", req[q])
    /\ UNCHANGED <<chosen, badge, made, links, Browser>>

UploadImage(q) ==
    /\ pc[q] = "uploadImage"
    /\ files' = [files EXCEPT !.image = req[q].template]
    /\ Goto(q, "complete", req[q])
    /\ UNCHANGED <<chosen, badge, made, links, Browser>>

Complete(q) ==
    /\ pc[q] = "complete"
    /\ badge.id = req[q].row
    /\ badge' = [badge EXCEPT !.status = "completed", !.url = TRUE, !.quick = FALSE]
    /\ Goto(q, "link", req[q])
    /\ UNCHANGED <<chosen, made, Storage, Browser>>

Link(q) ==
    /\ pc[q] = "link"
    /\ links' = TRUE
    /\ IF req[q].serve THEN Goto(q, "fetch", req[q]) ELSE End(q)
    /\ UNCHANGED <<chosen, badge, made, files, Browser>>

\* A call fails: the row is gone or there meanwhile, rendering takes too long,
\* Chromium or R2 is not there.
FailUncaught(q) ==
    /\ pc[q] \in Generating \cup { "generate", "findBadge" }
    /\ End(q)
    /\ UNCHANGED <<chosen, badge, made, Storage, Browser>>

Fail(q) ==
    /\ pc[q] \in Generating \cup { "generate", "findBadge" }
    /\ Goto(q, "rescue", req[q])
    /\ UNCHANGED <<chosen, badge, made, Storage, Browser>>

\* The handler looks for a badge of the registration, whoever made it.
Rescue(q) ==
    /\ pc[q] = "rescue"
    /\ IF badge = NoBadge THEN End(q)
       ELSE Goto(q, "markFailed", [NoRequest EXCEPT !.row = badge.id])
    /\ UNCHANGED <<chosen, badge, made, Storage, Browser>>

MarkFailed(q) ==
    /\ pc[q] = "markFailed"
    /\ badge' = IF badge.id = req[q].row THEN [badge EXCEPT !.status = "failed"] ELSE badge
    /\ End(q)
    /\ UNCHANGED <<chosen, made, Storage, Browser>>

---------------------------------------------------------------------------
\* downloadBadge generates the badge if it is not complete, and sends its file.

DownloadBegin(q) ==
    /\ IF badge.status = "completed" /\ badge.url
       THEN Arrive(q, "fetch", NoRequest)
       ELSE Arrive(q, "generate", [NoRequest EXCEPT !.serve = TRUE])
    /\ UNCHANGED <<chosen, badge, made, Storage, Browser>>

Fetch(q) ==
    /\ pc[q] = "fetch" /\ files.pdf # None /\ files.image # None
    /\ End(q)
    /\ UNCHANGED <<chosen, badge, made, Storage, Browser>>

\* Pages that are rendered and not kept.

\* generateBadgePreview, which fails without a template.  With another template,
\* which needs none to apply, or when it is forced, the badge is removed first.
Preview(q) ==
    /\ Arrive(q, "show", NoRequest)
    /\ \/ chosen # None /\ UNCHANGED badge
       \/ badge' = NoBadge
    /\ UNCHANGED <<chosen, made, Storage, Browser>>

\* generateTestBadge: any template and invented data.  Its file has a key of its own.
TestBadge(q) ==
    /\ Arrive(q, "show", NoRequest)
    /\ UNCHANGED <<chosen, badge, made, Storage, Browser>>

\* generateEventBadgesPDF: a page for each registration that a template applies
\* to; without any, it fails.
EventPdf(q) ==
    /\ chosen # None
    /\ Arrive(q, "show", NoRequest)
    /\ UNCHANGED <<chosen, badge, made, Storage, Browser>>

Show(q) == Preview(q) \/ TestBadge(q) \/ EventPdf(q)

\* deleteBadge
DeleteBegin(q) ==
    /\ badge # NoBadge
    /\ Arrive(q, IF badge.url THEN "deleteFile" ELSE "deleteRow",
              [NoRequest EXCEPT !.row = badge.id])
    /\ UNCHANGED <<chosen, badge, made, Storage, Browser>>

DeleteStoredFile(q) ==
    /\ pc[q] = "deleteFile"
    /\ files' = [files EXCEPT !.pdf = None]
    /\ Goto(q, "deleteRow", req[q])
    /\ UNCHANGED <<chosen, badge, made, links, Browser>>

\* The key is made of the last part of the URL alone, badges/badge.pdf, and
\* nothing is stored under it.  An error is only logged.
DeleteFile(q) ==
    /\ pc[q] = "deleteFile"
    /\ Goto(q, "deleteRow", req[q])
    /\ UNCHANGED <<chosen, badge, made, Storage, Browser>>

DeleteRow(q) ==
    /\ pc[q] = "deleteRow"
    /\ badge' = IF badge.id = req[q].row THEN NoBadge ELSE badge
    /\ End(q)
    /\ UNCHANGED <<chosen, made, Storage, Browser>>

\* generateBadgesBulk (RegistrationsService): an upsert with the template of
\* the event, completed without files.
BulkUpsert(t) ==
    /\ badge' = IF badge = NoBadge
                THEN [id |-> made + 1, status |-> "completed", template |-> t,
                      url |-> FALSE, quick |-> TRUE, orphan |-> FALSE]
                ELSE [badge EXCEPT !.status = "completed", !.template = t, !.quick = TRUE]
    /\ badge = NoBadge => made < MaxId
    /\ made' = IF badge = NoBadge THEN made + 1 ELSE made
    /\ alone' = (alone /\ \A p \in Requests : pc[p] = "idle")
    /\ UNCHANGED <<chosen, Storage, Browser, pc, req>>

---------------------------------------------------------------------------
\* Another template is assigned, or the last one is removed.
Assign ==
    /\ chosen' \in (Templates \cup { None }) \ { chosen }
    /\ UNCHANGED <<badge, made, Storage, Browser, pc, req, alone>>

\* The Chromium that this.browser stands for dies.
BrowserDies ==
    /\ connected /\ chromium > 0
    /\ connected' = FALSE
    /\ chromium' = chromium - 1
    /\ UNCHANGED <<chosen, badge, made, Storage, pc, req, alone>>

\* The request of q is on its way to complete the badge or to mark it failed.
Settles(q) ==
    \/ /\ pc[q] \in { "browser", "launch", "uploadPdf", "uploadImage", "complete", "markFailed" }
       /\ req[q].row = badge.id
    \/ pc[q] = "rescue"

\* A request dies: the database is lost or the process ends.
Abort(q) ==
    /\ pc[q] # "idle"
    /\ badge' = IF badge.status = "generating" /\ Settles(q)
              THEN [badge EXCEPT !.orphan = TRUE] ELSE badge
    /\ End(q)
    /\ UNCHANGED <<chosen, made, Storage, Browser>>

---------------------------------------------------------------------------
Generate(q) ==
    \/ GenerateBegin(q) \/ ReadTemplate(q) \/ FindBadge(q)
    \/ CreateRow(q) \/ ReuseRow(q) \/ GetBrowser(q) \/ Launch(q) \/ UploadPdf(q) \/ UploadImage(q)
    \/ Complete(q) \/ Link(q) \/ Fail(q) \/ Rescue(q) \/ MarkFailed(q)

Step(q) ==
    \/ Generate(q)
    \/ DownloadBegin(q) \/ Fetch(q) \/ Show(q)
    \/ DeleteBegin(q) \/ DeleteFile(q) \/ DeleteRow(q)
    \/ Abort(q)

Init ==
    /\ chosen \in Templates \cup { None }
    /\ badge = NoBadge /\ made = 0
    /\ files = [pdf |-> None, image |-> None] /\ links = FALSE
    /\ connected = FALSE /\ chromium = 0
    /\ pc = [q \in Requests |-> "idle"]
    /\ req = [q \in Requests |-> NoRequest]
    /\ alone = TRUE

Next ==
    \/ \E q \in Requests : Step(q)
    \/ \E t \in Templates : BulkUpsert(t)
    \/ Assign \/ BrowserDies

Spec == Init /\ [][Next]_vars

---------------------------------------------------------------------------
\* Properties

\* Whoever holds a link to the badge's files, the row, the registration or a
\* download that has read it, finds them, however generations and deletions
\* overlap: the keys are never removed.
LinksLead ==
    (badge.url \/ links \/ \E q \in Requests : pc[q] = "fetch")
        => files.pdf # None /\ files.image # None

\* A badge is not left generating: a request is on its way to complete it or to
\* mark it failed, unless one that could do so has died.
GeneratingHasRequest ==
    badge.status = "generating" /\ ~badge.orphan => \E q \in Requests : Settles(q)

\* What a completed badge says of its template is what its files show.  It holds
\* while requests do not overlap and the badge was rendered last.
FilesMatchAlone ==
    alone /\ badge.status = "completed" /\ ~badge.quick =>
        files.pdf = badge.template /\ files.image = badge.template

\* The deployment guide: the singleton guarantees that one Chromium runs.
OneChromium == chromium <= 1

=============================================================================
