# TLA+ models of attendee-ems-back

This directory models the back end of Attendee EMS, a NestJS service that keeps
events, registrations, badges, users and sessions in PostgreSQL through Prisma.
The models are state machines in TLA+, checked by TLC on small instances; the
central results are also proved by TLAPS for all instances.

## How the program runs, and what a step is

One Node process (or several behind a load balancer: nothing is shared between
requests but the database) handles HTTP requests. A handler is a sequence of
awaited database calls with plain computation in between. Between two awaited
calls any other request may run, so **one database call is one step** of a
model, together with the computation that follows it up to the next call. A
request occupies a *slot* of the constant set `Requests` from its first call to
its last; `pc[q]` names the call the slot makes next and `req[q]` holds the
local variables the rest of the handler still uses. A slot that is idle may
take any request the environment can send.

`$transaction(async tx => ...)` runs at READ COMMITTED, Prisma's and
PostgreSQL's default: every statement sees what was committed when it starts.
A transaction is therefore not one step. What it writes becomes visible at
COMMIT, which the models place at its last statement; what it locks (an
attendee's row that it updates, say) stays locked until then. `Abort` ends a request
between any two calls: a lost connection, the 5 s limit on interactive
transactions, a restart of the process. It rolls the open transaction back and
leaves earlier calls of the handler done.

What a request leaves out is `undefined`, and Prisma writes no column for it. An
`update` or `upsert` that is left with **nothing to write locks nothing**: the
update is a `SELECT`, the upsert a `SELECT` and, when there is no row, an `INSERT`
of its own, which fails on the unique index if another request was faster. This
decides what the row locks of a transaction are worth, and the models keep it
wherever a lock matters:

| Request with nothing to write | Where | In the models |
|---|---|---|
| registration, or row of an import, that gives only the email of a known attendee | `public.service.ts:204`, `registrations.service.ts:306` and `871` | `locks` in `Registrations` and `CheckIn`; `OnlyEmail`, `UpsertRead` in `Attendees` |
| creation of an attendee with only a known email, update of one without fields | `attendees.service.ts:50` and `414` | `ReviseUnchanged` in `Attendees` |
| update of a badge rule with types only | `events.service.ts:1216` | `WritesRule` in `EventSetup` |
| update of an event with assigned users only, or with settings only | `events.service.ts:568` | `columns` in `EventSetup` |
| seeding of an organisation or of a role's permission | `organizations.seeder.ts:37`, `create-admin.js:51`, `permissions.seeder.ts:904` | `LookForOrg`, `PutOrg`, `LookForGrant`, `Grant` in `AccessControl` |

(`createTag` without a colour is one more; finding the tag there changes nothing.)

## Inventory

| Part | State it keeps | Operations | What is hard | What makes it correct |
|---|---|---|---|---|
| Registrations (`registrations.service.ts`, `public.service.ts`) | `registrations`: one row per (event, attendee) with status, `confirmed_at`, `deleted_at` | create, registerToEvent, updateStatus, bulkUpdateStatus, remove, bulkDelete, restore, permanentDelete, bulkImport | the capacity count is not atomic with the write it allows; soft-deleted and cancelled rows still occupy the unique index; imports count once | capacity, one row per attendee, approved implies confirmed, purge only what is soft-deleted |
| Check-in (`registrations.service.ts`) | `checked_in_at`, `checked_out_at` and who did it | checkIn, undoCheckIn, checkOut, undoCheckOut, bulkCheckIn, getEventStats | guards on a row read earlier | nobody checked out who was never in; repeated admissions bounded; imports keep check-ins |
| Sessions (`auth.service.ts`, `auth.controller.ts`) | `refresh_tokens`, `users.reset_token`, the browsers' cookies | login, refresh, logout, requestPasswordReset, resetPassword | rotation is issue then revoke, in two calls; tabs share a cookie; responses are lost | a rotated token is retired; reset ends sessions |
| Events (`events.service.ts`) | `events`, `event_settings`, attendee types and badge rules of an event | create, update, remove, changeStatus, attendee types, badge rules | capacity may be lowered; rule priorities are read before the insert | one settings row per event, unique priorities |
| Invitations (`invitation.service.ts`) | `invitations`, `users` | send, resend, validate, complete, cancel | no transaction anywhere; status overwritten | one pending invitation per address, accepted if and only if the user exists |
| Badge generation (`badge-generation.service.ts`) | `badges`, the browser, files in R2 | generateBadge, regenerate, delete, preview, bulk, print count | find-then-create on a unique column; failure overwrites success | a completed badge has its files |
| Badge templates (`badge-templates.service.ts`, `badges.service.ts`) | `badge_templates` | create, update, remove, default | unset then create | at most one default |
| Tags (`tags.service.ts`) | `tags.usage_count`, `event_tags` | updateEventTags, createTag, removal of events | relative updates in concurrent transactions, lock order | the count equals the links |
| Attendees (`attendees.service.ts`) | `attendees`, `attendee_revisions` | create, update, remove, restore, bulkDelete, bulkRestore, permanentDelete; registrations, imports and edits write there too | every handler looks for an email or a row and writes it later, some in a transaction; deletions cascade; two lock orders | one row per email, revisions that show the row, nothing without its attendee |
| Users, roles, organisations (`users`, `roles`, `organizations`) | `users`, `roles`, `role_permissions`, `organizations`; the access tokens clients hold | create, update, bulkDelete of users; updateRolePermissions; create organisation | no transaction anywhere: delete-then-insert, 90 calls for one organisation, levels read in a call of their own | nobody gets a role as high as the requester's; a replacement leaves what was asked for |
| Seeding (`prisma/seeders`, `scripts/create-admin.js`) | the same tables and `permissions` | all, organizations, organization, testUsers, minimal, createAdmin | run again on what an earlier run left, while others run and requests are served; templates have no unique index | a seeding that ends without an exception leaves everything there; copies stay bounded |
| Scopes and permissions (`common/guards`, `common/utils`, `rbac`) | none | pure functions of the token's role and permissions | codes are written by hand in the catalogue, in two mappings, in the routes and in the rules for the front end | each role reaches as far as the scope utilities' comments say, whichever mapping made it |
| E-mail, storage, exports, health, configuration, logging | none | I/O and formatting | | not modelled |

How they interact: the public form and the back office meet on
`registrations` and `attendees`; the event's row gives them capacity, status
and auto-approve; import does what create does, row by row. Check-in, badge
generation and printing read and write the same registration rows. Invitations
create users; users carry the password and the refresh tokens; every guarded
request trusts the permissions in its access token until that expires. Roles and
their permissions come from two mappings: the seeders' (`permissions.seeder.ts`)
and that of `OrganizationsService.create`.

## Modules

### Registrations

`Registrations.tla` is one event of one organisation: its row and settings
(`event`), its registrations by attendee (`reg`), and the requests in flight.
Restriction to one event loses little: handlers touch several events only in
`bulkUpdateStatus`, which treats them one after the other.

| Model | Code |
|---|---|
| `RegisterBegin`, `UpsertAttendee`, `FindExisting`, `CountSeats`, `Insert` | `PublicService.registerToEvent`: the upsert comes first, capacity after the duplicate check |
| `CreateBegin`, `CountSeats`, `UpsertAttendee`, `FindExisting`, `Insert` | `RegistrationsService.create`: capacity before the upsert; `admin_status` and mobile requests override the default status |
| `StatusBegin`, `CountSeats`, `StatusWrite` | `updateStatus`; the row is read without looking at `deleted_at` |
| `BulkStatusBegin`, `BulkReadEvent`, `CountSeats`, `BulkStatusWrite` | `bulkUpdateStatus`; `more` is the number of new approvals |
| `Remove`, `BulkDelete` | `remove`, `bulkDelete` |
| `RestoreBegin`, `CountSeats`, `RestoreWrite` | `restore` |
| `PurgeBegin`, `PurgeWrite` | `permanentDelete` |
| `ImportBegin`, `ImportCount`, then `ImportRow`, `ImportFind`, `ImportWrite` or `ImportRowFails` for each row, `ImportEnd` | `bulkImport`, with and without `replaceExisting` |
| `UpdateEvent` | `EventsService.update` as far as these handlers see it |

`req[q].locks` says whether the upsert has a field to write and so takes the lock;
`Locking` is which of the two an instance sends. A request that locks nothing can do
all that one that locks can, and waits for nobody, so the runs about anything but
the lock send only those, and `reg_locking` sends both.
`capacity` 0 stands for null (the DTO demands at least 1). A row keeps an `id`
so that a request that read a row that was purged since and replaced by a new
one misses it, as `update({where: {id}})` does. Times are "set" or "null".
A status an Excel row may ask for and the enum does not have (`pending`,
`confirmed`) is `unknown`: the write of such a row fails.

`Admission.tla` is what remains of registering, creating and changing a status when
rows and calls are hidden: desks that open a case and note the capacity in force,
promise one seat when at one moment fewer people than that are admitted, and later
admit the person it was promised to, or close. It does not say that the capacity is
kept, because two desks may promise the same seat: it says what is done instead.
`OfficeSpec` is `Admission` under the mapping that takes a slot that serves a
registration as an open desk (`Serving`), the capacity it read as what the desk noted
(`Limit`), and the registration that its check has let through as promised
(`Promised`); soft deletion of the row a status change has read makes the promise
lapse. Restoring, imports, and bulk approvals take several seats on one
comparison or none, and are outside of it.

### Sessions

`Sessions.tla` is one user: the refresh tokens in the order in which they were
issued, the account (`is_active`, whether a reset token is valid), and the
cookies of the user's browsers. Requests of one browser may overlap, because
its tabs share the cookie. `Answer` is the response reaching the browser;
`Abort` may lose it. `Elapse` makes 30 seconds (the tolerance of
`rotateRefreshToken`) or 30 days (the life of a token) pass, for one token at
a time, which is more than real time allows. The field `from` of a token is a
history variable: the token it was rotated from.

`Slots.tla` is what `Sessions` and `Invitations` have in common, the slots and
their `pc`; one module, `AccountProofs`, proves about both.

### CheckIn

`CheckIn.tla` is the presence of the registrations of one event. Every
operation is a find (`...Begin`, with the checks that refuse) and an update by
id (`...Write`), two calls with anything in between; only the row of an import
has a transaction, which holds the attendee's row lock, if the row gives more than
the email, and so keeps other imports of the same registration out. `bulkCheckIn` finds and checks many and
writes them with one `updateMany`. The back office's status changes, deletions
and restorations are single steps here, because what precedes their last call
is in `Registrations`. `wasIn` and `admitted` are history: whether a
registration was ever in, and how many scans were answered with success since
it was last not in.

`Attendance.tla` is what all this promises, without requests: people arrive,
are taken back, leave, return or are forgotten, any number at a time, and only
those leave who have come. `CheckIn` implements it: `LedgerSpec` is `Attendance`
under the mapping that takes `inside`, `gone` and `came` from the rows and
`wasIn`, and hides the slots. A find is a stutter; every write is one action of
`Attendance`, whatever happened since its find.

### Invitations

`Invitations.tla` is the invitations of one address to one organisation, in the
order in which they were made, and whether the address has an account. Nothing
runs in a transaction: `SendBegin`, `CreateOrg`, `FindUser`, `FindLatest`,
`Create` are the calls of `sendInvitation`; `ResendBegin`, `Replace`, `Create`
those of `resendInvitation`; `CompleteBegin`, `CreateAccount`, `Accept` those of
`completeInvitation`; `CancelBegin`, `Cancel` those of `cancelInvitation`;
`ExpireBegin`, `Expire` what opening an old link does. `AddUser` and
`RemoveUser` are what `UsersService` may do to the address. The checks on the
inviter's role only refuse and are left out, as is mail, which is sent last and
whose failure is answered with success. `used`, `lost`, `closed` of an
invitation and `alone` are history: an account was made through it, the request
that did so failed right after, it was once accepted or cancelled; and whether
requests have only run one after the other so far.

### BadgeGeneration

`BadgeGeneration.tla` is the badge of one registration: its row, the two files
in R2, the links the registration keeps, and the Chromium that renders. A file
is named by the template it was rendered with, and its key by the registration,
so later badges overwrite it. `badge.id` tells a row from the one made after it
was deleted: updates are by id and fail when the row is gone.

| Model | Code |
|---|---|
| `GenerateBegin`, `ReadTemplate`, `FindBadge`, `CreateRow` or `ReuseRow`, `GetBrowser`, `Launch`, `UploadPdf`, `UploadImage`, `Complete`, `Link` | `generateBadge`, also for each registration of `generateBulk` and `generateBadgesForEvent`, and for `regenerateBadge` |
| `Fail`, `Rescue`, `MarkFailed` | its `catch`: find a badge of the registration, mark it failed |
| `DownloadBegin`, `Fetch` | `downloadBadge`, which generates what is not complete |
| `Preview`, `TestBadge`, `EventPdf` (`Show`), then `GetBrowser`, `Launch` | `generateBadgePreview` (a forced one deletes the row), `generateTestBadge`, `generateEventBadgesPDF`: pages that are not kept |
| `DeleteBegin`, `DeleteFile`, `DeleteRow` | `deleteBadge`; the key it deletes is not the one that was stored, so `DeleteFile` changes nothing |
| `BulkUpsert` | `generateBadgesBulk`: completed, without files |
| `Assign`, `BrowserDies`, `Abort` | templates reassigned, Chromium gone, a request gone |

Rendering is between two steps and changes no state. `quick` (last completed
by `generateBadgesBulk`) and `orphan` (a request that was to settle the badge
died) are history.

### EventTags

`EventTags.tla` is the tags of an organisation's events. Its transactions run
at READ COMMITTED and are modelled call by call: what a transaction has written
is in `req` until `Commit`, and the row locks (`TagHolders`, `LinkHolders`,
`EventSharers`, `EventHolders`) are derived from it.

| Model | Code |
|---|---|
| `Create`, `Update` | `EventsService.create`, whose tags follow in a second transaction, and the tags controller |
| `ReadLinks`, `DeleteLinks`, `Decrement`, `Upsert`, `LinkTag` or `LinkFails`, `Commit` | `updateEventTags`; `Decrement` counts down what `ReadLinks` saw, found or not |
| `Remove`, `BulkDelete`, `LockEvent`, `DeleteEvents` | `EventsService.remove`, `bulkDelete`: the event's row, then what the foreign keys cascade to |
| `CreateTag` | `createTag` |
| `Abort`, `Victim`, `Starve` | time-outs and lost connections; the deadlock PostgreSQL ends; no second connection for the answer |

`getEventTags` reads the answer through the client and not through the
transaction: `Commit` therefore needs a second connection (`FreeConnection`).
Tags and links are taken in any order, which is what the order of the client's
list and of the unordered query amount to. A statement that waits for one of
several rows is taken to hold none of them yet, except for the events of a
`bulkDelete`. `cascaded` and `missed` are history: links that went with their
event, decrements whose link was gone before.

### EventSetup

`EventSetup.tla` is what one event is set up with: the badge templates of its
organisation, the template and the users it is assigned, its badge rules with
their priorities and attendee types, and the badges that refer to templates.
Two services write the table of templates and only one of them looks after the
default.

| Model | Code |
|---|---|
| `Create`, `UnsetDefaults`, `Insert`; `Update`, `UnsetDefaults`, `Write`; `Remove`, `CountUses`, `Delete` | `BadgeTemplatesService.create`, `update`, `remove` |
| `CreateTemplate`, `DuplicateTemplate`, `Insert`; `UpdateTemplate`, `Write`; `DeleteTemplate`, `Delete` | `BadgesService`, the same calls without the checks |
| `UpdateEvent`, `LockEvent`, `CheckAssigned`, `SetSetting`, `Leave` and `Left`, `Assign` | `EventsService.update`, one transaction; what it writes shows at `Assign`. It locks the event if it writes a column (`columns`) and the settings if it assigns a template |
| `CreateBadgeRule`, `CheckTypes`, `NextPriority`, `InsertRule` | `createBadgeRule`, each call on its own |
| `UpdateBadgeRule`, `CheckRuleTemplate`, `CheckRuleTypes`, then `UpdateRule`, `Unlink` and `Unlinked`, `Link` | `updateBadgeRule`: checks, then one transaction, which locks the rule if it writes a column of it (`WritesRule`) |
| `DeleteBadgeRule`, `DeleteRule` | `deleteBadgeRule` |
| `RemoveType`, `DeleteTypeWaits`, `DeleteType` | `AttendeeTypesService.remove`, whose cascade waits for rows that an update of a rule has deleted |
| `GenerateBadge`, `WriteBadge` | what badge generation writes about templates; the rest is in `BadgeGeneration` |
| `...Fails`, `Victim`, `Abort` | the database rejects a call, ends a deadlock; a request is gone |

A template's `state` says whether its row has been made, is stored or deleted;
ids do not come back. `asked...` is history: what the last request to replace a
set has asked for, `stray...` what may be there besides because replacements
overlapped that lock no row in common; `errors` is which writes were rejected, and
why, while requests ran one after the other (`alone`). A deletion in a replacement
finds rows and then waits for others that have deleted some of them; an insert waits
for those as well. The calls of `getTemplateForEvent`
are one step. `HoldsRule`, `HoldsTemplate`, `TypeHolders` derive the row locks
from the requests' places. Three things are coarser than in PostgreSQL: which row
locks a deletion that waits has already taken (`DeletesUnder` leaves a deadlock with
it open), deadlocks by the order of inserted rows and updates of the event's code
(`Abort` may end any request), and locks on the event's settings and e-mail settings
by requests that write other columns of them, which would only rule out behaviours.

### Attendees

`Attendees.tla` is the attendees of one organisation, the snapshot of each
one's last revision and the registrations for one event. It is the other side of
`Registrations`, which knows of an attendee only that its row is locked: here
the rows have emails and are activated, deactivated and deleted, and a
registration is only there or not. As in `EventTags`, transactions are modelled
call by call, what is written shows at COMMIT, and the locks are derived from
what a request has written.

| Model | Code |
|---|---|
| `Create`, then `SaveRow` or `InsertRow`, `Revise` or `ReviseUnchanged` | `AttendeesService.create` |
| `Update`, `CheckEmail`, `SaveRow`, `Revise` or `ReviseUnchanged` | `update`; the email is looked for only when it changes |
| `Remove`, `SaveRow`, `Revise`; `ForcedRemove`, `NoteDeletion`, `Drop` | `remove`, without and with `force` |
| `Restore`, `SetRow` | `restore`: an update by id of the row found inactive |
| `Edit`, `SetRow` | the attendee's part of `RegistrationsService.update` |
| `BulkDelete`, `BulkRestore`, `LockRow`, `BulkSet` | `bulkDelete`, `bulkRestore`: one `updateMany` |
| `Purge`, `DeleteRegistrations`, `LockRow`, `PurgeRows` | `permanentDelete`, `bulkPermanentDelete` |
| `Register`, `UpsertFound`, `UpsertNew` or `UpsertRead`, `FindRegistration`, `InsertRegistration` or `RewriteRegistration` | `registerToEvent`, `RegistrationsService.create`, a row of `bulkImport` |
| `...Fails`, `Victim`, `Abort` | the unique index or a row that is gone rejects a statement; a deadlock; a request gone |

PostgreSQL's row locks come in strengths, and the model keeps three of them: a
row that is new, whose email changes or that is deleted excludes everything
(`Exclusive`); any other update excludes updates (`Updates`); a revision that is
inserted refers to the row and excludes its deletion (`RefersTo`). An email that
a transaction has put into the unique index, or taken out of it, makes others
wait (`InWayOfEmail`). A bulk statement takes its rows in any order and looks
again at those it waited for (`Matches`). A request without a field to write has
only read the row: `Written` is false, it commits nothing to `att`, and its revision
shows what it read (`ReviseUnchanged`). `alone`, `silent` (the last change
wrote no revision, or the last revision is of such a request) and `surprised` (kinds
of request the database has refused) are history.

### Permissions and AccessControl

`Permissions.tla` has no state: the catalogue of permissions, the two mappings
from role codes to permissions, and the functions that decide what a token is
good for. A permission is a record of resource (`on`), action (`do`) and scope.

| Model | Code |
|---|---|
| `Catalogue` | `permissionsData` of `permissions.seeder.ts` |
| `SeededMapping`, `FoundedMapping` | `rolePermissionMapping`, and the mapping in `organizations.service.ts` |
| `Ability`, `Can` | `CaslAbilityFactory` |
| `Passes` | `PermissionsGuard.canActivate`, with its fallback to `all` for resources it does not know |
| `...ReadScope`, `...WriteScope` | `resolve-*-scope.util.ts` |
| `Policy` | `AuthService.getPolicyRules` |

`AccessControl.tla` is the tables those functions are fed from. Two sorts of
process write them, one database call at a time and without a transaction.

| Model | Code |
|---|---|
| `StartScript`, `NextStage`, `ScriptEnds`, `Thrown`, `Fails`, `Crash` | `seeders/index.ts`, `examples.ts`, `seed-specific.ts`, `create-admin.js`: a script is a sequence of stages (`Scripts`), each a loop over rows |
| `LookForOrg`, `PutOrg` | `seedOrganizations` and that of `create-admin.js`: upserts with nothing to update, so a look and then an insert |
| `UpsertPermission`, `UpsertAdminRole` | `seedPermissions` and the roles of `create-admin.js`: upserts with something to update, one statement each |
| `LookForRole`, `PutRole` | `seedSystemRoleTemplates`, `seedOrganizationRoles`: find, then create |
| `LookForGrant`, `Grant` | `assignAllRolePermissions`: again a look and an insert; a unique violation leaves out the rest of the role (`WithoutRole`) |
| `LookForUser`, `PutUser` | `seedUsers` |
| `CreateOrgBegin`, `CreateOrgRole`, `CreateOrgRolesDone`, `CreateOrgGrant`, `CreateOrgEnd` | `OrganizationsService.create` |
| `SetPermissionsBegin`, `CheckHierarchy`, `ClearPermissions`, `FillPermissions` | `updateRolePermissions` |
| `CreateUserBegin`, `ReadLevel`, `CreateUserCheck`, `CreateUserInsert` | `UsersController.create`, `UsersService.create` |
| `UpdateUserBegin`, `ReadLevel`, `UpdateUserCheck`, `UpdateUserWrite` | `update`; the level is only looked at when the role changes |
| `DeleteUsers` | `bulkDelete`, one `deleteMany` |
| `Login`, `Authorised` | `signAccessToken`, `JwtStrategy.validate`: the token keeps the permissions of its signing |

A role row is its organisation (or `Global` for the templates, whose `org_id` is
null), its code and, for templates, the number of the copy. A loop takes its rows
in one order, which nothing depends on (`Coming`). `job[s]` holds where script
`s` is, what its loop has left and what it looked up last. `edited` (roles whose
permissions a request replaced) and `alone` in a request (nobody else wrote what
it relies on) are history.

## Runs

| Run | Instance | What it shows |
|---|---|---|
| `reg_serial` | 2 attendees, 1 slot, all kinds, capacity null or 1, 2 import rows, 2 ids | handlers taken alone keep the capacity and confirm what they approve |
| `reg_concurrent` | 3 attendees, 2 slots, capacity 1; register, create, status | overbooking stays at one seat per additional slot; registering implements `Admission` (`OfficeSpec`) |
| `reg_locking` | 1 attendee, 2 slots, 1 import row, 2 ids; register, import, purge, bulkDelete, with and without a field to write; fairness | a registration appears behind a duplicate check only through a request that locks nothing; a purge removes nothing but soft-deleted rows; every request ends |
| `reg_race` (violated) | 2 attendees, 2 slots, capacity 1 | two public registrations overbook the event |
| `ses_concurrent` | 1 browser, 2 slots, 3 tokens | a client only ever holds a live successor of a token that was revoked; replacement links are right |
| `checkin` | 2 registrations, 2 slots | presence implements `Attendance` (`LedgerSpec`); simultaneous scans are both answered, but no more than slots; an import keeps the check-in it saw |
| `invitations` | 3 invitations, 2 slots | what was accepted or cancelled is never used again; without overlap, one invitation is pending and an accepted one stays so |
| `badges` | 2 templates, 2 rows, 2 slots, 1 Chromium | links lead to files; nothing is left generating; without overlap, files show the template of the row |
| `event_setup` | 3 templates, 2 rules, 1 type, 1 user, 2 slots, 2 requests from 2 configurations; fairness | nothing refers to what is gone; replacements that share a row they both write never mix; the checks foresee the rejections; a new default replaces the old one; no request waits for ever |
| `attendees` | 4 ids of which 1 is stored, 2 emails, 2 slots, 3 requests that give the email alone or with a field, the flag, or nothing; fairness | no email twice; revisions of requests that write show the row; deletions leave nothing behind; without overlap the look-ups suffice; no request waits for ever |
| `event_tags` | 2 events, 2 tags, 2 slots, 2 connections, 3 requests; fairness | what `usage_count` counts; an update that meets no other does what it was asked; no request waits for ever |
| `access` | 2 organisations, 4 role codes, 13 permissions, 4 accounts, 2 scripts, 2 slots; six loads | seedings that start again, fail and overlap complete what they found; templates stay bounded; each role reaches as far as the scope utilities' comments say; what level checks and replacements are worth when nobody else writes |

Next to some definitions stands a faulty variant of them that no specification
uses (`FindAny` next to `FindLatest`): a mistake that the properties are known to
detect.

Why the bounds are enough. Capacity 1 with two attendees has an event that is
empty, full and overbooked; null capacity and a change of it are in
`reg_serial`. The overbooking bound needs one more attendee than the bound
allows to be approved (1 + 2 - 1 = 2), hence three. Two import rows (in
`reg_serial`) let a row meet the registration and the counter that the one before left. Two ids let a
purged row be followed by a new one (`MaxId` stops a third). Three tokens let a
rotation follow a rotation. One attendee is enough for the lock, which is per
attendee, and leaves no symmetry to reduce, which a liveness check requires;
`create` has the same calls as `register` where the lock matters. There a second id
is the registration made after a purge, which a purge that found the first one must
not take; `restore` is left out of that run, because with it the live row is lost
(see below).
Two registrations are what a bulk check-in needs to differ from a single one,
and two slots are one handler and what interrupts it. Three invitations
(`MaxInv`) are one that is closed, the one that replaced it and the one after.
Three requests (`MaxStarted`) on
two events are two updates after a creation, which is what a missed decrement
needs; two creations or an update and a deletion deadlock with fewer. Two
connections are what two updates exhaust. Two badge rows (`MaxId`) let a request that knows the first meet the second;
two templates let files and row differ. `badges` lets one Chromium run
(`MaxChromium`): its properties do not look at a second one. `event_setup` starts
two requests (`MaxStarted`) from each of two configurations, because a race
needs two and what it needs to find (a rule to update, an inactive default, a
template in use) is given instead of made: two templates, a rule with the type, and
room for one more of each; a template that the settings and one that a badge and two
rules use, with a gap in the priorities. Its clients
ask for priority 1 or none, and for two combinations of `is_default` and
`is_active` (`Patches`); `RoomForTemplate` and `RoomForRule` stop creations that
would need more ids.
`attendees` starts from every form of one attendee, registered or not; three
requests (`MaxStarted`) are a creation and the two that then meet on two rows or
two emails, and each draws at most one id, so four never run
out. The fields other than email and flag are one, which one
request may set (`FewFields`): no property looks at them except through the row as a
whole.
`access` starts from an empty and from a seeded database. What runs in a behaviour
is its load (`MCLoads`): scripts one after the other with one failure or crash, two
containers starting together, an organisation created while the seeders run,
replacements of permissions, requests about accounts, accounts seeded while they
are used. Two or three processes per load (`starts`) are the writer, what
interrupts it and what comes after. Two slots, two scripts and three copies of a
template (`MaxCopies`) leave room for one copy more than `TemplatesBounded` allows.
`Kept` restricts the catalogue to the permissions on which mappings, scopes and
routes differ; clients ask for three sets of them, for roles below or equal to
their own (`Wishes`, `Asked`, `NewUsers`, `Patches`).
`CHECK_DEADLOCK FALSE` is given where requests run out: without `remove` in
`Kinds` or with all ids or tokens used, the environment may have nothing left to
send; `EveryRequestEnds` is what says that no request is stuck.

Fairness (`FairSpec`, only for `EveryRequestEnds`): weak fairness of
`Proceeds(q)`, because the process keeps running the continuations of the
requests it has; strong fairness of the two steps that wait for an attendee's
row, because PostgreSQL hands a row lock to the transactions queued for it. No
fairness is assumed of arrivals, failures or administrators. In `EventTags` and
`Attendees` strong fairness of each request's `Step(q)` says the same of all its locks, and
weak fairness of `Victim` and `Starve` says that PostgreSQL ends a deadlock and
Prisma a transaction that waits for a connection beyond its 5 seconds. In
`EventSetup` weak fairness of each request's calls is enough: nobody is overtaken
for ever by a bounded number of requests, and `Victim` is among the calls.

## Proofs

`RegistrationsProofs.tla` proves, for any sets of attendees, slots, kinds and
capacities satisfying the assumptions of `Registrations` (finite sets of
attendees and slots, capacities up to `Ceiling`, a sentinel outside the
attendees):

- `TypeCorrect`: `TypeOK` always holds. `TypeOK` is not inductive: that an
  inserted row's id is in range needs `RowsFit` (an absent row has an id left),
  which needs what a slot carries to the call it is about to make, `SlotFits`
  (a purging slot's row is not the last one; only an import row that was not
  examined yet asks for an unknown status). `TypeInv` is their conjunction.
- `NoDuplicateAfterCheck`: the action property `NoLateDuplicate`. The invariant
  behind it is `LockInv`: two slots that have an attendee's row locked have different
  attendees. A row appears only at `Insert` and `ImportWrite`; if the slot there and
  the slot whose check it passes both sent something to write, both have the lock,
  which cannot be. Nothing is said of the others, for which it is false.
- `OverbookingBounded`: `OverbookingBound` always holds. Call the seats the
  approved registrations together with the attendees for whom a slot, its count
  passed, is about to approve (`Claims`). A slot claims at most one seat
  (`OneSeatSlots`). `SeatBound` says that there are at most
  `Ceiling + Cardinality(Requests) - 1` seats. A claim is added only by
  `CountSeats`, when fewer than `Ceiling` registrations are approved, and then
  at most one claim per slot is open; no other step adds a seat. Hence
  `SeatInv`, which is inductive together with `TypeInv` and `SlotsOfOne`.

Three results say under which conditions a check lasts until the write it allows.
They rest on `RowFate`: the steps of all handlers, seen from one row, are the few
things that can happen to it (made, purged, given a status, restored, imported
again, left alone).

- `ApprovedConfirmed`: `ApprovedIsConfirmed`, if requests do not overlap, or no
  status changes, or no imports replace rows, while the others run
  (`ConfirmationsLast`). `updateStatus` leaves `confirmed_at` alone when the row it
  read had one; `StatusRead` says that the row then still has one. Only a
  replacing import puts back the `confirmed_at` it read itself, and with one next
  to a status change the property is false.
- `OnlySoftDeletedPurged`: the action property `PurgeOnlySoftDeleted`, if requests do
  not overlap, or nothing is permanently deleted, or nothing restores
  (`DeletionsLast`): what `permanentDelete` found deleted still is, or is gone and has
  another row in its place, which the id tells apart (`PurgeRead`).
- `AdmissionsFit`: the action property `CheckedAdmissionWithinCapacity` for one slot
  (`Solo`), any capacity, any number of attendees and rows. `Checked` says what a
  request has established at each call: a seat for the row it approves, enough for
  the batch it approves, for an import the count it carries from row to row. With
  two slots it is false; `OverbookingBounded` says by how much.
- `ImplementsAdmission`: `Spec => OfficeSpec`, the refinement of `Admission`, if every
  request is about one registration (`Kinds \subseteq SingleSeatKinds`), for any
  capacities, null included. A request that arrives opens a desk (`ArrivalAdmits`); a
  call is a promise or a stutter (`CallAdmits`); a write that makes somebody approved is
  the admission of the one its slot had promised, and any other write, exception
  or deletion settles (`WriteAdmits`, `SettleStep`). It needs, next to `OneSeatSlots`,
  that only those are counted for who are to be approved (`CountedFor`), and that no
  promise of another slot appears by a step (`OtherClaims`). Deletions, purges and
  capacities that are null or change are in the theorem; `reg_concurrent` has none.

`CheckInProofs.tla` proves, for any set of registrations and any finite set of
slots:

- `TypeCorrect`: `TypeOK`, inductive as it stands; every change goes through
  `Write`, so the proof is about what is written (`Fits`).
- `CheckedOutHasBeenIn`: `CheckedOutWasIn`, from `OutInv`, which adds that the
  registration a `checkOut` found in has been in, however long it takes to
  write.
- `AdmissionsAreBounded`: `AdmissionsBounded`, from `AdmInv`: the scans already
  answered and those about to write (`Pending`) are together no more than the
  slots. Once a registration is in, none becomes pending; a write trades one
  for the other.
- `SeenCheckInsAreKept`: the action property `SeenCheckInKept`, step by step
  under `TypeOK`.
- `ImplementsLedger`: `Spec => LedgerSpec`, the refinement of `Attendance`. Initial
  states map to initial states; under `TypeOK` and `OutInv` a step that writes no
  row is a stutter (`LedgerStutters`) and each kind of write is an action of
  `Attendance` (`UpdatesLedger`). `CheckedOutHasBeenIn` is the part of it that a
  reader may want by itself; no run checks it again.

`AccountProofs.tla` proves, of `Sessions`, for any sets of clients and slots and
any bound on the tokens:

- `TypeCorrect`, `RotationsRetire` and `ReplacementsLead`: `TypeOK`,
  `RotationRetiresOldToken` and `ReplacementsFit`. None of them is inductive alone.
  `TypeOK` is there for the other two. `IInv` is all three with `Ordered` (tokens are numbered in the order of issue, a
  successor after what it replaces, and no cookie names a token that was not
  issued) and `Fits` (the tokens a request remembers at the call it makes next). A
  token is never live again (`Grows`), so what a request saw revoked still is when
  it follows the replacement, however many requests came between.

and of `Invitations`, for any set of slots and any bound on the invitations:

- `InvitationsTypeCorrect`: `InviteTypeOK`, with `OrgFound`: a request that has
  passed the creation of the organisation finds it there.
- `ClosedForGood`: the action property `ClosedStaysClosed`, from `ClosedInv`:
  a closed invitation is `ACCEPTED` or `CANCELLED` or its link has expired, and
  each of these is refused.
- `OnePendingWhenAlone` and `AcceptanceKeptWhenAlone`: both from `Serial`, an
  invariant of histories without overlap (`AloneInv`): one request at most is
  under way, only the latest invitation may be pending, none is when one is about
  to be made, and what a request found is still as it found it.

`BadgeProofs.tla` proves, for any sets of slots and templates and any bounds:

- `TypeCorrect`: `TypeOK`, inductive as it stands because it says which calls
  have a row and a template (`SlotsOK`).
- `LinksAlwaysLead`: `LinksLead`, from `LinksInv`: a slot past an upload finds
  the file there. The one lemma that carries it is `FilesStay`: no step sets a
  file back to none.
- `GeneratingIsSettled`: `GeneratingHasRequest`, inductive with `TypeOK`. A
  badge becomes generating only by a request that is then about to settle it
  (`Taken`), and loses that request only by being settled or orphaned
  (`Settling`).
- `FilesMatchWhenAlone`: `FilesMatchAlone`, from `MatchInv`: the one request
  that runs owns the row, generating with its template, until both files are
  stored.

`EventTagsProofs.tla` proves, for any sets of slots and tags, any finite set of
events and any pool:

- `TypeCorrect`: `TypeOK`, which includes that links only join what is stored.
- `CountsAccounted`: `CountAccounted`, from `RequestsOK`: what a transaction has
  done fits the call it makes next (`Progress`); the links it has deleted are
  still there for the others and those it has made are not (`Pending`); no two
  transactions have the same link (`Apart`). So a commit changes the number of
  events of a tag by exactly what it has pending. This rests on the locks of the
  links only, not on those of the tags.
- `MissesNeedOverlap` and `UpdatesApply`: `NoMissAlone` (which no run repeats) and
  the action property `UpdateAppliesAlone`, from `AloneOK`: the one request that runs finds every link
  it has read (`Undisturbed`).

`EventSetupProofs.tla` proves, for any sets of slots, templates, rules, types and
users and any consistent configurations to start from:

- `TypeCorrect` and `SettingKept`: `TypeOK` and the action property
  `AssignedUntilUpdated` (which no run repeats). `IInv` adds the form of a
  request at each call (`Shapes`), what its locks keep for it (`AllHeld`: a rule of
  which it writes a column stays stored, the template it assigns is not removed, its
  priority stays free) and that no two transactions write columns of one event or of
  one rule, assign a template, or are at one priority (`AllApart`). `HeldIn` names
  the tables, so that each writing step is shown to keep it for the others
  (`Writes`, `RuleWritten`).
- `SetsReplacedAsAsked`: `ReplacedAsAsked`, from `MixInv`, which rests on `IInv`: what
  a replacement has not deleted of the set it is about to extend was put there by
  others that overlapped it and write no row in common with it (`Mixed`). Two that
  do are never both in the middle (`AllApart`), so between those nothing mixes.
- `RejectionsForeseen` and `DefaultIsReplaced`: `ChecksSuffice` and the action
  property `DefaultReplaces`, from `AloneInv`: as long as requests have not
  overlapped one at most is under way (`OneBusy`), and what it has looked up holds
  of the tables at the call it makes next (`Foreseen`), because only it has written
  since. Which handler makes which call (`Operates`) is part of it, as a call's
  rejection counts as foreseen or not by its handler (`Unchecked`). The rejections
  left are those no handler looks for. Of the two calls that replace a default, the
  first leaves none in the scope (`NoDefaultIn`) and the second is the only one to
  set one (`MarkGiven`).

`AttendeesProofs.tla` proves, for any sets of slots, emails and values, any finite
set of ids and any fields that requests give:

- `TypeCorrect` and `OneRowPerEmail`: `TypeOK` and `EmailsDistinct`. Both rest on
  `IInv`, which adds what a slot has at its call (`SlotOK`: what it has written is
  a row with an id drawn, whose email no other stored row has; what it has locked
  is stored) and that two transactions have not written one row, one email, or
  locked one row (`Apart`). `Quiet` is the case of a step that commits nothing,
  `Writes` that of a row written under the locks, `Commits` that of a COMMIT.
- `RevisionsShowRows`: `LastRevisionShowsRow`. Only a few actions commit
  (`OnlyCommitsChange`), and each puts one row, sets flags, deletes, or adds a
  revision to a row it has only read, which is then among the `silent` ones
  (`RowPut`, `FlagsSet`, `RowsDeleted`).
- `NoOrphans`: `NothingLeftBehind`, by the same three cases. It needs of `IInv`
  that what is put is a row and that what a bulk statement has locked is still
  stored.
- `LookupsSuffice`: `ForeseenAlone`, from its own `AloneInv`: the one request under
  way finds the rows it looked up, and the email it looked for still free. A request
  that is alone waits for nobody (`AloneWaitsForNobody`), so no deadlock and no
  second look at the rows comes in.

`AccessControlProofs.tla` proves, for any organisations, codes, accounts, slots,
mappings' parts (`Kept`) and loads, and any finite set of scripts:

- `TypeCorrect`: `TypeOK`, from `IInv`: the rows (`RowsOK`), what a script's loop
  has left and has looked up belongs to its stage (`SeedersOK`), a request has what
  its call uses (`SlotsOK`), tokens and load (`RestOK`). `AccountsOK` adds that an
  account that exists has a role that exists.
- `ReplacementsExact`: the action property `ReplacedAlone`, from `Emptied`: a
  replacement that is about to insert and was not disturbed finds no permission.
- `RanksRespected`: `RanksRespectedAlone`, from `Established`: what an undisturbed
  request has checked of levels still holds of the rows it is about to write.
- `TemplatesStayBounded`: `TemplatesBounded`, from `Allotted`: the copies of a
  template together with the scripts that looked for it in vain and have not
  created it yet (`Lookers`) are no more than the scripts. A lookup becomes one of
  these only when there is no copy; a creation turns one of them into a copy.
- `SeedingComplete`: `SeedingProvisions`, from `InProgress`, which says for each
  stage that what it was to make is there, still to be done, or just looked for and
  about to be inserted (`OrgsDone`, `TemplatesDone`, `RolesDone`, `PermsDone`,
  `GrantsDone`, `LookupRight`). A unique violation at the insert ends the loop, so such
  a seeding claims nothing. Nothing that runs
  meanwhile takes anything of this away, except a replacement of permissions,
  which `edited` remembers (`Grown`, `ProgressGrows`).
- `ReachCommented`: `ReachAsCommented`, for every role of an organisation and the
  whole catalogue, or any part of it that keeps `events.read:org`
  (`KeptAssumption`), without which a manager's and a viewer's scope would shrink. `Mapped` is the
  invariant: what a script or a request is about to grant is from one of the two
  mappings (`FromMappings`), a role about to be filled by hand counts as edited, and
  so every permission of a role nobody edited is from a mapping. The rest is about
  the tables of `Permissions`: neither mapping has a permission of scope `any` for
  these roles, and both agree on what decides the scopes (`MappedShape`,
  `EventsRead`).

What is only model-checked: `EveryRequestEnds`, because liveness under fairness is
out of the prover's reach. Every other property of a run that passes is a theorem,
some under the conditions named above, which the runs that check them
meet.

## What the properties leave open

- `OverbookingBound` excludes restoring, imports and bulk approvals. With them
  there is no bound of this kind: an import goes by a count from before its
  first row, a restoring import does not check at all, and a batch claims as
  many seats as it has rows. A soft-deleted registration that is approved by
  `updateStatus` while `restore` runs takes a seat no count has seen.
- `ApprovedIsConfirmed` fails with two requests, and `PurgeOnlySoftDeleted` when one
  of them is `restore` or a replacing import:
  `updateStatus` does not set `confirmed_at` when the row it read had one,
  though an import may have reset it since; `permanentDelete` deletes by id
  the row that `restore` brought back after the look-up.
- Capacity is of approved registrations everywhere, as the code counts them
  (`registerToEvent`, `create`, `restore` and the rest alike).
  docs/LIVRAISON_PHASE1.md:189 counts `awaiting` ones as well: under that reading the
  code admits more than the event has room for even without any overlap, and
  `CheckedAdmissionWithinCapacity` does not say otherwise.
- Two registrations of one known attendee of which one gives only the email may both
  pass the duplicate check; the slower one ends with a unique violation, a 500
  instead of the 409. `NoLateDuplicate` says that nothing else leads there.
- Two updates of a rule with types alone, or of an event with assigned users alone,
  may leave the union of what they asked for: neither writes a column of the rule or
  event, so no lock keeps them apart. `ReplacedAsAsked` says what such a mixture can
  contain, and that there is none between requests that share a row they both write.
  Such an update may also end a deadlock with a deletion of the rule or a change of
  its priority.
- Without `alone`, neither `OnePending` nor the acceptance of a used invitation
  holds: the comment at src/prisma/schema.prisma:183 leaves it to the code that
  one invitation is pending, and two sends at the same time both find none
  (`OnePending` is there to be checked). A resend that failed after cancelling
  leaves none pending.
- An accepted invitation whose link is opened after 48 hours becomes EXPIRED,
  because expiry is looked at before the status, and may then be CANCELLED,
  though line 437 of `invitation.service.ts` refuses that of accepted ones and
  docs/DATABASE_SCHEMA.md:345 expires only pending ones.
- With two requests a badge may end failed though its files and links are those
  of a generation that succeeded, or completed with the files of another
  template. `generateBadgesBulk` gives a badge a new template and leaves the
  old files, which `downloadBadge` then serves. `deleteBadge` never removes a
  file: the comment above line 855 says it does, the key it makes is
  `badges/badge.pdf`. `LinksLead` depends on that: with the right key the
  registration's link would be dead, as the mutant of that property shows.
- A cancelled attendee cannot register again: docs/LIVRAISON_PHASE1.md:196
  allows it and the duplicate check of `registerToEvent` lets it through, but the
  unique index on event and attendee rejects the second row.
- `usage_count` is not the number of events that use the tag
  (src/prisma/schema.prisma:809): `cascaded` and `missed` are how far it is off.
  The first grows with every deletion of a tagged event, the second when two
  requests take the same tag from an event. It may be negative.
- The answer of `updateEventTags` (line 139: the updated tags) is read outside of
  the transaction before it commits: it shows the tags before the update.
- `EventsService.remove` never archives: it looks for registrations whose
  attendee is of another organisation, which the foreign keys of registrations
  exclude. Registrations from the public form are deleted with their event.
- docs/DEPLOYMENT_BADGES.md:176 says that the singleton guarantees one Chromium.
  `getBrowser` looks at `this.browser` before it awaits the launch: two first
  requests launch two, and the first is never closed. `OneChromium` in
  `BadgeGeneration.tla` is violated with a `MaxChromium` of 2.
- The comment in line 220 of `badge-templates.service.ts` lets a template go though badges
  exist; their foreign key is RESTRICT, so `remove` answers with a 500 (`<<"remove",
  "badge">>` in `Unchecked`). The settings' foreign key is SET NULL on two columns
  of which `org_id` may not be null: it rejects the removal as well, and that is why
  an assignment made after `remove` has looked at the settings is not lost.
- Two overlapping requests for a default may leave two of one scope, and one whose
  second call fails leaves none; `BadgesService` never unsets another default.
  `getTemplateForEvent` takes any default of the organisation, also that of another
  event. A priority that is taken is answered with a 500.
- docs/ATTENDEES_API.md:12 and 291 give every write operation a revision:
  `bulkDelete`, `restore`, `bulkRestore`, registrations and edits of registrations
  write none (`silent`). A creation with the email of a known attendee alone, or an
  update without fields, does write one, of a row that it has only read: it may show
  values that another update has replaced before it. The one of a forced removal (line 497 of
  `attendees.service.ts`) goes with the row, by the cascade of
  src/prisma/schema.prisma:247.
- The comment in line 460 of `attendees.service.ts` deletes only without
  dependencies: the check in lines 486 to 495 is commented out, and registrations
  go with the attendee. A forced removal may meet another one in a deadlock, as may
  `permanentDelete` and an import; two creations of one email, or an edit to an
  email that is taken, are answered with a 500. Creating or registering somebody
  who was deactivated leaves them inactive.
- Line 1004 of `registrations.service.ts` says that an import keeps an existing
  check-in. It writes back what it read before: a check-in made in between is lost
  (`CheckInKept` in `CheckIn.tla`, which no run checks, is violated).
- The second of two tabs that send the same refresh token is answered with the old
  token (line 221 of `auth.service.ts`; the comment in line 204 says the new one),
  which the 30 seconds of tolerance let it use once more. `ReplacementsFit` holds
  all the same: what the old row points to is its successor.
- `EventsService.create` makes an event's tags in a second transaction (line 213 of
  `events.service.ts`): when that fails the client gets an error and the event stays.
- Half-made state is left open where nothing completes it: a failed
  `OrganizationsService.create` leaves an organisation without its roles or
  permissions, and the second attempt is answered with a 409; a failed
  `updateRolePermissions` leaves a role without permissions; two replacements at
  the same time may leave the union of what they asked for.
- `ReachAsCommented` takes the comments of the scope utilities
  (`resolve-attendee-scope.util.ts` and its three siblings) at their word, and the code
  agrees: PARTNER and HOSTESS read the attendees and registrations of the whole
  organisation. Other places give them only the participants of events they are
  assigned to: docs/RBAC_SYSTEM_UPDATED.md:93-120 and 153, docs/RBAC_GUIDE.md:79-90,
  and the comments in lines 130 to 140 and 164 to 170 of `organizations.service.ts`.
  That the property holds does not settle which of the two is meant.
- `RanksRespectedAlone` needs that neither account changes during the request:
  the level is read in a call of its own, and a requester whose account is
  deleted meanwhile has none and passes. The API documentation of
  `users.controller.ts` lets a user change only users below; the level is looked
  at only when the role changes. The comment in line 36 of `users.service.ts` says
  "lower or equal", and docs/ROLE_HIERARCHY.md:22-32 and
  docs/ROLE_HIERARCHY_COMPLETE.md:109-112 allow the requester's own level; the code
  demands lower.
- The mappings name `roles.read`, `roles.manage` and `roles.assign` without a scope;
  the catalogue has them with scope `org`, so they are not found, and granting them
  is skipped with a log line (lines 614 to 616 of `permissions.seeder.ts`).
- Check-in routes demand `registrations.checkin`, which the guard turns into
  updating registrations. HOSTESS has `registrations.read` and `attendees.checkin`
  and does not pass, though `roles.seeder.ts` (line 24) describes the role by its
  check-ins.
- The guard does not know the resources `badges` and `badge-templates`: their routes
  need the verb on `all`, which only SUPER_ADMIN and ADMIN have. MANAGER is granted
  these permissions, and the rules sent to the front end show them;
  `ShownIsAllowed` is about the resources the guard knows.
- `seedMinimal` looks for a role `org_admin`, which no seeder makes: it always ends
  with an exception after the roles (`examples.ts`, lines 116 to 120). Two seedings
  that start together may make a template twice, after which a lookup takes any. Two
  that insert the same organisation or grant fail on a unique index although their
  code says `upsert`: the slower one's loop, or its role, ends there.
- Outside the models: contents of forms and files, templates and pictures,
  mail, storage, exports, access tokens (stateless), rate limits.

## Findings

- `reg_race`: docs/LIVRAISON_PHASE1.md:190 promises a 409 when the event is
  full; two registrations at the same time overbook it.

## Not modelled

- Demo data (`events.seeder.ts`, `attendees.seeder.ts`, `registrations.seeder.ts` and
  the like, and their compiled copies): only developers' databases have it, and
  nothing of the program relies on it.
- `AttendeeTypesService.create` and `update` look for a name and a code and write
  later, as badge templates do in `EventSetup`; the attendee types of an event are
  only marked active or not.
- `changeStatus` and the other columns of an event: single updates that no other
  handler's correctness depends on, but for those in `Registrations.UpdateEvent`.
- Counters that the database increments (print counter, `usage_count` of a template).
- Mail, object storage, exports, health checks, configuration and logging: I/O and
  formatting without a state of their own.
- Access tokens as such: they are stateless; what they carry is in `AccessControl`.

## Plan

What would add most: the same refinement for restoring, bulk approvals and imports,
whose desks promise several seats on one count.
