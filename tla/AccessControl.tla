--------------------------- MODULE AccessControl ---------------------------
(***************************************************************************)
(* Organisations, roles, the permissions roles are granted, and the users  *)
(* who have them, in PostgreSQL.  Two sorts of process write them: the     *)
(* seeding scripts, which every started container and every developer may  *)
(* run again at any time, and the requests of RolesController,             *)
(* UsersController and OrganizationsController.  Every awaited call of     *)
(* either is a step; none of them opens a transaction.                     *)
(*                                                                         *)
(* Roles are never deleted and keep the level of their code; permissions   *)
(* are never deleted.  Names, passwords and profiles are left out.         *)
(***************************************************************************)
EXTENDS Permissions, Naturals, FiniteSets, Sequences

CONSTANTS
    Orgs,          \* organisations, by slug
    SeedOrgs,      \* the ones organizationsData names
    DemoOrg,       \* acme-corp
    Global,        \* stands for the null org_id of the templates
    Codes,         \* the codes the tables have in this instance
    Kept,          \* the permissions the tables have in this instance
    Users,         \* ids of users; a deleted user's id is not reused
    Nobody,
    Emails,
    SeedUsers,     \* usersData: records [id, email, org, code]; id is the id
                   \* the user has when the instance starts seeded
    AdminUser,     \* the one of them create-admin.js is about
    Requests,      \* slots for requests in flight at the same time
    Seeders,       \* seeding scripts running at the same time
    MaxCopies,     \* bound: templates of one code
    Wishes,        \* the sets of permissions clients ask for
    Asked,         \* the roles they name
    NewUsers,      \* the bodies of their POSTs: records [email, role]
    Patches,       \* those of their PATCHes: a role, a standing or an email
    Loads          \* what runs in this instance: records [seeded, may, starts, faults]
                   \* (bounds: requests and scripts that start, and exceptions
                   \* and crashes of scripts)

\* (org_id, code) is unique, but not where org_id is null.
RoleIds == [org : Orgs, code : Codes, copy : {1}]
           \cup [org : {Global}, code : Codes, copy : 1..MaxCopies]

ASSUME OrgAssumption == SeedOrgs \subseteq Orgs /\ DemoOrg \in SeedOrgs /\ Global \notin Orgs
ASSUME CodeAssumption == Codes \subseteq RoleCodes /\ MaxCopies \in Nat \ {0}
\* The one permission the scopes of the mapped roles turn on.
ASSUME KeptAssumption == On("events", Reads, {"org"}) \subseteq Kept
ASSUME NobodyAssumption == Nobody \notin Users
ASSUME SeedUserAssumption ==
    /\ SeedUsers \subseteq [id : Users, email : Emails, org : SeedOrgs, code : Codes]
    /\ AdminUser \in SeedUsers
ASSUME WishAssumption == Wishes \subseteq SUBSET (Catalogue \cap Kept) /\ Asked \subseteq RoleIds
ASSUME SeederAssumption == IsFiniteSet(Seeders) /\ Seeders # {}

VARIABLES
    orgs,      \* rows of organizations
    roles,     \* rows of roles
    perms,     \* rows of permissions
    granted,   \* rows of role_permissions, by role
    users,     \* rows of users
    tokens,    \* the access token each user has
    job,       \* for each seeder, its script and where it is
    pc,        \* for each slot, the call its request makes next
    req,       \* for each slot, the local variables of its request
    edited,    \* history: the roles whose permissions a request replaced
    load       \* what may still run in this behaviour

tables == <<orgs, roles, perms, granted, users>>

vars == <<orgs, roles, perms, granted, users, tokens, job, pc, req, edited, load>>

---------------------------------------------------------------------------
\* Rows

OrgRole(o, c) == [org |-> o, code |-> c, copy |-> 1]
Template(c, n) == [org |-> Global, code |-> c, copy |-> n]

Known == Catalogue \cap Kept

Rank(r) == Level[r.code]

NoRole == [org |-> Global, code |-> "SUPER_ADMIN", copy |-> 0]

\* standing: an id that was never used, an active or deactivated account, or a
\* deleted one.
User == [standing : {"free", "active", "inactive", "gone"}, email : Emails \cup {Nobody},
         org : Orgs \cup {Global}, role : RoleIds \cup {NoRole}]

NoUser == [standing |-> "free", email |-> Nobody, org |-> Global, role |-> NoRole]

Account(e, o, r) == [standing |-> "active", email |-> e, org |-> o, role |-> r]

Exists(u) == users[u].standing \in {"active", "inactive"}

\* findFirst({email, org_id}); (email, org_id) is unique.
Holders(e, o) == { u \in Users : Exists(u) /\ users[u].email = e /\ users[u].org = o }

Free == { u \in Users : users[u].standing = "free" }

\* findFirst({code, org_id}) may answer any of these.
Named(o, c) == { r \in roles : r.org = o /\ r.code = c }

\* The access token: the role and its permissions when it was signed.
Token == [code : RoleCodes \cup {"none"}, can : SUBSET Known]

NoToken == [code |-> "none", can |-> {}]

\* What the roles rs are to be granted by a mapping from codes to permissions.
LinksTo(mapping, rs) ==
    UNION { [role : {r}, perm : mapping[r.code] \cap Kept] : r \in rs }

---------------------------------------------------------------------------
\* Local variables

\* The scripts, as the tables they write one after the other.  adminRoles is
\* create-admin.js's own loop over the roles.
ScriptsGrantsFirst ==
    [all |-> <<"orgs", "templates", "orgRoles", "grants", "perms", "users">>,
     organizations |-> <<"orgs">>,
     organization |-> <<"templates", "orgRoles", "perms", "users">>,
     testUsers |-> <<"users">>,
     minimal |-> <<"orgs", "templates", "orgRoles">>,
     createAdmin |-> <<"orgs", "adminRoles", "users">>]

Scripts ==
    [all |-> <<"orgs", "templates", "orgRoles", "perms", "grants", "users">>,
     organizations |-> <<"orgs">>,
     organization |-> <<"templates", "orgRoles", "perms", "users">>,
     testUsers |-> <<"users">>,
     minimal |-> <<"orgs", "templates", "orgRoles">>,
     createAdmin |-> <<"orgs", "adminRoles", "users">>]

StageAt(x, i) == Scripts[x][i]

Stages(x) == Len(Scripts[x])

RoleKeys == [org : Orgs \cup {Global}, code : Codes]

Links == [role : RoleIds, perm : Kept]

Tasks == Orgs \cup RoleKeys \cup Known \cup Links \cup SeedUsers

\* at: the stage of the script, 0 when no script runs; todo: what the loop has
\* left; now: what it looked up last, with role and user it found.  listed: the
\* organisations seedRoles found; failed: a seeder caught an exception.
Job == [script : DOMAIN Scripts, at : 0..6, todo : SUBSET Tasks, now : SUBSET Tasks,
        role : RoleIds \cup {NoRole}, user : Users \cup {Nobody},
        listed : SUBSET Orgs, failed : BOOLEAN]

NoJob == [script |-> "all", at |-> 0, todo |-> {}, now |-> {}, role |-> NoRole,
          user |-> Nobody, listed |-> {}, failed |-> FALSE]

Stage(s) == IF job[s].at = 0 THEN "idle" ELSE StageAt(job[s].script, job[s].at)

Kinds == {"none", "createOrg", "setPermissions", "createUser", "updateUser"}

Calls == {"idle", "orgRoles", "orgGrants", "check", "clear", "fill",
          "level", "unique", "insert", "target", "write"}

\* level: of the requester's role, NoLevel when the requester was not found.
\* alone: history, no other process wrote what this request relies on.
NoLevel == 6

Request == [kind : Kinds, by : Users \cup {Nobody}, target : Users \cup {Nobody},
            level : 0..NoLevel, role : RoleIds \cup {NoRole}, email : Emails \cup {Nobody},
            standing : {"same", "active", "inactive"}, org : Orgs \cup {Global},
            todo : SUBSET (RoleKeys \cup Links), wish : SUBSET Known,
            valid : BOOLEAN, alone : BOOLEAN]

NoRequest == [kind |-> "none", by |-> Nobody, target |-> Nobody, level |-> NoLevel,
              role |-> NoRole, email |-> Nobody, standing |-> "same", org |-> Global,
              todo |-> {}, wish |-> {}, valid |-> TRUE, alone |-> TRUE]

\* What todo and now are sets of, by stage.
TasksOf(stage) ==
    CASE stage = "orgs" -> Orgs
      [] stage = "templates" -> [org : {Global}, code : Codes]
      [] stage \in {"orgRoles", "adminRoles"} -> [org : Orgs, code : Codes]
      [] stage = "perms" -> Known
      [] stage = "grants" -> Links
      [] stage = "users" -> SeedUsers
      [] OTHER -> {}

LoadType == [seeded : BOOLEAN, may : SUBSET ((Seeders \cup Requests \cup Users) \X STRING),
             starts : Nat, faults : Nat]

ASSUME BodyAssumption ==
    /\ NewUsers \subseteq [email : Emails, role : RoleIds]
    /\ Patches \subseteq [role : RoleIds \cup {NoRole}, standing : {"same", "active", "inactive"},
                         email : Emails \cup {Nobody}]
    /\ Loads \subseteq LoadType

TypeOK ==
    /\ orgs \subseteq Orgs /\ roles \subseteq RoleIds /\ perms \subseteq Known
    /\ granted \in [RoleIds -> SUBSET Known]
    /\ users \in [Users -> User]
    /\ tokens \in [Users -> Token]
    /\ job \in [Seeders -> Job]
    /\ \A s \in Seeders : /\ job[s].at <= Stages(job[s].script)
                          /\ job[s].todo \cup job[s].now \subseteq TasksOf(Stage(s))
    /\ pc \in [Requests -> Calls]
    /\ req \in [Requests -> Request]
    /\ edited \subseteq RoleIds
    /\ load \in LoadType

\* The row a loop comes to: they follow one order, which nothing depends on.
Coming(todo) == IF todo = {} THEN {} ELSE { CHOOSE x \in todo : TRUE }

\* What a write takes away from the requests that rely on what it changes:
\* rows of users for the ones about users, the permissions of a role, once
\* cleared, for their replacement.
Relies(p, hit) ==
    IF req[p].kind = "setPermissions" THEN pc[p] = "fill" /\ req[p].role \in hit
    ELSE {req[p].by, req[p].target} \cap hit # {}

Shaken(r, hit) == IF hit THEN [r EXCEPT !.alone = FALSE] ELSE r

Disturbed(hit) == [p \in Requests |-> Shaken(req[p], Relies(p, hit))]

\* The response of the request in slot q, an answer or an exception.
Finish(q, hit) ==
    /\ pc' = [pc EXCEPT ![q] = "idle"]
    /\ req' = [p \in Requests |-> IF p = q THEN NoRequest ELSE Shaken(req[p], Relies(p, hit))]

Goto(q, call) ==
    /\ pc' = [pc EXCEPT ![q] = call]
    /\ UNCHANGED req

Keep(q, call, r) ==
    /\ pc' = [pc EXCEPT ![q] = call]
    /\ req' = [req EXCEPT ![q] = r]

---------------------------------------------------------------------------
\* Seeding

\* The rows a stage is about; seedRoles lists the organisations, and
\* assignAllRolePermissions the roles, when the stage begins.
TodoOf(script, stage) ==
    CASE stage = "orgs" -> IF script = "createAdmin" THEN {AdminUser.org} ELSE SeedOrgs
      [] stage = "templates" -> { [org |-> Global, code |-> c] : c \in Codes }
      [] stage = "orgRoles" -> [org : orgs, code : Codes \cap OrgCodes]
      [] stage = "adminRoles" -> [org : {AdminUser.org}, code : Codes \cap OrgCodes]
      [] stage = "perms" -> Known
      [] stage = "grants" -> LinksTo(SeededMapping, roles)
      [] stage = "users" -> IF script = "createAdmin" THEN {AdminUser}
                            ELSE IF SeedOrgs \subseteq orgs THEN SeedUsers ELSE {}
      [] OTHER -> {}

Continue(s, j) == job' = [job EXCEPT ![s] = j]

\* A script starts.  The ones of examples.ts that are given an organisation
\* first look whether it exists.
StartScript(s) ==
    /\ job[s].at = 0 /\ load.starts > 0
    /\ load' = [load EXCEPT !.starts = @ - 1]
    /\ \E x \in DOMAIN Scripts :
         /\ <<s, x>> \in load.may
         /\ x \in {"organization", "testUsers"} => orgs # {}
         /\ Continue(s, [NoJob EXCEPT !.script = x, !.at = 1, !.todo = TodoOf(x, StageAt(x, 1))])
    /\ UNCHANGED <<tables, tokens, pc, req, edited>>

LoopDone(s) == job[s].at # 0 /\ job[s].todo = {} /\ job[s].now = {}

NextStage(s) ==
    /\ LoopDone(s)
    /\ job[s].at < Stages(job[s].script)
    /\ LET x == job[s].script
           stage == StageAt(x, job[s].at + 1)
           listed == IF stage = "orgRoles" THEN orgs ELSE job[s].listed
       IN  Continue(s, [job[s] EXCEPT !.at = job[s].at + 1, !.todo = TodoOf(x, stage),
                                      !.listed = listed])
    /\ UNCHANGED <<tables, tokens, pc, req, edited, load>>

ScriptEnds(s) ==
    /\ LoopDone(s)
    /\ job[s].at = Stages(job[s].script)
    /\ Continue(s, NoJob)
    /\ UNCHANGED <<tables, tokens, pc, req, edited, load>>

\* The loop goes on after t.
Past(s, t) == [job[s] EXCEPT !.todo = job[s].todo \ {t}]

\* What a lookup for k found: the role and, for seedUsers, the account.
Found(s, k, r, u) == [Past(s, k) EXCEPT !.now = {k}, !.role = r, !.user = u]

\* Prisma runs the upsert of an organisation, which has nothing to update, as a
\* look and then, where there is none, an insert: by then another process may
\* have made it, and the unique index of the slug rejects the insert.
LookForOrg(s) ==
    /\ Stage(s) = "orgs" /\ job[s].now = {}
    /\ \E o \in Coming(job[s].todo) :
         Continue(s, IF o \in orgs THEN Past(s, o) ELSE Found(s, o, NoRole, Nobody))
    /\ UNCHANGED <<tables, tokens, pc, req, edited, load>>

\* The upserts of seedPermissions and those of roles in create-admin.js have
\* something to update and are single statements.
Upsert(s, t) ==
    /\ Continue(s, Past(s, t))
    /\ UNCHANGED <<orgs, granted, users, tokens, pc, req, edited, load>>

UpsertPermission(s) ==
    /\ Stage(s) = "perms"
    /\ \E p \in Coming(job[s].todo) : perms' = perms \cup {p} /\ Upsert(s, p)
    /\ UNCHANGED roles

UpsertAdminRole(s) ==
    /\ Stage(s) = "adminRoles"
    /\ \E k \in Coming(job[s].todo) : roles' = roles \cup {OrgRole(k.org, k.code)} /\ Upsert(s, k)
    /\ UNCHANGED perms

\* seedSystemRoleTemplates and seedOrganizationRoles: the role with this code
\* is looked for, then updated (to what it was) or created.
LookForRoleBlind(s) ==
    /\ Stage(s) \in {"templates", "orgRoles"} /\ job[s].now = {}
    /\ \E k \in Coming(job[s].todo) :
         \E r \in IF Named(k.org, k.code) = {} \/ k.org = Global THEN {NoRole} ELSE Named(k.org, k.code) :
           Continue(s, Found(s, k, r, Nobody))
    /\ UNCHANGED <<tables, tokens, pc, req, edited, load>>

LookForRole(s) ==
    /\ Stage(s) \in {"templates", "orgRoles"} /\ job[s].now = {}
    /\ \E k \in Coming(job[s].todo) :
         \E r \in IF Named(k.org, k.code) = {} THEN {NoRole} ELSE Named(k.org, k.code) :
           Continue(s, Found(s, k, r, Nobody))
    /\ UNCHANGED <<tables, tokens, pc, req, edited, load>>

\* An exception leaves the loops of the seeder.  seedRoles has two; 'all' looks
\* at what most of them return, seedMinimal for one organisation, and
\* create-admin.js catches nothing.
Thrown(s) ==
    LET j == job[s]
        ends == \/ j.script = "createAdmin"
                \/ j.script = "all" /\ Stage(s) \notin {"grants", "users"}
                \/ j.script = "minimal" /\ Stage(s) = "orgs" /\ DemoOrg \notin orgs
    IN  IF ends THEN NoJob
        ELSE [j EXCEPT !.todo = {}, !.now = {}, !.failed = TRUE,
                       !.at = IF Stage(s) = "templates" THEN j.at + 1 ELSE j.at]

Settled(s) == [job[s] EXCEPT !.now = {}, !.role = NoRole, !.user = Nobody]

PutOrg(s) ==
    /\ Stage(s) = "orgs"
    /\ \E o \in job[s].now :
         /\ orgs' = orgs \cup {o}
         /\ Continue(s, IF o \in orgs THEN Thrown(s) ELSE Settled(s))
    /\ UNCHANGED <<roles, perms, granted, users, tokens, pc, req, edited, load>>

PutRole(s) ==
    /\ Stage(s) \in {"templates", "orgRoles"}
    /\ \E k \in job[s].now :
         \/ /\ job[s].role # NoRole
            /\ Continue(s, Settled(s))
            /\ UNCHANGED roles
         \/ /\ job[s].role = NoRole /\ k.org = Global
            /\ Cardinality(Named(Global, k.code)) < MaxCopies
            /\ roles' = roles \cup {Template(k.code, Cardinality(Named(Global, k.code)) + 1)}
            /\ Continue(s, Settled(s))
         \/ /\ job[s].role = NoRole /\ k.org # Global
            /\ roles' = roles \cup {OrgRole(k.org, k.code)}
            /\ Continue(s, IF OrgRole(k.org, k.code) \in roles THEN Thrown(s) ELSE Settled(s))
    /\ UNCHANGED <<orgs, perms, granted, users, tokens, pc, req, edited, load>>

\* assignPermissionsToRole: a permission that does not exist is reported and
\* skipped, and the upsert is again a look and an insert.  An exception leaves
\* the role; assignAllRolePermissions goes on with the next one.
LookForGrant(s) ==
    /\ Stage(s) = "grants" /\ job[s].now = {}
    /\ \E l \in Coming(job[s].todo) :
         Continue(s, IF l.perm \in perms \ granted[l.role] THEN Found(s, l, NoRole, Nobody)
                     ELSE Past(s, l))
    /\ UNCHANGED <<tables, tokens, pc, req, edited, load>>

WithoutRole(s, r) ==
    [job[s] EXCEPT !.todo = { m \in job[s].todo : m.role # r }, !.now = {}, !.failed = TRUE]

Grant(s) ==
    /\ Stage(s) = "grants"
    /\ \E l \in job[s].now :
         \/ /\ l.perm \notin granted[l.role]
            /\ granted' = [granted EXCEPT ![l.role] = @ \cup ({l.perm} \cap perms)]
            /\ req' = Disturbed({l.role})
            /\ Continue(s, Settled(s))
         \/ /\ l.perm \in granted[l.role]
            /\ Continue(s, WithoutRole(s, l.role))
            /\ UNCHANGED <<granted, req>>
    /\ UNCHANGED <<orgs, roles, perms, users, tokens, pc, edited, load>>

\* seedUsers: a user whose role does not exist is reported and skipped.
LookForUser(s) ==
    /\ Stage(s) = "users" /\ job[s].now = {}
    /\ \E k \in Coming(job[s].todo) :
         LET found == Named(IF k.code = "SUPER_ADMIN" THEN Global ELSE k.org, k.code)
             holders == Holders(k.email, k.org)
         IN  \/ found = {} /\ Continue(s, Past(s, k))
             \/ \E r \in found, u \in IF holders = {} THEN {Nobody} ELSE holders :
                  Continue(s, Found(s, k, r, u))
    /\ UNCHANGED <<tables, tokens, pc, req, edited, load>>

\* The user is updated, which resets role and standing, or created; when it is
\* gone meanwhile, or another one came, the statement fails.  (Ids run out only
\* in an instance.)
PutUser(s) ==
    /\ Stage(s) = "users"
    /\ \E k \in job[s].now :
         LET u == job[s].user
             row == Account(k.email, k.org, job[s].role)
         IN  \/ /\ u # Nobody /\ Exists(u)
                /\ users' = [users EXCEPT ![u] = [users[u] EXCEPT !.role = job[s].role,
                                                                 !.standing = "active"]]
                /\ req' = Disturbed({u})
                /\ Continue(s, Settled(s))
             \/ /\ u = Nobody /\ Holders(k.email, k.org) = {}
                /\ \E n \in Coming(Free) : users' = [users EXCEPT ![n] = row]
                /\ Continue(s, Settled(s))
                /\ UNCHANGED req
             \/ /\ IF u = Nobody THEN Free = {} \/ Holders(k.email, k.org) # {} ELSE ~Exists(u)
                /\ Continue(s, Thrown(s))
                /\ UNCHANGED <<users, req>>
    /\ UNCHANGED <<orgs, roles, perms, granted, tokens, pc, edited, load>>

\* A call fails.  assignPermissionsToRole catches what happens to the role it
\* is at, assignAllRolePermissions what happens before.
Fails(s) ==
    /\ job[s].at # 0 /\ load.faults > 0
    /\ load' = [load EXCEPT !.faults = @ - 1]
    /\ \/ Continue(s, Thrown(s))
       \/ /\ Stage(s) = "grants"
          /\ \E l \in IF job[s].now = {} THEN Coming(job[s].todo) ELSE job[s].now :
               Continue(s, WithoutRole(s, l.role))
    /\ UNCHANGED <<tables, tokens, pc, req, edited>>

\* The process is killed.
Crash(s) ==
    /\ job[s].at # 0 /\ load.faults > 0
    /\ load' = [load EXCEPT !.faults = @ - 1]
    /\ Continue(s, NoJob)
    /\ UNCHANGED <<tables, tokens, pc, req, edited>>

---------------------------------------------------------------------------
\* Requests

\* JwtStrategy.validate (the account exists and is active), then the guards:
\* what counts is the token, not what the role is granted now.
Authorised(u, on, do) ==
    /\ users[u].standing = "active"
    /\ Passes(tokens[u].code, tokens[u].can, Route(on, do))

\* signAccessToken
Login(u) ==
    /\ <<u, "login">> \in load.may
    /\ users[u].standing = "active"
    /\ tokens' = [tokens EXCEPT ![u] = [code |-> users[u].role.code,
                                        can |-> granted[users[u].role]]]
    /\ UNCHANGED <<tables, job, pc, req, edited, load>>

Start(q, r, call) ==
    /\ pc[q] = "idle" /\ load.starts > 0
    /\ load' = [load EXCEPT !.starts = @ - 1]
    /\ <<q, r.kind>> \in load.may
    /\ Keep(q, call, r)

\* OrganizationsService.create: the organisation, the roles, their permissions.
CreateOrgBegin(q) ==
    /\ \E u \in Users, o \in Orgs \ orgs :
         /\ Authorised(u, "organizations", "create")
         /\ orgs' = orgs \cup {o}
         /\ Start(q, [NoRequest EXCEPT !.kind = "createOrg", !.by = u, !.org = o,
                                       !.todo = [org : {o}, code : Codes \cap OrgCodes]],
                  "orgRoles")
    /\ UNCHANGED <<roles, perms, granted, users, tokens, job, edited>>

CreateOrgRole(q) ==
    /\ pc[q] = "orgRoles"
    /\ \E k \in Coming(req[q].todo) :
         /\ roles' = roles \cup {OrgRole(k.org, k.code)}
         /\ IF OrgRole(k.org, k.code) \in roles THEN Finish(q, {})
            ELSE Keep(q, "orgRoles", [req[q] EXCEPT !.todo = req[q].todo \ {k}])
    /\ UNCHANGED <<orgs, perms, granted, users, tokens, job, edited, load>>

CreateOrgRolesDone(q) ==
    /\ pc[q] = "orgRoles" /\ req[q].todo = {}
    /\ LET made == { OrgRole(req[q].org, c) : c \in Codes \cap OrgCodes }
       IN  Keep(q, "orgGrants", [req[q] EXCEPT !.todo = LinksTo(FoundedMapping, made)])
    /\ UNCHANGED <<tables, tokens, job, edited, load>>

\* A permission that does not exist is skipped; one the role has already, given
\* by a seeder meanwhile, violates the primary key of role_permissions.
CreateOrgGrant(q) ==
    /\ pc[q] = "orgGrants"
    /\ \E l \in Coming(req[q].todo) :
         /\ granted' = [granted EXCEPT ![l.role] = @ \cup ({l.perm} \cap perms)]
         /\ IF l.perm \in granted[l.role] THEN Finish(q, {})
            ELSE /\ pc' = pc
                 /\ req' = [Disturbed({l.role}) EXCEPT ![q] = [req[q] EXCEPT !.todo = req[q].todo \ {l}]]
    /\ UNCHANGED <<orgs, roles, perms, users, tokens, job, edited, load>>

CreateOrgEnd(q) ==
    /\ pc[q] = "orgGrants" /\ req[q].todo = {}
    /\ Finish(q, {})
    /\ UNCHANGED <<tables, tokens, job, edited, load>>

\* RolesController.updateRolePermissions.  The client's list may name a
\* permission twice, or one that does not exist: then valid is false.
SetPermissionsBegin(q) ==
    /\ \E u \in Users, r \in roles \cap Asked, w \in Wishes, v \in BOOLEAN :
         /\ Authorised(u, "roles", "assign")
         /\ tokens[u].code # "SUPER_ADMIN" => r.org = users[u].org
         /\ w \subseteq perms
         /\ Start(q, [NoRequest EXCEPT !.kind = "setPermissions", !.by = u, !.role = r,
                                       !.wish = w, !.valid = v], "check")
    /\ UNCHANGED <<tables, tokens, job, edited>>

\* RolesService: not one's own role, nor one as high; unchecked when the
\* requester is gone.
CheckHierarchy(q) ==
    /\ pc[q] = "check"
    /\ LET u == req[q].by
       IN  IF Exists(u) /\ (users[u].role = req[q].role \/ Rank(req[q].role) <= Rank(users[u].role))
             THEN Finish(q, {}) ELSE Goto(q, "clear")
    /\ UNCHANGED <<tables, tokens, job, edited, load>>

ClearPermissionsNot(q) ==
    /\ pc[q] = "clear"
    /\ edited' = edited \cup {req[q].role}
    /\ pc' = [pc EXCEPT ![q] = "fill"]
    /\ req' = [Disturbed({req[q].role}) EXCEPT ![q] = req[q]]
    /\ UNCHANGED <<tables, tokens, job, load>>

ClearPermissions(q) ==
    /\ pc[q] = "clear"
    /\ granted' = [granted EXCEPT ![req[q].role] = {}]
    /\ edited' = edited \cup {req[q].role}
    /\ pc' = [pc EXCEPT ![q] = "fill"]
    /\ req' = [Disturbed({req[q].role}) EXCEPT ![q] = req[q]]
    /\ UNCHANGED <<orgs, roles, perms, users, tokens, job, load>>

\* createMany inserts all rows or, when one violates a key, none.
FillPermissions(q) ==
    /\ pc[q] = "fill"
    /\ LET r == req[q].role
           done == req[q].valid /\ granted[r] \cap req[q].wish = {}
       IN  /\ granted' = IF done THEN [granted EXCEPT ![r] = @ \cup req[q].wish] ELSE granted
           /\ Finish(q, IF done THEN {r} ELSE {})
    /\ UNCHANGED <<orgs, roles, perms, users, tokens, job, edited, load>>

\* UsersController.create and update first look up the requester's level.
CreateUserBegin(q) ==
    /\ \E u \in Users, n \in NewUsers :
         /\ Authorised(u, "users", "create") /\ n.role \in roles
         /\ Start(q, [NoRequest EXCEPT !.kind = "createUser", !.by = u, !.email = n.email,
                                       !.role = n.role, !.org = users[u].org], "level")
    /\ UNCHANGED <<tables, tokens, job, edited>>

UpdateUserBegin(q) ==
    /\ \E u \in Users, t \in Users, p \in Patches :
         /\ Authorised(u, "users", "update")
         /\ users[t].standing # "free" /\ p.role \in roles \cup {NoRole}
         /\ Start(q, [NoRequest EXCEPT !.kind = "updateUser", !.by = u, !.target = t,
                                       !.role = p.role, !.standing = p.standing,
                                       !.email = p.email, !.org = users[u].org], "level")
    /\ UNCHANGED <<tables, tokens, job, edited>>

ReadLevel(q) ==
    /\ pc[q] = "level"
    /\ LET u == req[q].by
           level == IF Exists(u) THEN Rank(users[u].role) ELSE NoLevel
       IN  Keep(q, IF req[q].kind = "createUser" THEN "unique" ELSE "target",
                [req[q] EXCEPT !.level = level])
    /\ UNCHANGED <<tables, tokens, job, edited, load>>

\* The hierarchy: unchecked when the level is undefined.
BelowOrEqual(r, level) == level = NoLevel \/ Rank(r) >= level

Below(r, level) == level = NoLevel \/ Rank(r) > level

CreateUserCheck(q) ==
    /\ pc[q] = "unique"
    /\ IF Holders(req[q].email, req[q].org) = {} /\ Below(req[q].role, req[q].level)
         THEN Goto(q, "insert") ELSE Finish(q, {})
    /\ UNCHANGED <<tables, tokens, job, edited, load>>

\* (email, org_id) is unique.  (Ids run out only in an instance.)
CreateUserInsert(q) ==
    /\ pc[q] = "insert"
    /\ \/ /\ Holders(req[q].email, req[q].org) = {}
          /\ \E n \in Coming(Free) :
               users' = [users EXCEPT ![n] = Account(req[q].email, req[q].org, req[q].role)]
       \/ /\ Holders(req[q].email, req[q].org) # {} \/ Free = {}
          /\ UNCHANGED users
    /\ Finish(q, {})
    /\ UNCHANGED <<orgs, roles, perms, granted, tokens, job, edited, load>>

MayUpdate(q) ==
    LET t == req[q].target
    IN  /\ Exists(t) /\ users[t].org = req[q].org
        /\ req[q].role # NoRole =>
             /\ t # req[q].by
             /\ Below(users[t].role, req[q].level)
             /\ Below(req[q].role, req[q].level)

UpdateUserCheck(q) ==
    /\ pc[q] = "target"
    /\ IF MayUpdate(q) THEN Goto(q, "write") ELSE Finish(q, {})
    /\ UNCHANGED <<tables, tokens, job, edited, load>>

Patched(row, r) ==
    [row EXCEPT !.role = IF r.role = NoRole THEN row.role ELSE r.role,
                !.standing = IF r.standing = "same" THEN row.standing ELSE r.standing,
                !.email = IF r.email = Nobody THEN row.email ELSE r.email]

\* Found by id alone; the address must still be free.
UpdateUserWrite(q) ==
    /\ pc[q] = "write"
    /\ LET t == req[q].target
           row == users[t]
           taken == Holders(req[q].email, row.org) \ {t}
       IN  IF Exists(t) /\ taken = {}
             THEN /\ users' = [users EXCEPT ![t] = Patched(row, req[q])]
                  /\ Finish(q, {t})
             ELSE UNCHANGED users /\ Finish(q, {})
    /\ UNCHANGED <<orgs, roles, perms, granted, tokens, job, edited, load>>

\* UsersController.bulkDelete: one statement, within the requester's organisation.
DeleteUsers(q) ==
    /\ pc[q] = "idle" /\ <<q, "deleteUsers">> \in load.may /\ load.starts > 0
    /\ load' = [load EXCEPT !.starts = @ - 1]
    /\ \E u \in Users, ids \in SUBSET Users :
         LET hit == { t \in ids : Exists(t) /\ users[t].org = users[u].org }
         IN  /\ Authorised(u, "users", "delete") /\ hit # {}
             /\ users' = [t \in Users |-> IF t \in hit THEN [NoUser EXCEPT !.standing = "gone"]
                                          ELSE users[t]]
             /\ req' = Disturbed(hit)
    /\ UNCHANGED <<orgs, roles, perms, granted, tokens, job, pc, edited>>

\* A call fails, or the server is killed.
Abort(q) ==
    /\ pc[q] # "idle"
    /\ Finish(q, {})
    /\ UNCHANGED <<tables, tokens, job, edited, load>>

---------------------------------------------------------------------------
Arrives(q) ==
    \/ CreateOrgBegin(q) \/ SetPermissionsBegin(q)
    \/ CreateUserBegin(q) \/ UpdateUserBegin(q) \/ DeleteUsers(q)

Proceeds(q) ==
    \/ CreateOrgRole(q) \/ CreateOrgRolesDone(q) \/ CreateOrgGrant(q) \/ CreateOrgEnd(q)
    \/ CheckHierarchy(q) \/ ClearPermissions(q) \/ FillPermissions(q)
    \/ ReadLevel(q) \/ CreateUserCheck(q) \/ CreateUserInsert(q)
    \/ UpdateUserCheck(q) \/ UpdateUserWrite(q)

Advances(s) ==
    \/ NextStage(s) \/ ScriptEnds(s) \/ LookForOrg(s) \/ PutOrg(s) \/ UpsertPermission(s)
    \/ UpsertAdminRole(s) \/ LookForRole(s) \/ PutRole(s)
    \/ LookForGrant(s) \/ Grant(s) \/ LookForUser(s) \/ PutUser(s)

\* An empty database, or one a seeding left behind.
Init ==
    /\ load \in Loads
    /\ orgs = IF load.seeded THEN SeedOrgs ELSE {}
    /\ roles = IF load.seeded
                 THEN { Template(c, 1) : c \in Codes }
                      \cup { OrgRole(o, c) : o \in SeedOrgs, c \in Codes \cap OrgCodes }
                 ELSE {}
    /\ perms = IF load.seeded THEN Known ELSE {}
    /\ granted = [r \in RoleIds |-> IF r \in roles THEN SeededMapping[r.code] \cap Known ELSE {}]
    /\ users = [u \in Users |->
                  IF load.seeded /\ \E k \in SeedUsers : k.id = u
                    THEN LET k == CHOOSE x \in SeedUsers : x.id = u
                         IN  Account(k.email, k.org, IF k.code = "SUPER_ADMIN" THEN Template(k.code, 1)
                                                     ELSE OrgRole(k.org, k.code))
                    ELSE NoUser]
    /\ tokens = [u \in Users |-> NoToken]
    /\ job = [s \in Seeders |-> NoJob]
    /\ pc = [q \in Requests |-> "idle"]
    /\ req = [q \in Requests |-> NoRequest]
    /\ edited = {}

Next ==
    \/ \E s \in Seeders : StartScript(s) \/ Advances(s) \/ Fails(s) \/ Crash(s)
    \/ \E u \in Users : Login(u)
    \/ \E q \in Requests : Arrives(q) \/ Proceeds(q) \/ Abort(q)

Spec == Init /\ [][Next]_vars

---------------------------------------------------------------------------
\* Properties

\* Running the seeders again, after any number of crashes, adds no second copy
\* of a template: there are never more copies than scripts running at once (the
\* lookup and the creation are two calls, and no index covers a null org_id).
TemplatesBounded ==
    \A c \in Codes : Cardinality(Named(Global, c)) <= Cardinality(Seeders)

\* When the full seeding ends without an exception, whatever state an
\* interrupted run or a half-made organisation left, and whatever ran
\* meanwhile: the organisations and the catalogue are there, every organisation
\* it listed has its roles, and every role it found has the permissions mapped
\* to its code, unless a request replaced them.
Provisioned(s) ==
    /\ SeedOrgs \subseteq orgs /\ Known \subseteq perms
    /\ \A c \in Codes : Named(Global, c) # {}
    /\ \A o \in SeedOrgs \cup job[s].listed, c \in Codes \cap OrgCodes :
         /\ OrgRole(o, c) \in roles
         /\ OrgRole(o, c) \notin edited
              => SeededMapping[c] \cap Known \subseteq granted[OrgRole(o, c)]

SeedingProvisions ==
    [][\A s \in Seeders :
         ScriptEnds(s) /\ job[s].script = "all" /\ ~job[s].failed => Provisioned(s)]_vars

\* A replacement of a role's permissions that is answered leaves the ones it
\* was asked for, as long as no other process wrote them since it cleared them.
Filled(q) == pc[q] = "fill" /\ FillPermissions(q) /\ granted' # granted

ReplacedAlone ==
    [][\A q \in Requests :
         Filled(q) /\ req[q].alone => granted'[req[q].role] = req[q].wish]_vars

\* A request gives somebody a role only below its requester's own, to somebody
\* who was below the requester, as long as neither account changes meanwhile.
Outranks(q) ==
    LET rank == Rank(users[req[q].by].role)
    IN  \A u \in Users : users'[u].role # users[u].role /\ Exists(u)' =>
          /\ Rank(users'[u].role) > rank
          /\ Exists(u) => Rank(users[u].role) > rank

RanksRespectedAlone ==
    [][\A q \in Requests :
         pc[q] \in {"insert", "write"} /\ req[q].alone /\ pc'[q] = "idle" => Outranks(q)]_vars

\* Whichever of the two mappings a role's permissions come from, or both: its
\* users reach as far as the comments of the scope utilities say, and what the
\* rules sent to the front end show as possible, the guard lets through.  (Other
\* texts want less: docs/RBAC_SYSTEM_UPDATED.md, docs/RBAC_GUIDE.md and the second
\* mapping limit PARTNER and HOSTESS to the participants of assigned events, while
\* the utilities let every role reach those of the whole organisation.)
ReadReach(c, permissions) ==
    [users |-> UserReadScope(c, permissions), events |-> EventReadScope(c, permissions),
     attendees |-> AttendeeReadScope(c, permissions),
     registrations |-> RegistrationReadScope(c, permissions)]

WriteReach(c, permissions) ==
    [users |-> UserWriteScope(c, permissions), events |-> EventWriteScope(c, permissions),
     attendees |-> AttendeeWriteScope(c, permissions),
     registrations |-> RegistrationWriteScope(c, permissions)]

CommentedRead(c) ==
    [users |-> IF c \in {"ADMIN", "MANAGER"} THEN "org" ELSE "own",
     events |-> IF c \in {"PARTNER", "HOSTESS"} THEN "assigned" ELSE "org",
     attendees |-> "org", registrations |-> "org"]

CommentedWrite(c) ==
    [users |-> "org", events |-> IF c = "ADMIN" THEN "any" ELSE "org",
     attendees |-> "org", registrations |-> "org"]

ShownIsAllowed(c, permissions) ==
    \A rule \in Policy(c, permissions) :
      rule.verb \in Edits \cup Reads /\ (\E on \in DOMAIN Subject : rule.subject = Subject[on])
        => Can(Ability(c, permissions), rule.verb, rule.subject)

MappingComplete(r) ==
    \/ SeededMapping[r.code] \cap Known \subseteq granted[r]
    \/ FoundedMapping[r.code] \cap Known \subseteq granted[r]

ReachAsCommented ==
    \A r \in roles \ edited :
      r.code \in OrgCodes /\ MappingComplete(r) =>
        /\ ReadReach(r.code, granted[r]) = CommentedRead(r.code)
        /\ WriteReach(r.code, granted[r]) = CommentedWrite(r.code)
        /\ ShownIsAllowed(r.code, granted[r])

=============================================================================
