------------------------ MODULE AccessControlProofs ------------------------
(***************************************************************************)
(* What AccessControl guarantees for any organisations, roles, permissions *)
(* and users, any slots and any finite number of seeders: type             *)
(* correctness, how many copies of a template there are, what a seeding    *)
(* that ends without an exception leaves, what a replacement of            *)
(* permissions leaves, and that requests respect the hierarchy of roles.   *)
(***************************************************************************)
EXTENDS AccessControl, FiniteSetTheorems, TLAPS

---------------------------------------------------------------------------
\* Rows

LEMMA LevelType == Level \in [RoleCodes -> 0..5]
  BY DEF Level, RoleCodes

LEMMA RankType ==
  ASSUME NEW r \in RoleIds
  PROVE  r.code \in Codes /\ r.code \in RoleCodes /\ Rank(r) \in 0..5
  BY LevelType, CodeAssumption DEF RoleIds, Rank

LEMMA NoRoleIsNone == NoRole \notin RoleIds
  BY OrgAssumption DEF NoRole, RoleIds

LEMMA OrgRoleType ==
  ASSUME NEW o \in Orgs, NEW c \in Codes
  PROVE  OrgRole(o, c) \in RoleIds /\ OrgRole(o, c).org = o /\ OrgRole(o, c).code = c
  BY DEF OrgRole, RoleIds

LEMMA TemplateType ==
  ASSUME NEW c \in Codes, NEW n \in 1..MaxCopies
  PROVE  Template(c, n) \in RoleIds /\ Template(c, n).org = Global /\ Template(c, n).code = c
  BY DEF Template, RoleIds

LEMMA LinkIn ==
  ASSUME NEW mapping, NEW rs, NEW l
  PROVE  l \in LinksTo(mapping, rs) <=>
           \E r \in rs : l \in [role : {r}, perm : mapping[r.code] \cap Kept]
  BY DEF LinksTo

LEMMA LinksType ==
  ASSUME NEW mapping, NEW rs \in SUBSET RoleIds
  PROVE  LinksTo(mapping, rs) \subseteq Links
<1> SUFFICES ASSUME NEW l \in LinksTo(mapping, rs) PROVE l \in Links
  OBVIOUS
<1>1. PICK r \in rs : l \in [role : {r}, perm : mapping[r.code] \cap Kept]
  BY LinkIn
<1> QED
  BY <1>1 DEF Links

LEMMA NoUserType == NoUser \in User
  BY DEF NoUser, User

LEMMA AccountType ==
  ASSUME NEW e \in Emails, NEW o \in Orgs \cup {Global}, NEW r \in RoleIds
  PROVE  Account(e, o, r) \in User
  BY DEF Account, User

LEMMA NamedType ==
  ASSUME TypeOK, NEW o, NEW c
  PROVE  Named(o, c) \subseteq roles /\ Named(o, c) \subseteq RoleIds
  BY DEF Named, TypeOK

LEMMA ComingIn ==
  ASSUME NEW S, NEW x \in Coming(S)
  PROVE  x \in S
<1>1. S # {} /\ x = CHOOSE y \in S : TRUE
  BY DEF Coming
<1> QED
  BY <1>1

LEMMA FreeType == Free \subseteq Users
  BY DEF Free

---------------------------------------------------------------------------
\* Where a script is

StageOf(j) == IF j.at = 0 THEN "idle" ELSE StageAt(j.script, j.at)

\* The local variables of a seeder are typed by the stage it is at.
JobOK(j) ==
    /\ j \in Job /\ j.at <= Stages(j.script)
    /\ j.todo \cup j.now \subseteq TasksOf(StageOf(j))

StageNames == {"orgs", "templates", "orgRoles", "adminRoles", "perms", "grants", "users"}

\* No script ends with the templates: the organisations' roles follow.
LEMMA ScriptFacts ==
  ASSUME NEW x \in DOMAIN Scripts
  PROVE  /\ Stages(x) \in 1..6
         /\ \A i \in 1..Stages(x) :
              /\ StageAt(x, i) \in StageNames
              /\ StageAt(x, i) = "templates" =>
                   i < Stages(x) /\ StageAt(x, i + 1) = "orgRoles"
<1>1. CASE x = "all"
  <2>1. Scripts[x] = <<"orgs", "templates", "orgRoles", "perms", "grants", "users">>
    BY <1>1 DEF Scripts
  <2>2. /\ Stages(x) = 6 /\ StageAt(x, 1) = "orgs"
        /\ StageAt(x, 2) = "templates" /\ StageAt(x, 3) = "orgRoles"
        /\ StageAt(x, 4) = "perms" /\ StageAt(x, 5) = "grants"
        /\ StageAt(x, 6) = "users"
    BY <2>1 DEF Stages, StageAt
  <2> QED
    BY <2>2 DEF StageNames
<1>2. CASE x = "organizations"
  <2>1. Scripts[x] = <<"orgs">>
    BY <1>2 DEF Scripts
  <2>2. /\ Stages(x) = 1 /\ StageAt(x, 1) = "orgs"
    BY <2>1 DEF Stages, StageAt
  <2> QED
    BY <2>2 DEF StageNames
<1>3. CASE x = "organization"
  <2>1. Scripts[x] = <<"templates", "orgRoles", "perms", "users">>
    BY <1>3 DEF Scripts
  <2>2. /\ Stages(x) = 4 /\ StageAt(x, 1) = "templates"
        /\ StageAt(x, 2) = "orgRoles" /\ StageAt(x, 3) = "perms"
        /\ StageAt(x, 4) = "users"
    BY <2>1 DEF Stages, StageAt
  <2> QED
    BY <2>2 DEF StageNames
<1>4. CASE x = "testUsers"
  <2>1. Scripts[x] = <<"users">>
    BY <1>4 DEF Scripts
  <2>2. /\ Stages(x) = 1 /\ StageAt(x, 1) = "users"
    BY <2>1 DEF Stages, StageAt
  <2> QED
    BY <2>2 DEF StageNames
<1>5. CASE x = "minimal"
  <2>1. Scripts[x] = <<"orgs", "templates", "orgRoles">>
    BY <1>5 DEF Scripts
  <2>2. /\ Stages(x) = 3 /\ StageAt(x, 1) = "orgs"
        /\ StageAt(x, 2) = "templates" /\ StageAt(x, 3) = "orgRoles"
    BY <2>1 DEF Stages, StageAt
  <2> QED
    BY <2>2 DEF StageNames
<1>6. CASE x = "createAdmin"
  <2>1. Scripts[x] = <<"orgs", "adminRoles", "users">>
    BY <1>6 DEF Scripts
  <2>2. /\ Stages(x) = 3 /\ StageAt(x, 1) = "orgs"
        /\ StageAt(x, 2) = "adminRoles" /\ StageAt(x, 3) = "users"
    BY <2>1 DEF Stages, StageAt
  <2> QED
    BY <2>2 DEF StageNames
<1> QED
  BY <1>1, <1>2, <1>3, <1>4, <1>5, <1>6 DEF Scripts

LEMMA StageIs ==
  ASSUME NEW s \in Seeders
  PROVE  Stage(s) = StageOf(job[s])
  BY DEF Stage, StageOf

LEMMA TasksTyped ==
  ASSUME NEW stage
  PROVE  TasksOf(stage) \subseteq Tasks
  BY OrgAssumption DEF TasksOf, Tasks, RoleKeys

LEMMA TodoTyped ==
  ASSUME TypeOK, NEW x, NEW stage \in StageNames
  PROVE  TodoOf(x, stage) \subseteq TasksOf(stage)
<1>1. /\ SeedOrgs \subseteq Orgs /\ AdminUser \in SeedUsers /\ AdminUser.org \in Orgs
      /\ orgs \subseteq Orgs
  BY OrgAssumption, SeedUserAssumption DEF TypeOK
<1>2. CASE stage = "grants"
  <2>1. LinksTo(SeededMapping, roles) \subseteq Links
    BY LinksType DEF TypeOK
  <2> QED
    BY <1>2, <2>1 DEF TodoOf, TasksOf
<1>3. CASE stage \in {"orgs", "users"}
  BY <1>1, <1>3 DEF TodoOf, TasksOf
<1>4. CASE stage = "templates"
  BY <1>4 DEF TodoOf, TasksOf
<1>5. CASE stage \in {"orgRoles", "adminRoles"}
  BY <1>1, <1>5 DEF TodoOf, TasksOf
<1>6. CASE stage = "perms"
  BY <1>6 DEF TodoOf, TasksOf
<1> QED
  BY <1>2, <1>3, <1>4, <1>5, <1>6 DEF StageNames

LEMMA NoJobOK == JobOK(NoJob) /\ NoJob \in Job /\ NoJob.now = {} /\ NoJob.at = 0
<1>1. Stages("all") = 6
  BY DEF Stages, Scripts
<1> QED
  BY <1>1 DEF JobOK, NoJob, Job, StageOf, Scripts

LEMMA JobsOK ==
  ASSUME TypeOK, NEW s \in Seeders
  PROVE  JobOK(job[s]) /\ job[s] \in Job
  BY StageIs DEF TypeOK, JobOK

\* A script begins its first stage, or its next one.
LEMMA BegunOK ==
  ASSUME TypeOK, NEW x \in DOMAIN Scripts
  PROVE  LET k == [NoJob EXCEPT !.script = x, !.at = 1, !.todo = TodoOf(x, StageAt(x, 1))]
         IN  /\ JobOK(k) /\ k.todo = TodoOf(x, StageAt(x, 1)) /\ k.now = {} /\ k.at = 1
             /\ k.script = x /\ k.failed = FALSE
<1> DEFINE todo == TodoOf(x, StageAt(x, 1))
           j == [NoJob EXCEPT !.script = x, !.at = 1, !.todo = todo]
<1>1. StageAt(x, 1) \in StageNames
  <2>1. 1 \in 1..Stages(x)
    BY ScriptFacts
  <2> QED
    BY <2>1, ScriptFacts
<1>2. todo \subseteq TasksOf(StageAt(x, 1))
  BY <1>1, TodoTyped
<1>3. todo \subseteq Tasks
  BY <1>2, TasksTyped
<1> HIDE DEF todo
<1>4. PICK one \in 0..6 : one = 1 /\ one <= Stages(x)
  BY ScriptFacts
<1>5. /\ j \in Job /\ j.todo = todo /\ j.now = {} /\ j.at = one /\ j.script = x
      /\ j.failed = NoJob.failed
  BY <1>3, <1>4, NoJobOK DEF Job
<1>6. StageOf(j) = StageAt(x, 1)
  BY <1>4, <1>5 DEF StageOf
<1>7. JobOK(j)
  BY <1>2, <1>4, <1>5, <1>6 DEF JobOK
<1>8. j.failed = FALSE
  BY <1>5 DEF NoJob
<1> QED
  BY <1>4, <1>5, <1>7, <1>8 DEF todo

LEMMA NextOK ==
  ASSUME TypeOK, NEW j, JobOK(j), j.now = {}, j.at # 0, j.at < Stages(j.script),
         NEW listed \in SUBSET Orgs
  PROVE  LET i == [j EXCEPT !.at = j.at + 1,
                            !.todo = TodoOf(j.script, StageAt(j.script, j.at + 1)),
                            !.listed = listed]
         IN  /\ JobOK(i) /\ i.todo = TodoOf(j.script, StageAt(j.script, j.at + 1))
             /\ i.now = {} /\ i.at = j.at + 1 /\ i.script = j.script
             /\ i.listed = listed /\ i.failed = j.failed
<1> DEFINE stage == StageAt(j.script, j.at + 1)
           todo == TodoOf(j.script, stage)
           k == [j EXCEPT !.at = j.at + 1, !.todo = todo, !.listed = listed]
<1>1. j \in Job /\ j.script \in DOMAIN Scripts /\ j.at \in 0..6
  BY DEF JobOK, Job
<1>2. j.at + 1 \in 1..Stages(j.script) /\ j.at + 1 \in 0..6
  BY <1>1, ScriptFacts
<1>3. stage \in StageNames
  BY <1>1, <1>2, ScriptFacts
<1>4. todo \subseteq TasksOf(stage)
  BY <1>3, TodoTyped
<1>5. todo \subseteq Tasks
  BY <1>4, TasksTyped
<1> HIDE DEF todo, stage
<1>6. PICK at \in 0..6 : at = j.at + 1 /\ at # 0 /\ at <= Stages(j.script)
  BY <1>2
<1>7. /\ k \in Job /\ k.todo = todo /\ k.now = {} /\ k.at = at
      /\ k.script = j.script /\ k.listed = listed /\ k.failed = j.failed
  BY <1>1, <1>5, <1>6 DEF Job
<1>8. StageOf(k) = stage
  BY <1>6, <1>7 DEF StageOf, stage
<1>9. JobOK(k)
  BY <1>4, <1>6, <1>7, <1>8 DEF JobOK
<1> QED
  BY <1>6, <1>7, <1>9 DEF todo, stage

\* The loop looks at one of its tasks.
LEMMA PastOK ==
  ASSUME TypeOK, NEW s \in Seeders, NEW t
  PROVE  /\ JobOK(Past(s, t)) /\ StageOf(Past(s, t)) = Stage(s)
         /\ Past(s, t) \in Job /\ Past(s, t).at = job[s].at
         /\ Past(s, t).script = job[s].script
         /\ Past(s, t).now = job[s].now /\ Past(s, t).todo = job[s].todo \ {t}
         /\ Past(s, t).listed = job[s].listed /\ Past(s, t).failed = job[s].failed
         /\ Past(s, t).role = job[s].role
<1>1. job[s] \in Job /\ JobOK(job[s])
  BY JobsOK
<1>2. /\ Past(s, t) \in Job /\ Past(s, t).at = job[s].at
      /\ Past(s, t).script = job[s].script
      /\ Past(s, t).now = job[s].now /\ Past(s, t).todo = job[s].todo \ {t}
      /\ Past(s, t).listed = job[s].listed /\ Past(s, t).failed = job[s].failed
      /\ Past(s, t).role = job[s].role
  BY <1>1 DEF Past, Job
<1>3. StageOf(Past(s, t)) = StageOf(job[s])
  BY <1>2 DEF StageOf
<1> QED
  BY <1>1, <1>2, <1>3, StageIs DEF JobOK

LEMMA FoundOK ==
  ASSUME TypeOK, NEW s \in Seeders, NEW k \in job[s].todo,
         NEW r \in RoleIds \cup {NoRole}, NEW u \in Users \cup {Nobody}
  PROVE  LET j == Found(s, k, r, u)
         IN  /\ JobOK(j) /\ StageOf(j) = Stage(s)
             /\ j.now = {k} /\ j.role = r /\ j.todo = job[s].todo \ {k}
             /\ j.at = job[s].at /\ j.script = job[s].script
             /\ j.listed = job[s].listed /\ j.failed = job[s].failed
<1> DEFINE p == Past(s, k)
           j == [p EXCEPT !.now = {k}, !.role = r, !.user = u]
<1>1. /\ p \in Job /\ p.todo \subseteq TasksOf(StageOf(p)) /\ StageOf(p) = StageOf(job[s])
      /\ p.todo \subseteq Tasks /\ p.at <= Stages(p.script)
      /\ p.todo = job[s].todo \ {k} /\ p.at = job[s].at /\ p.script = job[s].script
      /\ p.listed = job[s].listed /\ p.failed = job[s].failed
  BY PastOK DEF JobOK, StageOf, Job
<1>2. k \in TasksOf(StageOf(p)) /\ k \in Tasks
  BY <1>1, JobsOK, TasksTyped DEF JobOK
<1>3. PICK now \in SUBSET Tasks : now = {k}
  BY <1>2
<1> HIDE DEF p
<1>4. /\ j \in Job /\ j.todo = p.todo /\ j.now = {k} /\ j.at = p.at /\ j.script = p.script
      /\ j.role = r /\ j.listed = p.listed /\ j.failed = p.failed
  BY <1>1, <1>3 DEF Job
<1>5. StageOf(j) = StageOf(p)
  BY <1>4 DEF StageOf
<1>6. JobOK(j)
  BY <1>1, <1>2, <1>4, <1>5 DEF JobOK
<1>7. j = Found(s, k, r, u)
  BY DEF Found, p
<1> HIDE DEF j
<1> QED
  BY <1>1, <1>4, <1>5, <1>6, <1>7, StageIs

\* seedRoles looked for a role, and found r or none.
LEMMA RoleLooked ==
  ASSUME TypeOK, NEW s \in Seeders, LookForRole(s)
  PROVE  \E k \in job[s].todo : \E r, j :
           /\ IF Named(k.org, k.code) = {} THEN r = NoRole ELSE r \in Named(k.org, k.code)
           /\ Continue(s, j) /\ JobOK(j) /\ StageOf(j) = Stage(s)
           /\ j.now = {k} /\ j.role = r /\ j.todo = job[s].todo \ {k}
           /\ j.at = job[s].at /\ j.script = job[s].script
           /\ j.listed = job[s].listed /\ j.failed = job[s].failed
<1>1. PICK k \in Coming(job[s].todo) :
        \E r \in IF Named(k.org, k.code) = {} THEN {NoRole} ELSE Named(k.org, k.code) :
          Continue(s, Found(s, k, r, Nobody))
  BY DEF LookForRole
<1>2. PICK r : /\ IF Named(k.org, k.code) = {} THEN r = NoRole ELSE r \in Named(k.org, k.code)
               /\ Continue(s, Found(s, k, r, Nobody))
  BY <1>1
<1>3. k \in job[s].todo /\ r \in RoleIds \cup {NoRole}
  BY <1>2, ComingIn, NamedType
<1> DEFINE j == Found(s, k, r, Nobody)
<1>4. /\ JobOK(j) /\ StageOf(j) = Stage(s)
      /\ j.now = {k} /\ j.role = r /\ j.todo = job[s].todo \ {k}
      /\ j.at = job[s].at /\ j.script = job[s].script
      /\ j.listed = job[s].listed /\ j.failed = job[s].failed
  BY <1>3, FoundOK
<1> QED
  BY <1>2, <1>3, <1>4

\* seedUsers looked for a role and a user, and found no role or went on.
LEMMA UserLooked ==
  ASSUME TypeOK, NEW s \in Seeders, LookForUser(s)
  PROVE  \E j : /\ Continue(s, j) /\ JobOK(j) /\ StageOf(j) = Stage(s)
               /\ (j.now = {} \/ j.role \in RoleIds) /\ (\A x, y \in j.now : x = y)
               /\ j.at = job[s].at /\ j.script = job[s].script
               /\ j.listed = job[s].listed /\ j.failed = job[s].failed
<1>1. PICK k \in Coming(job[s].todo) :
        \/ Continue(s, Past(s, k))
        \/ \E r \in Named(IF k.code = "SUPER_ADMIN" THEN Global ELSE k.org, k.code),
              u \in IF Holders(k.email, k.org) = {} THEN {Nobody} ELSE Holders(k.email, k.org) :
             Continue(s, Found(s, k, r, u))
  BY DEF LookForUser
<1>2. k \in job[s].todo
  BY ComingIn
<1>3. CASE Continue(s, Past(s, k))
  BY <1>3, PastOK DEF LookForUser
<1>4. CASE ~Continue(s, Past(s, k))
  <2>1. PICK r \in RoleIds, u \in Users \cup {Nobody} :
          Continue(s, Found(s, k, r, u))
    BY <1>1, <1>4, NamedType DEF Holders
  <2> DEFINE j == Found(s, k, r, u)
  <2>2. /\ JobOK(j) /\ StageOf(j) = Stage(s) /\ j.role = r /\ j.now = {k}
        /\ j.at = job[s].at /\ j.script = job[s].script
        /\ j.listed = job[s].listed /\ j.failed = job[s].failed
    BY <1>2, <2>1, FoundOK
  <2> QED
    BY <2>1, <2>2
<1> QED
  BY <1>3, <1>4

\* The next stage begins.
LEMMA StageBegun ==
  ASSUME TypeOK, NEW s \in Seeders, NextStage(s)
  PROVE  \E j, listed : /\ Continue(s, j) /\ JobOK(j)
                       /\ j.todo = TodoOf(job[s].script, StageAt(job[s].script, job[s].at + 1))
                       /\ j.now = {} /\ j.at = job[s].at + 1 /\ j.script = job[s].script
                       /\ j.failed = job[s].failed
                       /\ j.listed = IF StageAt(job[s].script, job[s].at + 1) = "orgRoles" THEN orgs
                                     ELSE job[s].listed
<1> DEFINE l == IF StageAt(job[s].script, job[s].at + 1) = "orgRoles" THEN orgs ELSE job[s].listed
<1>1. PICK listed : listed = l
  OBVIOUS
<1>2. PICK j : j = [job[s] EXCEPT !.at = job[s].at + 1,
                         !.todo = TodoOf(job[s].script, StageAt(job[s].script, job[s].at + 1)),
                         !.listed = listed]
  OBVIOUS
<1>3. Continue(s, j)
  BY <1>1, <1>2 DEF NextStage
<1>4. listed \in SUBSET Orgs
  BY <1>1, JobsOK DEF TypeOK, Job
<1>5. JobOK(job[s]) /\ job[s].now = {} /\ job[s].at # 0 /\ job[s].at < Stages(job[s].script)
  BY JobsOK DEF NextStage, LoopDone
<1> HIDE DEF l
<1>6. /\ JobOK(j)
      /\ j.todo = TodoOf(job[s].script, StageAt(job[s].script, job[s].at + 1))
      /\ j.now = {} /\ j.at = job[s].at + 1 /\ j.script = job[s].script
      /\ j.failed = job[s].failed /\ j.listed = listed
  BY <1>2, <1>4, <1>5, NextOK
<1> QED
  BY <1>1, <1>3, <1>6 DEF l

LEMMA SettledOK ==
  ASSUME TypeOK, NEW s \in Seeders
  PROVE  /\ JobOK(Settled(s))
         /\ Settled(s).now = {} /\ Settled(s).at = job[s].at
         /\ Settled(s).script = job[s].script /\ Settled(s).todo = job[s].todo
         /\ Settled(s).listed = job[s].listed /\ Settled(s).failed = job[s].failed
<1>1. job[s] \in Job /\ JobOK(job[s])
  BY JobsOK
<1>2. /\ Settled(s) \in Job /\ Settled(s).at = job[s].at
      /\ Settled(s).script = job[s].script
      /\ Settled(s).now = {} /\ Settled(s).todo = job[s].todo
      /\ Settled(s).listed = job[s].listed /\ Settled(s).failed = job[s].failed
  BY <1>1 DEF Settled, Job
<1>3. StageOf(Settled(s)) = StageOf(job[s])
  BY <1>2 DEF StageOf
<1> QED
  BY <1>1, <1>2, <1>3 DEF JobOK

\* A seeder that catches an exception is marked, and its loop is over.
LEMMA ThrownOK ==
  ASSUME TypeOK, NEW s \in Seeders
  PROVE  /\ JobOK(Thrown(s)) /\ Thrown(s).now = {}
         /\ Thrown(s) = NoJob \/ Thrown(s).failed
<1> DEFINE at == IF Stage(s) = "templates" THEN job[s].at + 1 ELSE job[s].at
           j == [job[s] EXCEPT !.todo = {}, !.now = {}, !.failed = TRUE, !.at = at]
<1>1. job[s] \in Job
  BY JobsOK
<1>2. CASE Thrown(s) = NoJob
  BY <1>2, NoJobOK DEF NoJob
<1>3. CASE Thrown(s) = j
  <2>1. at \in 0..6 /\ at <= Stages(job[s].script)
    <3>1. CASE Stage(s) = "templates"
      <4>1. job[s].at # 0 /\ StageAt(job[s].script, job[s].at) = "templates"
        BY <3>1 DEF Stage
      <4>2. job[s].at \in 1..6 /\ job[s].script \in DOMAIN Scripts
        BY <1>1, <4>1 DEF Job
      <4>3. job[s].at \in 1..Stages(job[s].script) /\ Stages(job[s].script) \in 1..6
        BY <4>2, JobsOK, ScriptFacts DEF JobOK
      <4>4. job[s].at < Stages(job[s].script)
        BY <4>1, <4>2, <4>3, ScriptFacts
      <4> QED
        BY <3>1, <4>2, <4>3, <4>4
    <3> QED
      BY <1>1, <3>1, JobsOK DEF Job, JobOK
  <2> HIDE DEF at
  <2>2. /\ j \in Job /\ j.todo = {} /\ j.now = {} /\ j.failed
        /\ j.at = at /\ j.script = job[s].script
    BY <1>1, <2>1 DEF Job
  <2> QED
    BY <1>3, <2>1, <2>2 DEF JobOK
<1>4. Thrown(s) = NoJob \/ Thrown(s) = j
  BY DEF Thrown
<1> QED
  BY <1>2, <1>3, <1>4

\* assignPermissionsToRole catches the exception: the rest of one role is left.
LEMMA FailedOK ==
  ASSUME TypeOK, NEW s \in Seeders, NEW r
  PROVE  /\ JobOK(WithoutRole(s, r)) /\ WithoutRole(s, r).failed
         /\ WithoutRole(s, r).now = {} /\ WithoutRole(s, r).todo \subseteq job[s].todo
         /\ StageOf(WithoutRole(s, r)) = Stage(s)
<1> DEFINE rest == { m \in job[s].todo : m.role # r }
           j == [job[s] EXCEPT !.todo = rest, !.now = {}, !.failed = TRUE]
<1>1. rest \subseteq job[s].todo
  OBVIOUS
<1> HIDE DEF rest
<1>2. /\ j \in Job /\ j.todo = rest /\ j.now = {}
      /\ j.at = job[s].at /\ j.script = job[s].script /\ j.failed
  BY <1>1, JobsOK DEF Job
<1>3. StageOf(j) = StageOf(job[s])
  BY <1>2 DEF StageOf
<1>4. JobOK(j)
  BY <1>1, <1>2, <1>3, JobsOK DEF JobOK
<1>5. j = WithoutRole(s, r)
  BY DEF WithoutRole, rest
<1> HIDE DEF j
<1> QED
  BY <1>1, <1>2, <1>3, <1>4, <1>5, StageIs

\* An upsert with nothing to update looked for its row, and went on to the next
\* or is about to insert it.
LEMMA RowLooked ==
  ASSUME TypeOK, NEW s \in Seeders, LookForOrg(s) \/ LookForGrant(s)
  PROVE  \E k \in job[s].todo : \E j :
           /\ Continue(s, j) /\ JobOK(j) /\ StageOf(j) = Stage(s) /\ j.todo = job[s].todo \ {k}
           /\ \/ j.now = {k}
              \/ /\ j.now = {}
                 /\ (LookForOrg(s) => k \in orgs)
                 /\ (LookForGrant(s) => k.perm \notin perms \ granted[k.role])
           /\ j.at = job[s].at /\ j.script = job[s].script
           /\ j.listed = job[s].listed /\ j.failed = job[s].failed
<1>0. job[s].now = {} /\ ~(LookForOrg(s) /\ LookForGrant(s))
  BY DEF LookForOrg, LookForGrant
<1>1. PICK k \in Coming(job[s].todo) :
        \/ Continue(s, Found(s, k, NoRole, Nobody))
        \/ /\ Continue(s, Past(s, k))
           /\ LookForOrg(s) => k \in orgs
           /\ (LookForGrant(s) => k.perm \notin perms \ granted[k.role])
  <2>1. CASE LookForOrg(s)
    BY <1>0, <2>1 DEF LookForOrg
  <2>2. CASE LookForGrant(s)
    BY <1>0, <2>2 DEF LookForGrant
  <2> QED
    BY <2>1, <2>2
<1>2. k \in job[s].todo
  BY ComingIn
<1>3. CASE Continue(s, Found(s, k, NoRole, Nobody))
  <2>1. PICK r \in RoleIds \cup {NoRole}, u \in Users \cup {Nobody} :
          Continue(s, Found(s, k, r, u))
    BY <1>3
  <2> DEFINE j == Found(s, k, r, u)
  <2>2. /\ JobOK(j) /\ StageOf(j) = Stage(s) /\ j.now = {k} /\ j.todo = job[s].todo \ {k}
        /\ j.at = job[s].at /\ j.script = job[s].script
        /\ j.listed = job[s].listed /\ j.failed = job[s].failed
    BY <1>2, <2>1, FoundOK
  <2> QED
    BY <1>2, <2>1, <2>2
<1>4. CASE ~Continue(s, Found(s, k, NoRole, Nobody))
  BY <1>0, <1>1, <1>2, <1>4, PastOK
<1> QED
  BY <1>3, <1>4

---------------------------------------------------------------------------
\* Type correctness, in parts

RowsOK ==
    /\ orgs \subseteq Orgs /\ roles \subseteq RoleIds /\ perms \subseteq Known
    /\ granted \in [RoleIds -> SUBSET Known]
    /\ users \in [Users -> User]

SeedersOK == job \in [Seeders -> Job] /\ \A s \in Seeders : JobOK(job[s])

\* What the local variables of a request are at the call it makes next.
Shape(call, r) ==
    /\ call # "idle" => r.by \in Users
    /\ call \in {"orgRoles", "orgGrants"} => r.kind = "createOrg" /\ r.org \in Orgs
    /\ call = "orgRoles" => r.todo \subseteq [org : Orgs, code : Codes]
    /\ call = "orgGrants" => r.todo \subseteq Links
    /\ call \in {"check", "clear", "fill"} => r.kind = "setPermissions" /\ r.role \in RoleIds
    /\ call = "level" => r.kind \in {"createUser", "updateUser"}
    /\ call \in {"unique", "insert"} => r.kind = "createUser"
    /\ call \in {"target", "write"} => r.kind = "updateUser"
    /\ call # "idle" /\ r.kind = "createUser" => r.role \in RoleIds /\ r.email \in Emails
    /\ call # "idle" /\ r.kind = "updateUser" => r.target \in Users

SlotsOK ==
    /\ pc \in [Requests -> Calls]
    /\ req \in [Requests -> Request]
    /\ \A q \in Requests : Shape(pc[q], req[q])

RestOK == tokens \in [Users -> Token] /\ edited \subseteq RoleIds /\ load \in LoadType

IInv == RowsOK /\ SeedersOK /\ SlotsOK /\ RestOK

\* Whoever has an account has a role; a seeder about to write one has found it.
AccountsOK ==
    /\ \A u \in Users : Exists(u) => users[u].role \in RoleIds
    /\ \A s \in Seeders : Stage(s) = "users" /\ job[s].now # {} => job[s].role \in RoleIds

LEMMA Parts == IInv => TypeOK
  BY StageIs DEF IInv, RowsOK, SeedersOK, SlotsOK, RestOK, TypeOK, JobOK

LEMMA SeedersKept ==
  ASSUME SeedersOK, UNCHANGED job
  PROVE  SeedersOK'
  BY DEF SeedersOK, JobOK, StageOf, StageAt, Stages, TasksOf, Job

\* A seeder goes on.
LEMMA SeederStep ==
  ASSUME SeedersOK, NEW s \in Seeders, NEW j, JobOK(j), Continue(s, j)
  PROVE  /\ SeedersOK' /\ job'[s] = j
         /\ \A p \in Seeders \ {s} : job'[p] = job[p]
<1>1. j \in Job
  BY DEF JobOK
<1>2. job' \in [Seeders -> Job] /\ \A p \in Seeders : job'[p] = IF p = s THEN j ELSE job[p]
  BY <1>1 DEF Continue, SeedersOK
<1>3. \A p \in Seeders : JobOK(job'[p])
  BY <1>2 DEF SeedersOK
<1>4. \A p \in Seeders : JobOK(job[p])'
  BY <1>3 DEF JobOK, StageOf, StageAt, Stages, TasksOf, Job
<1> QED
  BY <1>2, <1>4 DEF SeedersOK

LEMMA SlotsKept ==
  ASSUME SlotsOK, UNCHANGED <<pc, req>>
  PROVE  SlotsOK'
  BY DEF SlotsOK, Shape

LEMMA NoRequestType == NoRequest \in Request
  BY DEF NoRequest, Request, Kinds, NoLevel

LEMMA IdleShape ==
  ASSUME NEW r
  PROVE  Shape("idle", r)
  BY DEF Shape

LEMMA ShakenType ==
  ASSUME NEW r \in Request, NEW b
  PROVE  /\ Shaken(r, b) \in Request
         /\ \A call : Shape(call, r) => Shape(call, Shaken(r, b))
         /\ Shaken(r, b) = r \/ ~Shaken(r, b).alone
         /\ b => ~Shaken(r, b).alone
         /\ Shaken(r, b).alone => Shaken(r, b) = r
         /\ Shaken(r, b).kind = r.kind /\ Shaken(r, b).role = r.role
<1>1. CASE ~b
  BY <1>1 DEF Shaken
<1>2. CASE b
  <2>1. Shaken(r, b) = [r EXCEPT !.alone = FALSE]
    BY <1>2 DEF Shaken
  <2>2. /\ Shaken(r, b) \in Request /\ ~Shaken(r, b).alone
        /\ Shaken(r, b).kind = r.kind /\ Shaken(r, b).by = r.by
        /\ Shaken(r, b).target = r.target /\ Shaken(r, b).role = r.role
        /\ Shaken(r, b).email = r.email /\ Shaken(r, b).org = r.org
        /\ Shaken(r, b).todo = r.todo
    BY <2>1 DEF Request
  <2> QED
    BY <2>2 DEF Shape
<1> QED
  BY <1>1, <1>2

\* The forms a change of the slots has.
LEMMA DisturbedStep ==
  ASSUME SlotsOK, NEW hit, pc' = pc, req' = Disturbed(hit)
  PROVE  SlotsOK' /\ \A p \in Requests : req'[p] = Shaken(req[p], Relies(p, hit))
<1>1. \A p \in Requests : req'[p] = Shaken(req[p], Relies(p, hit))
  BY DEF Disturbed
<1>2. req' \in [Requests -> Request]
  BY ShakenType DEF Disturbed, SlotsOK
<1>3. \A p \in Requests : Shape(pc'[p], req'[p])
  BY <1>1, ShakenType DEF SlotsOK
<1> QED
  BY <1>1, <1>2, <1>3 DEF SlotsOK, Shape

\* The others are disturbed, and q goes on.
LEMMA DisturbKeep ==
  ASSUME SlotsOK, NEW q \in Requests, NEW hit, NEW call \in Calls, NEW r \in Request,
         Shape(call, r), pc' = [pc EXCEPT ![q] = call], req' = [Disturbed(hit) EXCEPT ![q] = r]
  PROVE  /\ SlotsOK' /\ pc'[q] = call /\ req'[q] = r
         /\ \A p \in Requests \ {q} : /\ pc'[p] = pc[p]
                                      /\ req'[p] = Shaken(req[p], Relies(p, hit))
<1>1. /\ pc'[q] = call /\ req'[q] = r
      /\ \A p \in Requests \ {q} : /\ pc'[p] = pc[p]
                                   /\ req'[p] = Shaken(req[p], Relies(p, hit))
  BY DEF Disturbed, SlotsOK
<1>2. pc' \in [Requests -> Calls] /\ req' \in [Requests -> Request]
  BY ShakenType DEF Disturbed, SlotsOK
<1>3. \A p \in Requests : Shape(pc'[p], req'[p])
  BY <1>1, ShakenType DEF SlotsOK
<1> QED
  BY <1>1, <1>2, <1>3 DEF SlotsOK, Shape

LEMMA FinishStep ==
  ASSUME SlotsOK, NEW q \in Requests, NEW hit, Finish(q, hit)
  PROVE  /\ SlotsOK' /\ pc'[q] = "idle" /\ req'[q] = NoRequest
         /\ \A p \in Requests \ {q} : /\ pc'[p] = pc[p]
                                      /\ req'[p] = Shaken(req[p], Relies(p, hit))
<1>1. /\ pc'[q] = "idle" /\ req'[q] = NoRequest
      /\ \A p \in Requests \ {q} : /\ pc'[p] = pc[p]
                                   /\ req'[p] = Shaken(req[p], Relies(p, hit))
  BY DEF Finish, SlotsOK
<1>2. pc' \in [Requests -> Calls] /\ req' \in [Requests -> Request]
  BY ShakenType, NoRequestType DEF Finish, SlotsOK, Calls
<1>3. \A p \in Requests : Shape(pc'[p], req'[p])
  BY <1>1, ShakenType, IdleShape DEF SlotsOK
<1> QED
  BY <1>1, <1>2, <1>3 DEF SlotsOK, Shape

LEMMA KeepStep ==
  ASSUME SlotsOK, NEW q \in Requests, NEW call \in Calls, NEW r \in Request,
         Shape(call, r), Keep(q, call, r)
  PROVE  /\ SlotsOK' /\ pc'[q] = call /\ req'[q] = r
         /\ \A p \in Requests \ {q} : pc'[p] = pc[p] /\ req'[p] = req[p]
<1>1. /\ pc'[q] = call /\ req'[q] = r
      /\ \A p \in Requests \ {q} : pc'[p] = pc[p] /\ req'[p] = req[p]
      /\ pc' \in [Requests -> Calls] /\ req' \in [Requests -> Request]
  BY DEF Keep, SlotsOK
<1>2. \A p \in Requests : Shape(pc'[p], req'[p])
  BY <1>1 DEF SlotsOK
<1> QED
  BY <1>1, <1>2 DEF SlotsOK, Shape

LEMMA GotoStep ==
  ASSUME SlotsOK, NEW q \in Requests, NEW call \in Calls, Shape(call, req[q]), Goto(q, call)
  PROVE  /\ SlotsOK' /\ pc'[q] = call /\ req' = req
         /\ \A p \in Requests \ {q} : pc'[p] = pc[p]
<1>1. /\ pc'[q] = call /\ \A p \in Requests \ {q} : pc'[p] = pc[p]
      /\ pc' \in [Requests -> Calls] /\ req' = req
  BY DEF Goto, SlotsOK
<1>2. \A p \in Requests : Shape(pc'[p], req'[p])
  BY <1>1 DEF SlotsOK
<1> QED
  BY <1>1, <1>2 DEF SlotsOK, Shape

---------------------------------------------------------------------------
\* The steps of seeders keep the types

LEMMA SpentType ==
  ASSUME RestOK, UNCHANGED <<tokens, edited>>,
         \/ load' = load
         \/ load.starts > 0 /\ load' = [load EXCEPT !.starts = @ - 1]
         \/ load.faults > 0 /\ load' = [load EXCEPT !.faults = @ - 1]
  PROVE  RestOK'
<1>1. load' \in LoadType
  BY DEF RestOK, LoadType
<1> QED
  BY <1>1 DEF RestOK, LoadType

LEMMA RowsKept ==
  ASSUME RowsOK, UNCHANGED tables
  PROVE  RowsOK'
  BY DEF RowsOK, tables, User

\* Upserts: one row more, or none.
LEMMA UpsertsTyped ==
  ASSUME IInv, NEW s \in Seeders,
         UpsertPermission(s) \/ UpsertAdminRole(s)
  PROVE  IInv'
<1>0. TypeOK
  BY Parts
<1>1. \A t \in job[s].todo : t \in TasksOf(Stage(s))
  BY JobsOK, StageIs, <1>0 DEF JobOK
<1>3. CASE UpsertPermission(s)
  <2>1. PICK p \in Coming(job[s].todo) : perms' = perms \cup {p} /\ Upsert(s, p)
    BY <1>3 DEF UpsertPermission
  <2>2. p \in Known
    BY <1>1, <1>3, <2>1, ComingIn DEF UpsertPermission, TasksOf
  <2>3. RowsOK'
    BY <1>3, <2>1, <2>2 DEF UpsertPermission, Upsert, IInv, RowsOK, User
  <2> QED
    BY <2>1, <2>3, <1>0, PastOK, SeederStep, SlotsKept, SpentType DEF Upsert, IInv
<1>4. CASE UpsertAdminRole(s)
  <2>1. PICK k \in Coming(job[s].todo) : roles' = roles \cup {OrgRole(k.org, k.code)} /\ Upsert(s, k)
    BY <1>4 DEF UpsertAdminRole
  <2>2. k \in [org : Orgs, code : Codes]
    BY <1>1, <1>4, <2>1, ComingIn DEF UpsertAdminRole, TasksOf
  <2>3. OrgRole(k.org, k.code) \in RoleIds
    BY <2>2, OrgRoleType
  <2>4. RowsOK'
    BY <1>4, <2>1, <2>3 DEF UpsertAdminRole, Upsert, IInv, RowsOK, User
  <2> QED
    BY <2>1, <2>4, <1>0, PastOK, SeederStep, SlotsKept, SpentType DEF Upsert, IInv
<1> QED
  BY <1>3, <1>4

LEMMA PutOrgTyped ==
  ASSUME IInv, NEW s \in Seeders, PutOrg(s)
  PROVE  IInv'
<1>0. TypeOK
  BY Parts
<1>1. PICK o \in job[s].now : /\ orgs' = orgs \cup {o}
                              /\ Continue(s, Settled(s)) \/ Continue(s, Thrown(s))
  BY DEF PutOrg
<1>2. o \in Orgs
  BY <1>0, JobsOK, StageIs DEF PutOrg, JobOK, TasksOf
<1>3. SeedersOK'
  BY <1>0, <1>1, SettledOK, ThrownOK, SeederStep DEF IInv
<1>4. RowsOK'
  BY <1>1, <1>2 DEF PutOrg, IInv, RowsOK, User
<1> QED
  BY <1>3, <1>4, SlotsKept, SpentType DEF PutOrg, IInv

LEMMA StartScriptTyped ==
  ASSUME IInv, NEW s \in Seeders, StartScript(s)
  PROVE  IInv'
<1>0. TypeOK
  BY Parts
<1>1. PICK x \in DOMAIN Scripts :
        Continue(s, [NoJob EXCEPT !.script = x, !.at = 1, !.todo = TodoOf(x, StageAt(x, 1))])
  BY DEF StartScript
<1>2. SeedersOK'
  BY <1>0, <1>1, BegunOK, SeederStep DEF IInv
<1> QED
  BY <1>2, RowsKept, SlotsKept, SpentType DEF StartScript, IInv, tables

LEMMA NextStageTyped ==
  ASSUME IInv, NEW s \in Seeders, NextStage(s)
  PROVE  IInv'
<1>1. PICK j : Continue(s, j) /\ JobOK(j)
  BY Parts, StageBegun
<1>2. SeedersOK'
  BY <1>1, SeederStep DEF IInv
<1> QED
  BY <1>2, RowsKept, SlotsKept, SpentType DEF NextStage, IInv, tables

LEMMA EndsTyped ==
  ASSUME IInv, NEW s \in Seeders, ScriptEnds(s) \/ Crash(s)
  PROVE  IInv'
<1>1. SeedersOK'
  BY NoJobOK, SeederStep DEF ScriptEnds, Crash, IInv
<1> QED
  BY <1>1, RowsKept, SlotsKept, SpentType DEF ScriptEnds, Crash, IInv, tables

LEMMA FailsTyped ==
  ASSUME IInv, NEW s \in Seeders, Fails(s)
  PROVE  IInv'
<1>0. TypeOK
  BY Parts
<1>1. SeedersOK'
  <2>1. CASE Continue(s, Thrown(s))
    BY <1>0, <2>1, ThrownOK, SeederStep DEF IInv
  <2>2. CASE ~Continue(s, Thrown(s))
    <3>1. PICK r : Continue(s, WithoutRole(s, r))
      BY <2>2 DEF Fails
    <3> QED
      BY <1>0, <3>1, FailedOK, SeederStep DEF IInv
  <2> QED
    BY <2>1, <2>2
<1> QED
  BY <1>1, RowsKept, SlotsKept, SpentType DEF Fails, IInv, tables

LEMMA LooksTyped ==
  ASSUME IInv, NEW s \in Seeders,
         LookForOrg(s) \/ LookForRole(s) \/ LookForGrant(s) \/ LookForUser(s)
  PROVE  IInv'
<1>1. PICK j : Continue(s, j) /\ JobOK(j)
  BY Parts, RoleLooked, RowLooked, UserLooked
<1>2. SeedersOK'
  BY <1>1, SeederStep DEF IInv
<1> QED
  BY <1>2, RowsKept, SlotsKept, SpentType
     DEF LookForOrg, LookForRole, LookForGrant, LookForUser, IInv, tables

\* The templates of a code are finitely many, and so is their number.
LEMMA NamedFinite ==
  ASSUME RowsOK, NEW c \in Codes
  PROVE  IsFiniteSet(Named(Global, c)) /\ Cardinality(Named(Global, c)) \in Nat
<1> DEFINE T == { Template(c, n) : n \in 1..MaxCopies }
           f == [n \in 1..MaxCopies |-> Template(c, n)]
<1>1. IsFiniteSet(1..MaxCopies)
  BY CodeAssumption, FS_Interval
<1>2. f \in Surjection(1..MaxCopies, T)
  BY DEF Surjection
<1>3. IsFiniteSet(T)
  BY <1>1, <1>2, FS_Surjection
<1>4. Named(Global, c) \in SUBSET T
  <2> SUFFICES ASSUME NEW r \in Named(Global, c) PROVE r \in T
    OBVIOUS
  <2>1. r \in RoleIds /\ r.org = Global /\ r.code = c
    BY DEF Named, RowsOK
  <2>2. r = Template(c, r.copy) /\ r.copy \in 1..MaxCopies
    BY <2>1, OrgAssumption DEF RoleIds, Template
  <2> QED
    BY <2>2
<1> HIDE DEF T
<1> QED
  BY <1>3, <1>4, FS_Subset, FS_CardinalityType

LEMMA PutRoleTyped ==
  ASSUME IInv, NEW s \in Seeders, PutRole(s)
  PROVE  IInv'
<1>0. TypeOK
  BY Parts
<1>1. PICK k \in job[s].now :
         \/ job' = [job EXCEPT ![s] = Settled(s)] /\ UNCHANGED roles
         \/ /\ k.org = Global
            /\ Cardinality(Named(Global, k.code)) < MaxCopies
            /\ roles' = roles \cup {Template(k.code, Cardinality(Named(Global, k.code)) + 1)}
            /\ Continue(s, Settled(s))
         \/ /\ k.org # Global
            /\ roles' = roles \cup {OrgRole(k.org, k.code)}
            /\ Continue(s, Settled(s)) \/ Continue(s, Thrown(s))
  BY DEF PutRole, Continue
<1>2. k \in [org : {Global}, code : Codes] \cup [org : Orgs, code : Codes]
  BY <1>0, JobsOK, StageIs DEF PutRole, JobOK, TasksOf
<1>3. SeedersOK'
  BY <1>0, <1>1, SettledOK, ThrownOK, SeederStep DEF IInv, Continue
<1>4. roles' \subseteq RoleIds
  <2>1. CASE UNCHANGED roles
    BY <2>1 DEF IInv, RowsOK
  <2>2. CASE /\ Cardinality(Named(Global, k.code)) < MaxCopies
             /\ roles' = roles \cup {Template(k.code, Cardinality(Named(Global, k.code)) + 1)}
    <3>1. k.code \in Codes
      BY <1>2
    <3>2. Cardinality(Named(Global, k.code)) \in Nat
      BY <3>1, NamedFinite DEF IInv
    <3>3. Cardinality(Named(Global, k.code)) + 1 \in 1..MaxCopies
      BY <2>2, <3>2, CodeAssumption
    <3> QED
      BY <2>2, <3>1, <3>3, TemplateType DEF IInv, RowsOK
  <2>3. CASE k.org # Global /\ roles' = roles \cup {OrgRole(k.org, k.code)}
    <3>1. k.org \in Orgs /\ k.code \in Codes
      BY <1>2, <2>3
    <3> QED
      BY <2>3, <3>1, OrgRoleType DEF IInv, RowsOK
  <2> QED
    BY <1>1, <2>1, <2>2, <2>3
<1>5. RowsOK'
  BY <1>4 DEF PutRole, IInv, RowsOK, User
<1> QED
  BY <1>3, <1>5, SlotsKept, SpentType DEF PutRole, IInv

\* The insert of a grant, or its collision with one that came in between.
LEMMA GrantForms ==
  ASSUME NEW s \in Seeders, Grant(s)
  PROVE  \E l \in job[s].now :
           \/ /\ granted' = [granted EXCEPT ![l.role] = @ \cup ({l.perm} \cap perms)]
              /\ req' = Disturbed({l.role}) /\ Continue(s, Settled(s))
           \/ UNCHANGED <<granted, req>> /\ Continue(s, WithoutRole(s, l.role))
  BY DEF Grant

LEMMA GrantTyped ==
  ASSUME IInv, NEW s \in Seeders, Grant(s)
  PROVE  IInv'
<1>0. TypeOK
  BY Parts
<1>1. PICK l \in job[s].now :
        \/ /\ granted' = [granted EXCEPT ![l.role] = @ \cup ({l.perm} \cap perms)]
           /\ req' = Disturbed({l.role}) /\ Continue(s, Settled(s))
        \/ UNCHANGED <<granted, req>> /\ Continue(s, WithoutRole(s, l.role))
  BY GrantForms
<1>2. SeedersOK'
  BY <1>0, <1>1, SettledOK, FailedOK, SeederStep DEF IInv
<1>3. SlotsOK'
  BY <1>1, DisturbedStep, SlotsKept DEF IInv, Grant
<1>4. granted' \in [RoleIds -> SUBSET Known]
  BY <1>1 DEF IInv, RowsOK
<1>5. RowsOK'
  BY <1>4 DEF Grant, IInv, RowsOK, User
<1> QED
  BY <1>2, <1>3, <1>5, SpentType DEF Grant, IInv

\* One row of users is rewritten.
LEMMA UserPut ==
  ASSUME RowsOK, NEW u \in Users, NEW row \in User, users' = [users EXCEPT ![u] = row],
         UNCHANGED <<orgs, roles, perms, granted>>
  PROVE  RowsOK' /\ users'[u] = row /\ \A v \in Users \ {u} : users'[v] = users[v]
<1>1. users' \in [Users -> User] /\ users'[u] = row /\ \A v \in Users \ {u} : users'[v] = users[v]
  BY DEF RowsOK
<1> QED
  BY <1>1 DEF RowsOK, User

LEMMA PutUserTyped ==
  ASSUME IInv, NEW s \in Seeders, PutUser(s)
  PROVE  IInv'
<1>0. TypeOK
  BY Parts
<1>1. PICK k \in job[s].now :
         \/ /\ job[s].user # Nobody /\ Exists(job[s].user)
            /\ users' = [users EXCEPT ![job[s].user] = [users[job[s].user] EXCEPT
                                        !.role = job[s].role, !.standing = "active"]]
            /\ req' = Disturbed({job[s].user})
            /\ Continue(s, Settled(s))
         \/ /\ \E n \in Coming(Free) : users' = [users EXCEPT ![n] = Account(k.email, k.org, job[s].role)]
            /\ Continue(s, Settled(s))
            /\ UNCHANGED req
         \/ Continue(s, Thrown(s)) /\ UNCHANGED <<users, req>>
  BY DEF PutUser
<1>2. k \in SeedUsers
  BY <1>0, JobsOK, StageIs DEF PutUser, JobOK, TasksOf
<1>3. k.email \in Emails /\ k.org \in Orgs
  BY <1>2, SeedUserAssumption, OrgAssumption
<1>4. job[s].role \in RoleIds \cup {NoRole} /\ job[s].user \in Users \cup {Nobody}
  BY <1>0, JobsOK DEF Job
<1>5. UNCHANGED <<orgs, roles, perms, granted, tokens, pc, edited, load>>
  BY DEF PutUser
<1>6. SeedersOK'
  BY <1>0, <1>1, SettledOK, ThrownOK, SeederStep DEF IInv
<1>7. RowsOK' /\ SlotsOK'
  <2>1. CASE job[s].user # Nobody /\ Exists(job[s].user)
             /\ users' = [users EXCEPT ![job[s].user] = [users[job[s].user] EXCEPT
                                         !.role = job[s].role, !.standing = "active"]]
             /\ req' = Disturbed({job[s].user})
    <3>0. users[job[s].user] \in User
      BY <1>0, <1>4, <2>1 DEF TypeOK
    <3>1. [users[job[s].user] EXCEPT !.role = job[s].role, !.standing = "active"] \in User
      BY <1>4, <3>0 DEF User
    <3> QED
      BY <1>4, <1>5, <2>1, <3>1, UserPut, DisturbedStep DEF IInv
  <2>2. CASE (\E n \in Coming(Free) : users' = [users EXCEPT ![n] = Account(k.email, k.org, job[s].role)])
             /\ UNCHANGED req
    <3>1. PICK n \in Users : users' = [users EXCEPT ![n] = Account(k.email, k.org, job[s].role)]
      BY <2>2, ComingIn, FreeType
    <3>2. Account(k.email, k.org, job[s].role) \in User
      BY <1>3, <1>4 DEF Account, User
    <3> QED
      BY <1>5, <2>2, <3>1, <3>2, UserPut, SlotsKept DEF IInv
  <2>3. CASE UNCHANGED <<users, req>>
    BY <1>5, <2>3, RowsKept, SlotsKept DEF IInv, tables
  <2> QED
    BY <1>1, <2>1, <2>2, <2>3
<1> QED
  BY <1>5, <1>6, <1>7, SpentType DEF IInv

LEMMA SeedersTyped ==
  ASSUME IInv, NEW s \in Seeders, StartScript(s) \/ Advances(s) \/ Fails(s) \/ Crash(s)
  PROVE  IInv'
  BY StartScriptTyped, NextStageTyped, EndsTyped, FailsTyped, LooksTyped, UpsertsTyped,
     PutOrgTyped, PutRoleTyped, GrantTyped, PutUserTyped DEF Advances

---------------------------------------------------------------------------
\* The steps of requests keep the types

\* A request starts.
LEMMA StartTyped ==
  ASSUME IInv, NEW q \in Requests, NEW call \in Calls, NEW r \in Request, Shape(call, r),
         Start(q, r, call), UNCHANGED <<tokens, edited>>
  PROVE  SlotsOK' /\ RestOK'
  BY KeepStep, SpentType DEF Start, IInv

LEMMA OrgOfUser ==
  ASSUME IInv, NEW u \in Users
  PROVE  users[u].org \in Orgs \cup {Global} /\ users[u].role \in RoleIds \cup {NoRole}
  BY DEF IInv, RowsOK, User

LEMMA CreateOrgBeginTyped ==
  ASSUME IInv, NEW q \in Requests, CreateOrgBegin(q)
  PROVE  IInv'
<1>1. PICK u \in Users, o \in Orgs :
        /\ orgs' = orgs \cup {o}
        /\ Start(q, [NoRequest EXCEPT !.kind = "createOrg", !.by = u, !.org = o,
                                      !.todo = [org : {o}, code : Codes \cap OrgCodes]], "orgRoles")
  BY DEF CreateOrgBegin
<1> DEFINE todo == [org : {o}, code : Codes \cap OrgCodes]
           r == [NoRequest EXCEPT !.kind = "createOrg", !.by = u, !.org = o, !.todo = todo]
<1>2. todo \subseteq [org : Orgs, code : Codes] /\ todo \subseteq RoleKeys
  BY DEF RoleKeys
<1> HIDE DEF todo
<1>3. /\ r \in Request /\ r.kind = "createOrg" /\ r.by = u /\ r.org = o /\ r.todo = todo
  BY <1>2, NoRequestType DEF Request, Kinds
<1>4. Shape("orgRoles", r)
  BY <1>2, <1>3 DEF Shape
<1>5. SlotsOK' /\ RestOK'
  BY <1>1, <1>3, <1>4, StartTyped DEF CreateOrgBegin, Calls, todo
<1>6. RowsOK'
  BY <1>1 DEF CreateOrgBegin, IInv, RowsOK, User
<1> QED
  BY <1>5, <1>6, SeedersKept DEF CreateOrgBegin, IInv

\* What is left of a list of things to do.
LEMMA TodoLess ==
  ASSUME IInv, NEW q \in Requests, NEW x
  PROVE  LET r == [req[q] EXCEPT !.todo = req[q].todo \ {x}]
         IN  /\ r \in Request /\ r.kind = req[q].kind /\ r.role = req[q].role
             /\ r.by = req[q].by /\ r.alone = req[q].alone
             /\ r.target = req[q].target /\ r.level = req[q].level
             /\ \A call : Shape(call, req[q]) => Shape(call, r)
<1> DEFINE todo == req[q].todo \ {x}
           r == [req[q] EXCEPT !.todo = todo]
<1>1. req[q] \in Request /\ todo \subseteq req[q].todo
  BY DEF IInv, SlotsOK
<1> HIDE DEF todo
<1>2. /\ r \in Request /\ r.kind = req[q].kind /\ r.role = req[q].role
      /\ r.by = req[q].by /\ r.alone = req[q].alone /\ r.target = req[q].target
      /\ r.level = req[q].level /\ r.org = req[q].org /\ r.email = req[q].email /\ r.todo = todo
  BY <1>1 DEF Request
<1>3. \A call : Shape(call, req[q]) => Shape(call, r)
  BY <1>1, <1>2 DEF Shape
<1> QED
  BY <1>2, <1>3 DEF todo

LEMMA CreateOrgRoleTyped ==
  ASSUME IInv, NEW q \in Requests, CreateOrgRole(q)
  PROVE  IInv'
<1>1. PICK k \in Coming(req[q].todo) :
        /\ roles' = roles \cup {OrgRole(k.org, k.code)}
        /\ \/ Finish(q, {})
           \/ Keep(q, "orgRoles", [req[q] EXCEPT !.todo = req[q].todo \ {k}])
  BY DEF CreateOrgRole
<1>2. k \in [org : Orgs, code : Codes]
  BY ComingIn DEF CreateOrgRole, IInv, SlotsOK, Shape
<1>3. OrgRole(k.org, k.code) \in RoleIds
  BY <1>2, OrgRoleType
<1>4. RowsOK'
  BY <1>1, <1>3 DEF CreateOrgRole, IInv, RowsOK, User
<1>5. Shape("orgRoles", req[q]) /\ "orgRoles" \in Calls
  BY DEF CreateOrgRole, IInv, SlotsOK, Calls
<1>6. SlotsOK'
  BY <1>1, <1>5, TodoLess, KeepStep, FinishStep DEF IInv
<1> QED
  BY <1>4, <1>6, SeedersKept, SpentType DEF CreateOrgRole, IInv

LEMMA CreateOrgRolesDoneTyped ==
  ASSUME IInv, NEW q \in Requests, CreateOrgRolesDone(q)
  PROVE  IInv'
<1> DEFINE made == { OrgRole(req[q].org, c) : c \in Codes \cap OrgCodes }
           todo == LinksTo(FoundedMapping, made)
           r == [req[q] EXCEPT !.todo = todo]
<1>0. /\ req[q] \in Request /\ req[q].kind = "createOrg" /\ req[q].by \in Users
      /\ req[q].org \in Orgs
  BY DEF CreateOrgRolesDone, IInv, SlotsOK, Shape
<1>1. made \subseteq RoleIds
  BY <1>0, OrgRoleType
<1>2. todo \subseteq Links
  BY <1>1, LinksType
<1>3. Keep(q, "orgGrants", r)
  BY DEF CreateOrgRolesDone
<1> HIDE DEF todo
<1>4. /\ r \in Request /\ r.kind = "createOrg" /\ r.by = req[q].by /\ r.org = req[q].org
      /\ r.todo = todo
  BY <1>0, <1>2 DEF Request
<1>5. Shape("orgGrants", r)
  BY <1>0, <1>2, <1>4 DEF Shape
<1>6. SlotsOK'
  BY <1>3, <1>4, <1>5, KeepStep DEF IInv, Calls
<1> QED
  BY <1>6, RowsKept, SeedersKept, SpentType DEF CreateOrgRolesDone, IInv

LEMMA CreateOrgGrantTyped ==
  ASSUME IInv, NEW q \in Requests, CreateOrgGrant(q)
  PROVE  IInv'
<1>1. PICK l \in Coming(req[q].todo) :
        /\ granted' = [granted EXCEPT ![l.role] = @ \cup ({l.perm} \cap perms)]
        /\ \/ Finish(q, {})
           \/ /\ pc' = pc
              /\ req' = [Disturbed({l.role}) EXCEPT ![q] = [req[q] EXCEPT !.todo = req[q].todo \ {l}]]
  BY DEF CreateOrgGrant
<1>2. granted' \in [RoleIds -> SUBSET Known]
  BY <1>1 DEF IInv, RowsOK
<1>3. RowsOK'
  BY <1>2 DEF CreateOrgGrant, IInv, RowsOK, User
<1>4. SlotsOK'
  <2>1. CASE Finish(q, {})
    BY <2>1, FinishStep DEF IInv
  <2>2. CASE /\ pc' = pc
             /\ req' = [Disturbed({l.role}) EXCEPT ![q] = [req[q] EXCEPT !.todo = req[q].todo \ {l}]]
    <3>1. PICK r \in Request : /\ r = [req[q] EXCEPT !.todo = req[q].todo \ {l}]
                               /\ \A call : Shape(call, req[q]) => Shape(call, r)
      BY TodoLess
    <3>2. pc[q] = "orgGrants" /\ "orgGrants" \in Calls /\ Shape("orgGrants", req[q])
      BY DEF CreateOrgGrant, IInv, SlotsOK, Calls
    <3>3. pc' = [pc EXCEPT ![q] = "orgGrants"]
      BY <2>2, <3>2 DEF IInv, SlotsOK
    <3>4. req' = [Disturbed({l.role}) EXCEPT ![q] = r] /\ Shape("orgGrants", r)
      BY <2>2, <3>1, <3>2
    <3> QED
      BY <3>2, <3>3, <3>4, DisturbKeep DEF IInv
  <2> QED
    BY <1>1, <2>1, <2>2
<1> QED
  BY <1>3, <1>4, SeedersKept, SpentType DEF CreateOrgGrant, IInv

LEMMA CreateOrgEndTyped ==
  ASSUME IInv, NEW q \in Requests, CreateOrgEnd(q) \/ Abort(q)
  PROVE  IInv'
<1>1. SlotsOK'
  BY FinishStep DEF CreateOrgEnd, Abort, IInv
<1> QED
  BY <1>1, RowsKept, SeedersKept, SpentType DEF CreateOrgEnd, Abort, IInv

LEMMA SetPermissionsBeginTyped ==
  ASSUME IInv, NEW q \in Requests, SetPermissionsBegin(q)
  PROVE  IInv'
<1>1. PICK u \in Users, r \in roles \cap Asked, w \in Wishes, v \in BOOLEAN :
        Start(q, [NoRequest EXCEPT !.kind = "setPermissions", !.by = u, !.role = r,
                                   !.wish = w, !.valid = v], "check")
  BY DEF SetPermissionsBegin
<1> DEFINE n == [NoRequest EXCEPT !.kind = "setPermissions", !.by = u, !.role = r,
                                  !.wish = w, !.valid = v]
<1>2. r \in RoleIds /\ w \subseteq Known
  BY WishAssumption DEF Known
<1>3. n \in Request /\ n.kind = "setPermissions" /\ n.by = u /\ n.role = r
  BY <1>2, NoRequestType DEF Request, Kinds
<1>4. Shape("check", n)
  BY <1>2, <1>3 DEF Shape
<1>5. SlotsOK' /\ RestOK'
  BY <1>1, <1>3, <1>4, StartTyped DEF SetPermissionsBegin, Calls
<1> QED
  BY <1>5, RowsKept, SeedersKept DEF SetPermissionsBegin, IInv

LEMMA CheckHierarchyTyped ==
  ASSUME IInv, NEW q \in Requests, CheckHierarchy(q)
  PROVE  IInv'
<1>1. Finish(q, {}) \/ Goto(q, "clear")
  BY DEF CheckHierarchy
<1>2. Shape("check", req[q])
  BY DEF CheckHierarchy, IInv, SlotsOK
<1>3. Shape("clear", req[q]) /\ "clear" \in Calls
  BY <1>2 DEF Shape, Calls
<1>4. SlotsOK'
  BY <1>1, <1>3, FinishStep, GotoStep DEF IInv
<1> QED
  BY <1>4, RowsKept, SeedersKept, SpentType DEF CheckHierarchy, IInv

LEMMA ClearPermissionsTyped ==
  ASSUME IInv, NEW q \in Requests, ClearPermissions(q)
  PROVE  IInv'
<1>1. Shape("clear", req[q]) /\ req[q] \in Request
  BY DEF ClearPermissions, IInv, SlotsOK
<1>2. Shape("fill", req[q]) /\ "fill" \in Calls /\ req[q].role \in RoleIds
  BY <1>1 DEF Shape, Calls
<1>3. SlotsOK'
  BY <1>1, <1>2, DisturbKeep DEF ClearPermissions, IInv
<1>4. granted' \in [RoleIds -> SUBSET Known]
  BY DEF ClearPermissions, IInv, RowsOK
<1>5. RowsOK'
  BY <1>4 DEF ClearPermissions, IInv, RowsOK, User
<1>6. RestOK'
  BY <1>2 DEF ClearPermissions, IInv, RestOK, LoadType
<1> QED
  BY <1>3, <1>5, <1>6, SeedersKept DEF ClearPermissions, IInv

LEMMA FillPermissionsTyped ==
  ASSUME IInv, NEW q \in Requests, FillPermissions(q)
  PROVE  IInv'
<1>1. req[q] \in Request /\ req[q].wish \subseteq Known
  BY DEF IInv, SlotsOK, Request
<1>2. /\ granted' = granted \/ granted' = [granted EXCEPT ![req[q].role] = @ \cup req[q].wish]
      /\ \E hit : Finish(q, hit)
  BY DEF FillPermissions
<1>3. granted' \in [RoleIds -> SUBSET Known]
  BY <1>1, <1>2 DEF IInv, RowsOK
<1>4. RowsOK'
  BY <1>3 DEF FillPermissions, IInv, RowsOK, User
<1>5. SlotsOK'
  BY <1>2, FinishStep DEF IInv
<1> QED
  BY <1>4, <1>5, SeedersKept, SpentType DEF FillPermissions, IInv

LEMMA CreateUserBeginTyped ==
  ASSUME IInv, NEW q \in Requests, CreateUserBegin(q)
  PROVE  IInv'
<1>1. PICK u \in Users, n \in NewUsers :
        Start(q, [NoRequest EXCEPT !.kind = "createUser", !.by = u, !.email = n.email,
                                   !.role = n.role, !.org = users[u].org], "level")
  BY DEF CreateUserBegin
<1> DEFINE r == [NoRequest EXCEPT !.kind = "createUser", !.by = u, !.email = n.email,
                                  !.role = n.role, !.org = users[u].org]
<1>2. /\ n.email \in Emails /\ n.role \in RoleIds
      /\ users[u].org \in Orgs \cup {Global}
  BY BodyAssumption, OrgOfUser
<1>3. /\ r \in Request /\ r.kind = "createUser" /\ r.by = u /\ r.email = n.email
      /\ r.role = n.role
  BY <1>2, NoRequestType DEF Request, Kinds
<1>4. Shape("level", r)
  BY <1>2, <1>3 DEF Shape
<1>5. SlotsOK' /\ RestOK'
  BY <1>1, <1>3, <1>4, StartTyped DEF CreateUserBegin, Calls
<1> QED
  BY <1>5, RowsKept, SeedersKept DEF CreateUserBegin, IInv

LEMMA UpdateUserBeginTyped ==
  ASSUME IInv, NEW q \in Requests, UpdateUserBegin(q)
  PROVE  IInv'
<1>1. PICK u \in Users, t \in Users, p \in Patches :
        Start(q, [NoRequest EXCEPT !.kind = "updateUser", !.by = u, !.target = t,
                                   !.role = p.role, !.standing = p.standing,
                                   !.email = p.email, !.org = users[u].org], "level")
  BY DEF UpdateUserBegin
<1> DEFINE r == [NoRequest EXCEPT !.kind = "updateUser", !.by = u, !.target = t,
                                  !.role = p.role, !.standing = p.standing,
                                  !.email = p.email, !.org = users[u].org]
<1>2. /\ p.role \in RoleIds \cup {NoRole} /\ p.standing \in {"same", "active", "inactive"}
      /\ p.email \in Emails \cup {Nobody} /\ users[u].org \in Orgs \cup {Global}
  BY BodyAssumption, OrgOfUser
<1>3. r \in Request /\ r.kind = "updateUser" /\ r.by = u /\ r.target = t
  BY <1>2, NoRequestType DEF Request, Kinds
<1>4. Shape("level", r)
  BY <1>3 DEF Shape
<1>5. SlotsOK' /\ RestOK'
  BY <1>1, <1>3, <1>4, StartTyped DEF UpdateUserBegin, Calls
<1> QED
  BY <1>5, RowsKept, SeedersKept DEF UpdateUserBegin, IInv

\* The requester's level is read.
LEMMA LevelRead ==
  ASSUME IInv, AccountsOK, NEW q \in Requests, ReadLevel(q)
  PROVE  \E level \in 0..NoLevel, call \in {"unique", "target"} :
           LET r == [req[q] EXCEPT !.level = level]
           IN  /\ level = IF Exists(req[q].by) THEN Rank(users[req[q].by].role) ELSE NoLevel
               /\ call = IF req[q].kind = "createUser" THEN "unique" ELSE "target"
               /\ r \in Request /\ r.level = level /\ r.by = req[q].by /\ r.role = req[q].role
               /\ r.kind = req[q].kind /\ r.target = req[q].target /\ r.alone = req[q].alone
               /\ Shape(call, r) /\ Keep(q, call, r)
<1> DEFINE l == IF Exists(req[q].by) THEN Rank(users[req[q].by].role) ELSE NoLevel
           c == IF req[q].kind = "createUser" THEN "unique" ELSE "target"
<1>1. Shape("level", req[q]) /\ req[q] \in Request /\ req[q].by \in Users
  BY DEF ReadLevel, IInv, SlotsOK, Shape
<1>2. l \in 0..NoLevel
  BY <1>1, RankType DEF AccountsOK, NoLevel
<1>3. Keep(q, c, [req[q] EXCEPT !.level = l])
  BY DEF ReadLevel
<1>4. PICK level \in 0..NoLevel : level = l
  BY <1>2
<1> DEFINE r == [req[q] EXCEPT !.level = level]
<1>5. /\ r \in Request /\ r.level = level /\ r.by = req[q].by /\ r.role = req[q].role
      /\ r.kind = req[q].kind /\ r.target = req[q].target /\ r.alone = req[q].alone
      /\ r.email = req[q].email
  BY <1>1 DEF Request
<1>6. Shape(c, r) /\ c \in {"unique", "target"}
  BY <1>1, <1>5 DEF Shape
<1> QED
  BY <1>3, <1>4, <1>5, <1>6

LEMMA ReadLevelTyped ==
  ASSUME IInv, AccountsOK, NEW q \in Requests, ReadLevel(q)
  PROVE  IInv'
<1>1. PICK call \in Calls, r \in Request : Shape(call, r) /\ Keep(q, call, r)
  BY LevelRead DEF Calls
<1>2. SlotsOK'
  BY <1>1, KeepStep DEF IInv
<1> QED
  BY <1>2, RowsKept, SeedersKept, SpentType DEF ReadLevel, IInv

LEMMA ChecksTyped ==
  ASSUME IInv, NEW q \in Requests, CreateUserCheck(q) \/ UpdateUserCheck(q)
  PROVE  IInv'
<1>1. \/ Finish(q, {})
      \/ pc[q] = "unique" /\ Goto(q, "insert")
      \/ pc[q] = "target" /\ Goto(q, "write")
  BY DEF CreateUserCheck, UpdateUserCheck
<1>2. Shape(pc[q], req[q])
  BY DEF IInv, SlotsOK
<1>3. /\ pc[q] = "unique" => Shape("insert", req[q])
      /\ pc[q] = "target" => Shape("write", req[q])
      /\ {"insert", "write"} \subseteq Calls
  BY <1>2 DEF Shape, Calls
<1>4. SlotsOK'
  BY <1>1, <1>3, FinishStep, GotoStep DEF IInv
<1> QED
  BY <1>4, RowsKept, SeedersKept, SpentType DEF CreateUserCheck, UpdateUserCheck, IInv

LEMMA CreateUserInsertTyped ==
  ASSUME IInv, NEW q \in Requests, CreateUserInsert(q)
  PROVE  IInv'
<1>1. /\ \/ \E n \in Users : users' = [users EXCEPT ![n] = Account(req[q].email, req[q].org, req[q].role)]
         \/ UNCHANGED users
      /\ Finish(q, {})
  BY ComingIn, FreeType DEF CreateUserInsert
<1>2. Account(req[q].email, req[q].org, req[q].role) \in User
  <2>1. Shape("insert", req[q]) /\ req[q] \in Request
    BY DEF CreateUserInsert, IInv, SlotsOK
  <2>2. req[q].email \in Emails /\ req[q].org \in Orgs \cup {Global} /\ req[q].role \in RoleIds
    BY <2>1 DEF Shape, Request
  <2> QED
    BY <2>2, AccountType
<1>3. RowsOK'
  BY <1>1, <1>2, UserPut, RowsKept DEF CreateUserInsert, IInv, tables
<1>4. SlotsOK'
  BY <1>1, FinishStep DEF IInv
<1> QED
  BY <1>3, <1>4, SeedersKept, SpentType DEF CreateUserInsert, IInv

\* A user's row as a PATCH leaves it.
LEMMA PatchedType ==
  ASSUME NEW row \in User, NEW r \in Request
  PROVE  /\ Patched(row, r) \in User
         /\ Patched(row, r).role = IF r.role = NoRole THEN row.role ELSE r.role
  BY DEF Patched, User, Request

LEMMA UpdateUserWriteTyped ==
  ASSUME IInv, NEW q \in Requests, UpdateUserWrite(q)
  PROVE  IInv'
<1>1. req[q].target \in Users /\ req[q] \in Request /\ users[req[q].target] \in User
  BY DEF UpdateUserWrite, IInv, SlotsOK, Shape, RowsOK
<1>2. /\ \/ users' = [users EXCEPT ![req[q].target] = Patched(users[req[q].target], req[q])]
         \/ UNCHANGED users
      /\ \E hit : Finish(q, hit)
  BY DEF UpdateUserWrite
<1>3. RowsOK'
  BY <1>1, <1>2, PatchedType, UserPut, RowsKept DEF UpdateUserWrite, IInv, tables
<1>4. SlotsOK'
  BY <1>2, FinishStep DEF IInv
<1> QED
  BY <1>3, <1>4, SeedersKept, SpentType DEF UpdateUserWrite, IInv

LEMMA DeleteUsersTyped ==
  ASSUME IInv, NEW q \in Requests, DeleteUsers(q)
  PROVE  IInv'
<1>1. PICK hit \in SUBSET Users :
        /\ users' = [t \in Users |-> IF t \in hit THEN [NoUser EXCEPT !.standing = "gone"]
                                     ELSE users[t]]
        /\ req' = Disturbed(hit)
  BY DEF DeleteUsers
<1>2. [NoUser EXCEPT !.standing = "gone"] \in User
  BY DEF NoUser, User
<1>3. users' \in [Users -> User]
  BY <1>1, <1>2 DEF IInv, RowsOK
<1>4. RowsOK'
  BY <1>3 DEF DeleteUsers, IInv, RowsOK, User
<1>5. SlotsOK'
  BY <1>1, DisturbedStep DEF DeleteUsers, IInv
<1> QED
  BY <1>4, <1>5, SeedersKept, SpentType DEF DeleteUsers, IInv

LEMMA LoginTyped ==
  ASSUME IInv, AccountsOK, NEW u \in Users, Login(u)
  PROVE  IInv'
<1>1. users[u].role \in RoleIds
  BY DEF Login, AccountsOK, Exists
<1>2. users[u].role.code \in RoleCodes /\ granted[users[u].role] \in SUBSET Known
  BY <1>1, RankType DEF IInv, RowsOK
<1>3. tokens' \in [Users -> Token]
  BY <1>2 DEF Login, IInv, RestOK, Token
<1>4. RestOK'
  BY <1>3 DEF Login, IInv, RestOK, LoadType, Token
<1> QED
  BY <1>4, RowsKept, SlotsKept, SeedersKept DEF Login, IInv

---------------------------------------------------------------------------
\* Accounts have roles

Sought(j) == StageOf(j) = "users" /\ j.now # {} => j.role \in RoleIds

\* What a seeder has just looked up after a step: nothing, what it had before,
\* a role, the role and user of an account, or a row with nothing to update.
LookedUp(s, j) ==
    \/ j.now = {}
    \/ StageOf(j) = Stage(s) /\ j.now = job[s].now /\ j.role = job[s].role
    \/ StageOf(j) = "users" /\ j.role \in RoleIds
    \/ StageOf(j) \in {"orgs", "grants"}

LEMMA JobStep ==
  ASSUME IInv, NEW s \in Seeders, StartScript(s) \/ Advances(s) \/ Fails(s) \/ Crash(s)
  PROVE  LookForRole(s) \/ \E j : Continue(s, j) /\ JobOK(j) /\ LookedUp(s, j)
<1>0. TypeOK
  BY Parts
<1>1. CASE StartScript(s)
  BY <1>0, <1>1, BegunOK DEF StartScript, LookedUp
<1>2. CASE NextStage(s)
  BY <1>0, <1>2, StageBegun DEF LookedUp
<1>3. CASE ScriptEnds(s) \/ Crash(s)
  BY <1>3, NoJobOK DEF ScriptEnds, Crash, LookedUp
<1>4. CASE UpsertPermission(s) \/ UpsertAdminRole(s)
  <2>1. PICK t : Continue(s, Past(s, t))
    BY <1>4 DEF UpsertPermission, UpsertAdminRole, Upsert
  <2> QED
    BY <1>0, <2>1, PastOK, StageIs DEF LookedUp
<1>5. CASE LookForOrg(s) \/ LookForGrant(s)
  <2>1. PICK j : Continue(s, j) /\ JobOK(j) /\ StageOf(j) = Stage(s)
    BY <1>0, <1>5, RowLooked
  <2>2. Stage(s) \in {"orgs", "grants"}
    BY <1>5 DEF LookForOrg, LookForGrant
  <2> QED
    BY <2>1, <2>2 DEF LookedUp
<1>6. CASE LookForUser(s)
  BY <1>0, <1>6, UserLooked DEF LookForUser, LookedUp
<1>7. CASE PutOrg(s) \/ PutRole(s) \/ Grant(s) \/ PutUser(s)
  <2>1. Continue(s, Settled(s)) \/ Continue(s, Thrown(s)) \/ \E r : Continue(s, WithoutRole(s, r))
    BY <1>7, GrantForms DEF PutOrg, PutRole, PutUser
  <2> QED
    BY <1>0, <2>1, SettledOK, ThrownOK, FailedOK DEF LookedUp
<1>8. CASE Fails(s)
  <2>1. CASE Continue(s, Thrown(s))
    BY <1>0, <2>1, ThrownOK DEF LookedUp
  <2>2. CASE ~Continue(s, Thrown(s))
    <3>1. PICK r : Continue(s, WithoutRole(s, r))
      BY <1>8, <2>2 DEF Fails
    <3> QED
      BY <1>0, <3>1, FailedOK DEF LookedUp
  <2> QED
    BY <2>1, <2>2
<1> QED
  BY <1>1, <1>2, <1>3, <1>4, <1>5, <1>6, <1>7, <1>8 DEF Advances

LEMMA SoughtStep ==
  ASSUME IInv, AccountsOK, NEW s \in Seeders,
         StartScript(s) \/ Advances(s) \/ Fails(s) \/ Crash(s)
  PROVE  \E j : Continue(s, j) /\ JobOK(j) /\ Sought(j)
<1>1. Sought(job[s])
  BY StageIs DEF AccountsOK, Sought
<1>2. CASE LookForRole(s)
  BY <1>2, Parts, RoleLooked DEF LookForRole, Sought
<1> QED
  BY <1>1, <1>2, JobStep, StageIs DEF LookedUp, Sought

LEMMA SoughtKept ==
  ASSUME IInv, AccountsOK, NEW s \in Seeders,
         StartScript(s) \/ Advances(s) \/ Fails(s) \/ Crash(s)
  PROVE  \A p \in Seeders : Sought(job'[p])
<1>1. PICK j : Continue(s, j) /\ JobOK(j) /\ Sought(j)
  BY SoughtStep
<1>2. job'[s] = j /\ \A p \in Seeders \ {s} : job'[p] = job[p]
  BY <1>1, SeederStep DEF IInv
<1>3. \A p \in Seeders : Sought(job[p])
  BY StageIs DEF AccountsOK, Sought
<1> QED
  BY <1>1, <1>2, <1>3

\* The rows of users that a step rewrites have roles.
LEMMA RolesHeld ==
  ASSUME IInv, AccountsOK, Next
  PROVE  \A u \in Users : Exists(u)' => users'[u].role \in RoleIds
<1>1. CASE UNCHANGED users
  BY <1>1 DEF AccountsOK, Exists
<1>2. ASSUME NEW s \in Seeders, PutUser(s)
      PROVE  \A u \in Users : Exists(u)' => users'[u].role \in RoleIds
  <2>1. job[s].role \in RoleIds
    BY <1>2 DEF PutUser, AccountsOK
  <2>2. \/ /\ Exists(job[s].user)
           /\ users' = [users EXCEPT ![job[s].user] = [users[job[s].user] EXCEPT
                                       !.role = job[s].role, !.standing = "active"]]
        \/ \E n, e, o : users' = [users EXCEPT ![n] = Account(e, o, job[s].role)]
        \/ UNCHANGED users
    BY <1>2 DEF PutUser
  <2>3. users \in [Users -> User]
    BY DEF IInv, RowsOK
  <2>4. \A u \in Users : users'[u] = users[u] \/ users'[u].role = job[s].role
    <3>1. CASE /\ Exists(job[s].user)
               /\ users' = [users EXCEPT ![job[s].user] = [users[job[s].user] EXCEPT
                                           !.role = job[s].role, !.standing = "active"]]
      <4>1. job[s].user \in Users => users[job[s].user] \in User
        BY <2>3
      <4>2. PICK row : row = [users[job[s].user] EXCEPT !.role = job[s].role, !.standing = "active"]
        OBVIOUS
      <4>3. job[s].user \in Users => row.role = job[s].role
        BY <4>1, <4>2 DEF User
      <4> QED
        BY <2>3, <3>1, <4>2, <4>3
    <3>2. CASE \E n, e, o : users' = [users EXCEPT ![n] = Account(e, o, job[s].role)]
      BY <2>3, <3>2 DEF Account
    <3> QED
      BY <2>2, <3>1, <3>2
  <2> QED
    BY <2>1, <2>4 DEF AccountsOK, Exists
<1>3. ASSUME NEW q \in Requests, CreateUserInsert(q)
      PROVE  \A u \in Users : Exists(u)' => users'[u].role \in RoleIds
  <2>1. req[q].role \in RoleIds
    BY <1>3 DEF CreateUserInsert, IInv, SlotsOK, Shape
  <2>2. \/ \E n, e, o : users' = [users EXCEPT ![n] = Account(e, o, req[q].role)]
        \/ UNCHANGED users
    BY <1>3 DEF CreateUserInsert
  <2>3. users \in [Users -> User]
    BY DEF IInv, RowsOK
  <2>4. \A u \in Users : users'[u] = users[u] \/ users'[u].role = req[q].role
    BY <2>2, <2>3 DEF Account, User
  <2> QED
    BY <2>1, <2>4 DEF AccountsOK, Exists
<1>4. ASSUME NEW q \in Requests, UpdateUserWrite(q)
      PROVE  \A u \in Users : Exists(u)' => users'[u].role \in RoleIds
  <2>1. req[q].target \in Users /\ req[q] \in Request /\ users[req[q].target] \in User
        /\ req[q].role \in RoleIds \cup {NoRole}
    BY <1>4 DEF UpdateUserWrite, IInv, SlotsOK, Shape, RowsOK, Request
  <2>2. \/ /\ Exists(req[q].target)
           /\ users' = [users EXCEPT ![req[q].target] = Patched(users[req[q].target], req[q])]
        \/ UNCHANGED users
    BY <1>4 DEF UpdateUserWrite
  <2>3. Exists(req[q].target) => Patched(users[req[q].target], req[q]).role \in RoleIds
    BY <2>1, PatchedType DEF AccountsOK
  <2>4. users \in [Users -> User]
    BY DEF IInv, RowsOK
  <2>5. \A u \in Users : \/ users'[u] = users[u]
                         \/ /\ Exists(req[q].target)
                            /\ users'[u] = Patched(users[req[q].target], req[q])
    BY <2>2, <2>4
  <2> QED
    BY <2>3, <2>5 DEF AccountsOK, Exists
<1>5. ASSUME NEW q \in Requests, DeleteUsers(q)
      PROVE  \A u \in Users : Exists(u)' => users'[u].role \in RoleIds
  <2>1. PICK hit : users' = [t \in Users |-> IF t \in hit THEN [NoUser EXCEPT !.standing = "gone"]
                                             ELSE users[t]]
    BY <1>5 DEF DeleteUsers
  <2>2. \A u \in Users : users'[u] = users[u] \/ users'[u].standing = "gone"
    BY <2>1 DEF NoUser
  <2> QED
    BY <2>2 DEF AccountsOK, Exists
<1>6. \/ UNCHANGED users
      \/ \E s \in Seeders : PutUser(s)
      \/ \E q \in Requests : CreateUserInsert(q) \/ UpdateUserWrite(q) \/ DeleteUsers(q)
  BY DEF Next, StartScript, Advances, Fails, Crash, Login, Arrives, Proceeds, Abort, tables,
         NextStage, ScriptEnds, LookForOrg, PutOrg, UpsertPermission, UpsertAdminRole, Upsert, LookForRole,
         PutRole, LookForGrant, Grant, LookForUser, CreateOrgBegin, SetPermissionsBegin, CreateUserBegin,
         UpdateUserBegin, CreateOrgRole, CreateOrgRolesDone, CreateOrgGrant, CreateOrgEnd,
         CheckHierarchy, ClearPermissions, FillPermissions, ReadLevel, CreateUserCheck,
         UpdateUserCheck
<1> QED
  BY <1>1, <1>2, <1>3, <1>4, <1>5, <1>6

LEMMA AccountsKept ==
  ASSUME IInv, AccountsOK, Next
  PROVE  AccountsOK'
<1>1. \A s \in Seeders : Sought(job'[s])
  <2>1. \A s \in Seeders : Sought(job[s])
    BY StageIs DEF AccountsOK, Sought
  <2>2. \/ UNCHANGED job
        \/ \E s \in Seeders : StartScript(s) \/ Advances(s) \/ Fails(s) \/ Crash(s)
    BY DEF Next, Login, Arrives, Proceeds, Abort, DeleteUsers, CreateOrgBegin, SetPermissionsBegin,
           CreateUserBegin, UpdateUserBegin, CreateOrgRole, CreateOrgRolesDone, CreateOrgGrant,
           CreateOrgEnd, CheckHierarchy, ClearPermissions, FillPermissions, ReadLevel,
           CreateUserCheck, CreateUserInsert, UpdateUserCheck, UpdateUserWrite
  <2> QED
    BY <2>1, <2>2, SoughtKept
<1>2. \A s \in Seeders : Stage(s)' = StageOf(job'[s])
  BY DEF Stage, StageOf, StageAt
<1> QED
  BY <1>1, <1>2, RolesHeld DEF AccountsOK, Sought

---------------------------------------------------------------------------
\* Type correctness

LEMMA NextTyped ==
  ASSUME IInv, AccountsOK, [Next]_vars
  PROVE  IInv' /\ AccountsOK'
<1>1. CASE UNCHANGED vars
  <2>1. IInv'
    BY <1>1, RowsKept, SeedersKept, SlotsKept, SpentType DEF vars, tables, IInv
  <2>2. AccountsOK'
    BY <1>1 DEF vars, AccountsOK, Exists, Stage, StageAt
  <2> QED
    BY <2>1, <2>2
<1>2. CASE Next
  <2>1. ASSUME NEW s \in Seeders, StartScript(s) \/ Advances(s) \/ Fails(s) \/ Crash(s)
        PROVE  IInv'
    BY <2>1, SeedersTyped
  <2>2. ASSUME NEW u \in Users, Login(u)
        PROVE  IInv'
    BY <2>2, LoginTyped
  <2>3. ASSUME NEW q \in Requests, Arrives(q)
        PROVE  IInv'
    BY <2>3, CreateOrgBeginTyped, SetPermissionsBeginTyped, CreateUserBeginTyped,
       UpdateUserBeginTyped, DeleteUsersTyped DEF Arrives
  <2>4. ASSUME NEW q \in Requests, Proceeds(q) \/ Abort(q)
        PROVE  IInv'
    BY <2>4, CreateOrgRoleTyped, CreateOrgRolesDoneTyped, CreateOrgGrantTyped, CreateOrgEndTyped,
       CheckHierarchyTyped, ClearPermissionsTyped, FillPermissionsTyped, ReadLevelTyped,
       ChecksTyped, CreateUserInsertTyped, UpdateUserWriteTyped DEF Proceeds
  <2> QED
    BY <1>2, <2>1, <2>2, <2>3, <2>4, AccountsKept DEF Next
<1> QED
  BY <1>1, <1>2

\* What Init gives the users that a seeding left.
LEMMA SeededUsers ==
  ASSUME NEW k \in SeedUsers
  PROVE  LET r == IF k.code = "SUPER_ADMIN" THEN Template(k.code, 1) ELSE OrgRole(k.org, k.code)
         IN  r \in RoleIds /\ Account(k.email, k.org, r) \in User
                          /\ Account(k.email, k.org, r).role = r
<1> DEFINE r == IF k.code = "SUPER_ADMIN" THEN Template(k.code, 1) ELSE OrgRole(k.org, k.code)
<1>1. k.email \in Emails /\ k.org \in Orgs /\ k.code \in Codes /\ 1 \in 1..MaxCopies
  BY SeedUserAssumption, OrgAssumption, CodeAssumption
<1>2. r \in RoleIds
  BY <1>1, OrgRoleType, TemplateType
<1> HIDE DEF r
<1>3. Account(k.email, k.org, r) \in User /\ Account(k.email, k.org, r).role = r
  BY <1>1, <1>2, AccountType DEF Account
<1> QED
  BY <1>2, <1>3 DEF r

LEMMA InitTyped == Init => IInv /\ AccountsOK
<1> SUFFICES ASSUME Init PROVE IInv /\ AccountsOK
  OBVIOUS
<1>1. load \in LoadType /\ orgs \subseteq Orgs /\ perms \subseteq Known
  BY BodyAssumption, OrgAssumption DEF Init
<1>2. roles \subseteq RoleIds
  <2> SUFFICES ASSUME NEW r \in roles PROVE r \in RoleIds
    OBVIOUS
  <2>1. \/ \E c \in Codes : r = Template(c, 1)
        \/ \E o \in SeedOrgs, c \in Codes \cap OrgCodes : r = OrgRole(o, c)
    BY DEF Init
  <2>2. 1 \in 1..MaxCopies /\ SeedOrgs \subseteq Orgs
    BY CodeAssumption, OrgAssumption
  <2> QED
    BY <2>1, <2>2, TemplateType, OrgRoleType
<1>3. granted \in [RoleIds -> SUBSET Known]
  BY DEF Init
<1>4. \A u \in Users : \/ users[u] = NoUser
                       \/ users[u] \in User /\ users[u].role \in RoleIds
  <2> SUFFICES ASSUME NEW u \in Users, users[u] # NoUser
               PROVE  users[u] \in User /\ users[u].role \in RoleIds
    OBVIOUS
  <2>1. \E k \in SeedUsers : k.id = u
    BY DEF Init
  <2> DEFINE k == CHOOSE x \in SeedUsers : x.id = u
             r == IF k.code = "SUPER_ADMIN" THEN Template(k.code, 1) ELSE OrgRole(k.org, k.code)
  <2>2. k \in SeedUsers
    BY <2>1
  <2>3. users[u] = Account(k.email, k.org, r)
    BY DEF Init
  <2> HIDE DEF k
  <2> QED
    BY <2>2, <2>3, SeededUsers
<1>5. users \in [Users -> User]
  <2>1. \A u \in Users : users[u] \in User
    BY <1>4, NoUserType
  <2>2. \E f : users = [u \in Users |-> f[u]]
    BY DEF Init
  <2> QED
    BY <2>1, <2>2
<1>6. RowsOK
  BY <1>1, <1>2, <1>3, <1>5 DEF RowsOK
<1>7. SeedersOK /\ \A s \in Seeders : job[s] = NoJob
  BY NoJobOK DEF Init, SeedersOK
<1>8. SlotsOK
  BY NoRequestType, IdleShape DEF Init, SlotsOK, Calls
<1>9. RestOK
  BY <1>1 DEF Init, RestOK, Token, NoToken
<1>10. AccountsOK
  BY <1>4, <1>7, NoJobOK DEF AccountsOK, Exists, NoUser
<1> QED
  BY <1>6, <1>7, <1>8, <1>9, <1>10 DEF IInv

\* The tables, the local variables of scripts and requests, and the tokens
\* always have their types; what a loop has left is what its stage is about.
THEOREM TypeCorrect == Spec => []TypeOK
<1>1. IInv /\ AccountsOK /\ [Next]_vars => (IInv /\ AccountsOK)'
  BY NextTyped
<1> QED
  BY InitTyped, Parts, <1>1, PTL DEF Spec

---------------------------------------------------------------------------
\* What a step does to the requests that do not take it: the ones that rely on
\* what it changes are told so, the others find what they relied on.

Rests(p, hit) == pc'[p] = pc[p] /\ req'[p] = Shaken(req[p], Relies(p, hit))

Spared(hit) ==
    /\ \A u \in Users \ hit : Exists(u) => users'[u] = users[u]
    /\ \A r \in RoleIds \ hit : granted'[r] = granted[r]

Moves(q) == Arrives(q) \/ Proceeds(q) \/ Abort(q)

LEMMA NothingHit ==
  ASSUME NEW p, pc'[p] = pc[p], req'[p] = req[p]
  PROVE  Rests(p, {})
  BY DEF Rests, Relies, Shaken

LEMMA SeederRests ==
  ASSUME IInv, NEW s \in Seeders, StartScript(s) \/ Advances(s) \/ Fails(s) \/ Crash(s)
  PROVE  \E hit : Spared(hit) /\ \A p \in Requests : Rests(p, hit)
<1>0. TypeOK
  BY Parts
<1>1. CASE UNCHANGED <<users, granted, pc, req>>
  <2>1. Spared({}) /\ \A p \in Requests : Rests(p, {})
    BY <1>1, NothingHit DEF Spared
  <2> QED
    BY <2>1
<1>2. CASE Grant(s) /\ ~UNCHANGED <<granted, req>>
  <2>1. PICK l \in job[s].now :
          /\ granted' = [granted EXCEPT ![l.role] = @ \cup ({l.perm} \cap perms)]
          /\ req' = Disturbed({l.role})
    BY <1>2, GrantForms
  <2>2. \A p \in Requests : Rests(p, {l.role})
    BY <1>2, <2>1, DisturbedStep DEF Grant, Rests, IInv
  <2>3. Spared({l.role})
    BY <1>2, <2>1 DEF Grant, Spared, IInv, RowsOK
  <2> QED
    BY <2>2, <2>3
<1>3. CASE PutUser(s)
  <2>1. CASE /\ Exists(job[s].user) /\ req' = Disturbed({job[s].user})
             /\ \E row : users' = [users EXCEPT ![job[s].user] = row]
    <3>1. \A p \in Requests : Rests(p, {job[s].user})
      BY <1>3, <2>1, DisturbedStep DEF PutUser, Rests, IInv
    <3>2. Spared({job[s].user})
      BY <1>3, <2>1 DEF PutUser, Spared, IInv, RowsOK
    <3> QED
      BY <3>1, <3>2
  <2>2. CASE /\ UNCHANGED req
             /\ \/ UNCHANGED users
                \/ \E n \in Free : \E row : users' = [users EXCEPT ![n] = row]
    <3>1. \A p \in Requests : Rests(p, {})
      BY <1>3, <2>2, NothingHit DEF PutUser
    <3>2. \A n \in Free : ~Exists(n)
      BY DEF Free, Exists
    <3>3. Spared({})
      BY <1>3, <2>2, <3>2 DEF PutUser, Spared, IInv, RowsOK
    <3> QED
      BY <3>1, <3>3
  <2> QED
    BY <1>3, <2>1, <2>2, ComingIn DEF PutUser
<1> QED
  BY <1>1, <1>2, <1>3
     DEF StartScript, Advances, Fails, Crash, NextStage, ScriptEnds, LookForOrg, PutOrg, UpsertPermission,
         UpsertAdminRole, Upsert, LookForRole, PutRole, LookForGrant, Grant, LookForUser, tables

\* Requests whose step writes neither accounts nor grants.
LEMMA QuietRests ==
  ASSUME IInv, NEW q \in Requests, UNCHANGED <<users, granted>>,
         (\E call, r : Keep(q, call, r)) \/ (\E call : Goto(q, call)) \/ Finish(q, {})
  PROVE  Spared({}) /\ \A p \in Requests \ {q} : Rests(p, {})
<1>1. Spared({})
  BY DEF Spared
<1>2. CASE Finish(q, {})
  BY <1>1, <1>2, FinishStep DEF IInv, Rests
<1>3. CASE (\E call, r : Keep(q, call, r)) \/ (\E call : Goto(q, call))
  <2>1. \A p \in Requests \ {q} : pc'[p] = pc[p] /\ req'[p] = req[p]
    BY <1>3 DEF Keep, Goto, IInv, SlotsOK
  <2> QED
    BY <1>1, <2>1, NothingHit
<1> QED
  BY <1>2, <1>3

LEMMA MoverRests ==
  ASSUME IInv, NEW q \in Requests, Moves(q)
  PROVE  \E hit : Spared(hit) /\ \A p \in Requests \ {q} : Rests(p, hit)
<1>1. CASE \/ CreateOrgBegin(q) \/ SetPermissionsBegin(q) \/ CreateUserBegin(q) \/ UpdateUserBegin(q)
           \/ CreateOrgRole(q) \/ CreateOrgRolesDone(q) \/ CreateOrgEnd(q) \/ CheckHierarchy(q)
           \/ ReadLevel(q) \/ CreateUserCheck(q) \/ UpdateUserCheck(q) \/ Abort(q)
  <2>1. /\ UNCHANGED <<users, granted>>
        /\ (\E call, r : Keep(q, call, r)) \/ (\E call : Goto(q, call)) \/ Finish(q, {})
    BY <1>1 DEF CreateOrgBegin, SetPermissionsBegin, CreateUserBegin, UpdateUserBegin, Start,
           CreateOrgRole, CreateOrgRolesDone, CreateOrgEnd, CheckHierarchy, ReadLevel,
           CreateUserCheck, UpdateUserCheck, Abort, tables
  <2> QED
    BY <2>1, QuietRests
<1>2. CASE CreateOrgGrant(q)
  <2>1. PICK l \in Coming(req[q].todo) :
          /\ granted' = [granted EXCEPT ![l.role] = @ \cup ({l.perm} \cap perms)]
          /\ IF l.perm \in granted[l.role] THEN Finish(q, {})
             ELSE /\ pc' = pc
                  /\ req' = [Disturbed({l.role}) EXCEPT ![q] = [req[q] EXCEPT !.todo = req[q].todo \ {l}]]
    BY <1>2 DEF CreateOrgGrant
  <2>2. UNCHANGED users
    BY <1>2 DEF CreateOrgGrant
  <2>3. CASE l.perm \in granted[l.role]
    <3>1. granted' = granted
      BY <2>1, <2>3 DEF IInv, RowsOK
    <3> QED
      BY <2>1, <2>2, <2>3, <3>1, QuietRests
  <2>4. CASE l.perm \notin granted[l.role]
    <3>1. \A p \in Requests \ {q} : Rests(p, {l.role})
      BY <2>1, <2>4 DEF Rests, Disturbed, IInv, SlotsOK
    <3>2. Spared({l.role})
      BY <2>1, <2>2 DEF Spared, IInv, RowsOK
    <3> QED
      BY <3>1, <3>2
  <2> QED
    BY <2>3, <2>4
<1>3. CASE ClearPermissions(q)
  <2>1. \A p \in Requests \ {q} : Rests(p, {req[q].role})
    BY <1>3 DEF ClearPermissions, Rests, Disturbed, IInv, SlotsOK
  <2>2. Spared({req[q].role})
    BY <1>3 DEF ClearPermissions, Spared, IInv, RowsOK
  <2> QED
    BY <2>1, <2>2
<1>4. CASE FillPermissions(q)
  <2>1. UNCHANGED users /\ \/ /\ granted' = [granted EXCEPT ![req[q].role] = @ \cup req[q].wish]
                              /\ Finish(q, {req[q].role})
                           \/ granted' = granted /\ Finish(q, {})
    BY <1>4 DEF FillPermissions
  <2>2. CASE granted' = granted /\ Finish(q, {})
    BY <2>1, <2>2, QuietRests
  <2>3. CASE /\ granted' = [granted EXCEPT ![req[q].role] = @ \cup req[q].wish]
             /\ Finish(q, {req[q].role})
    <3>1. Spared({req[q].role})
      BY <2>1, <2>3 DEF Spared, IInv, RowsOK
    <3>2. \A p \in Requests \ {q} : Rests(p, {req[q].role})
      BY <2>3, FinishStep DEF Rests, IInv
    <3> QED
      BY <3>1, <3>2
  <2> QED
    BY <2>1, <2>2, <2>3
<1>5. CASE CreateUserInsert(q)
  <2>1. Finish(q, {}) /\ UNCHANGED granted
        /\ (UNCHANGED users \/ \E n \in Free : \E row : users' = [users EXCEPT ![n] = row])
    BY <1>5, ComingIn DEF CreateUserInsert
  <2>2. \A n \in Free : ~Exists(n)
    BY DEF Free, Exists
  <2>3. Spared({})
    BY <2>1, <2>2 DEF Spared, IInv, RowsOK
  <2>4. \A p \in Requests \ {q} : Rests(p, {})
    BY <2>1, FinishStep DEF Rests, IInv
  <2> QED
    BY <2>3, <2>4
<1>6. CASE UpdateUserWrite(q)
  <2>1. UNCHANGED granted
        /\ \/ /\ users' = [users EXCEPT ![req[q].target] = Patched(users[req[q].target], req[q])]
              /\ Finish(q, {req[q].target})
           \/ UNCHANGED users /\ Finish(q, {})
    BY <1>6 DEF UpdateUserWrite
  <2>2. CASE UNCHANGED users /\ Finish(q, {})
    BY <2>1, <2>2, QuietRests
  <2>3. CASE /\ users' = [users EXCEPT ![req[q].target] = Patched(users[req[q].target], req[q])]
             /\ Finish(q, {req[q].target})
    <3>1. Spared({req[q].target})
      BY <2>1, <2>3 DEF Spared, IInv, RowsOK
    <3>2. \A p \in Requests \ {q} : Rests(p, {req[q].target})
      BY <2>3, FinishStep DEF Rests, IInv
    <3> QED
      BY <3>1, <3>2
  <2> QED
    BY <2>1, <2>2, <2>3
<1>7. CASE DeleteUsers(q)
  <2>1. PICK hit \in SUBSET Users :
          /\ users' = [t \in Users |-> IF t \in hit THEN [NoUser EXCEPT !.standing = "gone"]
                                       ELSE users[t]]
          /\ req' = Disturbed(hit) /\ UNCHANGED <<granted, pc>>
    BY <1>7 DEF DeleteUsers
  <2>2. Spared(hit)
    BY <2>1 DEF Spared
  <2>3. \A p \in Requests \ {q} : Rests(p, hit)
    BY <2>1 DEF Rests, Disturbed
  <2> QED
    BY <2>2, <2>3
<1> QED
  BY <1>1, <1>2, <1>3, <1>4, <1>5, <1>6, <1>7 DEF Moves, Arrives, Proceeds

\* A step, as the requests see it: at most one of them takes it.
LEMMA OthersRest ==
  ASSUME IInv, [Next]_vars
  PROVE  \E hit : /\ Spared(hit)
                 /\ \/ \A p \in Requests : Rests(p, hit)
                    \/ \E q \in Requests : Moves(q) /\ \A p \in Requests \ {q} : Rests(p, hit)
<1>1. CASE UNCHANGED <<users, granted, pc, req>>
  <2>1. Spared({}) /\ \A p \in Requests : Rests(p, {})
    BY <1>1, NothingHit DEF Spared
  <2> QED
    BY <2>1
<1>2. CASE \E s \in Seeders : StartScript(s) \/ Advances(s) \/ Fails(s) \/ Crash(s)
  BY <1>2, SeederRests
<1>3. CASE \E q \in Requests : Moves(q)
  BY <1>3, MoverRests
<1> QED
  BY <1>1, <1>2, <1>3 DEF Next, Moves, Login, vars, tables

---------------------------------------------------------------------------
\* Replacements of permissions

\* Between the two statements of a replacement nobody else disturbed, the role
\* has no permissions.
Emptied(q) == pc[q] = "fill" /\ req[q].alone => granted[req[q].role] = {}

LEMMA EmptiedKept ==
  ASSUME IInv, [Next]_vars, \A q \in Requests : Emptied(q)
  PROVE  \A q \in Requests : Emptied(q)'
<1> SUFFICES ASSUME NEW p \in Requests, pc'[p] = "fill", req'[p].alone
             PROVE  granted'[req'[p].role] = {}
  BY DEF Emptied
<1>1. PICK hit : /\ Spared(hit)
                 /\ \/ \A x \in Requests : Rests(x, hit)
                    \/ \E q \in Requests : Moves(q) /\ \A x \in Requests \ {q} : Rests(x, hit)
  BY OthersRest
<1>2. CASE Rests(p, hit)
  <2>1. pc[p] = "fill" /\ req[p] \in Request /\ req'[p] = Shaken(req[p], Relies(p, hit))
    BY <1>2 DEF Rests, IInv, SlotsOK
  <2>2. req'[p] = req[p] /\ ~Relies(p, hit)
    BY <2>1, ShakenType
  <2>3. req[p].kind = "setPermissions" /\ req[p].role \in RoleIds
    BY <2>1 DEF IInv, SlotsOK, Shape
  <2>4. req[p].role \notin hit
    BY <2>1, <2>2, <2>3 DEF Relies
  <2> QED
    BY <1>1, <2>1, <2>2, <2>3, <2>4 DEF Spared, Emptied
<1>3. CASE Moves(p)
  <2>1. ClearPermissions(p)
    <3>1. pc \in [Requests -> Calls]
      BY DEF IInv, SlotsOK
    <3> QED
      BY <1>3, <3>1
         DEF Moves, Arrives, Proceeds, Abort, DeleteUsers, CreateOrgBegin, SetPermissionsBegin,
             CreateUserBegin, UpdateUserBegin, CreateOrgRole, CreateOrgRolesDone, CreateOrgGrant,
             CreateOrgEnd, CheckHierarchy, FillPermissions, ReadLevel, CreateUserCheck,
             CreateUserInsert, UpdateUserCheck, UpdateUserWrite, Start, Keep, Goto, Finish
  <2>2. req[p].role \in RoleIds
    BY <2>1 DEF ClearPermissions, IInv, SlotsOK, Shape
  <2>3. req'[p] = req[p]
    BY <2>1 DEF ClearPermissions, Disturbed
  <2> QED
    BY <2>1, <2>2, <2>3 DEF ClearPermissions, IInv, RowsOK
<1> QED
  BY <1>1, <1>2, <1>3

\* A replacement of a role's permissions that is answered leaves the ones it was
\* asked for, as long as no other process wrote them since it cleared them.
THEOREM ReplacementsExact == Spec => ReplacedAlone
<1> DEFINE Inv == IInv /\ AccountsOK /\ \A q \in Requests : Emptied(q)
           Act == \A q \in Requests :
                    Filled(q) /\ req[q].alone => granted'[req[q].role] = req[q].wish
<1>1. Init => Inv
  BY InitTyped DEF Init, Emptied
<1>2. Inv /\ [Next]_vars => Inv'
  BY NextTyped, EmptiedKept
<1>3. Inv /\ [Next]_vars => [Act]_vars
  <2> SUFFICES ASSUME Inv, NEW q \in Requests, Filled(q), req[q].alone
               PROVE  granted'[req[q].role] = req[q].wish
    OBVIOUS
  <2>1. req[q].role \in RoleIds /\ granted[req[q].role] = {}
    BY DEF Filled, Emptied, IInv, SlotsOK, Shape
  <2>2. granted' = [granted EXCEPT ![req[q].role] = @ \cup req[q].wish]
    BY DEF Filled, FillPermissions
  <2> QED
    BY <2>1, <2>2 DEF IInv, RowsOK
<1> QED
  BY <1>1, <1>2, <1>3, PTL DEF Spec, ReplacedAlone

---------------------------------------------------------------------------
\* The hierarchy of roles

\* What a request about an account has established by the call it makes next,
\* as long as nobody changed its requester or its target.
Established(q) ==
    pc[q] # "idle" /\ req[q].kind \in {"createUser", "updateUser"} /\ req[q].alone =>
      /\ Exists(req[q].by)
      /\ pc[q] # "level" => req[q].level = Rank(users[req[q].by].role)
      /\ pc[q] = "insert" => Rank(req[q].role) > req[q].level
      /\ pc[q] = "write" /\ req[q].role # NoRole =>
           /\ Rank(users[req[q].target].role) > req[q].level
           /\ Rank(req[q].role) > req[q].level
      /\ pc[q] = "write" => Exists(req[q].target)

LEMMA EstablishedRests ==
  ASSUME IInv, NEW p \in Requests, NEW hit, Spared(hit), Rests(p, hit), Established(p)
  PROVE  Established(p)'
<1> SUFFICES ASSUME pc'[p] # "idle", req'[p].kind \in {"createUser", "updateUser"}, req'[p].alone
             PROVE  Established(p)'
  BY DEF Established
<1>1. req[p] \in Request /\ req'[p] = Shaken(req[p], Relies(p, hit)) /\ pc'[p] = pc[p]
  BY DEF Rests, IInv, SlotsOK
<1>2. req'[p] = req[p] /\ ~Relies(p, hit)
  BY <1>1, ShakenType
<1>3. {req[p].by, req[p].target} \cap hit = {}
  BY <1>2 DEF Relies
<1>4. req[p].by \in Users /\ (pc[p] = "write" => req[p].target \in Users)
  BY <1>1, <1>2 DEF IInv, SlotsOK, Shape
<1>5. Exists(req[p].by) => users'[req[p].by] = users[req[p].by]
  BY <1>3, <1>4 DEF Spared
<1>6. pc[p] = "write" /\ Exists(req[p].target) => users'[req[p].target] = users[req[p].target]
  BY <1>3, <1>4 DEF Spared
<1> QED
  BY <1>1, <1>2, <1>4, <1>5, <1>6 DEF Established, Exists

\* The level a request read is one of a role's: the check is made.
LEMMA Checked ==
  ASSUME IInv, AccountsOK, NEW q \in Requests, Established(q), req[q].alone,
         pc[q] \in {"unique", "target"}
  PROVE  /\ req[q].level \in 0..5 /\ req[q].level # NoLevel
         /\ \A r : Below(r, req[q].level) => Rank(r) > req[q].level
<1>1. req[q].by \in Users /\ req[q].kind \in {"createUser", "updateUser"}
  BY DEF IInv, SlotsOK, Shape
<1>2. Exists(req[q].by) /\ req[q].level = Rank(users[req[q].by].role)
  BY <1>1 DEF Established
<1>3. users[req[q].by].role \in RoleIds
  BY <1>1, <1>2 DEF AccountsOK
<1> QED
  BY <1>2, <1>3, RankType DEF Below, NoLevel

LEMMA EstablishedMoves ==
  ASSUME IInv, AccountsOK, NEW q \in Requests, Moves(q), Established(q)
  PROVE  Established(q)'
<1> SUFFICES ASSUME pc'[q] # "idle", req'[q].kind \in {"createUser", "updateUser"}, req'[q].alone
             PROVE  Established(q)'
  BY DEF Established
<1>0. pc \in [Requests -> Calls] /\ req \in [Requests -> Request] /\ Shape(pc[q], req[q])
  BY DEF IInv, SlotsOK
<1>1. CASE CreateUserBegin(q)
  <2>1. PICK u \in Users, n \in NewUsers :
          /\ Authorised(u, "users", "create")
          /\ Start(q, [NoRequest EXCEPT !.kind = "createUser", !.by = u, !.email = n.email,
                                        !.role = n.role, !.org = users[u].org], "level")
    BY <1>1 DEF CreateUserBegin
  <2>2. pc'[q] = "level" /\ req'[q].by = u /\ users' = users
    BY <1>0, <1>1, <2>1 DEF CreateUserBegin, Start, Keep, NoRequest, tables
  <2>3. Exists(u)
    BY <2>1 DEF Authorised, Exists
  <2> QED
    BY <2>2, <2>3 DEF Established, Exists
<1>2. CASE UpdateUserBegin(q)
  <2>1. PICK u \in Users, t \in Users, p \in Patches :
          /\ Authorised(u, "users", "update")
          /\ Start(q, [NoRequest EXCEPT !.kind = "updateUser", !.by = u, !.target = t,
                                        !.role = p.role, !.standing = p.standing,
                                        !.email = p.email, !.org = users[u].org], "level")
    BY <1>2 DEF UpdateUserBegin
  <2>2. pc'[q] = "level" /\ req'[q].by = u /\ users' = users
    BY <1>0, <1>2, <2>1 DEF UpdateUserBegin, Start, Keep, NoRequest, tables
  <2>3. Exists(u)
    BY <2>1 DEF Authorised, Exists
  <2> QED
    BY <2>2, <2>3 DEF Established, Exists
<1>3. CASE ReadLevel(q)
  <2>1. PICK level \in 0..NoLevel, call \in {"unique", "target"} :
           LET r == [req[q] EXCEPT !.level = level]
           IN  /\ level = IF Exists(req[q].by) THEN Rank(users[req[q].by].role) ELSE NoLevel
               /\ r.level = level /\ r.by = req[q].by /\ r.kind = req[q].kind
               /\ r.alone = req[q].alone /\ Keep(q, call, r)
    BY <1>3, LevelRead
  <2>2. PICK r : /\ r.level = level /\ r.by = req[q].by /\ r.kind = req[q].kind
                 /\ r.alone = req[q].alone /\ Keep(q, call, r)
    BY <2>1
  <2>3. pc'[q] = call /\ req'[q] = r
    BY <1>0, <2>2 DEF Keep
  <2>4. pc[q] = "level" /\ users' = users
    BY <1>3 DEF ReadLevel, tables
  <2>5. Exists(req[q].by)
    BY <2>2, <2>3, <2>4 DEF Established
  <2> QED
    BY <2>1, <2>2, <2>3, <2>4, <2>5 DEF Established, Exists
<1>4. CASE CreateUserCheck(q)
  <2>1. Goto(q, "insert") /\ Below(req[q].role, req[q].level) /\ users' = users /\ pc[q] = "unique"
    <3>1. Finish(q, {}) => pc'[q] = "idle"
      BY <1>0 DEF Finish
    <3> QED
      BY <1>4, <3>1 DEF CreateUserCheck, tables
  <2>2. pc'[q] = "insert" /\ req' = req
    BY <1>0, <2>1 DEF Goto
  <2>3. req[q].alone /\ req[q].kind = "createUser"
    BY <1>0, <2>1, <2>2 DEF Shape
  <2>4. Rank(req[q].role) > req[q].level
    BY <2>1, <2>3, Checked
  <2> QED
    BY <2>1, <2>2, <2>3, <2>4 DEF Established, Exists
<1>5. CASE UpdateUserCheck(q)
  <2>1. Goto(q, "write") /\ MayUpdate(q) /\ users' = users /\ pc[q] = "target"
    <3>1. Finish(q, {}) => pc'[q] = "idle"
      BY <1>0 DEF Finish
    <3> QED
      BY <1>5, <3>1 DEF UpdateUserCheck, tables
  <2>2. pc'[q] = "write" /\ req' = req
    BY <1>0, <2>1 DEF Goto
  <2>3. req[q].alone /\ req[q].kind = "updateUser"
    BY <1>0, <2>1, <2>2 DEF Shape
  <2>4. /\ Exists(req[q].target)
        /\ req[q].role # NoRole => /\ Below(users[req[q].target].role, req[q].level)
                                  /\ Below(req[q].role, req[q].level)
    BY <2>1 DEF MayUpdate
  <2>5. req[q].role # NoRole => /\ Rank(users[req[q].target].role) > req[q].level
                               /\ Rank(req[q].role) > req[q].level
    BY <2>1, <2>3, <2>4, Checked
  <2> QED
    BY <2>1, <2>2, <2>3, <2>4, <2>5 DEF Established, Exists
<1>6. CASE SetPermissionsBegin(q)
  <2>1. PICK u, r, w, v :
          Start(q, [NoRequest EXCEPT !.kind = "setPermissions", !.by = u, !.role = r,
                                     !.wish = w, !.valid = v], "check")
    BY <1>6 DEF SetPermissionsBegin
  <2>2. req'[q].kind = "setPermissions"
    BY <1>0, <2>1 DEF Start, Keep, NoRequest
  <2> QED
    BY <2>2
<1>10. CASE CreateOrgBegin(q)
  <2>1. PICK u, o, todo :
          Start(q, [NoRequest EXCEPT !.kind = "createOrg", !.by = u, !.org = o, !.todo = todo],
                "orgRoles")
    BY <1>10 DEF CreateOrgBegin
  <2>2. req'[q].kind = "createOrg"
    BY <1>0, <2>1 DEF Start, Keep, NoRequest
  <2> QED
    BY <2>2
<1>7. CASE CreateOrgRole(q) \/ CreateOrgRolesDone(q) \/ CreateOrgGrant(q) \/ CreateOrgEnd(q)
           \/ CheckHierarchy(q) \/ ClearPermissions(q) \/ FillPermissions(q)
  <2>1. req[q] \in Request /\ req[q].kind \in {"createOrg", "setPermissions"}
    BY <1>0, <1>7 DEF Shape, CreateOrgRole, CreateOrgRolesDone, CreateOrgGrant, CreateOrgEnd,
           CheckHierarchy, ClearPermissions, FillPermissions
  <2>2. \/ \E todo : req'[q] = [req[q] EXCEPT !.todo = todo]
        \/ req'[q] = req[q]
        \/ pc'[q] = "idle"
    BY <1>0, <1>7
       DEF CreateOrgRole, CreateOrgRolesDone, CreateOrgGrant, CreateOrgEnd, CheckHierarchy,
           ClearPermissions, FillPermissions, Keep, Goto, Finish, Disturbed
  <2>3. ~(\E todo : req'[q] = [req[q] EXCEPT !.todo = todo])
    BY <2>1 DEF Request
  <2> QED
    BY <2>1, <2>2, <2>3
<1>8. CASE CreateUserInsert(q) \/ UpdateUserWrite(q) \/ Abort(q)
  BY <1>0, <1>8 DEF CreateUserInsert, UpdateUserWrite, Abort, Finish
<1>9. CASE DeleteUsers(q)
  BY <1>9 DEF DeleteUsers
<1> QED
  BY <1>1, <1>2, <1>3, <1>4, <1>5, <1>6, <1>7, <1>8, <1>9, <1>10 DEF Moves, Arrives, Proceeds

LEMMA EstablishedKept ==
  ASSUME IInv, AccountsOK, [Next]_vars, \A q \in Requests : Established(q)
  PROVE  \A q \in Requests : Established(q)'
<1> SUFFICES ASSUME NEW p \in Requests PROVE Established(p)'
  OBVIOUS
<1>1. PICK hit : /\ Spared(hit)
                 /\ \/ \A x \in Requests : Rests(x, hit)
                    \/ \E q \in Requests : Moves(q) /\ \A x \in Requests \ {q} : Rests(x, hit)
  BY OthersRest
<1>2. Rests(p, hit) \/ Moves(p)
  BY <1>1
<1> QED
  BY <1>1, <1>2, EstablishedRests, EstablishedMoves

\* Only its own last call ends a request that is about to write.
LEMMA LastCall ==
  ASSUME IInv, [Next]_vars, NEW q \in Requests, pc[q] \in {"insert", "write"}, pc'[q] = "idle"
  PROVE  \/ pc[q] = "insert" /\ CreateUserInsert(q)
         \/ pc[q] = "write" /\ UpdateUserWrite(q)
         \/ users' = users
<1>1. PICK hit : /\ Spared(hit)
                 /\ \/ \A x \in Requests : Rests(x, hit)
                    \/ \E y \in Requests : Moves(y) /\ \A x \in Requests \ {y} : Rests(x, hit)
  BY OthersRest
<1>2. Moves(q)
  BY <1>1 DEF Rests
<1> QED
  BY <1>2
     DEF Moves, Arrives, Proceeds, Abort, DeleteUsers, CreateOrgBegin, SetPermissionsBegin,
         CreateUserBegin, UpdateUserBegin, CreateOrgRole, CreateOrgRolesDone, CreateOrgGrant,
         CreateOrgEnd, CheckHierarchy, ClearPermissions, FillPermissions, ReadLevel,
         CreateUserCheck, CreateUserInsert, UpdateUserCheck, UpdateUserWrite, Start, tables

LEMMA RanksHold ==
  ASSUME IInv, AccountsOK, [Next]_vars, NEW q \in Requests, Established(q),
         pc[q] \in {"insert", "write"}, req[q].alone, pc'[q] = "idle"
  PROVE  Outranks(q)
<1> DEFINE rank == Rank(users[req[q].by].role)
<1> SUFFICES ASSUME NEW u \in Users, users'[u].role # users[u].role, Exists(u)'
             PROVE  /\ Rank(users'[u].role) > rank
                    /\ Exists(u) => Rank(users[u].role) > rank
  BY DEF Outranks
<1>1. /\ req[q] \in Request /\ req[q].kind \in {"createUser", "updateUser"}
      /\ (pc[q] = "write" => req[q].target \in Users) /\ users \in [Users -> User]
  BY DEF IInv, SlotsOK, Shape, RowsOK
<1>2. req[q].level = rank
  BY <1>1 DEF Established
<1>3. CASE pc[q] = "insert" /\ CreateUserInsert(q)
  <2>1. PICK n \in Free : users' = [users EXCEPT ![n] = Account(req[q].email, req[q].org, req[q].role)]
    BY <1>3, ComingIn DEF CreateUserInsert
  <2>2. u = n /\ users'[u].role = req[q].role /\ ~Exists(u)
    BY <1>1, <2>1 DEF Free, Exists, Account
  <2>3. Rank(req[q].role) > rank
    BY <1>1, <1>2, <1>3 DEF Established
  <2> QED
    BY <2>2, <2>3
<1>4. CASE pc[q] = "write" /\ UpdateUserWrite(q)
  <2>1. users' = [users EXCEPT ![req[q].target] = Patched(users[req[q].target], req[q])]
    BY <1>4 DEF UpdateUserWrite
  <2>2. u = req[q].target /\ users'[u] = Patched(users[u], req[q]) /\ users[u] \in User
    BY <1>1, <1>4, <2>1
  <2>3. users'[u].role = req[q].role /\ req[q].role # NoRole
    BY <1>1, <2>2, PatchedType
  <2>4. Rank(users[u].role) > rank /\ Rank(req[q].role) > rank
    BY <1>1, <1>2, <1>4, <2>2, <2>3 DEF Established
  <2> QED
    BY <2>3, <2>4
<1>5. CASE users' = users
  BY <1>5
<1> QED
  BY <1>3, <1>4, <1>5, LastCall

\* A request gives somebody a role only below its requester's own, to somebody
\* who was below the requester, as long as neither account changes meanwhile.
THEOREM RanksRespected == Spec => RanksRespectedAlone
<1> DEFINE Inv == IInv /\ AccountsOK /\ \A q \in Requests : Established(q)
           Act == \A q \in Requests :
                    pc[q] \in {"insert", "write"} /\ req[q].alone /\ pc'[q] = "idle" => Outranks(q)
<1>1. Init => Inv
  BY InitTyped DEF Init, Established
<1>2. Inv /\ [Next]_vars => Inv'
  BY NextTyped, EstablishedKept
<1>3. Inv /\ [Next]_vars => [Act]_vars
  BY RanksHold
<1> QED
  BY <1>1, <1>2, <1>3, PTL DEF Spec, RanksRespectedAlone

---------------------------------------------------------------------------
\* Templates

\* A seeder that did not find the template of code c and will create it.
Missing(j, c) ==
    StageOf(j) = "templates" /\ j.role = NoRole /\ \E k \in j.now : k.code = c

Lookers(c) == { s \in Seeders : Missing(job[s], c) }

\* Every copy of a template, made or about to be made, is some seeder's.
Allotted ==
    \A c \in Codes : Cardinality(Named(Global, c)) + Cardinality(Lookers(c)) <= Cardinality(Seeders)

LEMMA LookersFinite ==
  ASSUME NEW S \in SUBSET Seeders
  PROVE  /\ IsFiniteSet(S) /\ Cardinality(S) \in Nat
         /\ Cardinality(S) <= Cardinality(Seeders) /\ Cardinality(Seeders) \in Nat
  BY SeederAssumption, FS_Subset, FS_CardinalityType

\* Nothing of it changes, or less is looked for.
LEMMA AllottedLess ==
  ASSUME IInv, NEW c \in Codes,
         Cardinality(Named(Global, c)) + Cardinality(Lookers(c)) <= Cardinality(Seeders),
         Named(Global, c)' = Named(Global, c), Lookers(c)' \subseteq Lookers(c)
  PROVE  (Cardinality(Named(Global, c)) + Cardinality(Lookers(c)) <= Cardinality(Seeders))'
<1>1. /\ IsFiniteSet(Lookers(c)) /\ Lookers(c) \in SUBSET Seeders
      /\ Cardinality(Lookers(c)) \in Nat /\ Cardinality(Seeders) \in Nat
  BY LookersFinite DEF Lookers
<1>2. Cardinality(Lookers(c)') <= Cardinality(Lookers(c)) /\ Cardinality(Lookers(c)') \in Nat
  BY <1>1, FS_Subset, FS_CardinalityType
<1>3. Cardinality(Named(Global, c)) \in Nat
  BY NamedFinite DEF IInv
<1> QED
  BY <1>1, <1>2, <1>3

\* Only the creation of a template changes the templates.
LEMMA TemplatesSame ==
  ASSUME IInv, Next
  PROVE  \/ \A c \in Codes : Named(Global, c)' = Named(Global, c)
         \/ \E s \in Seeders : PutRole(s)
<1>1. \/ UNCHANGED roles
      \/ \E s \in Seeders : PutRole(s)
      \/ \E s \in Seeders : UpsertAdminRole(s)
      \/ \E q \in Requests : CreateOrgRole(q)
  BY DEF Next, StartScript, Advances, Fails, Crash, Login, Arrives, Proceeds, Abort, tables,
         NextStage, ScriptEnds, LookForOrg, PutOrg, UpsertPermission, Upsert, LookForRole, LookForGrant, Grant,
         LookForUser, PutUser, CreateOrgBegin, SetPermissionsBegin, CreateUserBegin,
         UpdateUserBegin, DeleteUsers, CreateOrgRolesDone, CreateOrgGrant, CreateOrgEnd,
         CheckHierarchy, ClearPermissions, FillPermissions, ReadLevel, CreateUserCheck,
         CreateUserInsert, UpdateUserCheck, UpdateUserWrite
<1>2. ASSUME NEW o \in Orgs, NEW c \in Codes, roles' = roles \cup {OrgRole(o, c)}
      PROVE  \A d \in Codes : Named(Global, d)' = Named(Global, d)
  <2>1. OrgRole(o, c).org # Global
    BY OrgRoleType, OrgAssumption
  <2> QED
    BY <1>2, <2>1 DEF Named
<1>3. ASSUME NEW s \in Seeders, UpsertAdminRole(s)
      PROVE  \A d \in Codes : Named(Global, d)' = Named(Global, d)
  <2>1. PICK k \in job[s].todo : roles' = roles \cup {OrgRole(k.org, k.code)}
    BY <1>3, ComingIn DEF UpsertAdminRole
  <2>2. k \in [org : Orgs, code : Codes]
    BY <1>3, Parts, JobsOK, StageIs DEF UpsertAdminRole, JobOK, TasksOf
  <2> QED
    BY <1>2, <2>1, <2>2
<1>4. ASSUME NEW q \in Requests, CreateOrgRole(q)
      PROVE  \A d \in Codes : Named(Global, d)' = Named(Global, d)
  <2>1. PICK k \in req[q].todo : roles' = roles \cup {OrgRole(k.org, k.code)}
    BY <1>4, ComingIn DEF CreateOrgRole
  <2>2. k \in [org : Orgs, code : Codes]
    BY <1>4 DEF CreateOrgRole, IInv, SlotsOK, Shape
  <2> QED
    BY <1>2, <2>1, <2>2
<1>5. UNCHANGED roles => \A c \in Codes : Named(Global, c)' = Named(Global, c)
  BY DEF Named
<1> QED
  BY <1>1, <1>3, <1>4, <1>5

\* A seeder that goes on without looking for a template looks for none.
LEMMA FewerLookers ==
  ASSUME IInv, NEW s \in Seeders, NEW j, Continue(s, j), JobOK(j), NEW c,
         Missing(j, c) => Missing(job[s], c)
  PROVE  Lookers(c)' \subseteq Lookers(c)
<1>1. job'[s] = j /\ \A p \in Seeders \ {s} : job'[p] = job[p]
  BY SeederStep DEF IInv
<1>2. \A p \in Seeders : Missing(job'[p], c) => Missing(job[p], c)
  BY <1>1
<1>3. \A p \in Seeders : Missing(job[p], c)' = Missing(job'[p], c)
  BY DEF Missing, StageOf, StageAt
<1> QED
  BY <1>2, <1>3 DEF Lookers

LEMMA AllottedPut ==
  ASSUME IInv, Allotted, NEW s \in Seeders, PutRole(s)
  PROVE  Allotted'
<1>0. TypeOK
  BY Parts
<1> SUFFICES ASSUME NEW c \in Codes
             PROVE  (Cardinality(Named(Global, c)) + Cardinality(Lookers(c)) <= Cardinality(Seeders))'
  BY DEF Allotted
<1>1. PICK k \in job[s].now, j \in {Settled(s), Thrown(s)} :
        /\ Continue(s, j)
        /\ \/ UNCHANGED roles
           \/ /\ job[s].role = NoRole /\ k.org = Global
              /\ \E t : roles' = roles \cup {t}
                       /\ t = Template(k.code, Cardinality(Named(Global, k.code)) + 1)
           \/ k.org # Global /\ roles' = roles \cup {OrgRole(k.org, k.code)}
  BY DEF PutRole
<1>2. JobOK(j) /\ j.now = {}
  BY <1>0, <1>1, SettledOK, ThrownOK
<1>3. ~Missing(j, c)
  BY <1>2 DEF Missing
<1>4. Lookers(c)' \subseteq Lookers(c)
  BY <1>1, <1>2, <1>3, FewerLookers
<1>5. \/ k \in [org : {Global}, code : Codes] /\ Stage(s) = "templates"
      \/ k \in [org : Orgs, code : Codes] /\ Stage(s) = "orgRoles"
  BY <1>0, JobsOK, StageIs DEF PutRole, JobOK, TasksOf
<1>6. CASE Named(Global, c)' = Named(Global, c)
  BY <1>4, <1>6, AllottedLess DEF Allotted
<1>7. CASE Named(Global, c)' # Named(Global, c)
  <2>1. PICK t : /\ job[s].role = NoRole /\ k.org = Global /\ roles' = roles \cup {t}
                 /\ t = Template(k.code, Cardinality(Named(Global, k.code)) + 1)
    <3>1. k.org # Global => OrgRole(k.org, k.code).org # Global
      BY <1>5, OrgRoleType, OrgAssumption
    <3> QED
      BY <1>1, <1>7, <3>1 DEF Named
  <2>2. k.code = c
    BY <1>7, <2>1 DEF Named, Template
  <2>3. Missing(job[s], c)
    BY <1>5, <2>1, <2>2, OrgAssumption, StageIs DEF Missing
  <2>4. Lookers(c)' \subseteq Lookers(c) \ {s} /\ s \in Lookers(c)
    <3>1. job'[s] = j
      BY <1>1, <1>2, SeederStep DEF IInv
    <3>2. ~Missing(job[s], c)'
      BY <1>3, <3>1 DEF Missing, StageOf, StageAt
    <3> QED
      BY <1>4, <2>3, <3>2 DEF Lookers
  <2>5. /\ IsFiniteSet(Lookers(c)) /\ Cardinality(Lookers(c)) \in Nat
        /\ Cardinality(Seeders) \in Nat
    BY LookersFinite DEF Lookers
  <2>6. /\ Cardinality(Lookers(c)') <= Cardinality(Lookers(c)) - 1
        /\ Cardinality(Lookers(c)') \in Nat
    <3>1. IsFiniteSet(Lookers(c) \ {s}) /\ Cardinality(Lookers(c) \ {s}) = Cardinality(Lookers(c)) - 1
      BY <2>4, <2>5, FS_RemoveElement
    <3> QED
      BY <2>4, <3>1, FS_Subset, FS_CardinalityType
  <2>7. /\ Named(Global, c)' \subseteq Named(Global, c) \cup {t}
        /\ IsFiniteSet(Named(Global, c)) /\ Cardinality(Named(Global, c)) \in Nat
    BY <2>1, NamedFinite DEF Named, IInv
  <2>8. /\ Cardinality(Named(Global, c)') <= Cardinality(Named(Global, c)) + 1
        /\ Cardinality(Named(Global, c)') \in Nat
    <3>1. /\ IsFiniteSet(Named(Global, c) \cup {t})
          /\ Cardinality(Named(Global, c) \cup {t}) <= Cardinality(Named(Global, c)) + 1
      BY <2>7, FS_AddElement
    <3>2. Cardinality(Named(Global, c) \cup {t}) \in Nat
      BY <3>1, FS_CardinalityType
    <3> QED
      BY <2>7, <3>1, <3>2, FS_Subset, FS_CardinalityType
  <2> QED
    BY <2>5, <2>6, <2>7, <2>8 DEF Allotted
<1> QED
  BY <1>6, <1>7

LEMMA AllottedLook ==
  ASSUME IInv, Allotted, NEW s \in Seeders, LookForRole(s)
  PROVE  Allotted'
<1>0. TypeOK
  BY Parts
<1> SUFFICES ASSUME NEW c \in Codes
             PROVE  (Cardinality(Named(Global, c)) + Cardinality(Lookers(c)) <= Cardinality(Seeders))'
  BY DEF Allotted
<1>1. Named(Global, c)' = Named(Global, c)
  BY DEF LookForRole, tables, Named
<1>2. CASE Named(Global, c) = {}
  <2>1. Cardinality(Named(Global, c)') = 0
    BY <1>1, <1>2, FS_EmptySet
  <2>2. Lookers(c)' \in SUBSET Seeders
    BY DEF Lookers
  <2>3. Cardinality(Lookers(c)') <= Cardinality(Seeders) /\ Cardinality(Lookers(c)') \in Nat
    BY <2>2, LookersFinite
  <2> QED
    BY <2>1, <2>3
<1>3. CASE Named(Global, c) # {}
  <2>1. PICK k \in job[s].todo : \E j :
           /\ IF Named(k.org, k.code) = {} THEN j.role = NoRole ELSE j.role \in Named(k.org, k.code)
           /\ Continue(s, j) /\ JobOK(j) /\ StageOf(j) = Stage(s) /\ j.now = {k}
    BY <1>0, RoleLooked
  <2> PICK j :
        /\ IF Named(k.org, k.code) = {} THEN j.role = NoRole ELSE j.role \in Named(k.org, k.code)
        /\ Continue(s, j) /\ JobOK(j) /\ StageOf(j) = Stage(s) /\ j.now = {k}
    BY <2>1
  <2>2. Stage(s) = "templates" => k \in [org : {Global}, code : Codes]
    BY <1>0, JobsOK, StageIs DEF JobOK, TasksOf
  <2>3. ~Missing(j, c)
    <3> SUFFICES ASSUME Missing(j, c) PROVE FALSE
      OBVIOUS
    <3>1. k.code = c /\ k.org = Global /\ j.role = NoRole
      BY <2>1, <2>2 DEF Missing
    <3>2. NoRole \in Named(Global, c)
      BY <1>3, <2>1, <3>1
    <3> QED
      BY <1>0, <3>2, NamedType, NoRoleIsNone
  <2>4. Lookers(c)' \subseteq Lookers(c)
    BY <2>1, <2>3, FewerLookers
  <2> QED
    BY <1>1, <2>4, AllottedLess DEF Allotted
<1> QED
  BY <1>2, <1>3

LEMMA AllottedKept ==
  ASSUME IInv, Allotted, [Next]_vars
  PROVE  Allotted'
<1>1. CASE /\ \A c \in Codes : Named(Global, c)' = Named(Global, c)
           /\ \A c \in Codes : Lookers(c)' \subseteq Lookers(c)
  BY <1>1, AllottedLess DEF Allotted
<1>2. CASE \E s \in Seeders : PutRole(s) \/ LookForRole(s)
  BY <1>2, AllottedPut, AllottedLook
<1>3. CASE Next /\ UNCHANGED job /\ ~(\E s \in Seeders : PutRole(s))
  <2>1. \A c \in Codes : Lookers(c)' \subseteq Lookers(c)
    BY <1>3 DEF Lookers, Missing, StageOf, StageAt
  <2> QED
    BY <1>1, <1>3, <2>1, TemplatesSame
<1>4. ASSUME NEW s \in Seeders, StartScript(s) \/ Advances(s) \/ Fails(s) \/ Crash(s), Next,
             ~(\E x \in Seeders : PutRole(x) \/ LookForRole(x))
      PROVE  Allotted'
  <2>1. PICK j : Continue(s, j) /\ JobOK(j) /\ LookedUp(s, j)
    BY <1>4, JobStep
  <2>2. \A c \in Codes : Missing(j, c) => Missing(job[s], c)
    <3>1. \A c \in Codes : Missing(j, c) => j.now # {} /\ StageOf(j) = "templates"
      BY DEF Missing
    <3> QED
      BY <2>1, <3>1, StageIs DEF LookedUp, Missing
  <2>3. \A c \in Codes : Lookers(c)' \subseteq Lookers(c)
    BY <2>1, <2>2, FewerLookers
  <2> QED
    BY <1>1, <1>4, <2>3, TemplatesSame
<1>5. CASE UNCHANGED vars
  <2>1. \A c \in Codes : Named(Global, c)' = Named(Global, c) /\ Lookers(c)' \subseteq Lookers(c)
    BY <1>5 DEF vars, Named, Lookers, Missing, StageOf, StageAt
  <2> QED
    BY <1>1, <2>1
<1>6. Next => \/ UNCHANGED job
              \/ \E s \in Seeders : StartScript(s) \/ Advances(s) \/ Fails(s) \/ Crash(s)
  BY DEF Next, Login, Arrives, Proceeds, Abort, DeleteUsers, CreateOrgBegin, SetPermissionsBegin,
         CreateUserBegin, UpdateUserBegin, CreateOrgRole, CreateOrgRolesDone, CreateOrgGrant,
         CreateOrgEnd, CheckHierarchy, ClearPermissions, FillPermissions, ReadLevel,
         CreateUserCheck, CreateUserInsert, UpdateUserCheck, UpdateUserWrite
<1> QED
  BY <1>2, <1>3, <1>4, <1>5, <1>6

LEMMA InitAllotted == Init => Allotted
<1> SUFFICES ASSUME Init, NEW c \in Codes
             PROVE  Cardinality(Named(Global, c)) + Cardinality(Lookers(c)) <= Cardinality(Seeders)
  BY DEF Allotted
<1>1. Lookers(c) = {}
  BY NoJobOK DEF Init, Lookers, Missing
<1>2. Named(Global, c) \subseteq {Template(c, 1)}
  <2> SUFFICES ASSUME NEW r \in roles, r.org = Global, r.code = c PROVE r = Template(c, 1)
    BY DEF Named
  <2>1. \/ \E d \in Codes : r = Template(d, 1)
        \/ \E o \in SeedOrgs, d \in Codes \cap OrgCodes : r = OrgRole(o, d)
    BY DEF Init
  <2>2. ~(\E o \in SeedOrgs, d \in Codes \cap OrgCodes : r = OrgRole(o, d))
    BY OrgRoleType, OrgAssumption
  <2> QED
    BY <2>1, <2>2, TemplateType, CodeAssumption DEF Template
<1>3. Cardinality(Named(Global, c)) <= 1 /\ Cardinality(Named(Global, c)) \in Nat
  <2> DEFINE S == {Template(c, 1)}
  <2>1. IsFiniteSet(S) /\ Cardinality(S) = 1
    BY FS_Singleton
  <2>2. /\ IsFiniteSet(Named(Global, c))
        /\ Cardinality(Named(Global, c)) <= Cardinality(S)
    BY <1>2, <2>1, FS_Subset
  <2> QED
    BY <2>1, <2>2, FS_CardinalityType
<1>4. Cardinality(Seeders) >= 1 /\ Cardinality(Seeders) \in Nat
  BY SeederAssumption, FS_EmptySet, FS_CardinalityType
<1> QED
  BY <1>1, <1>3, <1>4, FS_EmptySet

\* Running the seeders again, after any number of crashes, adds no second copy
\* of a template: there are never more copies than scripts running at once.
THEOREM TemplatesStayBounded == Spec => []TemplatesBounded
<1> DEFINE Inv == IInv /\ AccountsOK /\ Allotted
<1>1. Init => Inv
  BY InitTyped, InitAllotted
<1>2. Inv /\ [Next]_vars => Inv'
  BY NextTyped, AllottedKept
<1>3. Inv => TemplatesBounded
  <2> SUFFICES ASSUME Inv, NEW c \in Codes
               PROVE  Cardinality(Named(Global, c)) <= Cardinality(Seeders)
    BY DEF TemplatesBounded
  <2>1. Lookers(c) \in SUBSET Seeders
    BY DEF Lookers
  <2> QED
    BY <2>1, LookersFinite, NamedFinite DEF Allotted, IInv
<1> QED
  BY <1>1, <1>2, <1>3, PTL DEF Spec

---------------------------------------------------------------------------
\* What a full seeding has achieved.  Only requests ever take permissions away,
\* and then the role counts as edited: nothing else undoes it.

Grown ==
    /\ orgs \subseteq orgs' /\ roles \subseteq roles' /\ perms \subseteq perms'
    /\ edited \subseteq edited'
    /\ \A r \in RoleIds : granted[r] \subseteq granted'[r] \/ r \in edited'

LEMMA Grows ==
  ASSUME IInv, [Next]_vars
  PROVE  Grown
<1>1. CASE UNCHANGED <<orgs, roles, perms, granted, edited>>
  BY <1>1 DEF Grown
<1>2. CASE \/ \E s \in Seeders : PutOrg(s) \/ UpsertPermission(s) \/ UpsertAdminRole(s) \/ PutRole(s)
           \/ \E q \in Requests : CreateOrgBegin(q) \/ CreateOrgRole(q)
  BY <1>2 DEF PutOrg, UpsertPermission, UpsertAdminRole, Upsert, PutRole, CreateOrgBegin,
         CreateOrgRole, Grown
<1>3. CASE \/ \E s \in Seeders : Grant(s)
           \/ \E q \in Requests : CreateOrgGrant(q) \/ FillPermissions(q)
  <2>1. UNCHANGED <<orgs, roles, perms, edited>>
    BY <1>3 DEF Grant, CreateOrgGrant, FillPermissions
  <2>2. granted' = granted \/ \E r, more : granted' = [granted EXCEPT ![r] = @ \cup more]
    BY <1>3 DEF Grant, CreateOrgGrant, FillPermissions
  <2>3. \A r \in RoleIds : granted[r] \subseteq granted'[r]
    BY <2>2 DEF IInv, RowsOK
  <2> QED
    BY <2>1, <2>3 DEF Grown
<1>4. CASE \E q \in Requests : ClearPermissions(q)
  BY <1>4 DEF ClearPermissions, Grown, IInv, RowsOK
<1> QED
  BY <1>1, <1>2, <1>3, <1>4
     DEF Next, StartScript, Advances, Fails, Crash, Login, Arrives, Proceeds, Abort, tables, vars,
         NextStage, ScriptEnds, LookForOrg, LookForRole, LookForGrant, LookForUser, PutUser, SetPermissionsBegin,
         CreateUserBegin, UpdateUserBegin, DeleteUsers, CreateOrgRolesDone, CreateOrgEnd,
         CheckHierarchy, ReadLevel, CreateUserCheck, CreateUserInsert, UpdateUserCheck,
         UpdateUserWrite

NamedIn(rs, o, c) == { r \in rs : r.org = o /\ r.code = c }

OrgsDone(j, os) == SeedOrgs \subseteq os \cup (IF j.at = 1 THEN j.todo \cup j.now ELSE {})

TemplatesDone(j, rs) ==
    j.at >= 2 =>
      \A c \in Codes : NamedIn(rs, Global, c) # {} \/ (j.at = 2 /\ \E k \in j.todo \cup j.now : k.code = c)

RolesDone(j, rs) ==
    j.at >= 3 =>
      /\ SeedOrgs \subseteq j.listed
      /\ \A o \in j.listed, c \in Codes \cap OrgCodes :
           OrgRole(o, c) \in rs \/ (j.at = 3 /\ [org |-> o, code |-> c] \in j.todo \cup j.now)

PermsDone(j, ps) == j.at >= 4 => Known \subseteq ps \cup (IF j.at = 4 THEN j.todo ELSE {})

GrantsDone(j, g, ed) ==
    j.at >= 5 =>
      \A o \in j.listed, c \in Codes \cap OrgCodes :
        \/ OrgRole(o, c) \in ed
        \/ \A p \in SeededMapping[c] \cap Known :
             \/ p \in g[OrgRole(o, c)]
             \/ j.at = 5 /\ [role |-> OrgRole(o, c), perm |-> p] \in j.todo \cup j.now

\* It looked up one role, and what it found is there.
LookupRight(j, rs) ==
    \A k \in j.now : /\ j.at \in {2, 3} /\ j.role # NoRole => j.role \in NamedIn(rs, k.org, k.code)
                    /\ \A x \in j.now : x = k

Progress(j, os, rs, ps, g, ed) ==
    j.script = "all" /\ j.at # 0 /\ ~j.failed =>
      /\ OrgsDone(j, os) /\ TemplatesDone(j, rs) /\ RolesDone(j, rs)
      /\ PermsDone(j, ps) /\ GrantsDone(j, g, ed) /\ LookupRight(j, rs)

\* The stages of the full seeding.
LEMMA AllStages ==
  ASSUME NEW j \in Job, j.script = "all", j.at # 0
  PROVE  /\ j.at \in 1..6 /\ Stages(j.script) = 6
         /\ StageOf(j) = StageAt("all", j.at)
         /\ StageAt("all", 1) = "orgs" /\ StageAt("all", 2) = "templates"
         /\ StageAt("all", 3) = "orgRoles" /\ StageAt("all", 4) = "perms"
         /\ StageAt("all", 5) = "grants" /\ StageAt("all", 6) = "users"
<1>1. j.at \in 1..6 /\ StageOf(j) = StageAt("all", j.at)
  BY DEF Job, StageOf
<1>2. Scripts["all"] = <<"orgs", "templates", "orgRoles", "perms", "grants", "users">>
  BY DEF Scripts
<1>3. /\ Stages("all") = 6 /\ StageAt("all", 1) = "orgs" /\ StageAt("all", 2) = "templates"
      /\ StageAt("all", 3) = "orgRoles" /\ StageAt("all", 4) = "perms"
      /\ StageAt("all", 5) = "grants" /\ StageAt("all", 6) = "users"
  BY <1>2 DEF Stages, StageAt
<1> QED
  BY <1>1, <1>3

\* The rows grow: what was achieved still is.
LEMMA ProgressGrows ==
  ASSUME NEW j \in Job, NEW os, NEW rs, NEW ps, NEW g, NEW ed,
         NEW os2, NEW rs2, NEW ps2, NEW g2, NEW ed2,
         Progress(j, os, rs, ps, g, ed),
         os \subseteq os2, rs \subseteq rs2, ps \subseteq ps2, ed \subseteq ed2,
         \A r \in RoleIds : g[r] \subseteq g2[r] \/ r \in ed2
  PROVE  Progress(j, os2, rs2, ps2, g2, ed2)
<1> SUFFICES ASSUME j.script = "all", j.at # 0, ~j.failed
             PROVE  /\ OrgsDone(j, os2) /\ TemplatesDone(j, rs2) /\ RolesDone(j, rs2)
                    /\ PermsDone(j, ps2) /\ GrantsDone(j, g2, ed2) /\ LookupRight(j, rs2)
  BY DEF Progress
<1>1. OrgsDone(j, os2) /\ PermsDone(j, ps2)
  BY DEF Progress, OrgsDone, PermsDone
<1>2. \A o, c : NamedIn(rs, o, c) \subseteq NamedIn(rs2, o, c)
  BY DEF NamedIn
<1>3. TemplatesDone(j, rs2)
  BY <1>2 DEF Progress, TemplatesDone
<1>4. RolesDone(j, rs2)
  BY DEF Progress, RolesDone
<1>5. LookupRight(j, rs2)
  BY <1>2 DEF Progress, LookupRight
<1>6. GrantsDone(j, g2, ed2)
  <2>1. j.listed \subseteq Orgs
    BY DEF Job
  <2>2. \A o \in j.listed, c \in Codes \cap OrgCodes : OrgRole(o, c) \in RoleIds
    BY <2>1, OrgRoleType
  <2> QED
    BY <2>2 DEF Progress, GrantsDone
<1> QED
  BY <1>1, <1>3, <1>4, <1>5, <1>6

\* Nothing is claimed of a script that ended or failed.
LEMMA ProgressVoid ==
  ASSUME NEW j, j = NoJob \/ j.failed, NEW os, NEW rs, NEW ps, NEW g, NEW ed
  PROVE  Progress(j, os, rs, ps, g, ed)
  BY NoJobOK DEF Progress

\* Past the roles, the user it looks for is of no account.
LEMMA ProgressUsers ==
  ASSUME NEW i \in Job, NEW j, NEW os, NEW rs, NEW ps, NEW g, NEW ed,
         Progress(i, os, rs, ps, g, ed), i.script = "all" => i.at = 6,
         j.at = i.at, j.script = i.script, j.listed = i.listed, j.failed = i.failed,
         \A k, x \in j.now : x = k
  PROVE  Progress(j, os, rs, ps, g, ed)
  BY DEF Progress, OrgsDone, TemplatesDone, RolesDone, PermsDone, GrantsDone, LookupRight

\* The shorthand for the rows after a step.
After(j) == Progress(j, orgs', roles', perms', granted', edited')

LEMMA AfterGrowth ==
  ASSUME Grown, NEW j \in Job, Progress(j, orgs, roles, perms, granted, edited)
  PROVE  After(j)
  BY ProgressGrows DEF Grown, After

\* The steps of a full seeding, each in the rows it leaves.
LEMMA ProgressStarts ==
  ASSUME IInv, NEW s \in Seeders, StartScript(s), Grown
  PROVE  After(job'[s])
<1>0. TypeOK
  BY Parts
<1>1. PICK x \in DOMAIN Scripts :
        Continue(s, [NoJob EXCEPT !.script = x, !.at = 1, !.todo = TodoOf(x, StageAt(x, 1))])
  BY DEF StartScript
<1>2. PICK j : /\ Continue(s, j) /\ JobOK(j) /\ j.todo = TodoOf(x, StageAt(x, 1)) /\ j.now = {}
               /\ j.at = 1 /\ j.script = x
  BY <1>0, <1>1, BegunOK
<1>3. job'[s] = j
  BY <1>2, SeederStep DEF IInv
<1>4. x = "all" => j.todo = SeedOrgs
  BY <1>2, AllStages DEF TodoOf, JobOK
<1>5. x = "all" => OrgsDone(j, orgs')
  BY <1>2, <1>4 DEF OrgsDone
<1>6. /\ TemplatesDone(j, roles') /\ RolesDone(j, roles') /\ PermsDone(j, perms')
      /\ GrantsDone(j, granted', edited') /\ LookupRight(j, roles')
  BY <1>2 DEF TemplatesDone, RolesDone, PermsDone, GrantsDone, LookupRight
<1> QED
  BY <1>2, <1>3, <1>5, <1>6 DEF After, Progress

LEMMA ProgressNext ==
  ASSUME IInv, NEW s \in Seeders, NextStage(s),
         Progress(job[s], orgs, roles, perms, granted, edited)
  PROVE  After(job'[s])
<1>0. TypeOK
  BY Parts
<1>1. PICK j, listed :
        /\ Continue(s, j) /\ JobOK(j)
        /\ j.todo = TodoOf(job[s].script, StageAt(job[s].script, job[s].at + 1))
        /\ j.now = {} /\ j.at = job[s].at + 1 /\ j.script = job[s].script /\ j.failed = job[s].failed
        /\ j.listed = IF StageAt(job[s].script, job[s].at + 1) = "orgRoles" THEN orgs
                      ELSE job[s].listed
  BY <1>0, StageBegun
<1>2. job'[s] = j
  BY <1>1, SeederStep DEF IInv
<1>3. UNCHANGED <<orgs, roles, perms, granted, edited>>
  BY DEF NextStage, tables
<1>4. SUFFICES ASSUME j.script = "all", ~j.failed
               PROVE  /\ OrgsDone(j, orgs) /\ TemplatesDone(j, roles) /\ RolesDone(j, roles)
                      /\ PermsDone(j, perms) /\ GrantsDone(j, granted, edited) /\ LookupRight(j, roles)
  BY <1>2, <1>3 DEF After, Progress
<1> DEFINE i == job[s]
<1>5. /\ i \in Job /\ i.at # 0 /\ i.script = "all" /\ ~i.failed /\ i.todo = {} /\ i.now = {}
      /\ i.at < Stages(i.script)
  BY <1>0, <1>1, <1>4, JobsOK DEF NextStage, LoopDone
<1>6. i.at \in 1..5 /\ j.at = i.at + 1
  BY <1>1, <1>5, AllStages
<1>7. /\ OrgsDone(i, orgs) /\ TemplatesDone(i, roles) /\ RolesDone(i, roles)
      /\ PermsDone(i, perms) /\ GrantsDone(i, granted, edited)
  BY <1>5 DEF Progress
<1>8. StageAt("all", j.at) = "orgRoles" <=> j.at = 3
  BY <1>5, <1>6, AllStages
<1>9. /\ j.at = 2 => j.todo = { [org |-> Global, code |-> c] : c \in Codes }
      /\ j.at = 3 => j.todo = [org : orgs, code : Codes \cap OrgCodes]
      /\ j.at = 4 => j.todo = Known
      /\ j.at = 5 => j.todo = LinksTo(SeededMapping, roles)
  BY <1>1, <1>4, <1>5, <1>6, AllStages DEF TodoOf
<1>10. j.listed = IF j.at = 3 THEN orgs ELSE i.listed
  BY <1>1, <1>4, <1>6, <1>8
<1>11. i.listed \subseteq Orgs /\ orgs \subseteq Orgs
  BY <1>0, <1>5 DEF Job, TypeOK
<1> HIDE DEF i
<1>12. OrgsDone(j, orgs) /\ SeedOrgs \subseteq orgs
  BY <1>5, <1>6, <1>7 DEF OrgsDone
<1>13. TemplatesDone(j, roles)
  <2>1. CASE j.at = 2
    <3>1. \A c \in Codes : [org |-> Global, code |-> c] \in j.todo
      BY <1>9, <2>1
    <3>2. \A c \in Codes : \E k \in j.todo : k.code = c
      BY <3>1
    <3> QED
      BY <2>1, <3>2 DEF TemplatesDone
  <2>2. CASE j.at > 2
    BY <1>5, <1>6, <1>7, <2>2 DEF TemplatesDone
  <2> QED
    BY <1>6, <2>1, <2>2
<1>14. RolesDone(j, roles)
  <2>1. CASE j.at = 3
    BY <1>9, <1>10, <1>12, <2>1 DEF RolesDone
  <2>2. CASE j.at > 3
    BY <1>5, <1>6, <1>7, <1>10, <2>2 DEF RolesDone
  <2> QED
    BY <1>6, <2>1, <2>2 DEF RolesDone
<1>15. PermsDone(j, perms)
  BY <1>5, <1>6, <1>7, <1>9 DEF PermsDone
<1>16. GrantsDone(j, granted, edited)
  <2>1. CASE j.at = 5
    <3> SUFFICES ASSUME NEW o \in j.listed, NEW c \in Codes \cap OrgCodes,
                        NEW p \in SeededMapping[c] \cap Known
                 PROVE  [role |-> OrgRole(o, c), perm |-> p] \in j.todo
      BY <2>1 DEF GrantsDone
    <3>1. OrgRole(o, c) \in roles /\ o \in Orgs
      BY <1>5, <1>6, <1>7, <1>10, <1>11, <2>1 DEF RolesDone
    <3>2. OrgRole(o, c).code = c
      BY <3>1, OrgRoleType
    <3>3. p \in SeededMapping[c] \cap Kept
      BY DEF Known
    <3>4. [role |-> OrgRole(o, c), perm |-> p]
            \in [role : {OrgRole(o, c)}, perm : SeededMapping[OrgRole(o, c).code] \cap Kept]
      BY <3>2, <3>3
    <3> QED
      BY <1>9, <2>1, <3>1, <3>4, LinkIn
  <2>2. CASE j.at > 5
    BY <1>5, <1>6, <1>7, <1>10, <2>2 DEF GrantsDone
  <2> QED
    BY <1>6, <2>1, <2>2 DEF GrantsDone
<1>17. LookupRight(j, roles)
  BY <1>1 DEF LookupRight
<1> QED
  BY <1>12, <1>13, <1>14, <1>15, <1>16, <1>17

LEMMA ProgressUpserts ==
  ASSUME IInv, NEW s \in Seeders, After(job[s]),
         UpsertPermission(s) \/ UpsertAdminRole(s)
  PROVE  After(job'[s])
<1>0. TypeOK
  BY Parts
<1>1. PICK t : /\ Continue(s, Past(s, t))
               /\ \/ Stage(s) = "perms" /\ perms' = perms \cup {t}
                  \/ Stage(s) = "adminRoles"
  BY DEF UpsertPermission, UpsertAdminRole, Upsert
<1>2. PICK j : /\ j = Past(s, t) /\ JobOK(j) /\ j.at = job[s].at /\ j.script = job[s].script
               /\ j.now = job[s].now /\ j.todo = job[s].todo \ {t}
               /\ j.listed = job[s].listed /\ j.failed = job[s].failed /\ j.role = job[s].role
  BY <1>0, PastOK
<1>3. job'[s] = j
  BY <1>1, <1>2, SeederStep DEF IInv
<1>4. SUFFICES ASSUME j.script = "all", j.at # 0, ~j.failed
               PROVE  /\ OrgsDone(j, orgs') /\ TemplatesDone(j, roles') /\ RolesDone(j, roles')
                      /\ PermsDone(j, perms') /\ GrantsDone(j, granted', edited')
                      /\ LookupRight(j, roles')
  BY <1>3 DEF After, Progress
<1> DEFINE i == job[s]
<1>5. i \in Job /\ i.script = "all" /\ i.at # 0 /\ ~i.failed
  BY <1>0, <1>2, <1>4, JobsOK
<1>6. /\ OrgsDone(i, orgs') /\ TemplatesDone(i, roles') /\ RolesDone(i, roles')
      /\ PermsDone(i, perms') /\ GrantsDone(i, granted', edited') /\ LookupRight(i, roles')
  BY <1>5 DEF After, Progress
<1>7. i.at = 4 /\ perms' = perms \cup {t}
  <2>1. Stage(s) = StageAt("all", i.at) /\ i.at \in 1..6
    BY <1>5, AllStages, StageIs
  <2>2. /\ Stage(s) = "perms" => i.at = 4
        /\ Stage(s) # "adminRoles"
    BY <1>5, <2>1, AllStages
  <2> QED
    BY <1>1, <2>2
<1> HIDE DEF i
<1>8. OrgsDone(j, orgs') /\ PermsDone(j, perms')
  BY <1>2, <1>6, <1>7 DEF OrgsDone, PermsDone, i
<1>9. /\ TemplatesDone(j, roles') /\ RolesDone(j, roles') /\ GrantsDone(j, granted', edited')
      /\ LookupRight(j, roles')
  BY <1>2, <1>6, <1>7 DEF TemplatesDone, RolesDone, GrantsDone, LookupRight, i
<1> QED
  BY <1>8, <1>9

LEMMA ProgressLooks ==
  ASSUME IInv, NEW s \in Seeders, After(job[s]),
         LookForOrg(s) \/ LookForRole(s) \/ LookForGrant(s) \/ LookForUser(s)
  PROVE  After(job'[s])
<1>0. TypeOK /\ job[s] \in Job /\ job[s].now = {}
  BY Parts, JobsOK DEF LookForOrg, LookForRole, LookForGrant, LookForUser
<1>1. CASE LookForUser(s)
  <2>1. PICK j : /\ Continue(s, j) /\ JobOK(j) /\ (\A x, y \in j.now : x = y)
                 /\ j.at = job[s].at /\ j.script = job[s].script
                 /\ j.listed = job[s].listed /\ j.failed = job[s].failed
    BY <1>0, <1>1, UserLooked
  <2>2. job'[s] = j
    BY <2>1, SeederStep DEF IInv
  <2>3. job[s].script = "all" => job[s].at = 6
    <3>1. Stage(s) = "users" /\ job[s].at # 0
      BY <1>1 DEF LookForUser, Stage
    <3> QED
      BY <1>0, <3>1, AllStages, StageIs
  <2>4. After(j)
    BY <1>0, <2>1, <2>3, ProgressUsers DEF After
  <2> QED
    BY <2>2, <2>4
<1>2. CASE LookForRole(s)
  <2>1. PICK k \in job[s].todo : \E r, j :
          /\ IF Named(k.org, k.code) = {} THEN r = NoRole ELSE r \in Named(k.org, k.code)
          /\ Continue(s, j) /\ JobOK(j) /\ StageOf(j) = Stage(s)
          /\ j.now = {k} /\ j.role = r /\ j.todo = job[s].todo \ {k}
          /\ j.at = job[s].at /\ j.script = job[s].script
          /\ j.listed = job[s].listed /\ j.failed = job[s].failed
    BY <1>0, <1>2, RoleLooked
  <2>2. PICK j :
          /\ IF Named(k.org, k.code) = {} THEN j.role = NoRole ELSE j.role \in Named(k.org, k.code)
          /\ Continue(s, j) /\ JobOK(j)
          /\ j.now = {k} /\ j.todo = job[s].todo \ {k}
          /\ j.at = job[s].at /\ j.script = job[s].script
          /\ j.listed = job[s].listed /\ j.failed = job[s].failed
    BY <2>1
  <2>3. job'[s] = j /\ roles' = roles
    BY <1>2, <2>2, SeederStep DEF IInv, LookForRole, tables
  <2>4. SUFFICES ASSUME j.script = "all", j.at # 0, ~j.failed
                 PROVE  /\ OrgsDone(j, orgs') /\ TemplatesDone(j, roles') /\ RolesDone(j, roles')
                        /\ PermsDone(j, perms') /\ GrantsDone(j, granted', edited')
                        /\ LookupRight(j, roles')
    BY <2>3 DEF After, Progress
  <2> DEFINE i == job[s]
  <2>5. /\ OrgsDone(i, orgs') /\ TemplatesDone(i, roles') /\ RolesDone(i, roles')
        /\ PermsDone(i, perms') /\ GrantsDone(i, granted', edited')
    BY <2>2, <2>4 DEF After, Progress
  <2>6. i.at \in {2, 3}
    <3>1. Stage(s) \in {"templates", "orgRoles"} /\ i.at # 0 /\ i.script = "all"
      BY <1>2, <2>2, <2>4 DEF LookForRole, Stage
    <3> QED
      BY <1>0, <3>1, AllStages, StageIs
  <2>7. j.todo \cup j.now = i.todo \cup i.now
    BY <1>0, <2>2
  <2> HIDE DEF i
  <2>8. OrgsDone(j, orgs') /\ PermsDone(j, perms') /\ GrantsDone(j, granted', edited')
    BY <2>2, <2>5, <2>6 DEF OrgsDone, PermsDone, GrantsDone, i
  <2>9. TemplatesDone(j, roles') /\ RolesDone(j, roles')
    BY <2>2, <2>5, <2>6, <2>7 DEF TemplatesDone, RolesDone, i
  <2>10. LookupRight(j, roles')
    BY <2>2, <2>3 DEF LookupRight, NamedIn, Named
  <2> QED
    BY <2>8, <2>9, <2>10
<1>3. CASE LookForOrg(s) \/ LookForGrant(s)
  <2>1. PICK k \in job[s].todo : \E j :
          /\ Continue(s, j) /\ JobOK(j) /\ StageOf(j) = Stage(s) /\ j.todo = job[s].todo \ {k}
          /\ \/ j.now = {k}
             \/ /\ j.now = {}
                /\ (LookForOrg(s) => k \in orgs)
                /\ (LookForGrant(s) => k.perm \notin perms \ granted[k.role])
          /\ j.at = job[s].at /\ j.script = job[s].script
          /\ j.listed = job[s].listed /\ j.failed = job[s].failed
    BY <1>0, <1>3, RowLooked
  <2>2. PICK j :
          /\ Continue(s, j) /\ JobOK(j) /\ StageOf(j) = Stage(s) /\ j.todo = job[s].todo \ {k}
          /\ \/ j.now = {k}
             \/ /\ j.now = {}
                /\ (LookForOrg(s) => k \in orgs)
                /\ (LookForGrant(s) => k.perm \notin perms \ granted[k.role])
          /\ j.at = job[s].at /\ j.script = job[s].script
          /\ j.listed = job[s].listed /\ j.failed = job[s].failed
    BY <2>1
  <2>3. job'[s] = j /\ UNCHANGED <<orgs, roles, perms, granted, edited>>
    BY <1>3, <2>2, SeederStep DEF IInv, LookForOrg, LookForGrant, tables
  <2>4. SUFFICES ASSUME j.script = "all", j.at # 0, ~j.failed
                 PROVE  /\ OrgsDone(j, orgs) /\ TemplatesDone(j, roles) /\ RolesDone(j, roles)
                        /\ PermsDone(j, perms) /\ GrantsDone(j, granted, edited)
                        /\ LookupRight(j, roles)
    BY <2>3 DEF After, Progress
  <2> DEFINE i == job[s]
  <2>5. /\ OrgsDone(i, orgs) /\ TemplatesDone(i, roles) /\ RolesDone(i, roles)
        /\ PermsDone(i, perms) /\ GrantsDone(i, granted, edited)
    BY <2>2, <2>3, <2>4 DEF After, Progress
  <2>6. \/ LookForOrg(s) /\ i.at = 1
        \/ LookForGrant(s) /\ i.at = 5
    <3>1. /\ \/ LookForOrg(s) /\ Stage(s) = "orgs"
             \/ LookForGrant(s) /\ Stage(s) = "grants"
          /\ i.at # 0 /\ i.script = "all"
      BY <1>3, <2>2, <2>4 DEF LookForOrg, LookForGrant, Stage
    <3> QED
      BY <1>0, <3>1, AllStages, StageIs
  <2> HIDE DEF i
  <2>7. OrgsDone(j, orgs)
    <3>1. CASE i.at = 1
      <4>1. i.now = {} /\ (k \in orgs \/ k \in j.now)
        <5>1. ~LookForGrant(s)
          BY <2>6, <3>1 DEF LookForGrant, LookForOrg
        <5>2. LookForOrg(s)
          BY <1>3, <5>1
        <5>3. i.now = {}
          BY <5>2 DEF LookForOrg, i
        <5>4. j.now = {k} \/ (j.now = {} /\ k \in orgs)
          BY <2>2, <5>2
        <5> QED
          BY <5>3, <5>4
      <4>2. i.todo \cup i.now \subseteq orgs \cup (j.todo \cup j.now)
        BY <2>2, <4>1 DEF i
      <4> QED
        BY <2>2, <2>5, <3>1, <4>2 DEF OrgsDone, i
    <3>2. CASE i.at = 5
      BY <2>2, <2>5, <3>2 DEF OrgsDone, i
    <3> QED
      BY <2>6, <3>1, <3>2
  <2>8. TemplatesDone(j, roles) /\ RolesDone(j, roles) /\ PermsDone(j, perms)
    BY <2>2, <2>5, <2>6 DEF TemplatesDone, RolesDone, PermsDone, i
  <2>9. GrantsDone(j, granted, edited)
    <3>1. CASE i.at = 1
      BY <2>2, <3>1 DEF GrantsDone, i
    <3>2. CASE i.at = 5
      <4> SUFFICES ASSUME NEW o \in i.listed, NEW c \in Codes \cap OrgCodes,
                          OrgRole(o, c) \notin edited, NEW p \in SeededMapping[c] \cap Known,
                          p \notin granted[OrgRole(o, c)]
                   PROVE  [role |-> OrgRole(o, c), perm |-> p] \in j.todo \cup j.now
        BY <2>2, <3>2 DEF GrantsDone, i
      <4> DEFINE m == [role |-> OrgRole(o, c), perm |-> p]
      <4>1. m \in i.todo
        BY <1>0, <2>5, <3>2 DEF GrantsDone, i
      <4>2. p \in perms
        BY <2>5, <3>2 DEF PermsDone
      <4>3. m.role = OrgRole(o, c) /\ m.perm = p
        OBVIOUS
      <4>4. m = k => j.now = {k}
        BY <2>2, <2>6, <3>2, <4>2, <4>3
      <4> QED
        BY <2>2, <4>1, <4>4 DEF i
    <3> QED
      BY <2>6, <3>1, <3>2
  <2>10. LookupRight(j, roles)
    <3>1. j.at = i.at
      BY <2>2 DEF i
    <3>2. j.now = {k} \/ j.now = {}
      BY <2>2
    <3>3. j.at \notin {2, 3}
      BY <2>6, <3>1
    <3> QED
      BY <3>2, <3>3 DEF LookupRight
  <2> QED
    BY <2>7, <2>8, <2>9, <2>10
<1> QED
  BY <1>1, <1>2, <1>3

LEMMA ProgressPutsOrg ==
  ASSUME IInv, NEW s \in Seeders, After(job[s]), PutOrg(s)
  PROVE  After(job'[s])
<1>0. TypeOK /\ job[s] \in Job
  BY Parts, JobsOK
<1>1. PICK o \in job[s].now, j \in {Settled(s), Thrown(s)} :
        Continue(s, j) /\ orgs' = orgs \cup {o}
  BY DEF PutOrg
<1>2. JobOK(j) /\ job'[s] = j
  BY <1>0, <1>1, SettledOK, ThrownOK, SeederStep DEF IInv
<1>3. CASE j = Thrown(s)
  BY <1>0, <1>2, <1>3, ThrownOK, ProgressVoid DEF After
<1>4. CASE j = Settled(s)
  <2>1. /\ j.now = {} /\ j.at = job[s].at /\ j.script = job[s].script /\ j.todo = job[s].todo
        /\ j.listed = job[s].listed /\ j.failed = job[s].failed
    BY <1>0, <1>4, SettledOK
  <2>2. SUFFICES ASSUME j.script = "all", j.at # 0, ~j.failed
                 PROVE  /\ OrgsDone(j, orgs') /\ TemplatesDone(j, roles') /\ RolesDone(j, roles')
                        /\ PermsDone(j, perms') /\ GrantsDone(j, granted', edited')
                        /\ LookupRight(j, roles')
    BY <1>2 DEF After, Progress
  <2> DEFINE i == job[s]
  <2>3. OrgsDone(i, orgs') /\ LookupRight(i, roles')
    BY <2>1, <2>2 DEF After, Progress
  <2>4. i.at = 1
    <3>1. Stage(s) = "orgs" /\ i.at # 0 /\ i.script = "all"
      BY <2>1, <2>2 DEF PutOrg, Stage
    <3> QED
      BY <1>0, <3>1, AllStages, StageIs
  <2>5. \A x \in i.now : x \in orgs'
    BY <1>1, <2>3 DEF LookupRight
  <2> HIDE DEF i
  <2>6. OrgsDone(j, orgs')
    BY <2>1, <2>3, <2>4, <2>5 DEF OrgsDone, i
  <2>7. /\ TemplatesDone(j, roles') /\ RolesDone(j, roles') /\ PermsDone(j, perms')
        /\ GrantsDone(j, granted', edited') /\ LookupRight(j, roles')
    BY <2>1, <2>4 DEF TemplatesDone, RolesDone, PermsDone, GrantsDone, LookupRight, i
  <2> QED
    BY <2>6, <2>7
<1> QED
  BY <1>1, <1>3, <1>4

LEMMA OneOrgRole ==
  ASSUME NEW r \in RoleIds, r.org \in Orgs
  PROVE  r = OrgRole(r.org, r.code)
  BY OrgAssumption DEF RoleIds, OrgRole

LEMMA ProgressPutsRole ==
  ASSUME IInv, NEW s \in Seeders, After(job[s]), Grown, PutRole(s)
  PROVE  After(job'[s])
<1>0. TypeOK /\ job[s] \in Job
  BY Parts, JobsOK
<1>1. PICK k \in job[s].now, j \in {Settled(s), Thrown(s)} :
        /\ Continue(s, j)
        /\ \/ job[s].role # NoRole
           \/ k.org = Global /\ \E n : roles' = roles \cup {Template(k.code, n)}
           \/ k.org # Global /\ roles' = roles \cup {OrgRole(k.org, k.code)}
  BY DEF PutRole
<1>2. JobOK(j) /\ job'[s] = j
  BY <1>0, <1>1, SettledOK, ThrownOK, SeederStep DEF IInv
<1>3. CASE j = Thrown(s)
  BY <1>0, <1>2, <1>3, ThrownOK, ProgressVoid DEF After
<1>4. CASE j = Settled(s)
  <2>1. /\ j.now = {} /\ j.at = job[s].at /\ j.script = job[s].script /\ j.todo = job[s].todo
        /\ j.listed = job[s].listed /\ j.failed = job[s].failed
    BY <1>0, <1>4, SettledOK
  <2>2. SUFFICES ASSUME j.script = "all", j.at # 0, ~j.failed
                 PROVE  /\ OrgsDone(j, orgs') /\ TemplatesDone(j, roles') /\ RolesDone(j, roles')
                        /\ PermsDone(j, perms') /\ GrantsDone(j, granted', edited')
                        /\ LookupRight(j, roles')
    BY <1>2 DEF After, Progress
  <2> DEFINE i == job[s]
  <2>3. /\ OrgsDone(i, orgs') /\ TemplatesDone(i, roles') /\ RolesDone(i, roles')
        /\ PermsDone(i, perms') /\ GrantsDone(i, granted', edited') /\ LookupRight(i, roles')
    BY <2>1, <2>2 DEF After, Progress
  <2>4. /\ \/ i.at = 2 /\ Stage(s) = "templates"
           \/ i.at = 3 /\ Stage(s) = "orgRoles"
        /\ Stage(s) = "templates" => k \in [org : {Global}, code : Codes]
        /\ Stage(s) = "orgRoles" => k \in [org : Orgs, code : Codes]
    <3>1. Stage(s) \in {"templates", "orgRoles"} /\ i.at # 0 /\ i.script = "all"
      BY <2>1, <2>2 DEF PutRole, Stage
    <3>2. k \in TasksOf(Stage(s))
      BY <1>0, JobsOK, StageIs DEF JobOK
    <3> QED
      BY <1>0, <3>1, <3>2, AllStages, StageIs DEF TasksOf
  <2>5. \A x \in i.now : x = k
    BY <2>3 DEF LookupRight
  <2>6. NamedIn(roles', k.org, k.code) # {}
    <3>1. CASE job[s].role # NoRole
      BY <2>3, <2>4, <3>1 DEF LookupRight
    <3>2. CASE k.org = Global /\ \E n : roles' = roles \cup {Template(k.code, n)}
      <4>1. PICK n : roles' = roles \cup {Template(k.code, n)}
        BY <3>2
      <4>2. Template(k.code, n).org = Global /\ Template(k.code, n).code = k.code
        BY DEF Template
      <4>3. Template(k.code, n) \in NamedIn(roles', k.org, k.code)
        BY <3>2, <4>1, <4>2 DEF NamedIn
      <4> QED
        BY <4>3
    <3>3. CASE k.org # Global /\ roles' = roles \cup {OrgRole(k.org, k.code)}
      <4>1. OrgRole(k.org, k.code) \in NamedIn(roles', k.org, k.code)
        BY <3>3 DEF NamedIn, OrgRole
      <4> QED
        BY <4>1
    <3> QED
      BY <1>1, <3>1, <3>2, <3>3
  <2>7. Stage(s) = "orgRoles" => OrgRole(k.org, k.code) \in roles'
    <3> SUFFICES ASSUME Stage(s) = "orgRoles" PROVE OrgRole(k.org, k.code) \in roles'
      OBVIOUS
    <3>1. PICK r \in roles' : r.org = k.org /\ r.code = k.code
      BY <2>6 DEF NamedIn
    <3>2. k.org \in Orgs /\ k.org # Global
      BY <2>4, OrgAssumption
    <3>3. CASE r \in roles
      BY <1>0, <3>1, <3>2, <3>3, OneOrgRole DEF TypeOK
    <3>4. CASE r \notin roles
      BY <1>1, <3>1, <3>2, <3>4 DEF PutRole, Template, Named
    <3> QED
      BY <3>3, <3>4
  <2> HIDE DEF i
  <2>8. OrgsDone(j, orgs') /\ PermsDone(j, perms') /\ GrantsDone(j, granted', edited')
        /\ LookupRight(j, roles')
    BY <2>1, <2>3, <2>4 DEF OrgsDone, PermsDone, GrantsDone, LookupRight, i
  <2>9. TemplatesDone(j, roles')
    <3>1. CASE i.at = 2
      <4> SUFFICES ASSUME NEW c \in Codes, NamedIn(roles', Global, c) = {}
                   PROVE  \E x \in j.todo \cup j.now : x.code = c
        BY <2>1, <3>1 DEF TemplatesDone, i
      <4>1. PICK x \in i.todo \cup i.now : x.code = c
        BY <2>3, <3>1 DEF TemplatesDone
      <4>2. x # k
        BY <2>4, <2>6, <3>1, <4>1
      <4>3. x \in i.todo
        BY <2>5, <4>1, <4>2
      <4> QED
        BY <2>1, <4>1, <4>3 DEF i
    <3>2. CASE i.at = 3
      BY <2>1, <2>3, <3>2 DEF TemplatesDone, i
    <3> QED
      BY <2>4, <3>1, <3>2
  <2>10. RolesDone(j, roles')
    <3>1. CASE i.at = 2
      BY <2>1, <3>1 DEF RolesDone, i
    <3>2. CASE i.at = 3
      <4>1. /\ SeedOrgs \subseteq i.listed
            /\ \A o \in i.listed, c \in Codes \cap OrgCodes :
                 OrgRole(o, c) \in roles' \/ [org |-> o, code |-> c] \in i.todo \cup i.now
        BY <2>3, <3>2 DEF RolesDone
      <4> SUFFICES ASSUME NEW o \in i.listed, NEW c \in Codes \cap OrgCodes,
                          OrgRole(o, c) \notin roles'
                   PROVE  [org |-> o, code |-> c] \in j.todo
        BY <2>1, <3>2, <4>1 DEF RolesDone, i
      <4>2. [org |-> o, code |-> c] # k
        BY <2>4, <2>7, <3>2
      <4> QED
        BY <2>1, <2>5, <4>1, <4>2 DEF i
    <3> QED
      BY <2>4, <3>1, <3>2
  <2> QED
    BY <2>8, <2>9, <2>10
<1> QED
  BY <1>1, <1>3, <1>4

LEMMA ProgressGrants ==
  ASSUME IInv, NEW s \in Seeders, After(job[s]), Grant(s)
  PROVE  After(job'[s])
<1>0. TypeOK /\ job[s] \in Job
  BY Parts, JobsOK
<1>1. PICK l \in job[s].now :
        \/ /\ granted' = [granted EXCEPT ![l.role] = @ \cup ({l.perm} \cap perms)]
           /\ req' = Disturbed({l.role}) /\ Continue(s, Settled(s))
        \/ UNCHANGED <<granted, req>> /\ Continue(s, WithoutRole(s, l.role))
  BY GrantForms
<1>2. CASE Continue(s, WithoutRole(s, l.role))
  <2>1. job'[s] = WithoutRole(s, l.role) /\ WithoutRole(s, l.role).failed
    BY <1>0, <1>2, FailedOK, SeederStep DEF IInv
  <2> QED
    BY <2>1, ProgressVoid DEF After
<1> SUFFICES ASSUME granted' = [granted EXCEPT ![l.role] = @ \cup ({l.perm} \cap perms)],
                    Continue(s, Settled(s))
             PROVE  After(job'[s])
  BY <1>1, <1>2
<1> DEFINE j == Settled(s)
<1>3. /\ job'[s] = j /\ perms' = perms /\ j.now = {} /\ j.at = job[s].at
      /\ j.script = job[s].script /\ j.todo = job[s].todo
      /\ j.listed = job[s].listed /\ j.failed = job[s].failed
  BY <1>0, SettledOK, SeederStep DEF IInv, Grant
<1> HIDE DEF j
<1>4. SUFFICES ASSUME j.script = "all", j.at # 0, ~j.failed
               PROVE  /\ OrgsDone(j, orgs') /\ TemplatesDone(j, roles') /\ RolesDone(j, roles')
                      /\ PermsDone(j, perms') /\ GrantsDone(j, granted', edited')
                      /\ LookupRight(j, roles')
  BY <1>3 DEF After, Progress
<1> DEFINE i == job[s]
<1>5. /\ OrgsDone(i, orgs') /\ TemplatesDone(i, roles') /\ RolesDone(i, roles')
      /\ PermsDone(i, perms') /\ GrantsDone(i, granted', edited') /\ LookupRight(i, roles')
  BY <1>3, <1>4 DEF After, Progress
<1>6. i.at = 5 /\ l \in Links
  <2>1. Stage(s) = "grants" /\ i.at # 0 /\ i.script = "all"
    BY <1>3, <1>4 DEF Grant, Stage
  <2>2. i.at = 5
    BY <1>0, <2>1, AllStages, StageIs
  <2>3. l \in TasksOf(Stage(s))
    BY <1>0, JobsOK, StageIs DEF JobOK
  <2> QED
    BY <2>1, <2>2, <2>3 DEF TasksOf
<1>7. l.role \in RoleIds
  BY <1>6 DEF Links
<1>8. l.perm \in Known => l.perm \in granted'[l.role]
  <2>1. Known \subseteq perms
    BY <1>3, <1>5, <1>6 DEF PermsDone
  <2> QED
    BY <1>7, <2>1 DEF IInv, RowsOK
<1> HIDE DEF i
<1>9. /\ OrgsDone(j, orgs') /\ TemplatesDone(j, roles') /\ RolesDone(j, roles')
      /\ PermsDone(j, perms') /\ LookupRight(j, roles')
  BY <1>3, <1>5, <1>6 DEF OrgsDone, TemplatesDone, RolesDone, PermsDone, LookupRight, i
<1>10. GrantsDone(j, granted', edited')
  <2> SUFFICES ASSUME NEW o \in i.listed, NEW c \in Codes \cap OrgCodes,
                      OrgRole(o, c) \notin edited', NEW p \in SeededMapping[c] \cap Known
               PROVE  \/ p \in granted'[OrgRole(o, c)]
                      \/ [role |-> OrgRole(o, c), perm |-> p] \in j.todo
    BY <1>3, <1>6 DEF GrantsDone, i
  <2> DEFINE m == [role |-> OrgRole(o, c), perm |-> p]
  <2>1. p \in granted'[OrgRole(o, c)] \/ m \in i.todo \cup i.now
    BY <1>5, <1>6 DEF GrantsDone
  <2>2. m = l => p \in granted'[OrgRole(o, c)]
    <3>1. m.role = OrgRole(o, c) /\ m.perm = p
      OBVIOUS
    <3> QED
      BY <1>8, <3>1
  <2>3. \A x \in i.now : x = l
    BY <1>5 DEF LookupRight, i
  <2> QED
    BY <1>3, <2>1, <2>2, <2>3 DEF i
<1> QED
  BY <1>9, <1>10

LEMMA ProgressPutsUser ==
  ASSUME IInv, NEW s \in Seeders, After(job[s]), PutUser(s)
  PROVE  After(job'[s])
<1>0. TypeOK /\ job[s] \in Job
  BY Parts, JobsOK
<1>1. PICK j \in {Settled(s), Thrown(s)} : Continue(s, j)
  BY DEF PutUser
<1>2. JobOK(j) /\ job'[s] = j
  BY <1>0, <1>1, SettledOK, ThrownOK, SeederStep DEF IInv
<1>3. CASE j = Thrown(s)
  BY <1>0, <1>2, <1>3, ThrownOK, ProgressVoid DEF After
<1>4. CASE j = Settled(s)
  <2>1. /\ j.now = {} /\ j.at = job[s].at /\ j.script = job[s].script
        /\ j.listed = job[s].listed /\ j.failed = job[s].failed
    BY <1>0, <1>4, SettledOK
  <2>2. job[s].script = "all" => job[s].at = 6
    <3>1. Stage(s) = "users" /\ job[s].at # 0
      BY DEF PutUser, Stage
    <3> QED
      BY <1>0, <3>1, AllStages, StageIs
  <2>3. After(j)
    BY <1>0, <2>1, <2>2, ProgressUsers DEF After
  <2> QED
    BY <1>2, <2>3
<1> QED
  BY <1>1, <1>3, <1>4

LEMMA ProgressEnds ==
  ASSUME IInv, NEW s \in Seeders, ScriptEnds(s) \/ Crash(s) \/ Fails(s)
  PROVE  After(job'[s])
<1>0. TypeOK
  BY Parts
<1>1. PICK j : Continue(s, j) /\ JobOK(j) /\ (j = NoJob \/ j.failed)
  <2>1. CASE ScriptEnds(s) \/ Crash(s)
    BY <2>1, NoJobOK DEF ScriptEnds, Crash
  <2>2. CASE Continue(s, Thrown(s))
    BY <1>0, <2>2, ThrownOK
  <2>3. CASE Fails(s) /\ ~Continue(s, Thrown(s))
    <3>1. PICK r : Continue(s, WithoutRole(s, r))
      BY <2>3 DEF Fails
    <3> QED
      BY <1>0, <3>1, FailedOK
  <2> QED
    BY <2>1, <2>2, <2>3
<1>2. job'[s] = j
  BY <1>1, SeederStep DEF IInv
<1> QED
  BY <1>1, <1>2, ProgressVoid DEF After

InProgress == \A s \in Seeders : Progress(job[s], orgs, roles, perms, granted, edited)

LEMMA InProgressKept ==
  ASSUME IInv, InProgress, [Next]_vars
  PROVE  InProgress'
<1>1. Grown /\ \A s \in Seeders : After(job[s])
  BY Parts, JobsOK, Grows, AfterGrowth DEF InProgress
<1>2. CASE job' = job
  <2>1. \A s \in Seeders : After(job'[s])
    BY <1>1, <1>2
  <2> QED
    BY <2>1 DEF InProgress, After
<1>3. ASSUME NEW s \in Seeders, StartScript(s) \/ Advances(s) \/ Fails(s) \/ Crash(s)
      PROVE  InProgress'
  <2>1. After(job'[s])
    <3>1. Progress(job[s], orgs, roles, perms, granted, edited)
      BY DEF InProgress
    <3> QED
      BY <1>1, <1>3, <3>1, ProgressStarts, ProgressNext, ProgressEnds, ProgressUpserts,
         ProgressLooks, ProgressPutsOrg, ProgressPutsRole, ProgressGrants, ProgressPutsUser DEF Advances
  <2>2. \A p \in Seeders \ {s} : job'[p] = job[p]
    <3>1. \E j : Continue(s, j)
      BY <1>3 DEF StartScript, Advances, Fails, Crash, NextStage, ScriptEnds, LookForOrg, PutOrg,
             UpsertPermission, UpsertAdminRole, Upsert, LookForRole, PutRole, LookForGrant, Grant,
             LookForUser,
             PutUser
    <3> QED
      BY <3>1 DEF Continue, IInv, SeedersOK
  <2>3. \A p \in Seeders : After(job'[p])
    BY <1>1, <2>1, <2>2
  <2> QED
    BY <2>3 DEF InProgress, After
<1>4. \/ job' = job
      \/ \E s \in Seeders : StartScript(s) \/ Advances(s) \/ Fails(s) \/ Crash(s)
  BY DEF Next, Login, Arrives, Proceeds, Abort, DeleteUsers, CreateOrgBegin, SetPermissionsBegin,
         CreateUserBegin, UpdateUserBegin, CreateOrgRole, CreateOrgRolesDone, CreateOrgGrant,
         CreateOrgEnd, CheckHierarchy, ClearPermissions, FillPermissions, ReadLevel,
         CreateUserCheck, CreateUserInsert, UpdateUserCheck, UpdateUserWrite, vars
<1> QED
  BY <1>2, <1>3, <1>4

LEMMA ProvisionedAtEnd ==
  ASSUME IInv, InProgress, NEW s \in Seeders, ScriptEnds(s), job[s].script = "all",
         ~job[s].failed
  PROVE  Provisioned(s)
<1> DEFINE i == job[s]
<1>1. i \in Job /\ i.at = 6 /\ i.script = "all" /\ i.todo = {} /\ i.now = {}
  BY Parts, JobsOK, AllStages DEF ScriptEnds, LoopDone
<1>2. /\ OrgsDone(i, orgs) /\ TemplatesDone(i, roles) /\ RolesDone(i, roles)
      /\ PermsDone(i, perms) /\ GrantsDone(i, granted, edited)
  BY <1>1 DEF InProgress, Progress
<1>3. SeedOrgs \subseteq orgs /\ Known \subseteq perms
  BY <1>1, <1>2 DEF OrgsDone, PermsDone
<1>4. \A c \in Codes : Named(Global, c) # {}
  BY <1>1, <1>2 DEF TemplatesDone, Named, NamedIn
<1>5. /\ SeedOrgs \subseteq i.listed
      /\ \A o \in i.listed, c \in Codes \cap OrgCodes : OrgRole(o, c) \in roles
  BY <1>1, <1>2 DEF RolesDone
<1>6. \A o \in i.listed, c \in Codes \cap OrgCodes :
        OrgRole(o, c) \notin edited => SeededMapping[c] \cap Known \subseteq granted[OrgRole(o, c)]
  BY <1>1, <1>2 DEF GrantsDone
<1> HIDE DEF i
<1> QED
  BY <1>3, <1>4, <1>5, <1>6 DEF Provisioned, i

\* When the full seeding ends without an exception, whatever state interrupted
\* runs or half-made organisations left, and whatever ran meanwhile, what the
\* seeders are there for is there.
THEOREM SeedingComplete == Spec => SeedingProvisions
<1> DEFINE Inv == IInv /\ AccountsOK /\ InProgress
           Act == \A s \in Seeders :
                    ScriptEnds(s) /\ job[s].script = "all" /\ ~job[s].failed => Provisioned(s)
<1>1. Init => Inv
  <2>1. Init => InProgress
    BY ProgressVoid DEF Init, InProgress
  <2> QED
    BY <2>1, InitTyped
<1>2. Inv /\ [Next]_vars => Inv'
  BY NextTyped, InProgressKept
<1>3. Inv /\ [Next]_vars => [Act]_vars
  BY ProvisionedAtEnd
<1> QED
  BY <1>1, <1>2, <1>3, PTL DEF Spec, SeedingProvisions

---------------------------------------------------------------------------
\* Roles nobody edited have permissions of the two mappings only

\* A permission one of the two mappings gives the role r.
FromMappings(r, p) ==
    \/ p \in SeededMapping[r.code]
    \/ r.code \in OrgCodes /\ p \in FoundedMapping[r.code]

\* What a script, and a request, is about to grant comes from a mapping; the
\* role a request is about to fill counts as edited.
ToGrant(j) ==
    StageOf(j) = "grants" => \A l \in j.todo \cup j.now : FromMappings(l.role, l.perm)

ToFound(call, r, ed) ==
    /\ call = "orgGrants" => \A l \in r.todo : FromMappings(l.role, l.perm)
    /\ call = "fill" => r.role \in ed

\* What the rows of role_permissions say already does.
RowsMapped(g, ed) == \A r \in RoleIds \ ed : \A p \in g[r] : FromMappings(r, p)

Mapped ==
    /\ \A s \in Seeders : ToGrant(job[s])
    /\ \A q \in Requests : ToFound(pc[q], req[q], edited)
    /\ RowsMapped(granted, edited)

LEMMA SeededLinks ==
  ASSUME NEW rs, NEW l \in LinksTo(SeededMapping, rs)
  PROVE  FromMappings(l.role, l.perm)
  BY LinkIn DEF FromMappings

LEMMA FoundedLinks ==
  ASSUME NEW o, NEW l \in LinksTo(FoundedMapping, { OrgRole(o, c) : c \in Codes \cap OrgCodes })
  PROVE  FromMappings(l.role, l.perm)
<1>1. PICK c \in Codes \cap OrgCodes :
        l \in [role : {OrgRole(o, c)}, perm : FoundedMapping[OrgRole(o, c).code] \cap Kept]
  BY LinkIn
<1> QED
  BY <1>1 DEF FromMappings, OrgRole

\* An exception leaves nothing to do in the loop it leaves.
LEMMA NothingThrown ==
  ASSUME TypeOK, NEW s \in Seeders
  PROVE  Thrown(s).todo = {} /\ Thrown(s).now = {}
<1>1. job[s] \in Job /\ NoJob.todo = {} /\ NoJob.now = {}
  BY JobsOK DEF NoJob
<1> QED
  BY <1>1 DEF Thrown, Job

\* What a script is about to grant is in the mapping: the list is the mapping
\* when the stage begins, and only becomes shorter.
LEMMA ToGrantStep ==
  ASSUME IInv, NEW s \in Seeders, ToGrant(job[s]),
         StartScript(s) \/ Advances(s) \/ Fails(s) \/ Crash(s)
  PROVE  \E j : Continue(s, j) /\ JobOK(j) /\ ToGrant(j)
<1>0. TypeOK
  BY Parts
<1>1. CASE StartScript(s)
  <2>1. PICK x \in DOMAIN Scripts :
          Continue(s, [NoJob EXCEPT !.script = x, !.at = 1, !.todo = TodoOf(x, StageAt(x, 1))])
    BY <1>1 DEF StartScript
  <2> DEFINE j == [NoJob EXCEPT !.script = x, !.at = 1, !.todo = TodoOf(x, StageAt(x, 1))]
  <2>2. /\ JobOK(j) /\ j.todo = TodoOf(x, StageAt(x, 1)) /\ j.now = {} /\ j.at = 1
        /\ j.script = x
    BY <1>0, BegunOK
  <2>3. Continue(s, j)
    BY <2>1
  <2> HIDE DEF j
  <2>4. StageOf(j) = "grants" => j.todo = LinksTo(SeededMapping, roles)
    BY <2>2 DEF StageOf, TodoOf
  <2> QED
    BY <2>2, <2>3, <2>4, SeededLinks DEF ToGrant
<1>2. CASE NextStage(s)
  <2>1. PICK j : /\ Continue(s, j) /\ JobOK(j)
                 /\ j.todo = TodoOf(job[s].script, StageAt(job[s].script, job[s].at + 1))
                 /\ j.now = {} /\ j.at = job[s].at + 1 /\ j.script = job[s].script
    BY <1>0, <1>2, StageBegun
  <2>2. StageOf(j) = "grants" => j.todo = LinksTo(SeededMapping, roles)
    BY <2>1 DEF StageOf, TodoOf
  <2> QED
    BY <2>1, <2>2, SeededLinks DEF ToGrant
<1>3. CASE ScriptEnds(s) \/ Crash(s)
  BY <1>3, NoJobOK DEF ScriptEnds, Crash, ToGrant, StageOf
<1>4. CASE UpsertPermission(s) \/ UpsertAdminRole(s)
  <2>1. PICK t : Continue(s, Past(s, t))
    BY <1>4 DEF UpsertPermission, UpsertAdminRole, Upsert
  <2> QED
    BY <1>0, <2>1, PastOK, StageIs DEF ToGrant
<1>5. CASE LookForRole(s)
  <2>1. PICK j : Continue(s, j) /\ JobOK(j) /\ StageOf(j) = Stage(s)
    BY <1>0, <1>5, RoleLooked
  <2> QED
    BY <1>5, <2>1 DEF LookForRole, ToGrant
<1>6. CASE LookForUser(s)
  <2>1. PICK j : Continue(s, j) /\ JobOK(j) /\ StageOf(j) = Stage(s)
    BY <1>0, <1>6, UserLooked
  <2> QED
    BY <1>6, <2>1 DEF LookForUser, ToGrant
<1>7. CASE PutOrg(s) \/ PutRole(s) \/ Grant(s) \/ PutUser(s)
  <2>1. Continue(s, Settled(s)) \/ Continue(s, Thrown(s)) \/ \E r : Continue(s, WithoutRole(s, r))
    BY <1>7, GrantForms DEF PutOrg, PutRole, PutUser
  <2>2. StageOf(Settled(s)) = StageOf(job[s])
    BY <1>0, SettledOK DEF StageOf
  <2> QED
    BY <1>0, <2>1, <2>2, SettledOK, ThrownOK, FailedOK, NothingThrown, StageIs DEF ToGrant
<1>8. CASE Fails(s)
  <2>1. CASE Continue(s, Thrown(s))
    BY <1>0, <2>1, ThrownOK, NothingThrown DEF ToGrant
  <2>2. CASE ~Continue(s, Thrown(s))
    <3>1. PICK r : Continue(s, WithoutRole(s, r))
      BY <1>8, <2>2 DEF Fails
    <3> QED
      BY <1>0, <3>1, FailedOK, StageIs DEF ToGrant
  <2> QED
    BY <2>1, <2>2
<1>9. CASE LookForOrg(s) \/ LookForGrant(s)
  <2>1. PICK k \in job[s].todo : \E j :
          /\ Continue(s, j) /\ JobOK(j) /\ StageOf(j) = Stage(s) /\ j.todo = job[s].todo \ {k}
          /\ \/ j.now = {k}
             \/ /\ j.now = {}
                /\ (LookForOrg(s) => k \in orgs)
                /\ (LookForGrant(s) => k.perm \notin perms \ granted[k.role])
          /\ j.at = job[s].at /\ j.script = job[s].script
          /\ j.listed = job[s].listed /\ j.failed = job[s].failed
    BY <1>0, <1>9, RowLooked
  <2>2. PICK j :
          /\ Continue(s, j) /\ JobOK(j) /\ StageOf(j) = Stage(s) /\ j.todo = job[s].todo \ {k}
          /\ \/ j.now = {k}
             \/ /\ j.now = {}
                /\ (LookForOrg(s) => k \in orgs)
                /\ (LookForGrant(s) => k.perm \notin perms \ granted[k.role])
          /\ j.at = job[s].at /\ j.script = job[s].script
          /\ j.listed = job[s].listed /\ j.failed = job[s].failed
    BY <2>1
  <2>3. j.todo \cup j.now \subseteq job[s].todo
    BY <2>2
  <2> QED
    BY <1>0, <2>2, <2>3, StageIs DEF ToGrant
<1> QED
  BY <1>1, <1>2, <1>3, <1>4, <1>5, <1>6, <1>7, <1>8, <1>9 DEF Advances

LEMMA ToGrantKept ==
  ASSUME IInv, Mapped, [Next]_vars
  PROVE  \A s \in Seeders : ToGrant(job'[s])
<1>1. \A s \in Seeders : ToGrant(job[s])
  BY DEF Mapped
<1>2. CASE job' = job
  BY <1>1, <1>2
<1>3. ASSUME NEW s \in Seeders, StartScript(s) \/ Advances(s) \/ Fails(s) \/ Crash(s)
      PROVE  \A p \in Seeders : ToGrant(job'[p])
  <2>1. PICK j : Continue(s, j) /\ JobOK(j) /\ ToGrant(j)
    BY <1>1, <1>3, ToGrantStep
  <2>2. job'[s] = j /\ \A p \in Seeders \ {s} : job'[p] = job[p]
    BY <2>1, SeederStep DEF IInv
  <2> QED
    BY <1>1, <2>1, <2>2
<1>4. \/ job' = job
      \/ \E s \in Seeders : StartScript(s) \/ Advances(s) \/ Fails(s) \/ Crash(s)
  BY DEF Next, Login, Arrives, Proceeds, Abort, DeleteUsers, CreateOrgBegin, SetPermissionsBegin,
         CreateUserBegin, UpdateUserBegin, CreateOrgRole, CreateOrgRolesDone, CreateOrgGrant,
         CreateOrgEnd, CheckHierarchy, ClearPermissions, FillPermissions, ReadLevel,
         CreateUserCheck, CreateUserInsert, UpdateUserCheck, UpdateUserWrite, vars
<1> QED
  BY <1>2, <1>3, <1>4

\* What a request is about to grant is in the mapping of a new organisation; a
\* role that is about to be filled counts as edited.
LEMMA ToFoundRests ==
  ASSUME NEW p, NEW hit, Rests(p, hit), req[p] \in Request, ToFound(pc[p], req[p], edited),
         edited \subseteq edited'
  PROVE  ToFound(pc'[p], req'[p], edited')
<1>1. req'[p].todo = req[p].todo /\ req'[p].role = req[p].role /\ pc'[p] = pc[p]
  BY DEF Rests, Shaken, Request
<1> QED
  BY <1>1 DEF ToFound

LEMMA ToFoundMoves ==
  ASSUME IInv, NEW q \in Requests, Moves(q), ToFound(pc[q], req[q], edited)
  PROVE  ToFound(pc'[q], req'[q], edited')
<1>0. /\ pc \in [Requests -> Calls] /\ req \in [Requests -> Request] /\ pc[q] \in Calls
      /\ req[q] \in Request
  BY DEF IInv, SlotsOK
<1>1. CASE CreateOrgRolesDone(q)
  <2> DEFINE todo == LinksTo(FoundedMapping, { OrgRole(req[q].org, c) : c \in Codes \cap OrgCodes })
             r == [req[q] EXCEPT !.todo = todo]
  <2>1. pc' = [pc EXCEPT ![q] = "orgGrants"] /\ req' = [req EXCEPT ![q] = r]
    BY <1>1 DEF CreateOrgRolesDone, Keep
  <2>2. \A l \in todo : FromMappings(l.role, l.perm)
    BY FoundedLinks
  <2> HIDE DEF todo
  <2>3. r.todo = todo
    BY <1>0 DEF Request
  <2> HIDE DEF r
  <2>4. req'[q] = r /\ pc'[q] = "orgGrants"
    BY <1>0, <2>1
  <2> QED
    BY <2>2, <2>3, <2>4 DEF ToFound
<1>2. CASE CreateOrgGrant(q)
  <2>1. PICK l \in Coming(req[q].todo) :
          \/ Finish(q, {})
          \/ /\ pc' = pc
             /\ req' = [Disturbed({l.role}) EXCEPT ![q] = [req[q] EXCEPT !.todo = req[q].todo \ {l}]]
    BY <1>2 DEF CreateOrgGrant
  <2>2. CASE Finish(q, {})
    BY <1>0, <2>2 DEF Finish, ToFound
  <2>3. CASE /\ pc' = pc
             /\ req' = [Disturbed({l.role}) EXCEPT ![q] = [req[q] EXCEPT !.todo = req[q].todo \ {l}]]
    <3>1. req'[q] = [req[q] EXCEPT !.todo = req[q].todo \ {l}]
      BY <2>3 DEF Disturbed
    <3>2. req'[q].todo \subseteq req[q].todo
      BY <1>0, <3>1 DEF Request
    <3>3. pc'[q] = "orgGrants" /\ pc[q] = "orgGrants"
      BY <1>2, <2>3 DEF CreateOrgGrant
    <3> QED
      BY <3>2, <3>3 DEF ToFound
  <2> QED
    BY <2>1, <2>2, <2>3
<1>3. CASE ClearPermissions(q)
  <2>1. /\ pc'[q] = "fill" /\ req'[q] = req[q] /\ req[q].role \in edited'
    BY <1>0, <1>3 DEF ClearPermissions, Disturbed
  <2> QED
    BY <2>1 DEF ToFound
<1>4. CASE ~(CreateOrgRolesDone(q) \/ CreateOrgGrant(q) \/ ClearPermissions(q))
  <2>1. pc'[q] \notin {"orgGrants", "fill"}
    BY <1>0, <1>4
       DEF Moves, Arrives, Proceeds, Abort, DeleteUsers, CreateOrgBegin, SetPermissionsBegin,
           CreateUserBegin, UpdateUserBegin, CreateOrgRole, CreateOrgEnd, CheckHierarchy,
           FillPermissions, ReadLevel, CreateUserCheck, CreateUserInsert, UpdateUserCheck,
           UpdateUserWrite, Start, Keep, Goto, Finish
  <2> QED
    BY <2>1 DEF ToFound
<1> QED
  BY <1>1, <1>2, <1>3, <1>4

LEMMA ToFoundKept ==
  ASSUME IInv, Mapped, [Next]_vars
  PROVE  \A p \in Requests : ToFound(pc'[p], req'[p], edited')
<1> SUFFICES ASSUME NEW p \in Requests PROVE ToFound(pc'[p], req'[p], edited')
  OBVIOUS
<1>1. ToFound(pc[p], req[p], edited) /\ req[p] \in Request
  BY DEF Mapped, IInv, SlotsOK
<1>2. edited \subseteq edited'
  BY Grows DEF Grown
<1>3. (\E hit : Rests(p, hit)) \/ Moves(p)
  BY OthersRest
<1> QED
  BY <1>1, <1>2, <1>3, ToFoundRests, ToFoundMoves

\* One permission the mappings give the role is inserted.
LEMMA MappedLink ==
  ASSUME RowsOK, RowsMapped(granted, edited), NEW l, FromMappings(l.role, l.perm),
         granted' = [granted EXCEPT ![l.role] = @ \cup ({l.perm} \cap perms)]
  PROVE  RowsMapped(granted', edited)
<1> SUFFICES ASSUME NEW r \in RoleIds \ edited, NEW p \in granted'[r] PROVE FromMappings(r, p)
  BY DEF RowsMapped
<1>1. p \in granted[r] \/ (r = l.role /\ p = l.perm)
  BY DEF RowsOK
<1> QED
  BY <1>1 DEF RowsMapped

LEMMA RowsMappedKept ==
  ASSUME IInv, Mapped, [Next]_vars
  PROVE  RowsMapped(granted', edited')
<1>0. RowsMapped(granted, edited)
  BY DEF Mapped
<1>1. CASE UNCHANGED granted /\ edited \subseteq edited'
  BY <1>0, <1>1 DEF RowsMapped
<1>2. ASSUME NEW s \in Seeders, Grant(s)
      PROVE  RowsMapped(granted', edited')
  <2>1. PICK l \in job[s].now :
          \/ granted' = [granted EXCEPT ![l.role] = @ \cup ({l.perm} \cap perms)]
          \/ granted' = granted
    BY <1>2, GrantForms
  <2>2. FromMappings(l.role, l.perm)
    <3>1. StageOf(job[s]) = "grants" /\ ToGrant(job[s])
      BY <1>2, StageIs DEF Grant, Mapped
    <3> QED
      BY <3>1 DEF ToGrant
  <2>3. edited' = edited
    BY <1>2 DEF Grant
  <2> QED
    BY <1>0, <2>1, <2>2, <2>3, MappedLink DEF IInv
<1>3. ASSUME NEW q \in Requests, CreateOrgGrant(q)
      PROVE  RowsMapped(granted', edited')
  <2>1. PICK l \in Coming(req[q].todo) :
          granted' = [granted EXCEPT ![l.role] = @ \cup ({l.perm} \cap perms)]
    BY <1>3 DEF CreateOrgGrant
  <2>2. FromMappings(l.role, l.perm)
    <3>1. pc[q] = "orgGrants" /\ ToFound(pc[q], req[q], edited)
      BY <1>3 DEF CreateOrgGrant, Mapped
    <3> QED
      BY <3>1, ComingIn DEF ToFound
  <2>3. edited' = edited
    BY <1>3 DEF CreateOrgGrant
  <2> QED
    BY <1>0, <2>1, <2>2, <2>3, MappedLink DEF IInv
<1>4. ASSUME NEW q \in Requests, ClearPermissions(q) \/ FillPermissions(q)
      PROVE  RowsMapped(granted', edited')
  <2>1. req[q].role \in edited' /\ edited \subseteq edited'
    <3>1. CASE ClearPermissions(q)
      BY <3>1 DEF ClearPermissions
    <3>2. CASE FillPermissions(q)
      BY <3>2 DEF FillPermissions, Mapped, ToFound
    <3> QED
      BY <1>4, <3>1, <3>2
  <2>2. granted' = granted \/ \E ps : granted' = [granted EXCEPT ![req[q].role] = ps]
    BY <1>4 DEF ClearPermissions, FillPermissions
  <2>3. \A r \in RoleIds \ edited' : granted'[r] = granted[r]
    BY <2>1, <2>2 DEF IInv, RowsOK
  <2> QED
    BY <1>0, <2>1, <2>3 DEF RowsMapped
<1>5. \/ UNCHANGED granted /\ edited \subseteq edited'
      \/ \E s \in Seeders : Grant(s)
      \/ \E q \in Requests : CreateOrgGrant(q) \/ ClearPermissions(q) \/ FillPermissions(q)
  <2>1. edited \subseteq edited'
    BY Grows DEF Grown
  <2> QED
    BY <2>1
       DEF Next, StartScript, Advances, Fails, Crash, Login, Arrives, Proceeds, Abort, tables, vars,
           NextStage, ScriptEnds, LookForOrg, PutOrg, UpsertPermission, UpsertAdminRole, Upsert,
           LookForRole, PutRole, LookForGrant, LookForUser, PutUser,
           CreateOrgBegin, SetPermissionsBegin, CreateUserBegin, UpdateUserBegin, DeleteUsers,
           CreateOrgRole, CreateOrgRolesDone, CreateOrgEnd, CheckHierarchy, ReadLevel,
           CreateUserCheck, CreateUserInsert, UpdateUserCheck, UpdateUserWrite
<1> QED
  BY <1>1, <1>2, <1>3, <1>4, <1>5

LEMMA MappedKept ==
  ASSUME IInv, Mapped, [Next]_vars
  PROVE  Mapped'
<1>1. /\ \A s \in Seeders : ToGrant(job'[s])
      /\ \A q \in Requests : ToFound(pc'[q], req'[q], edited')
      /\ RowsMapped(granted', edited')
  BY ToGrantKept, ToFoundKept, RowsMappedKept
<1>2. \A s \in Seeders : ToGrant(job[s])'
  BY <1>1 DEF ToGrant, StageOf, StageAt
<1> QED
  BY <1>1, <1>2 DEF Mapped, ToFound, RowsMapped

LEMMA InitMapped == Init => Mapped
<1> SUFFICES ASSUME Init PROVE Mapped
  OBVIOUS
<1>1. \A s \in Seeders : ToGrant(job[s])
  BY NoJobOK DEF Init, ToGrant, StageOf
<1>2. \A q \in Requests : ToFound(pc[q], req[q], edited)
  BY DEF Init, ToFound
<1>3. RowsMapped(granted, edited)
  BY DEF Init, RowsMapped, FromMappings
<1> QED
  BY <1>1, <1>2, <1>3 DEF Mapped

---------------------------------------------------------------------------
\* How far those permissions reach

LEMMA OrgCodesAre == OrgCodes = {"ADMIN", "MANAGER", "PARTNER", "VIEWER", "HOSTESS"}
  BY DEF OrgCodes, RoleCodes, Level

\* What a permission either mapping gives a role of an organisation looks like.
LEMMA MappedShape ==
  ASSUME NEW r, r.code \in OrgCodes, NEW p, FromMappings(r, p)
  PROVE  /\ p.scope # "any"
         /\ p.on = "users" /\ p.do = "read" =>
              p.scope = IF r.code \in {"ADMIN", "MANAGER"} THEN "org" ELSE "own"
         /\ p.on = "events" /\ p.do = "read" =>
              p.scope = IF r.code \in {"PARTNER", "HOSTESS"} THEN "assigned" ELSE "org"
<1>1. CASE r.code = "ADMIN"
  <2>1. p \in AdminMapping \/ p \in FoundedAdmin
    BY <1>1 DEF FromMappings, SeededMapping, FoundedMapping
  <2> QED
    BY <1>1, <2>1 DEF AdminMapping, FoundedAdmin, On, Edits, Reads, AttendeePermissions,
       InvitationPermissions, ReportPermissions
<1>2. CASE r.code = "MANAGER"
  <2>1. p \in ManagerMapping \/ p \in FoundedManager
    BY <1>2 DEF FromMappings, SeededMapping, FoundedMapping
  <2> QED
    BY <1>2, <2>1 DEF ManagerMapping, FoundedManager, On, Edits, Reads, ReportPermissions
<1>3. CASE r.code = "PARTNER"
  <2>1. p \in PartnerMapping \/ p \in FoundedPartner
    BY <1>3 DEF FromMappings, SeededMapping, FoundedMapping
  <2> QED
    BY <1>3, <2>1 DEF PartnerMapping, FoundedPartner, On, Reads
<1>4. CASE r.code = "VIEWER"
  <2>1. p \in ViewerMapping \/ p \in FoundedViewer
    BY <1>4 DEF FromMappings, SeededMapping, FoundedMapping
  <2> QED
    BY <1>4, <2>1 DEF ViewerMapping, FoundedViewer, On, Reads, ReportPermissions
<1>5. CASE r.code = "HOSTESS"
  <2>1. p \in HostessMapping \/ p \in FoundedHostess
    BY <1>5 DEF FromMappings, SeededMapping, FoundedMapping
  <2> QED
    BY <1>5, <2>1 DEF HostessMapping, FoundedHostess, On, Reads
<1> QED
  BY <1>1, <1>2, <1>3, <1>4, <1>5, OrgCodesAre

\* MANAGER and VIEWER have events.read:org from either mapping.
LEMMA EventsRead ==
  ASSUME NEW r, r.code \in {"MANAGER", "VIEWER"}, NEW G,
         SeededMapping[r.code] \cap Known \subseteq G \/ FoundedMapping[r.code] \cap Known \subseteq G
  PROVE  Holds(G, "events", "read", "org")
<1> DEFINE p == [on |-> "events", do |-> "read", scope |-> "org"]
<1>1. p \in Kept /\ p \in Catalogue
  BY KeptAssumption DEF On, Reads, Catalogue, EventPermissions, AnyOrg, Edits
<1>2. p \in On("events", Reads, {"org"}) /\ p \in On("events", {"read", "create", "update", "publish"}, {"org"})
  BY DEF On, Reads
<1> HIDE DEF p
<1>3. p \in ManagerMapping /\ p \in ViewerMapping /\ p \in FoundedManager
  BY <1>2 DEF ManagerMapping, ViewerMapping, FoundedManager
<1>4. p \in FoundedViewer
  BY <1>2 DEF FoundedViewer
<1>5. p \in SeededMapping[r.code] /\ p \in FoundedMapping[r.code]
  BY <1>3, <1>4 DEF SeededMapping, FoundedMapping
<1> QED
  BY <1>1, <1>5 DEF Known, Holds, p

Resources == {"organizations", "users", "events", "attendees", "registrations", "badge-templates",
              "badges", "roles", "invitations", "analytics", "reports"}

LEMMA CatalogueResources ==
  ASSUME NEW p \in Catalogue
  PROVE  p.on \in Resources
  BY DEF Catalogue, OrganizationPermissions, UserPermissions, EventPermissions, AttendeePermissions,
     RegistrationPermissions, TemplatePermissions, BadgePermissions, RolePermissions,
     InvitationPermissions, ReportPermissions, On, Resources

\* What the rules sent to the front end show as possible, the guard lets through.
LEMMA ShownAllowed ==
  ASSUME NEW c \in OrgCodes, NEW G \in SUBSET Catalogue
  PROVE  ShownIsAllowed(c, G)
<1> SUFFICES ASSUME NEW rule \in Policy(c, G), rule.verb \in Edits \cup Reads,
                    NEW on \in DOMAIN Subject, rule.subject = Subject[on]
             PROVE  Can(Ability(c, G), rule.verb, rule.subject)
  BY DEF ShownIsAllowed
<1>0. c # "SUPER_ADMIN"
  BY DEF OrgCodes
<1>1. PICK p \in G :
        /\ rule.verb = p.do
        /\ rule.subject = IF p.on \in DOMAIN Subject \ {"registrations"} THEN Subject[p.on] ELSE p.on
  BY <1>0 DEF Policy
<1>2. p.on \in Resources
  BY CatalogueResources
<1>3. p.on \in DOMAIN Subject \ {"registrations"} /\ rule.subject = Subject[p.on]
  <2>1. Subject[on] \in {"User", "Organization", "Event", "Attendee", "Registration", "Role",
                         "Invitation", "Analytics", "Report"}
    BY DEF Subject
  <2>2. p.on \notin {"User", "Organization", "Event", "Attendee", "Registration", "Role",
                     "Invitation", "Analytics", "Report"}
    BY <1>2 DEF Resources
  <2> QED
    BY <1>1, <2>1, <2>2
<1>4. p.do \in DOMAIN Verb /\ Verb[p.do] = p.do
  BY <1>1 DEF Edits, Reads, Verb
<1>5. CASE c = "ADMIN"
  BY <1>5 DEF Ability, Can, Rule
<1>6. CASE c # "ADMIN"
  <2>1. Rule(Verb[p.do], Subject[p.on]) \in Ability(c, G)
    BY <1>0, <1>3, <1>4, <1>6 DEF Ability
  <2>2. /\ Rule(Verb[p.do], Subject[p.on]).verb = rule.verb
        /\ Rule(Verb[p.do], Subject[p.on]).subject = rule.subject
    BY <1>1, <1>3, <1>4 DEF Rule
  <2> QED
    BY <2>1, <2>2 DEF Can
<1> QED
  BY <1>5, <1>6

\* Permissions that come from the mappings reach as far as the scope utilities say.
LEMMA MappedReach ==
  ASSUME NEW r, r.code \in OrgCodes, NEW G \in SUBSET Known, \A p \in G : FromMappings(r, p),
         SeededMapping[r.code] \cap Known \subseteq G \/ FoundedMapping[r.code] \cap Known \subseteq G
  PROVE  /\ ReadReach(r.code, G) = CommentedRead(r.code)
         /\ WriteReach(r.code, G) = CommentedWrite(r.code)
<1>1. \A p \in G : /\ p.scope # "any"
                   /\ p.on = "users" /\ p.do = "read" =>
                        p.scope = IF r.code \in {"ADMIN", "MANAGER"} THEN "org" ELSE "own"
                   /\ p.on = "events" /\ p.do = "read" =>
                        p.scope = IF r.code \in {"PARTNER", "HOSTESS"} THEN "assigned" ELSE "org"
  BY MappedShape
<1>2. \A on : ~Anywhere(G, on) /\ ~Holds(G, on, "read", "any")
  BY <1>1 DEF Anywhere, Holds
<1>3. r.code # "SUPER_ADMIN" /\ r.code \in {"ADMIN", "MANAGER", "PARTNER", "VIEWER", "HOSTESS"}
  BY OrgCodesAre
<1>4. UserReadScope(r.code, G) = CommentedRead(r.code).users
  <2>1. CASE r.code \in {"ADMIN", "MANAGER"}
    <3>1. ~Holds(G, "users", "read", "own")
      BY <1>1, <2>1 DEF Holds
    <3> QED
      BY <1>2, <1>3, <2>1, <3>1 DEF UserReadScope, CommentedRead
  <2>2. CASE r.code \notin {"ADMIN", "MANAGER"}
    <3>1. ~Holds(G, "users", "read", "org")
      BY <1>1, <2>2 DEF Holds
    <3> QED
      BY <1>2, <1>3, <2>2, <3>1 DEF UserReadScope, CommentedRead
  <2> QED
    BY <2>1, <2>2
<1>5. EventReadScope(r.code, G) = CommentedRead(r.code).events
  <2>1. CASE r.code \in {"PARTNER", "HOSTESS"}
    <3>1. ~Holds(G, "events", "read", "org")
      BY <1>1, <2>1 DEF Holds
    <3> QED
      BY <1>2, <1>3, <2>1, <3>1 DEF EventReadScope, CommentedRead
  <2>2. CASE r.code \in {"MANAGER", "VIEWER"}
    BY <1>2, <1>3, <2>2, EventsRead DEF EventReadScope, CommentedRead
  <2>3. CASE r.code = "ADMIN"
    BY <1>2, <1>3, <2>3 DEF EventReadScope, CommentedRead
  <2> QED
    BY <1>3, <2>1, <2>2, <2>3
<1>6. ReadReach(r.code, G) = CommentedRead(r.code)
  BY <1>2, <1>3, <1>4, <1>5
     DEF ReadReach, CommentedRead, AttendeeReadScope, RegistrationReadScope
<1>7. WriteReach(r.code, G) = CommentedWrite(r.code)
  BY <1>2, <1>3 DEF WriteReach, CommentedWrite, UserWriteScope, EventWriteScope, AttendeeWriteScope,
     RegistrationWriteScope
<1> QED
  BY <1>6, <1>7

\* Whichever of the two mappings a role's permissions come from, or both, and
\* whatever scripts and requests wrote them, in whatever order: its users reach
\* as far as the comments of the scope utilities say, and the guard lets through
\* what the front end is shown.
THEOREM ReachCommented == Spec => []ReachAsCommented
<1> DEFINE Inv == IInv /\ AccountsOK /\ Mapped
<1>1. Init => Inv
  BY InitTyped, InitMapped
<1>2. Inv /\ [Next]_vars => Inv'
  BY NextTyped, MappedKept
<1>3. Inv => ReachAsCommented
  <2> SUFFICES ASSUME Inv, NEW r \in roles \ edited, r.code \in OrgCodes, MappingComplete(r)
               PROVE  /\ ReadReach(r.code, granted[r]) = CommentedRead(r.code)
                      /\ WriteReach(r.code, granted[r]) = CommentedWrite(r.code)
                      /\ ShownIsAllowed(r.code, granted[r])
    BY DEF ReachAsCommented
  <2>1. r \in RoleIds \ edited /\ granted[r] \in SUBSET Known
    BY DEF IInv, RowsOK
  <2>2. granted[r] \in SUBSET Catalogue
    BY <2>1 DEF Known
  <2>3. \A p \in granted[r] : FromMappings(r, p)
    BY <2>1 DEF Mapped, RowsMapped
  <2> QED
    BY <2>1, <2>2, <2>3, MappedReach, ShownAllowed DEF MappingComplete
<1> QED
  BY <1>1, <1>2, <1>3, PTL DEF Spec

=============================================================================
