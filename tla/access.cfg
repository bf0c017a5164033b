SPECIFICATION Spec
CONSTANTS
    acme = acme
    fresh = fresh
    jane = jane
    bob = bob
    eve = eve
    extra = extra
    s1 = s1
    s2 = s2
    q1 = q1
    q2 = q2
    Orgs = {acme, fresh}
    SeedOrgs = {acme}
    DemoOrg = acme
    Global = Global
    Codes = {"SUPER_ADMIN", "ADMIN", "MANAGER", "HOSTESS"}
    Kept <- MCKept
    Users = {jane, bob, eve, extra}
    Nobody = Nobody
    Emails = {jane, bob, eve, extra}
    SeedUsers <- MCSeedUsers
    AdminUser <- MCAdminUser
    Requests = {q1, q2}
    Seeders = {s1, s2}
    MaxCopies = 3
    Wishes <- MCWishes
    Asked <- MCAsked
    NewUsers <- MCNewUsers
    Patches <- MCPatches
    Loads <- MCLoads
INVARIANTS TemplatesBounded ReachAsCommented
PROPERTIES SeedingProvisions ReplacedAlone RanksRespectedAlone
CHECK_DEADLOCK FALSE
