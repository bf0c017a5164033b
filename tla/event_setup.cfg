SPECIFICATION FairSpec
CONSTANTS
    Requests = {q1, q2}
    t1 = t1
    t2 = t2
    t3 = t3
    r1 = r1
    r2 = r2
    k1 = k1
    g1 = g1
    c1 = c1
    c2 = c2
    Templates = {t1, t2, t3}
    Rules = {r1, r2}
    Types = {k1}
    Users = {u1}
    Registrations = {g1}
    Codes = {c1, c2}
    Scopes = {"all", "event"}
    ScopeOf <- MCScopeOf
    Priorities = {1}
    Patches <- MCPatches
    NoTemplate = NoTemplate
    Undefined = Undefined
    Starts <- MCStarts
    MaxStarted = 2
INVARIANTS TypeOK ReplacedAsAsked ChecksSuffice
PROPERTIES DefaultReplaces EveryRequestEnds
CHECK_DEADLOCK FALSE
