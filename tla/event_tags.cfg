SPECIFICATION FairSpec
CONSTANTS
    Requests = {q1, q2}
    Events = {e1, e2}
    Tags = {t1, t2}
    NoEvent = NoEvent
    PoolSize = 2
    MaxStarted = 3
INVARIANTS TypeOK CountAccounted
PROPERTIES UpdateAppliesAlone EveryRequestEnds
