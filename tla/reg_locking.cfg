SPECIFICATION FairSpec
CONSTANTS
    Attendees = {a1}
    Nobody = Nobody
    Requests = {q1, q2}
    Kinds = {"register", "import", "purge", "bulkDelete"}
    Locking = {TRUE, FALSE}
    Capacities = {1}
    Ceiling = 1
    ImportRows = 1
    MaxId = 2
PROPERTIES NoLateDuplicate PurgeOnlySoftDeleted EveryRequestEnds
CHECK_DEADLOCK FALSE
