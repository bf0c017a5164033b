SPECIFICATION Spec
CONSTANTS
    Attendees = {a1, a2}
    Nobody = Nobody
    Requests = {q1}
    Kinds = {"register", "create", "status", "bulkStatus", "remove", "bulkDelete",
             "restore", "purge", "import", "importReplace", "event"}
    Locking = {FALSE}
    Capacities = {0, 1}
    Ceiling = 1
    ImportRows = 2
    MaxId = 2
SYMMETRY Symmetry
INVARIANTS TypeOK ApprovedIsConfirmed
PROPERTY CheckedAdmissionWithinCapacity
