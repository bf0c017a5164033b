SPECIFICATION Spec
CONSTANTS
    Attendees = {a1, a2, a3}
    Nobody = Nobody
    Requests = {q1, q2}
    Kinds = {"register", "create", "status"}
    Locking = {FALSE}
    Capacities = {1}
    Ceiling = 1
    ImportRows = 0
    MaxId = 1
SYMMETRY Symmetry
INVARIANT OverbookingBound
PROPERTY OfficeSpec
CHECK_DEADLOCK FALSE
