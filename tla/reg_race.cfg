SPECIFICATION Spec
CONSTANTS
    Attendees = {a1, a2}
    Nobody = Nobody
    Requests = {q1, q2}
    Kinds = {"register"}
    Locking = {TRUE}
    Capacities = {1}
    Ceiling = 1
    ImportRows = 0
    MaxId = 1
SYMMETRY Symmetry
PROPERTY AdmissionWithinCapacity
CHECK_DEADLOCK FALSE
