SPECIFICATION Spec
CONSTANTS
    Clients = {c1}
    Nobody = Nobody
    Requests = {q1, q2}
    MaxToken = 3
SYMMETRY Symmetry
INVARIANTS RotationRetiresOldToken ReplacementsFit
CHECK_DEADLOCK FALSE
