SPECIFICATION Spec
CONSTANTS
    Regs = {r1, r2}
    Requests = {q1, q2}
SYMMETRY Symmetry
INVARIANTS TypeOK AdmissionsBounded
PROPERTIES SeenCheckInKept LedgerSpec
