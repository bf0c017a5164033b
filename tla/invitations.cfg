SPECIFICATION InviteSpec
CONSTANTS
    Requests = {q1, q2}
    MaxInv = 3
SYMMETRY Symmetry
INVARIANTS OnePendingAlone AcceptanceKeptAlone
PROPERTY ClosedStaysClosed
