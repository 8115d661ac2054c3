SPECIFICATION Spec
CONSTANTS
    Editors = {w1, w2}
    Payments = {p1, p2}
    Databases <- MCDatabases
    MaxPayments = 2
    MaxStreams = 3
    MaxOps = 5
SYMMETRY Symmetry
INVARIANT HistoryMatchesPayments
INVARIANT CountedOnce
PROPERTY ImportKeepsRows
CHECK_DEADLOCK FALSE
