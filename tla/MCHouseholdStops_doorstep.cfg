SPECIFICATION Spec
CONSTANTS
    h1 = h1
    h2 = h2
    d1 = d1
    d2 = d2
    N = 2
    Handlers = {h1, h2}
    Devices = {d1, d2}
    MaxMarks = 4
    MaxTaps = 3
SYMMETRY Symmetric
INVARIANTS TypeOK OneAlert MissOnRecord TicketsNeedOverlap
CHECK_DEADLOCK FALSE
