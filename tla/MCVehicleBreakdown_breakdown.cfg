SPECIFICATION Spec
CONSTANTS
    s1 = s1
    s2 = s2
    b1 = b1
    b2 = b2
    d1 = d1
    d2 = d2
    Stops = {s1, s2}
    Planned = {s1}
    Reports = {b1, b2}
    Desks = {d1, d2}
    Admins = {a1}
    MaxTrips = 3
SYMMETRY Symmetric
CONSTRAINT Quiet
CHECK_DEADLOCK FALSE
INVARIANTS TypeOK CarriedStopsArrive ReplacedOnce
PROPERTIES ApprovalStands
