SPECIFICATION Spec
CONSTANTS
    Stops = {s1, s2}
    Admins = {a1}
    MaxTrips = 2
    Crew = {c1}
    Reviewers = {v1}
    Workers = {}
    MaxRequests = 1
    Reminder = 1
    Escalation = 1
    Timeout = 1
SYMMETRY MCSymmetry
CONSTRAINT SourceDay
CHECK_DEADLOCK FALSE
INVARIANTS
    TypeOK
    CarriedStopsArrive
    CompletedHasStart
