SPECIFICATION QuietSpec
CONSTANTS
    Stops = {s1}
    Admins = {a1}
    MaxTrips = 2
    Crew = {c1}
    Reviewers = {v1, v2}
    Workers = {w1, w2}
    MaxRequests = 1
    Reminder = 1
    Escalation = 2
    Timeout = 3
SYMMETRY MCSymmetry
CHECK_DEADLOCK FALSE
INVARIANTS
    OneNoticeEach
    NoticesInWindow
