SPECIFICATION QuietSpec
CONSTANTS
    Stops = {s1}
    Admins = {a1}
    MaxTrips = 3
    Crew = {c1}
    Reviewers = {v1, v2}
    Workers = {w1}
    MaxRequests = 2
    Reminder = 1
    Escalation = 1
    Timeout = 1
CHECK_DEADLOCK FALSE
INVARIANTS
    ApprovalOwnsContinuation
PROPERTIES
    DecidesOnce
    DecidesEventually
