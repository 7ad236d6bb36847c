SPECIFICATION Pairs
CONSTANTS
    w1 = w1
    w2 = w2
    s1 = s1
    s2 = s2
    u1 = u1
    u2 = u2
    N = 2
    Owned = {1}
    Workers = {w1, w2}
    Supervisors = {s1, s2}
    Users = {}
    MaxTrips = 1
PROPERTIES DuePlansServed CrewIsTold
