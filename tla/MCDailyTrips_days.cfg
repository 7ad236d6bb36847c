SPECIFICATION Spec
CONSTANTS
    w1 = w1
    w2 = w2
    s1 = s1
    s2 = s2
    u1 = u1
    u2 = u2
    N = 1
    Owned = {1}
    Workers = {w1}
    Supervisors = {s1}
    Users = {u1}
    MaxTrips = 2
INVARIANTS TypeOK OneGeneratedTrip
PROPERTIES NoticeHoldsGeneration
