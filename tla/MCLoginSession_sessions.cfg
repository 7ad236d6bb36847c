SPECIFICATION Spec
CONSTANTS
    q1 = q1
    q2 = q2
    Workers = {q1, q2}
    TTL = 1
    Idle = 2
    Grace = 3
    Lifetime = 5
    Delay = 1
    Latency = 0
    MaxSent = 1
    Horizon = 6
SYMMETRY Symmetric
INVARIANTS TypeOK NeverIdledOut
PROPERTIES EndedSessionRefused
