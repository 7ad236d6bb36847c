SPECIFICATION Spec
CONSTANTS
    l1 = l1
    l2 = l2
    r1 = r1
    r2 = r2
    p1 = p1
    p2 = p2
    w1 = w1
    w2 = w2
    Lists = {l1}
    Long = {}
    Rows = {r1, r2}
    Readers = {p1, p2}
    Writers = {w1}
    TTL = 2
    Latency = 1
    MaxWrites = 1
INVARIANT AnswersTheRequest
