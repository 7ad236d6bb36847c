SPECIFICATION FairSpec
CONSTANTS
    l1 = l1
    l2 = l2
    r1 = r1
    r2 = r2
    p1 = p1
    p2 = p2
    w1 = w1
    w2 = w2
    Lists = {l1}
    Long = {l1}
    Rows = {}
    Readers = {p1, p2}
    Writers = {w1}
    TTL = 1
    Latency = 1
    MaxWrites = 2
INVARIANTS TypeOK SerialReadsOwnWrites
PROPERTIES AnswersBounded StaleEntryGoes
