SPECIFICATION Spec
CONSTANTS
    Workers = {w1, w2}
    Request = web
    Pickup = 1
    Wait = 2
CHECK_DEADLOCK FALSE
INVARIANTS
    TypeOK
    RunsOnce
    NeverAnswersQueued
PROPERTIES
    KeepsPromise
    QueuedJobFinishes
    RequestEnds
