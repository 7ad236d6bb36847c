SPECIFICATION Tickets
CONSTANTS
    Sessions = {u1, u2}
    Levels <- MCLevels
    Chain <- MCChain
    Window = 1
    Targets = {"OPEN", "CLOSED"}
    Assignees = {3}
    MaxCalls = 3
CHECK_DEADLOCK FALSE
INVARIANTS
    TypeOK
    EscalationOnRecord
PROPERTIES
    ReviewedOnce
    ApprovalCloses
    OverdueIsHandled
