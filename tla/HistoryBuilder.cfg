SPECIFICATION Spec
CONSTANTS
    a1 = a1
    a2 = a2
    c1 = c1
    Activities = {a1, a2}
    ActivityID <- MCOwnID
    Children = {c1}
    WorkflowID <- MCOwnID
    Failures <- MCFailures
    PageSize = 2
    MaxAttempts = 2
    MaxEvents = 6
SYMMETRY MCSymmetry
INVARIANTS
    OneRecordEach
    PendingIsCurrent
    ErrorsHappened
    TerminalDataIsComplete
CHECK_DEADLOCK FALSE
