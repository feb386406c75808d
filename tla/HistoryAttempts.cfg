SPECIFICATION Spec
CONSTANTS
    a1 = a1
    Activities = {a1}
    ActivityID <- MCOwnID
    Children = {}
    WorkflowID <- MCOwnID
    Failures <- MCFailures
    PageSize = 2
    MaxAttempts = 2
    MaxEvents = 6
INVARIANT PendingAttemptsAreRecorded
CHECK_DEADLOCK FALSE
