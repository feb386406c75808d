SPECIFICATION Spec
CONSTANTS
    Processes = {p1, p2}
    Generations = {1, 2}
    Runs = {r1}
    StartDay <- MCStartDay
    Retention = 1
    Overlap = TRUE
    ManualDeletes = FALSE
    MaxDay = 1
    MaxDeploys = 2
    None = None
PROPERTIES
    CurrentIsKept
CHECK_DEADLOCK FALSE
