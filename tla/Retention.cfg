SPECIFICATION FairSpec
CONSTANTS
    Processes = {p1}
    Generations = {1, 2}
    Runs = {r1}
    StartDay <- MCStartDay
    Retention = 1
    Overlap = FALSE
    ManualDeletes = TRUE
    MaxDay = 2
    MaxDeploys = 3
    None = None
INVARIANTS
    CompletedIsSearchable
    UnmappedIsDoomed
PROPERTIES
    CurrentIsKept
    ObsoleteStaysDeleted
CHECK_DEADLOCK FALSE
