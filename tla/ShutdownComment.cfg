SPECIFICATION ShutdownSpec
CONSTANTS
    Listers = {l1}
    DataWorkers = {d1}
    IndexWorkers = {i1}
    MetadataCap = 1
    WorkflowsCap = 1
    BatchesCap = 1
    PageSize = 1
    ShardCount = 1
    MaxJobs = 1
INVARIANTS
    StopWaitsForAllStages
CHECK_DEADLOCK FALSE
