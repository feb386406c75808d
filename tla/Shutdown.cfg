SPECIFICATION FairShutdown
CONSTANTS
    Listers = {l1, l2}
    DataWorkers = {d1}
    IndexWorkers = {i1}
    MetadataCap = 1
    WorkflowsCap = 1
    BatchesCap = 1
    PageSize = 1
    ShardCount = 1
    MaxJobs = 1
INVARIANTS
    NoSendOnClosed
    RepositoryIdleWhenStopped
    NothingUnsaved
PROPERTIES
    CancelledEnds
CHECK_DEADLOCK FALSE
