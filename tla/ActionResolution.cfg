SPECIFICATION FairSpec
CONSTANTS
    MaxId = 4
    Shards = {"d1", "d2"}
    ShardOf <- MCShardOf
    Namespaces = {"n1", "n2", "unknown"}
    Configured = {"n1", "n2"}
    NamespaceOf <- MCNamespaceOf
    PageSize = 2
    Explicit <- MCExplicit
    MaxUpdates = 3
INVARIANTS
    StableMatchesAreTargeted
    OnlyMatchesAreTargeted
    SuccessMeansAccepted
    LateJobsNeedUnknownNamespace
PROPERTY
    RequestsAreAnswered
CHECK_DEADLOCK FALSE
