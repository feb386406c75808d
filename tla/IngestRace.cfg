SPECIFICATION Spec
CONSTANTS
    ShardOf <- MCShardOf
    Runs = {r1}
    OpenLoops = {open}
    ClosedLoops = {closed}
    DataWorkers = {d1}
    IndexWorkers = {i1, i2}
    BatchSize = 1
    BufferMultiplier = 1
    Poison = {}
    TrackProgress = TRUE
    Stamp = release
    MaxRevision = 2
    MaxRestarts = 1
    None = None
INVARIANTS
    DocumentsAreFaithful
    CompletedIsIndexed
PROPERTIES
    IndexNeverRegresses
SYMMETRY WorkerSymmetry
CHECK_DEADLOCK FALSE
