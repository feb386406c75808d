SPECIFICATION FairSpec
CONSTANTS
    ShardOf <- MCShardOf
    Runs = {r1, r2}
    OpenLoops = {}
    ClosedLoops = {closed}
    DataWorkers = {d1, d2}
    IndexWorkers = {i1}
    BatchSize = 2
    BufferMultiplier = 1
    Poison = {r2}
    TrackProgress = TRUE
    Stamp = release
    MaxRevision = 2
    MaxRestarts = 1
    None = None
INVARIANTS
    ReservationIsHeld
PROPERTIES
    ClosedIsIndexed
    ReservationEnds
CHECK_DEADLOCK FALSE
