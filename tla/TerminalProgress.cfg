SPECIFICATION FairSpec
CONSTANTS
    Ids = {e1, e2}
    Formats = {1}
    Generations = {g1, g2}
    NoFile = NoFile
    Truncated = Truncated
    MaxCrashes = 3
INVARIANTS
    CleanMeansSaved
    TrustsOwnGeneration
PROPERTIES
    SavedNeverForgets
    CompletionIsSaved
    RefinesTracker
CHECK_DEADLOCK FALSE
