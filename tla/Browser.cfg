SPECIFICATION Spec
CONSTANTS
    OneKind = "terminate"
    Workflows <- MCWorkflows
    Rank <- MCRank
    SortFields = {"startTime"}
    DefaultSort = "startTime"
    IdField = "id"
    Filters = {"none", "f"}
    NoFilter = "none"
    Requests = {"everything", "narrow"}
    Everything = "everything"
    Matches <- MCMatches
    Schemas = {"old", "new"}
    ReadOnly = {"new"}
    Adapted <- MCAdapted
    Unbuildable = Unbuildable
    PageSizes = {1}
    DefaultPageSize = 1
    ServerPageSize = 10
    MaxPage = 2
    Kinds = {"signal", "terminate"}
    None = None
    Tabs = {t1, t2}
    Builds = {"old", "new"}
    ColumnsOf <- MCColumnsOf
    NotStored = NotStored
    Malformed = Malformed
    NoDrag = NoDrag
    Nowhere = Nowhere
    MaxWrites = 2
    DaySteps = 4
    ZoneOf <- MCZoneOf
    TimeZones = {"UTC", "Berlin"}
    Aliases <- MCAliases
    SavedNames = {"Berlin", "Lima", "Zulu"}
    BrowserZones = {"Berlin", "Lima", "Nuuk"}
    NotSaved = NotSaved
    NoInstant = NoInstant
    Instants = {5}
    Days = {0, 1}
SYMMETRY TabSymmetry
INVARIANTS
    SelectionIsHeld
    SelectionKeepsItsFilter
    
    SavedIsShown
    ColumnsAreShown
    EditIsShown
    ReloadRestores
PROPERTIES
    ClearsWhatItSent
    DropIsAsPreviewed
