SPECIFICATION Spec
CONSTANTS
    Fields <- MCFields
    Root = "workflow"
    Paths = {"activities", "children"}
    PathOf <- MCPathOf
    Schemas <- MCSchemas
    Unknown = {"later"}
    Texts = {"", "1"}
    Blank = ""
    NumberOf <- MCNumberOf
    Matched = {}
    Documents <- MCDocuments
    MaxRules = 3
    MaxGroups = 1
INVARIANTS
    RequestsFit
    QueryIsExact
    NothingIsMissed
CHECK_DEADLOCK FALSE
