SPECIFICATION Spec
CONSTANTS
    Workspace <- W
    Dirs <- Members
    Places <- AllPlaces
    Signals = {"stubs", "nesting"}
    Counts = {"stubs"}
    Measures <- AllMeasures
    FirstTrees <- Trees
    Slots = {"base"}
    Given <- FirstReports
    Requests <- AllRequests
    Absent = Absent
    None = None
    NoFile = NoFile
    Cut = Cut
    MaxRuns = 3
    MaxEdits = 1
INVARIANTS
    ScopesAgree
    PassIsNoRegression
    VerdictMatchesReport
CHECK_DEADLOCK FALSE
