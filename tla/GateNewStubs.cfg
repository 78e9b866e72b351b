SPECIFICATION Spec
CONSTANTS
    Workspace <- W
    Dirs <- Members
    Places <- AllPlaces
    Signals = {"stubs", "nesting"}
    Counts = {"stubs"}
    Measures <- AllMeasures
    FirstTrees <- Trees
    Slots = {"base"}
    Given <- FirstReports
    Requests <- OnePackage
    Absent = Absent
    None = None
    NoFile = NoFile
    Cut = Cut
    MaxRuns = 2
    MaxEdits = 1
INVARIANTS
    NewStubsGate
CHECK_DEADLOCK FALSE
