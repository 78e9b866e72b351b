SPECIFICATION AnalysisSpec
CONSTANTS
    c1 = c1
    bad = bad
    Runs = {r1, r2}
    Files <- OneEach
    Requests <- TwoWeights
    FileContents = {c1, bad}
    Broken = bad
    Absent = Absent
    Unread = Unread
    Nil = Nil
    FirstTrees <- FilledTree
    ByName = FALSE
    MaxStarts = 2
    MaxEdits = 1
    MaxBuilds = 2
PROPERTIES
    SavesItsShare
INVARIANTS
    AsUncached
CHECK_DEADLOCK FALSE
