SPECIFICATION Spec
CONSTANTS
    Files <- AllFiles
    Names = {"f", "g"}
    Lines = {1, 2}
    Inputs <- AnyRuns
INVARIANTS
    NoLonePair
    Unmissed
    RemapKeepsIdentity
CHECK_DEADLOCK FALSE
