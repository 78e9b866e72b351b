SPECIFICATION Spec
CONSTANTS
    Files <- MCFiles
    Names = {"f", "g"}
    Lines = {1, 2}
    Inputs <- AnyComparison
INVARIANTS
    NoBestLeft
    ResolvedMeansGone
    RemapKeepsGroups
CHECK_DEADLOCK FALSE
