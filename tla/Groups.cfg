SPECIFICATION GroupsSpec
CONSTANTS
    Functions = {1, 2, 3, 4, 5}
    Scores = {80, 90, 100}
    Threshold = 90
    PairSets <- AllInputs
INVARIANTS
    Cliques
    NoMissedMerge
    NoPairLost
CHECK_DEADLOCK FALSE
