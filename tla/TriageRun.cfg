SPECIFICATION Spec
CONSTANTS
    Runs = {r1}
    Groups <- ThreeGroups
    Texts = {t1, t2, t3}
    NoText = NoText
    None = None
    Untriaged = Untriaged
    NoLimit = NoLimit
    FirstTexts <- Distinct3
    Options <- EveryOption
    Attempts = 2
    Threads = 2
    MaxStarts = 2
    MaxEdits = 1
    CacheFails = TRUE
    t1 = t1
    t2 = t2
    t3 = t3
INVARIANTS
    OwnVerdict
    AllOrNothing
    WithinBudget
    PaidOnce
PROPERTIES
    RunsEnd
CHECK_DEADLOCK FALSE
