SPECIFICATION ExchangeSpec
CONSTANTS
    None = None
    NaN = NaN
    Bad = Bad
    Families <- AllFamilies
    Garbage <- GarbageEntries
    MaxLimit = 1000
    MaxRuns = 2
    Attempts = 3
INVARIANTS
    NoSmuggling
    CachesMeet
    WarnedExactly
    SaidAsMeant
    CacheAnswersAsAsked
    TriesJustified
CHECK_DEADLOCK FALSE
