SPECIFICATION Spec
CONSTANTS
    Names <- AllNames
    Spellings <- AllSpellings
    Files <- AllFiles
    Canonical <- OnDisk
    NoFile = NoFile
    Lines = {1, 2, 3, 4, 5}
    NoData = NoData
    MaxHits = 3
    Unknown = Unknown
    Inputs <- AnyRuns
INVARIANTS
    EntriesTell
    StraysComplete
CHECK_DEADLOCK FALSE
