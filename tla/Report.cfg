SPECIFICATION Spec
CONSTANTS
    None = None
    Inputs <- MCInputs
    SignalOrder <- MCOrder
    Counts <- MCCounts
    HotSpots = 1
    MaxRows = 1
    Named = 3
INVARIANTS
    AllTold
    GateIsTold
    FormatsAgree
    TableFits
    PlacesTell
    VerdictsInPlace
CHECK_DEADLOCK FALSE
