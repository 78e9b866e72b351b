SPECIFICATION Spec
CONSTANTS
    TryWeight = 1
    Inputs <- MCInputs
INVARIANTS
    ComplexityIsOwn
    SignalsExact
    PassesAgree
    OneMeansSameOutline
    PairsExact
CHECK_DEADLOCK FALSE
