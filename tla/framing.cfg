SPECIFICATION FairSpec
CONSTANTS
    Ops <- StreamCallOps
    Inputs <- AllInputs
    Limits = {0, 2}
    MaxWire = 2
INVARIANTS
    TypeOK
    ScanWhole
    AllOrNothing
    VerifiedIsWhole
PROPERTIES
    StreamsReturn
CHECK_DEADLOCK FALSE
