SPECIFICATION Spec
CONSTANTS
    Ops = {"StreamVerifiedSet"}
    Inputs <- WholeInputs
    Limits = {0}
    MaxWire = 2
PROPERTIES
    PutBackWhole
CHECK_DEADLOCK FALSE
