SPECIFICATION Spec
CONSTANTS
    Group = 2
    IntBits = 9
    LongBits = 18
    Inputs <- MCInputs
INVARIANTS
    UnsignedRight
    SignedRight
CHECK_DEADLOCK FALSE
