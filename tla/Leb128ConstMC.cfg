SPECIFICATION Spec
CONSTANTS
    Group = 2
    IntBits = 9
    LongBits = 18
    Inputs <- MCInputs
INVARIANT ConstantsRight
CHECK_DEADLOCK FALSE
