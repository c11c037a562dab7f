SPECIFICATION RefinementSpec
CONSTANTS
    Programs <- MCPrograms
    Val = {0, 1}
    StackSize = 4
INVARIANTS
    InterpTypeOK
    ParsedAsNested
    NeverWild
    BreaksOnlyUnsupported
    FramesMatchCalls
PROPERTIES ImplementsWasm
CHECK_DEADLOCK FALSE
