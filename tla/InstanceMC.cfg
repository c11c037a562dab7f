SPECIFICATION RefinementSpec
CONSTANTS
    NULL = NULL
    ByteBits = 2
    PageBytes = 10
    StackSize = 4
    Start <- MCStart
    Modules <- MCModules
INVARIANTS
    ParsedAsWritten
    FaultsOnlyThere
    StraysOnlyAbove
PROPERTIES
    ImplementsStore
CHECK_DEADLOCK FALSE
