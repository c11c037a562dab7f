SPECIFICATION SysSpec
CONSTANTS
    NumTask = 6
    Names <- MCNames
    BootNames <- MCBootNames
    Payload <- SysPayload
    Servers = {"vm", "fs"}
    NumMaxFile = 3
    HeapCap = 4
    LineSize = 8
    Chars <- MCChars
    Lines <- MCLines
    MaxHello = 4
INVARIANTS
    SysTypeOK
    RepliesMatch
    QuietAtPrompt
    LaunchesTheFile
    StopsOnlyAfterExit
    CommandsAsTyped
    OnlyLongLinesOverrun
PROPERTIES
    UsesKernelWell
    HelloReturns
    ExitPanics
CHECK_DEADLOCK FALSE
