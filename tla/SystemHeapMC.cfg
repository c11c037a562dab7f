SPECIFICATION SysSpec
CONSTANTS
    NumTask = 6
    Names <- MCNames
    BootNames <- MCBootNames
    Payload <- SysPayload
    Servers = {"vm", "fs"}
    NumMaxFile = 3
    HeapCap = 3
    LineSize = 8
    Chars <- MCChars
    Lines <- HelloAndExit
    MaxHello = 4
INVARIANT VmMemoryIntact
CHECK_DEADLOCK FALSE
