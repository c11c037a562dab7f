SPECIFICATION AnySpec
CONSTANTS
    NumTask = 4
    Names <- MCNames
    BootNames <- MCBootNames
    Payload <- MCPayload
    Servers = {"vm"}
CONSTRAINTS NoBuffer
INVARIANT NeverReachHere
CHECK_DEADLOCK FALSE
