SPECIFICATION Spec
CONSTANTS
    NumTask = 4
    Names <- MCNames
    BootNames <- MCBootNames
    Payload <- MCPayload
    Servers = {"vm", "fs"}
CONSTRAINTS NoBuffer OneShell
PROPERTIES ImplementsRendezvous
CHECK_DEADLOCK FALSE
