SPECIFICATION Spec
CONSTANTS
    NumTask = 4
    Names <- MCNames
    BootNames <- MCBootNames
    Payload <- MCPayload
    Servers = {"vm"}
INVARIANTS
    TypeOK
    OnlyExpectedFaults
    RunQueueExact
    SendersExact
    Handshake
    NoLostRendezvous
PROPERTIES
    DeliveredToReceiver
    DeadStaysDead
CHECK_DEADLOCK FALSE
CONSTRAINT OneBuffer
