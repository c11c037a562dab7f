SPECIFICATION Spec
CONSTANTS
    NULL = NULL
    IPC_ANY = IPC_ANY
    NumTask = 4
    NumPages = 4
    Saved <- MCSaved
    Regs <- MCRegs
    Image <- MCImage
    Arch = {"riscv32", "riscv64", "x86_64"}
    MaxBusy = 2
INVARIANTS
    ListsMirrored
    LinkedAsStateSays
PROPERTY ImplementsCoroutines
CHECK_DEADLOCK FALSE
