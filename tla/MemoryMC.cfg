SPECIFICATION Spec
CONSTANTS
    NumTask = 4
    NumPages = 6
    Slack = 2
    PageSize = 3
    Sizes = {1, 2, 5}
    Chunks = {1, 2}
    Creators = {1, 2}
INVARIANTS
    TypeOK
    OneOwner
    ObjectsDisjoint
    ObjectsInOwnPages
    StacksKept
CHECK_DEADLOCK FALSE
