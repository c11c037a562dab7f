SPECIFICATION Spec
CONSTANTS
    NumTask = 4
    NumPages = 6
    Slack = 2
    PageSize = 3
    Sizes = {1, 2}
    Chunks = {1, 2}
    Creators = {1, 2}
INVARIANT PagesInZone
CHECK_DEADLOCK FALSE
