SPECIFICATION Spec
CONSTANTS
    Job = {poller, user}
    Poller = poller
    Message = {m1, m2}
    Ops = {"connect"}
    MaxHistory = 3
    PageSize = 1
    ListLimit = 50
    Removable = FALSE
    MaxFaults = 0
INVARIANTS
    CursorCovers
