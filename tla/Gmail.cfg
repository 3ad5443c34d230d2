SPECIFICATION FairSpec
CONSTANTS
    Job = {poller, user}
    Poller = poller
    Message = {m1, m2}
    Ops = {"connect", "disconnect", "reset"}
    MaxHistory = 3
    PageSize = 100
    ListLimit = 50
    Removable = TRUE
    MaxFaults = 1
INVARIANTS
    TypeOK
    CursorCovers
PROPERTIES
    EventuallyStored
