SPECIFICATION Spec
CONSTANTS
    Job = {poller, user}
    Poller = poller
    Message = {m1}
    Ops = {"connect", "disconnect"}
    MaxHistory = 2
    PageSize = 100
    ListLimit = 50
    Removable = FALSE
    MaxFaults = 1
PROPERTIES
    TokenForgotten
