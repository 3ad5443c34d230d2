SPECIFICATION FairSpec
CONSTANTS
    m1 = m1
    m2 = m2
    Toast = {m1, m2}
    Starter = Starter
    Poller = Poller
    NoTask = NoTask
    Text = {"blank", "a", "bad"}
    Blank = "blank"
    Shows <- MCShows
    Created <- MCCreated
    Kind <- MCKind
    Refused = {"bad"}
    MaxFaults = 1
INVARIANTS
    TypeOK
    ObservedIsStored
    SweepsExclude
PROPERTIES
    EventuallyStored
