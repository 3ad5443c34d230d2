SPECIFICATION Spec
CONSTANTS
    Event = {"l1", "l2", "l3", "x1", "b1", "b2", "b3"}
    OldEvent = {"l1", "l2", "l3", "x1", "b1", "b2"}
    Item = {i1}
    NoThread = NoThread
    Thread <- MCThread
    Label <- MCLabel
    Kind <- MCKind
    LabelOf <- MCLabelOf
    TextOf <- MCTextOf
    At <- MCAt
    Archived <- MCArchived
    Identity <- MCIdentity
    HomeOf <- MCHomeOf
    OldThread <- MCOldThread
    LineWindow = 720
    ChatWindow = 240
    TwinWindow = 5
    Faulty = TRUE
INVARIANTS
    TypeOK
    NoDanglingRow
    StartNeverRaises
    OutOfDateByCrash
PROPERTIES
    OneThreadPerChat
    ReplayKept
    ItemsFollow
    LineTimesKept
