SPECIFICATION Spec
CONSTANTS
    Event = {"l1", "l2"}
    OldEvent = {}
    Item = {i1}
    NoThread = NoThread
    Thread <- MCThread
    Label <- MCLabel
    Kind <- MCKind
    LabelOf <- MCLabelOf
    TextOf <- MCTextOf
    At <- MCAt
    Archived <- MCArchived
    Identity <- MCIdentity
    HomeOf <- MCHomeOf
    OldThread <- MCOldThread
    LineWindow = 720
    ChatWindow = 240
    TwinWindow = 5
    Faulty = FALSE
PROPERTIES
    OnlyRepeatsRemoved
