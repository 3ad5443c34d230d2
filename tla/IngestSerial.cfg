SPECIFICATION FairSpec
CONSTANTS
    Worker = {w1}
    Event = {"a1", "a2", "a3", "x1", "d1", "d2", "g1"}
    NoEvent = NoEvent
    NoThread = NoThread
    Owner <- MCOwner
    GmailOwner <- MCGmailOwner
    Thread <- MCThread
    Kind <- MCKind
    OwnerOf <- MCOwnerOf
    SenderOf <- MCSenderOf
    HomeOf <- MCHomeOf
    KeyOf <- MCKeyOf
    At <- MCAt
    Twin <- MCTwin
    Archived <- MCArchived
    Verdicts <- QuietVerdict
    UserStatuses = {"snoozed", "done"}
    Window = 30
    ThreadCap = 12
    SnapshotLimit = 2
    MaxPerHour = 1
    Faulty = FALSE
INVARIANTS
    CardCurrent
    TwinFiledOnce
    CardCoversThread
    DeletedContentGone
PROPERTIES
    EventuallyCarded
