SPECIFICATION IngestSpec
CONSTANTS
    Worker = {w1, w2}
    Event = {"a1", "a2"}
    NoEvent = NoEvent
    NoThread = NoThread
    Owner <- MCOwner
    GmailOwner <- MCGmailOwner
    Thread <- MCThread
    Kind <- MCKind
    OwnerOf <- MCOwnerOf
    SenderOf <- MCSenderOf
    HomeOf <- MCHomeOf
    KeyOf <- MCKeyOf
    At <- MCAt
    Twin <- MCTwin
    Archived <- MCArchived
    Verdicts <- QuietVerdict
    UserStatuses = {"done"}
    Window = 30
    ThreadCap = 12
    SnapshotLimit = 50
    MaxPerHour = 1
    Faulty = FALSE
INVARIANTS
    CardCurrent
