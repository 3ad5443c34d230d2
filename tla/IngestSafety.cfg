SPECIFICATION Spec
CONSTANTS
    Worker = {w1, w2}
    Event = {"p2", "p3", "q1"}
    NoEvent = NoEvent
    NoThread = NoThread
    Owner <- MCOwner
    GmailOwner <- MCGmailOwner
    Thread <- MCThread
    Kind <- MCKind
    OwnerOf <- MCOwnerOf
    SenderOf <- MCSenderOf
    HomeOf <- MCHomeOf
    KeyOf <- MCKeyOf
    At <- MCAt
    Twin <- MCTwin
    Archived <- MCArchived
    Verdicts = {"surface"}
    UserStatuses = {"done"}
    Window = 30
    ThreadCap = 12
    SnapshotLimit = 50
    MaxPerHour = 1
    Faulty = TRUE
SYMMETRY WorkerSymmetry
INVARIANTS
    TypeOK
    AtMostOnce
    AccountIsolation
    NoDanglingRow
    InterruptionRowsBounded
PROPERTIES
    StatusIsTheUsers
    ImplementsLedger
