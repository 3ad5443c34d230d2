SPECIFICATION FairSpec
CONSTANTS
    Reminder = {r1}
    Load = {l1, l2}
    NoLoad = NoLoad
    MaxChanges = 2
    Capacity = 2
    Faulty = TRUE
INVARIANTS
    TypeOK
    ReminderOnce
    NoGap
PROPERTIES
    CardsForward
    EventuallyFresh
    ReminderShown
