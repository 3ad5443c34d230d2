SPECIFICATION Spec
CONSTANTS
    Card = {c1}
    Message <- MCMessage
    Proposal <- MCProposal
    Learned = {100}
    RuleId = {r1, r2}
    RuleChoices <- MCRuleChoices
    SettingsChoices <- MCSettings
    InitSettings <- Delivered
    Contains <- MCContains
    SurfaceThreshold = 8200
    ReviewThreshold = 5500
    MaxPerHour = 1
    Slots = 2
    MinObservations = 0
    ListLimit = 500
    NoRule = NoRule
    NoCard = NoCard
SYMMETRY RuleSymmetry
INVARIANTS
    TypeOK
    NightIsQuiet
    SurfaceNeedsWeight
    PreviewUrgencyProven
    MuteOutlastsImportance
PROPERTIES
    PutAwayStays
