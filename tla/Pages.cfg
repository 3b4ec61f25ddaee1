CONSTANTS
    Pages <- AllPages
    Server <- TheServer
    Statuses <- TheStatuses
    Recs = {a, b}
    None = None
    MaxSends = 2
    MaxTroubles = 1
    Stale <- KnownStale
    Denied <- KnownDenied
    Slips <- KnownSlips
    Repeats <- KnownRepeats
SPECIFICATION Spec
SYMMETRY Symmetry
CHECK_DEADLOCK FALSE
INVARIANTS TypeOK OwnWritesShown OfferedAccepted IntentKept TakesEffectOnce
