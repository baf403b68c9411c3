SPECIFICATION Spec
CONSTANTS
    Workers = {w1, w2}
    Windows <- MCWindows
    Limit <- MCLimit
    SiteLimit = 2
    Days <- MCDays
    MaxOrders = 2
SYMMETRY MCSymmetry
INVARIANTS
    OverrunBounded
    NeverOvercharged
    ReferencesGapless
    CountersStartAfresh
CHECK_DEADLOCK FALSE
