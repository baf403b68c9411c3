SPECIFICATION TabSpec
CONSTANTS
    Loads = {l1, l2}
    Handlers = {h1, h2}
    Filters = {"f", "g"}
    MaxPage = 2
    MaxWrites = 2
    MaxMoves = 3
    Records = {"a", "b"}
    Saves = {s1, s2}
    MaxOpenings = 3
    MaxEdits = 2
    Orders = {"o1", "o2"}
    Lookups = {k1, k2}
    Chains = {c1, c2}
    MaxClicks = 5
    None = None
    Blank = Blank
    Nothing = Nothing
INVARIANTS
    ShownIsAsked
    SavedAsMeant
    CardOffersNextStep
    OfferedIsServed
PROPERTIES
    WorkIsKept
    PagesSettle
CHECK_DEADLOCK FALSE
