SPECIFICATION Spec
CONSTANTS
    Clients = {c1}
    Offers = {"wash", "iron"}
    Default = "wash"
    Prices = {2, 3}
    FirstList <- MCFirstList
    Multipliers = {1, 2, 3}
    FirstMultiplier = 2
    MaxPieces = 2
    MaxLater = 1
    MaxSends = 2
    MaxBaskets = 2
    MaxEdits = 1
    MaxMishaps = 1
    None = None
INVARIANTS
    DraftsBecomeOrders
    MoneyAgrees
CHECK_DEADLOCK FALSE
