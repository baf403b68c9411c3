SPECIFICATION OfficeSpec
CONSTANTS
    Workers = {w1, w2}
    MaxCalls = 3
    MaxFaults = 1
    None = None
    ClientIds = {ida, idb}
    Names = {ann, bea}
    Codes = {x, y}
    Queries = {ann}
    CounterOrders = {o1}
    SmsPrices = {p5}
    s1 = s1
    s2 = s2
    e1 = e1
    Rows <- MCRows
    RegisterOf <- MCRegisterOf
    Labels = {wash, iron}
    Default = wash
INVARIANTS
    OnlyOverlapsHarm
PROPERTIES
    BackgroundWorkEnds
CHECK_DEADLOCK FALSE
