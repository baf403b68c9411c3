SPECIFICATION ReportsSpec
CONSTANTS
    o1 = o1
    o2 = o2
    a1 = a1
    a2 = a2
    wash = wash
    iron = iron
    Unset = Unset
    Cent = 1
    Orders = {o1, o2}
    Sites = {a1, a2}
    Services = {wash, iron}
    Types = {"rent", "soap"}
    Baskets <- MCBaskets
    Zones <- MCZones
    DayLength = 3
    Week = 2
    PageSize = 1
    Horizon = 5
    MaxExpenses = 3
SYMMETRY MCSymmetry
INVARIANTS
    ReportsAddUp
    ExportIsComplete
CHECK_DEADLOCK FALSE
