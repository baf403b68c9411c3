SPECIFICATION Spec
CONSTANTS
    o1 = o1
    o2 = o2
    r1 = r1
    r2 = r2
    d1 = d1
    k1 = k1
    k2 = k2
    ana = ana
    Cent = 1
    Orders <- MCOrders
    Slots <- MCSlots
    SlotTypeOf <- MCSlotTypeOf
    Operators <- MCOperators
    Sessions <- MCSessions
    OperatorOf <- MCOperatorOf
    Prices <- MCPrices
    Amounts <- MCAmounts
    Cash = {TRUE, FALSE}
INVARIANTS
    TypeOK
    ShelfConsistent
    ShelfFitsStatus
    BooksBalance
    DrawerBalances
    OneSessionPerOperator
    DeliveredIsSettled
PROPERTIES
    ClosedIsFinal
    ClosedDrawerIsFrozen
CHECK_DEADLOCK FALSE
