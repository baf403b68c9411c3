SPECIFICATION Spec
CONSTANTS
    o1 = o1
    o2 = o2
    r1 = r1
    r2 = r2
    d1 = d1
    k1 = k1
    k2 = k2
    ana = ana
    w1 = w1
    Cent = 1
    Orders <- MCOrders
    Slots <- MCSlots
    SlotTypeOf <- MCSlotTypeOf
    Operators <- MCOperators
    Sessions <- MCSessions
    OperatorOf <- MCOperatorOf
    Prices <- MCPrices
    Amounts <- MCAmounts
    Cash = {TRUE, FALSE}
    MaxReceipts = 8
    Workers <- MCWorkers
    Calls = {"create", "pay", "status", "assign", "release", "deliver", "address", "open", "close"}
PROPERTIES
    ImplementsDesk
CHECK_DEADLOCK FALSE
