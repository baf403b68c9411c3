SPECIFICATION Spec
CONSTANTS
    ana = ana
    Cent = 1
    Orders = {o1}
    Slots = {r1, d1}
    Reception = {r1}
    SlotTypeOf <- MCSlotTypeOf
    Operators = {ana}
    Sessions = {k1}
    OperatorOf <- MCOperatorOf
    Prices = {4}
    Amounts = {2}
    Cash = {TRUE}
    MaxReceipts = 4
    Workers = {w1, w2}
    Calls = {"create", "pay", "status", "assign", "deliver", "open", "close"}
SYMMETRY MCSymmetry
INVARIANTS
    GoodsLeavePaid
    NoStageSkipped
    BooksNeverExceedReceipts
PROPERTIES
    OnlyStaleSavesReopen
CHECK_DEADLOCK FALSE
