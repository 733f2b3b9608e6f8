SPECIFICATION OrdersSpec
CONSTANTS
    Requests = {"t1", "t2"}
    Subscriptions = {"s1"}
    Cycles = {"MONTHLY", "QUARTERLY"}
    CycleDays <- Cycle
    Amounts = {5}
    Changes <- SomeChanges
    FirstDay = 0
    Rule <- SeededRule
    MaxVersion = 4
    Warehouses = {"w1", "w2"}
    CrossedOrders = {"o1", "o2"}
    CrossedProducts = {"widget", "cable"}
    CrossedLines <- TwoOrders
    CrossedStock <- StockOfTwo
    FormOrders = {"o1"}
    FormProducts = {"widget"}
    FormLines <- OneOrder
    FormStock <- StockOfOne
    TypedSplits <- SomeSplits
    StockFigures <- SomeFigures
    MaxStockVersion = 3
    Quotations = {"q1", "q2"}
    Lines = {"once", "again", "yearly"}
    Recurring = {"again", "yearly"}
    LinesOf <- PlannedOrders
    Planners = {"t1", "t2"}
    MaxTyped = 1
INVARIANTS
    AllocationsAddUp
    PlansAreComplete
PROPERTIES
    AllocationIsKept
    LedgerSpec
    ChangesTakeTurns
CHECK_DEADLOCK FALSE
