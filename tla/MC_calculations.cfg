SPECIFICATION Spec
CONSTANTS
    Warehouses = {w1, w2, w3}
    Products = {p, q}
    Product = p
    MaxLength = 5
    MaxAmount = 7
    Margin = 2
    Stocks <- MCStocks
    Orders <- MCOrders
    Typed <- MCTyped
    Schedules <- MCSchedules
    Days <- MCDays
    Amounts <- MCAmounts
    Quotes <- MCQuotes
    Ceilings <- MCCeilings
    Degrees <- MCDegrees
    Histories <- MCHistories
    Values = {0, 1000000}
    Ages = {0, 30}
    Offers <- MCOffers
INVARIANTS
    SplitsAreRight
    MoneyFollowsTime
    StricterRulesNeverRelax
    WorseNeverRanksLower
    BestAreOffered
CHECK_DEADLOCK FALSE
