SPECIFICATION OfficeFairSpec
CONSTANTS
    Products = {p1, p2}
    Requests = {r1, r2}
    TopK = 1
    MaxVersion = 3
    MaxFailures = 1
    DiscountRules = {d1, d2, d3}
    Targets = {gold}
    Ceilings = {10, 20}
    MaxWrites = 3
    Values = {"red", "blue"}
    MaxSaves = 3
    Emails = {"ann", "bob"}
    Staff = {"ann"}
    Tabs = {1, 2}
    MaxTokens = 2
    MaxFaults = 1
INVARIANTS
    MarksTheirOwnLine
    RulesAreConsistent
    CatalogIsConsistent
    ProvisionIsWhole
    TheFormIsInReach
PROPERTIES
    DecisionsAreKept
    HalfAddedIsCleared
    OthersFieldsStay
CHECK_DEADLOCK FALSE
