SPECIFICATION ServiceSpec
CONSTANTS
    Lines = {l1}
    Deals = {d1}
    NoDeal = NoDeal
    Pcts <- Discounts
    DefaultPct = 0
    NoPct = NoPct
    manager = manager
    finance = finance
    Roles <- BothRoles
    RuleSets = {"strict", "lenient"}
    Chain <- TwoSteps
    MaxVersion = 7
    Requests = {r1, r2}
INVARIANTS
    NegotiationInv
    ReviewsAreSound
PROPERTIES
    TermsFrozenOutsideDraft
    HistoryIsKept
    SerialSpec
CHECK_DEADLOCK FALSE
