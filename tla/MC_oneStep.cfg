SPECIFICATION FairSpec
CONSTANTS
    Lines = {l1}
    Deals = {d1}
    NoDeal = NoDeal
    Pcts <- ThreeDiscounts
    DefaultPct = 0
    NoPct = NoPct
    manager = manager
    finance = finance
    Roles <- BothRoles
    RuleSets = {"strict"}
    Chain <- OneStep
    MaxVersion = 10
INVARIANTS
    RequestsStayResolvable
    ConfirmedIsAuthorised
PROPERTIES
    OldApprovalsAuthorizeNothing
    ReviewEnds
    RequestsAreAnswered
CHECK_DEADLOCK FALSE
