SPECIFICATION SerialSpec
CONSTANTS
    Lines = {l1}
    Deals = {d1}
    NoDeal = NoDeal
    Pcts <- Discounts
    DefaultPct = 0
    NoPct = NoPct
    manager = manager
    finance = finance
    Roles <- BothRoles
    RuleSets = {"strict"}
    Chain <- TwoSteps
    MaxVersion = 8
PROPERTY RejectIsTerminal
CHECK_DEADLOCK FALSE
