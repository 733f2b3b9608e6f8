SPECIFICATION JobsFairSpec
CONSTANTS
    Events = {1, 2}
    Routable = {1}
    Dispatchers = {d1, d2}
    Runs = {k1, k2}
    BatchSize = 2
    JobAttempts = 2
    MaxFaults = 4
    Deals = {q1}
    Evaluations = {e1, e2}
    DealsPerTick = 1
    Severities = {0, 1, 2}
    MaxDismissals = 2
INVARIANTS
    JobsInv
PROPERTIES
    SentStays
    OutboxSettles
    AlertsFollowDeals
    DismissalsYieldToOlder
CHECK_DEADLOCK FALSE
