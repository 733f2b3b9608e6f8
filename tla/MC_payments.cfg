SPECIFICATION FairSpec
CONSTANTS
    i1 = i1
    i2 = i2
    k1 = k1
    k2 = k2
    k3 = k3
    Invoices = {i1, i2}
    Keys = {k1, k2, k3}
    Submission <- PartPayments
    LinesOf <- Typed
    Requests = {t1, t2}
    MaxFailures = 2
INVARIANTS
    SentUntilAnswered
    InvoicesInv
PROPERTIES
    SentIsRecorded
CHECK_DEADLOCK FALSE
