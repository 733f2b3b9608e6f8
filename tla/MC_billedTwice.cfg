SPECIFICATION Spec
CONSTANTS
    q1 = q1
    q2 = q2
    q3 = q3
    once = once
    again = again
    yearly = yearly
    Quotations = {q1}
    Lines = {once, again, yearly}
    Recurring = {again, yearly}
    LinesOf <- Mixed
    Requests = {t1, t2}
    MaxTyped = 0
INVARIANTS
    BilledOnce
