SPECIFICATION Spec
CONSTANTS
    Deals = {q1}
    Evaluations = {k1, k2}
    BatchSize = 1
    Severities = {0, 1, 2}
    MaxDismissals = 2
PROPERTIES
    DismissalIsSticky
