SPECIFICATION Spec
CONSTANTS
    e1 = e1  e2 = e2  p1 = p1  p2 = p2  a1 = a1  a2 = a2
    Executions = {e1}
    Purchases = {p1}
    Adjustments = {a2}
    Amount <- AmountOfOperation
    Limits = {2}
    Attempts = 3
    Faults = {"agent", "charge", "chargeReply", "stats", "purchase", "purchaseReply", "slow", "add", "crash"}
    MaxFaults = 2
PROPERTY ImplementsAccount
