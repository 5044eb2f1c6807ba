SPECIFICATION FairSpec
CONSTANTS
    e1 = e1  e2 = e2  p1 = p1  p2 = p2  a1 = a1  a2 = a2
    Executions = {e1, e2}
    Purchases = {p1}
    Adjustments = {a1}
    Amount <- AmountOfOperation
    Limits = {1}
    Attempts = 3
    Faults = {"charge", "add", "agent", "slow", "purchase", "purchaseReply"}
    MaxFaults = 1
INVARIANTS BalanceIsLastRow ExactUnlessStale AppliedOnce AloneWithinLimit
PROPERTIES PaidIsCredited CompletedIsCharged
