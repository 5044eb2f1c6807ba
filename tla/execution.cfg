SPECIFICATION FairSpec
CONSTANTS
    Runs = {r1}
    MaxRetries = 1
    Faults = {"agent", "silent", "database", "charge", "crash"}
    MaxFaults = 3
INVARIANTS ChargedIsCompleted CompletedIsPaid CountedOnce
PROPERTY TriedRunsEnd
CHECK_DEADLOCK FALSE
