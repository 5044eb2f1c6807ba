SPECIFICATION FairSpec
CONSTANTS
    Messages = {m1, m2}
    WindowLen = 1
    MaxWindow = 2
    PollDelay = 1
    MaxWait = 2
    LockTtl = 2
    RetryDelay = 1
    MaxBucket = 1
    MaxExt = 5
    Faults = {"slowTurn"}
    MaxFaults = 0
PROPERTIES EveryMessageSettled ImplementsIntake
