SPECIFICATION FairSpec
CONSTANTS
    Messages = {m1, m2}
    WindowLen = 1
    MaxWindow = 1
    PollDelay = 1
    MaxWait = 2
    LockTtl = 2
    RetryDelay = 1
    MaxBucket = 1
    MaxExt = 5
    Faults = {"schedule", "hookCrash", "rename", "read", "execute", "send", "crash"}
    MaxFaults = 1
PROPERTY TasksEnd
