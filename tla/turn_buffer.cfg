SPECIFICATION Spec
CONSTANTS
    Messages = {m1, m2}
    WindowLen = 1
    MaxWindow = 2
    PollDelay = 1
    MaxWait = 2
    LockTtl = 2
    RetryDelay = 1
    MaxBucket = 1
    MaxExt = 7
    Faults = {"slowHook", "slowTurn", "hook", "redeliver", "lock", "commit", "release", "hookCrash"}
    MaxFaults = 2
SYMMETRY MessageSymmetry
INVARIANTS OneTurnAtATime NoMessageLost AnsweredOnce
