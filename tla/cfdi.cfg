SPECIFICATION FairSpec
CONSTANTS
    Webhooks = {w}
    Buttons = {b}
    Sweeps = {s1, s2}
    Faults = {"redeliver", "pac", "pacReply", "save", "mark", "crash"}
    MaxFaults = 2
INVARIANTS OneCfdi OneAttempt
PROPERTIES InternalIsRetried StalledIsResumed
