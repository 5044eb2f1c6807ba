SPECIFICATION FairSpec
CONSTANTS
    Executions = {t1, t2}
    RecentToKeep = 2
    MinBatch = 2
    MaxArchived = 3
    MaxLen = 7
    Failures = {"slow", "model", "database", "release", "crash"}
    MaxFailures = 1
INVARIANT NothingSkipped
PROPERTY SummaryAdvances
