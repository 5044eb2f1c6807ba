SPECIFICATION FairSpec
CONSTANTS
    Instances = {i1, i2}
    Triggers = {t}
    Requests = {r1, r2, r3}
    Fires = {f}
    Faults = {"database", "stop"}
    MaxFaults = 1
INVARIANT JobMatchesRow
PROPERTIES SchedulerSurvives ActiveFires
CHECK_DEADLOCK FALSE
