SPECIFICATION Spec
CONSTANTS
    Cycles = 2
    Plan = 1
    Limit = 1
    MaxSpend = 2
    MaxEvents = 4
    Requests = {r1, r2}
    Faults = {"unpaid", "database", "crash"}
    MaxFaults = 2
SYMMETRY RequestSymmetry
VIEW Relevant
INVARIANTS Reconciled MirrorsStripe
PROPERTY GraceRunsOut
CHECK_DEADLOCK FALSE
