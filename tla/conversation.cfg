SPECIFICATION Spec
CONSTANTS
    Convs = {c1, c2}
    Turns = {t1, t2}
    Echoes = {e}
    MaxStaff = 2
    Faults = {"turn", "action", "flag"}
    MaxFaults = 1
SYMMETRY IdSymmetry
INVARIANTS TypeOK OneActive HumanNotTalkedOver EchoTakesOver ActionOnce
CHECK_DEADLOCK FALSE
