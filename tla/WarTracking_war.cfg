SPECIFICATION Spec
CONSTANTS
    None = None
    fix = fix
    admin = admin
    light = light
    a1 = a1
    a2 = a2
    r1 = r1
    r2 = r2
    Attacks = {a1}
    Runs = {r1}
    Lights = {light}
    Correctors = {}
    Admins = {admin}
    StartAt = 1
    Overlap = 0
    Lookback = 1
    MaxTime = 2
    MaxCrashes = 0
    Faults = {"rankedwars"}
SYMMETRY Symmetry
INVARIANT TypeOK
INVARIANT SummaryIsCurrent
INVARIANT FinalIsStored
PROPERTY RecordIsKept
CHECK_DEADLOCK FALSE
