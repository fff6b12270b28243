SPECIFICATION Spec
CONSTANTS
    None = None
    fix = fix
    admin = admin
    light = light
    a1 = a1
    a2 = a2
    r1 = r1
    r2 = r2
    Attacks = {a1, a2}
    Runs = {r1, r2}
    Lights = {}
    Correctors = {}
    Admins = {}
    StartAt = 0
    Overlap = 1
    Lookback = 1
    MaxTime = 2
    MaxCrashes = 0
    Faults = {}
SYMMETRY Symmetry
INVARIANT NoWarAttackIsSkipped
CHECK_DEADLOCK FALSE
