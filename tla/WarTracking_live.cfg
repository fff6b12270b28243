SPECIFICATION FairSpec
CONSTANTS
    None = None
    fix = fix
    admin = admin
    light = light
    a1 = a1
    a2 = a2
    r1 = r1
    r2 = r2
    Attacks = {}
    Runs = {r1, r2}
    Lights = {}
    Correctors = {fix}
    Admins = {}
    StartAt = 1
    Overlap = 1
    Lookback = 1
    MaxTime = 2
    MaxCrashes = 1
    Faults = {"attacks", "release"}
PROPERTY CorrectionsAreApplied
PROPERTY EndIsNoticed
CHECK_DEADLOCK FALSE
