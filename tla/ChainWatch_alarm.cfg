SPECIFICATION Spec
CONSTANTS
    None = None
    FirstHits <- MCFirstHits
    Jobs = {"cron","alarm","follow"}
    Attempts = 2
    Unattended = 4
    Lag = 0
    StatusOutcomes = {"skip"}
    AlertOutcomes = {"ok"}
    Faults = {}
    Period = 2
    Endless = FALSE
    Patience = 0
    MaxTime = 3
    MaxHits = 2
    MaxSwitches = 0
    Timeout = 3
    Warn60 = 1
    Warn30 = 2
    DropRetry = 1
    Drift = 0
    MinChain = 1
INVARIANT SentStagesWereDelivered
INVARIANT AlarmsFindTheirStage
PROPERTY WarningsAreForTheLastHit
PROPERTY CountFallsOnlyAfterBreak
PROPERTY VersionNamesTheTimer
CHECK_DEADLOCK FALSE
