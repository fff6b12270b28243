SPECIFICATION Spec
CONSTANTS
    None = None
    FirstHits <- MCFirstHits
    Jobs = {"cron","alarm","follow"}
    Attempts = 2
    Unattended = 4
    Lag = 0
    StatusOutcomes = {"ok","lost"}
    AlertOutcomes = {"ok","fail"}
    Faults = {"torn"}
    Period = 2
    Endless = FALSE
    Patience = 0
    MaxTime = 4
    MaxHits = 1
    MaxSwitches = 0
    Timeout = 3
    Warn60 = 1
    Warn30 = 2
    DropRetry = 1
    Drift = 0
    MinChain = 1
INVARIANT SentStagesWereDelivered
INVARIANT DropsFollowBreaks
CHECK_DEADLOCK FALSE
