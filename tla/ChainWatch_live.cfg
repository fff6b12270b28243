SPECIFICATION FairSpec
CONSTANTS
    None = None
    FirstHits <- MCFirstHits
    Jobs = {"cron","alarm","follow"}
    Attempts = 2
    Unattended = 1
    Lag = 0
    StatusOutcomes = {"skip"}
    AlertOutcomes = {"ok"}
    Faults = {"torn","crash"}
    Period = 2
    Endless = TRUE
    Patience = 0
    MaxTime = 1
    MaxHits = 1
    MaxSwitches = 1
    Timeout = 3
    Warn60 = 1
    Warn30 = 2
    DropRetry = 1
    Drift = 0
    MinChain = 1
INVARIANT AckMeansCancelled
PROPERTY EventuallyArmed
PROPERTY EventuallyStopped
PROPERTY EventuallyAcknowledged
PROPERTY WarningsAreNotHeldBack
CHECK_DEADLOCK FALSE
