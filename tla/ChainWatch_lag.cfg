SPECIFICATION Spec
CONSTANTS
    None = None
    FirstHits <- MCFirstHits
    Jobs = {"ingest","manual"}
    Attempts = 1
    Unattended = 4
    Lag = 2
    StatusOutcomes = {"ok"}
    AlertOutcomes = {"ok"}
    Faults = {"rpc"}
    Period = 2
    Endless = FALSE
    Patience = 1
    MaxTime = 3
    MaxHits = 2
    MaxSwitches = 1
    Timeout = 3
    Warn60 = 1
    Warn30 = 2
    DropRetry = 1
    Drift = 0
    MinChain = 1
INVARIANT TypeOK
INVARIANT LateDropIsRestored
INVARIANT AckMeansCancelled
CHECK_DEADLOCK FALSE
