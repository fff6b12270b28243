SPECIFICATION FairSpec
CONSTANTS
    None = None
    ann = ann
    first = first
    answer = answer
    Openings = {first}
    Retals = {answer}
    Target <- OneEnemy
    Takes <- Lengths
    Members = {ann}
    Window = 1
    Lookback = 2
    ClaimLife = 1
    ActiveRefresh = 1
    EditPause = 0
    Keep = 0
    Crons = {"cron"}
    Alarms = {"alarm"}
    Requests = {"cron"}
    Patience = 1
    LastAttack = 0
    MaxTime = 2
    MaxCalls = 1
    MaxFaults = 1
INVARIANT TypeOK
INVARIANT PostedOnce
INVARIANT FinishedIsFinal
INVARIANT KnownInTimeIsTaken
INVARIANT FetchedIsTaken
PROPERTY FinishedStands
PROPERTY NoticesAreKept
PROPERTY MessagesAreFinished
PROPERTY MonitoringStops
CHECK_DEADLOCK FALSE
