SPECIFICATION Spec
CONSTANTS
    None = None
    ann = ann
    bob = bob
    Members = {ann, bob}
    Hour = 1
    FirstHour = 0
    HourCount = 2
    Owners <- OneShift
    ReminderLead = 1
    EscalationLead = 0
    TakeoverLead = 0
    CleanupDelay = 0
    TokenLife = 1
    Crons = {"cron"}
    Alarms = {"press"}
    Presses = {"press"}
    Patience = 0
    MaxTime = 1
    MaxChanges = 1
    MaxCalls = 1
    MaxFaults = 0
    MaxTokens = 1
INVARIANT TypeOK
INVARIANT ReadyIsForTheWatcher
PROPERTY DecidedOnce
INVARIANT CleanCardIsCurrent
CHECK_DEADLOCK FALSE
