SPECIFICATION FairSpec
CONSTANTS
    None = None
    ann = ann
    bob = bob
    Members = {ann, bob}
    Hour = 1
    FirstHour = 1
    HourCount = 1
    Owners <- OneShift
    ReminderLead = 1
    EscalationLead = 0
    TakeoverLead = 0
    CleanupDelay = 0
    TokenLife = 1
    Crons = {"cron"}
    Alarms = {"alarm"}
    Presses = {"cron"}
    Patience = 0
    MaxTime = 2
    MaxChanges = 0
    MaxCalls = 2
    MaxFaults = 1
    MaxTokens = 1
CHECK_DEADLOCK FALSE
PROPERTY MarksAreRendered
PROPERTY AlertsAreCleared
PROPERTY CardsAreCleared
