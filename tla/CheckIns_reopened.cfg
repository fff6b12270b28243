SPECIFICATION Spec
CONSTANTS
    None = None
    ann = ann
    bob = bob
    Members = {ann, bob, cal}
    Hour = 1
    FirstHour = 0
    HourCount = 2
    Owners <- OneShift
    ReminderLead = 1
    EscalationLead = 0
    TakeoverLead = 0
    CleanupDelay = 0
    TokenLife = 1
    Crons = {"cron"}
    Alarms = {}
    Presses = {"cron"}
    Patience = 0
    MaxTime = 1
    MaxChanges = 1
    MaxCalls = 2
    MaxFaults = 0
    MaxTokens = 1
INVARIANT FirstReadinessWins
CHECK_DEADLOCK FALSE
