SPECIFICATION Spec
CONSTANTS
    NoReq = NoReq
    Prompts = {r1, r2}
    Statuses = {}
    Stops = {}
    Resets = {}
    TurnsGoStale = TRUE
    TurnsPanic = FALSE
    MaxDeliveries = 2
    MaxCrashes = 2
    MaxAttempts = 1
    LedgerMax = 1
INVARIANTS QueuedNeverLost OneMorePerCrash CrashLoopBounded AtMostOneOpenTurn AnswerSavedOnce
PROPERTIES LedgerImplementsLife
CHECK_DEADLOCK FALSE
