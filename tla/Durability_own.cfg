SPECIFICATION Spec
CONSTANTS
    NoReq = NoReq
    Prompts = {r1, r2}
    Statuses = {}
    Stops = {}
    Resets = {}
    TurnsGoStale = FALSE
    TurnsPanic = FALSE
    MaxDeliveries = 1
    MaxCrashes = 1
    MaxAttempts = 1
    LedgerMax = 1
INVARIANTS ReplyIsOwn
CHECK_DEADLOCK FALSE
