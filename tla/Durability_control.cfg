SPECIFICATION Spec
CONSTANTS
    NoReq = NoReq
    Prompts = {r1}
    Statuses = {}
    Stops = {s}
    Resets = {n}
    TurnsGoStale = TRUE
    TurnsPanic = TRUE
    MaxDeliveries = 1
    MaxCrashes = 1
    MaxAttempts = 1
    LedgerMax = 2
INVARIANTS TypeOK AtMostOneOpenTurn AnswerSavedOnce StoppedNotRedriven
CHECK_DEADLOCK FALSE
