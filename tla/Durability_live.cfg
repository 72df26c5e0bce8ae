SPECIFICATION FairSpec
CONSTANTS
    NoReq = NoReq
    Prompts = {r1, r2}
    Statuses = {c}
    Stops = {}
    Resets = {}
    TurnsGoStale = FALSE
    TurnsPanic = FALSE
    MaxDeliveries = 1
    MaxCrashes = 1
    MaxAttempts = 1
    LedgerMax = 1
PROPERTIES AcceptedIsSettled TranscriptOnlyGrows
CHECK_DEADLOCK FALSE
