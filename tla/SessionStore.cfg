SPECIFICATION FairSpec
CONSTANTS
    Lanes = {"bus", "direct"}
    Registered = {"bus"}
    Budget = 2
    Target = 1
    Suffix = 1
    NoSession = NoSession
    MaxExchanges = 3
    MaxEvents = 3
INVARIANTS TypeOK NothingLost OrderKept HiddenIsCovered DeletedStaysDeleted WipedStaysWiped NameKept
PROPERTIES MarkGoesAway
CHECK_DEADLOCK FALSE
