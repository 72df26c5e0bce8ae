SPECIFICATION FairSpec
CONSTANTS
    Messages = {m1, m2, d1}
    DirectTurns = {d1}
    NoMessage = NoMessage
    Tools = {read, exec}
    NoTool = NoTool
    Tabs = {tab}
    Loop = loop
    MaxCalls = 1
    MaxGrants = 1
    MaxEvents = 1
INVARIANTS TypeOK GrantCoversCall PendingHasWaiter RegisteredIsUnderWay ShownWhileRunning
PROPERTIES MessagesEnd IdleAgain
CHECK_DEADLOCK FALSE
