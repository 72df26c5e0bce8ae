SPECIFICATION FairSpec
CONSTANTS
    Jobs = {dream, once}
    OneShots = {once}
    Protected = {dream}
    AtTime = 1
    Period = 2
    Timers = {1, 2}
    NoJob = NoJob
    NoTimer = 0
    MaxTime = 2
    MaxEvents = 2
INVARIANTS TypeOK NoLostWakeup OneShotOnce AckedIsDurable
PROPERTIES DueIsServed
CHECK_DEADLOCK FALSE
