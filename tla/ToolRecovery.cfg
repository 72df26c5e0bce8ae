SPECIFICATION Spec
CONSTANTS
    Calls = {read, spawn, exec}
    Safe = {read, spawn}
    MaxRestarts = 3
INVARIANTS TypeOK UnsafeAtMostOnce SafeAtMostTwice ShownIsLatest
PROPERTIES FinishedStaysFinished
CHECK_DEADLOCK FALSE
