SPECIFICATION Spec
CONSTANTS
    Reqs = {r1}
    NoReq = NoReq
    MaxAppends = 3
INVARIANT SeqNotReused
CHECK_DEADLOCK FALSE
