SPECIFICATION Spec
CONSTANTS
    Reqs = {r1, r2}
    NoReq = NoReq
    MaxAppends = 4
INVARIANTS TypeOK AckedIsScanned SeqIncreasing
CHECK_DEADLOCK FALSE
