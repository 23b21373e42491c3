\* A failed order that keeps its reservation.
CONSTANTS
    c1 = c1
    c2 = c2
    p1 = p1
    p2 = p2
    Casts = {c1, c2}
    Procs = {p1, p2}
    NoProc = NoProc
    NoCast = NoCast
    Needed = 1
    Minimum = 1
    Cost = 3
    Pack = 2
    Openings = {3}
    OtherFrozen = 0
    Overdraft = 0
    Fees = {0}
    MaxStarted = 3
    MaxFaults = 0
SPECIFICATION Spec
INVARIANT FailedIsReleased
CHECK_DEADLOCK FALSE
