\* One handler at a time, no faults.
CONSTANTS
    c1 = c1
    c2 = c2
    c3 = c3
    p1 = p1
    p2 = p2
    Casts = {c1, c2, c3}
    Procs = {p1}
    NoProc = NoProc
    NoCast = NoCast
    Requests = {"arrive", "finish", "operatorStart", "operatorFinish", "adminFinish", "complete", "adminComplete", "recharge", "spend"}
    Estimate = 3
    Total = 4
    Pack = 2
    Openings = {0, 1, 2, 3}
    OtherFrozen = 1
    MaxStarted = 11
    MaxErrors = 0
    MaxCrashes = 0
SPECIFICATION Spec
SYMMETRY Symmetry
INVARIANT BilledOnce
INVARIANT TakenIsBooked
\* The bound on requests lets a behaviour end.
CHECK_DEADLOCK FALSE
