\* A reward fails in the database after the card was charged.
CONSTANTS
    c1 = c1
    c2 = c2
    p1 = p1
    p2 = p2
    Casts = {c1, c2}
    Procs = {p1}
    NoProc = NoProc
    NoCast = NoCast
    Requests = {"arrive", "finish", "operatorStart", "adminFinish", "complete", "recharge", "spend"}
    Estimate = 3
    Total = 4
    Pack = 2
    Openings = {0}
    OtherFrozen = 1
    MaxStarted = 8
    MaxErrors = 1
    MaxCrashes = 0
SPECIFICATION Spec
INVARIANT TakenIsBooked
\* The bound on requests lets a behaviour end.
CHECK_DEADLOCK FALSE
