\* An operator finishes the order before a cast has pressed start.
CONSTANTS
    c1 = c1
    c2 = c2
    p1 = p1
    p2 = p2
    Casts = {c1, c2}
    Procs = {p1}
    NoProc = NoProc
    NoCast = NoCast
    Requests = {"arrive", "finish", "operatorFinish"}
    Estimate = 3
    Total = 4
    Pack = 2
    Openings = {0}
    OtherFrozen = 1
    MaxStarted = 5
    MaxErrors = 0
    MaxCrashes = 0
SPECIFICATION Spec
INVARIANT NeverBilledTwice
\* The bound on requests lets a behaviour end.
CHECK_DEADLOCK FALSE
