\* Two handlers at a time, with a database error and a crash.
CONSTANTS
    c1 = c1
    c2 = c2
    p1 = p1
    p2 = p2
    Casts = {c1, c2}
    Procs = {p1, p2}
    NoProc = NoProc
    NoCast = NoCast
    Requests = {"arrive", "finish", "operatorStart", "operatorFinish", "adminFinish", "complete", "adminComplete", "recharge", "spend"}
    Estimate = 3
    Total = 4
    Pack = 2
    Openings = {0, 2}
    OtherFrozen = 1
    MaxStarted = 6
    MaxErrors = 1
    MaxCrashes = 1
SPECIFICATION FairSpec
INVARIANT FrozenIsReserved
INVARIANT CompletedIsPaid
PROPERTY RechargeOfFailedOnly
PROPERTY EveryHandlerReturns
\* The bound on requests lets a behaviour end.
CHECK_DEADLOCK FALSE
