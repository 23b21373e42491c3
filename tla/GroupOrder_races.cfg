\* Two handlers at a time, one fault: two casts for one place.
CONSTANTS
    c1 = c1
    c2 = c2
    p1 = p1
    p2 = p2
    Casts = {c1, c2}
    Procs = {p1, p2}
    NoProc = NoProc
    NoCast = NoCast
    Needed = 1
    Minimum = 1
    Cost = 3
    Pack = 2
    Openings = {2}
    OtherFrozen = 0
    Overdraft = 1
    Fees = {0}
    MaxStarted = 4
    MaxFaults = 1
SPECIFICATION FairSpec
INVARIANT FrozenIsReserved
PROPERTY ChargedOnlyWhileRequested
PROPERTY NeverReopened
PROPERTY RecruitmentEnds
\* The bound on requests lets a behaviour end.
CHECK_DEADLOCK FALSE
