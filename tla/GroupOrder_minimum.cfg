\* An order with a minimum below the number of casts it asks for.
CONSTANTS
    c1 = c1
    c2 = c2
    c3 = c3
    p1 = p1
    Casts = {c1, c2, c3}
    Procs = {p1}
    NoProc = NoProc
    NoCast = NoCast
    Needed = 2
    Minimum = 1
    Cost = 3
    Pack = 2
    Openings = {2}
    OtherFrozen = 1
    Overdraft = 0
    Fees = {0, 4}
    MaxStarted = 7
    MaxFaults = 0
SPECIFICATION Spec
INVARIANT ScheduledIsReserved
\* The bound on requests lets a behaviour end.
CHECK_DEADLOCK FALSE
