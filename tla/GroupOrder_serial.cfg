\* One handler at a time, no faults: three casts for two places.
CONSTANTS
    c1 = c1
    c2 = c2
    c3 = c3
    p1 = p1
    Casts = {c1, c2, c3}
    Procs = {p1}
    NoProc = NoProc
    NoCast = NoCast
    Needed = 2
    Minimum = 2
    Cost = 3
    Pack = 2
    Openings = {0, 2, 4}
    OtherFrozen = 1
    Overdraft = 0
    Fees = {0, 4}
    MaxStarted = 8
    MaxFaults = 0
SPECIFICATION Spec
SYMMETRY Symmetry
INVARIANT ScheduledIsReserved
INVARIANT FailedIsReleased
INVARIANT ScheduledIsStaffed
INVARIANT TakenIsBooked
\* The bound on requests lets a behaviour end.
CHECK_DEADLOCK FALSE
