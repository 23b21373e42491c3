\* Two processes, two users, two transactions, two calls.
CONSTANTS
    u1 = u1
    u2 = u2
    p1 = p1
    p2 = p2
    Users = {u1, u2}
    NoUser = NoUser
    Procs = {p1, p2}
    Amounts = {1}
    Trial = 1
    MaxTx = 2
    MaxCalls = 2
SPECIFICATION FairSpec
INVARIANT LedgerBalanced
PROPERTY ImplementsLedger
\* The bound on transactions lets a behaviour end.
CHECK_DEADLOCK FALSE
PROPERTY EveryTransactionEnds
