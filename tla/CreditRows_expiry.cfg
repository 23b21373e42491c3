\* One user books while the expiry job holds a list that names the user.
CONSTANTS
    u1 = u1
    p1 = p1
    Users = {u1}
    NoUser = NoUser
    Procs = {p1}
    Amounts = {1}
    Trial = 1
    MaxTx = 1
    MaxCalls = 1
SPECIFICATION Spec
PROPERTY ExpiryTakesTrialOnly
CHECK_DEADLOCK FALSE
