SPECIFICATION ServicesSpec
CONSTANTS
    Handlers = {h1, h2}
    MaxRequests = 4
    DeskRequests <- MCDeskRequests
    MaxFaults = 1
    ChargeUnit = 1
    Price = 1
    OrderOpenings <- MCOpenings
    BaseFee = 1
    FeePermille = 100
    MaxFee = 3
    MinNet = 1
    Earning = 2
    Nets = {1}
    PayoutOpenings = {1, 4}
    MaxDay = 3
    GiftPrice = 2
    RollFee = 1
    GiftOpenings <- MCOpenings
    Reward = 1
    Milestone = 2
    DailyLimit = 2
    Recipients = {r1, r2}
INVARIANTS
    AnsweredIsSettled
    ReservedIsFrozen
    OneOpenApplication
    TransferredOrReturned
    PayableIsMatured
    BookedOnce
    CapturedIsBooked
    CardIsConfirmed
    GiftsAddUp
PROPERTIES
    RequestCloses
CHECK_DEADLOCK FALSE
