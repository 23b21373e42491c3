SPECIFICATION MembersSpec
CONSTANTS
    Handlers = {h1, h2}
    MaxRequests = 5
    MaxFaults = 1
    DeskRequests <- MCDeskRequests
    DeskConcurrent <- MCDeskConcurrent
    LikingCasts = {k1}
    LikingGuests = {v1}
    DayLength = 2
    LikeLimit = 2
    CreditsPerLike = 1
    MaxSlot = 5
    Orders <- MCOrders
    Guests = {"g1", "g2"}
    RewardCasts = {"k1", "k2"}
    OwnerOf <- MCOwnerOf
    CastsOf <- MCCastsOf
    Private = {"m2", "m4"}
    InviterOf <- MCInviterOf
    StepEach = 2
    StepLimit = 1
    TurnEach = 2
    TurnLimit = 2
    ShareLimit = 1
    EntryOrders = {"o1", "o2"}
    EntryCasts = {"c1", "c2", "c3"}
    PlannedTimes <- MCPlannedTimes
    Blocking = 1
    Needed <- MCNeeded
    Score <- MCScore
    Bookings <- MCBookings
    Day = 14
    NightEnd = 2
    MinInterval = 2
    Divider = 2
    BaseCost = 10
    ProlongCost = 14
    NightSurcharge = 3
    FeePermille = 700
    Roundings <- MCRoundings
    MaxClock = 18
    MaxAccounts = 2
    Ranks = {"r1", "r2"}
    BranchOf <- MCBranchOf
    PriceLists <- MCPriceLists
    Proposals = {2}
    HeadCounts = {1, 2}
    Delays = {6}
    Times = {6}
    MaxTick = 1
    MaxEdits = 1
    SettingsNames = {"banners", "event_campaigns", "cast_ranks", "business_areas", "admins"}
    Zones = {0, 1}
    LinkOptions = {1}
    MaxRows = 3
    FieldsTouched = {"startAt", "endAt", "password", "sortIndex"}
    MaxTouched = 1
    SamplePairs = 1
    SampleOrders = 2
    SampleFees = {4, 6}
    RankedCasts = {"kc1", "kc2"}
    RankedGuests = {"kg"}
    Birthday <- MCBirthday
    HeadStarts <- MCHeadStarts
    ScoreRows <- MCScoreRows
    Questions <- MCQuestions
    CampaignPlans <- MCCampaignPlans
    WeekDays = 1
    MonthDays = 2
    DeadlineDay = 0
    EventDeadlineDay = 0
    Top = 2
    MaxDay = 2
    NoticeCases <- MCNoticeCases
    LetterKinds <- MCLetterKinds
    Phones = {2}
    Found = {"fk1", "fk2", "fk3", "fg"}
    Facts <- MCFacts
    Viewers = {"customer", "cast"}
    Queries <- MCQueries
    PageSize = 2
    TopFee = 9
    MaxFootDay = 1
    RemindedCasts = {rc1, rc2}
    SelectionLead = 1
    EndLead = 1
    OrderTimes <- MCOrderTimes
    Moves <- MCMoves
    MaxTime = 5
    Apprentices = {"ac1", "ac2"}
    MonthLengths <- MCMonthLengths
    FirstDays = {3, 5, 8}
    MaxUses = 2
    BoardOrders = {"bo1", "bo2"}
    BoardPlaces = {"pa", "pb"}
    PlacesOf <- MCPlacesOf
    Unwanted = {}
    LaterOrders = {"bo2"}
INVARIANTS
    ChatBadgesRight
    LikesPaid
    RewardsPaid
    EntriesKept
    BillsFair
    AccountsSafe
    OrdersConfirmed
    SettingsSaved
    SeedRepeatable
    RankingsFair
    ScreensTellTruth
    MembersTold
    RemindersSent
SYMMETRY MCSymmetry
CHECK_DEADLOCK FALSE
