SPECIFICATION Spec
CONSTANTS
    Hub = Hub
    t1 = t1
    t2 = t2
    t3 = t3
    anml = anml
    a1 = a1
    a2 = a2
    w1 = w1
    Tokens = {anml, t1, t2, t3}
    ShieldedOnly = {anml}
    Accounts = {a1}
    PrivateIds = {w1}
    Scenarios <- StaleScenarios
    Earmark = 7
    SwapAmounts = {5, 17}
    DepositAmounts = {3}
    ShareAmounts = {1}
    BidAmounts = {2}
    RewardAmounts = {7}
    ParamSets <- TwoParams
    FeeUnit = 20
    PoolCap = 30
    LpPrec = 3
    VolPrec = 2
    DecayWindow = 2
    WindowDays = 2
    MaxCatchUp = 2
    RebaseAt = 4
    RebaseFactor = 4
    DaySeconds = 1
    StaleSeconds = 3
    StaleLimit = 1
    SweepLimit = 2
    NoteBudget = 2
    MaxNote = 1
    MaxSplit = 4
    RetryBase = 1
    MaxShift = 1
    RetrySlots = 2
    PolSeconds = 3
    AuctionSeconds = 2
    StartTime = 1
    MaxTime = 6
    Steps <- Steps1
    MaxErth = 80
INVARIANTS StaleQueueExact
