SPECIFICATION FairSpec
CONSTANTS
    Validators = {1, 2}
    Amounts = {3}
    DerthAmounts = {1, 2}
    MinDelegation = 1
    SelfBond = 2
    DecPrec = 2
    MaxNote = 3
    EpochSeconds = 2
    UnbondingTime = 3
    MaxEntries = 1
    EpochValidatorLimit = 1
    MonthSeconds = 3
    LiveVintageMonths = 2
    VintageGraceSeconds = 1
    UnbondPayoutSweepLimit = 2
    UnbondPayoutNoteBudget = 2
    RetryBase = 1
    RetryMaxShift = 1
    Fractions = {1, 2}
    KindSets <- MCKindSets
    LastMsg = 8
    MaxTime = 20
    Steps = {1, 4}
    MaxMsgs = 3
    MaxRewards = 1
    MaxSlashes = 1
    MaxFaults = 1
    MaxEvents = 4
INVARIANT BooksExact
PROPERTY RateKept
PROPERTY PayoutsMade
