SPECIFICATION Spec
CONSTANTS
    erth = erth
    anml = anml
    alice = alice
    dex = dex
    Pool = pool
    FeeCollector = feeCollector
    Denoms = {erth, anml}
    FeeDenom = erth
    ShieldedOnly = {anml}
    PoolLocked = {}
    Recipients <- ValueRecipients
    Accounts = {alice}
    Modules = {dex}
    GenesisBalance <- ValueBalance
    Switchable = {anml}
    Capacity = 4
    Windows = {1}
    RootPruneLimit = 1
    Margin = 1
    MaxTime = 3
    MaxNoteValue = 2
    MaxSplitNotes = 2
    MinFee = 1
    MinActions = 1
    MaxActions = 2
    MaxPrivateActionsPerBlock = 3
    MaxCoins = 3
INVARIANTS TurnstileExact Backed AcceptedPaid
PROPERTIES AnchorsSpec
