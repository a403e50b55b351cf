CONSTANTS
    a = "a"
    b = "b"
    Vals = {"a", "b"}
    Fractions <- MCFractions
    ShareUnit = 1
    MoveTimeSlack = 0
    ClearBeforeSlack = 1
    BondedDust = 1
    MinDelegation = 1
    MaxEntryHeightsPerPair = 2
    MergeTries = 1
    MaxMergeMoves = 3
    PruneLimit = 1
    Shorts = {0}
    Scenarios <- MCScenarios
    Options = {1, 2}
    Whole = 2
    MinPosition = 1
    MaturesPerBlock = 1
    MaxEpoch = 2
SPECIFICATION GSpec
INVARIANTS RedelegationsExact NotesWorth ReplayExact RateHeld GroundworksExact
PROPERTIES BystandersSpared
CHECK_DEADLOCK FALSE
