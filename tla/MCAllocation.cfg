SPECIFICATION FairSpec
CONSTANTS
    h1 = h1
    h2 = h2
    d1 = d1
    d2 = d2
    val1 = val1
    Humans = {h1, h2}
    Delegators = {d1, d2}
    Validators = {val1}
    Emission = 3
    TicksPerSecond = 2
    Precision = 2
    HumanVoterWeight = 3
    Weights = {0, 3}
    Percents = {33, 67}
    MaxVoterOptions = 2
    Leases = {1, 2}
    LapseRetrySeconds = 1
    OptionIdleGrace = 1
    OptionPruneSweepLimit = 1
    DrawPpms = {1}
    PpmDenominator = 4
    Seed = 4
    MaxOptions <- OneMore
    MaxTime = 11
    Steps <- OneStep
    Scenarios <- AllScenarios
    MaxFaults = 1
INVARIANTS AssertInvariants SplitsFresh Solvent
PROPERTIES EmissionFair LeaseHonoured LeasesEnd
CHECK_DEADLOCK FALSE
