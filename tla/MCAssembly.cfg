SPECIFICATION ChamberSpec
CONSTANTS
    Passports = {1, 2, 3}
    Idcs = {1, 2, 3, 4}
    Dscs = {1, 2, 3, 4}
    Names = {}
    SignersOf <- OwnSigner
    CountryOf <- Countries
    Day = 2
    Margin = 2
    MaxSkew = 2
    Grace = 1
    Renewal = 1
    ShareBps <- Shares
    BpsDenominator = 1
    SweepLimit = 5
    ScanFactor = 8
    ReserveDivisor = 8
    RetrySeconds = 1
    CaretakerSweepLimit = 1
    ClaimPruneLimit = 1
    RootPruneLimit = 1
    Scenarios <- MCScenarios
    Start = 10
    Steps = {1, 2}
    Proposals = {1, 2}
    Options = {1}
    Contents <- AllContents
    VotingPeriod = 2
    ExpeditedPeriod = 1
    RemovalVotingPeriod = 1
    RemovalCooldown = 1
    OrphanBallotCheckLimit = 1
    ClosedVotePurgeLimit = 2
    MaxBallots = 2
INVARIANTS BallotsExact
PROPERTIES Ratified BallotsClear
