SPECIFICATION FairSpec
CONSTANTS
    Passports = {1, 2}
    Idcs = {1, 2, 3}
    Dscs = {1, 2}
    Names = {1, 2}
    SignersOf <- SomeSigners
    CountryOf <- OneCountry
    Day = 2
    Margin = 2
    MaxSkew = 2
    Grace = 1
    Renewal = 1
    ShareBps <- Shares
    BpsDenominator = 1
    SweepLimit = 5
    ScanFactor = 8
    ReserveDivisor = 8
    RetrySeconds = 1
    CaretakerSweepLimit = 1
    ClaimPruneLimit = 1
    RootPruneLimit = 1
    Start = 10
    Steps = {0, 1}
    Scenarios <- MCScenarios
INVARIANTS RegistryExact OneClaim OneRight
PROPERTIES Retired
