SPECIFICATION FairSpec
CONSTANTS
    Capacity = 3
    Windows = {1, 2}
    RootPruneLimit = 1
    Margin = 1
    MaxTime = 5
INVARIANTS EveryNoteSpendable GenesisAccepts
PROPERTIES WindowHonoured MempoolAnchorsLive ExpiredEventuallyPruned
