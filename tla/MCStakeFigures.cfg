CONSTANTS
    Validators = {1}
    Proposals = {1, 2}
    CheckpointPruneLimit = 1
    SelfBond = 2
    GenesisNotes <- MCGenesisNotes
    Amounts = {1}
    Options = {yes}
    Prec = 4
    MonthBlocks = 2
    LiveVintageMonths = 1
    VotingPeriod = 2
    ExpeditedVotingPeriod = 1
    SnapshotSweepLimit = 1
    SweepBudget = 2
    Budgets <- MCBudgets
    LastMsg = 3
    MaxHeight = 10
SPECIFICATION FairSpec
PROPERTIES FiguresKept
CHECK_DEADLOCK FALSE
