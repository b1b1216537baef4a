SPECIFICATION Spec
CONSTANTS
    Letters = 2
    MinMatch = 3
    TableLetters = 2
    HashK = 5
    MaxLit = 2
    MaxCopy = 4
    MaxVisits = 2
    Uint = 8
    Fan = 3
    Rest = 2
    Msb = 16
    IdLens <- MCIdLens
    MaxDepth = 2
    Margin = 32
    MinPack = 3
    Batch = 3
    FirstCap = 1
    Places = 2
    Limit = 4
    MaxText = 6
    MaxOps = 2
    MaxRecords = 3
    MaxEntries = 4
    MaxPack = 5
    MaxCommits = 5
    MaxPaths = 3
INVARIANTS
    DeltasAgree
    LookupsAgree
    PackReadsBack
    OffsetsPoint
    ExtractYieldsPack
    HistoryAgrees
    TreeRoundTrip
    CommitRoundTrip
CHECK_DEADLOCK FALSE
