SPECIFICATION Spec
CONSTANTS
    Path = {1, 2}
    Stage = {0, 1}
    Oid = {o1, o2}
    NoKey = NoKey
    NoOid = NoOid
    Trees <- MCTrees
    Sides <- MCSides
    Hashes <- MCHashes
    MinCap = 2
    Slack = 2
    MaxEntries = 3
SYMMETRY OidSymmetry
VIEW View
CONSTRAINT StaleBound
CHECK_DEADLOCK FALSE
INVARIANTS
    TypeOK
    TableAgrees
    SlotsAreLive
PROPERTIES
    CallsAreMapSteps
