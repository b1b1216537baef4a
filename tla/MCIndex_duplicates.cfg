SPECIFICATION Spec
CONSTANTS
    Path = {1, 2, 3}
    Stage = {0, 1}
    Oid = {o1, o2}
    NoKey = NoKey
    NoOid = NoOid
    Trees <- MCTrees
    Sides <- MCSides
    Hashes <- MCHashes
    MinCap = 2
    Slack = 2
    MaxEntries = 3
CHECK_DEADLOCK FALSE
INVARIANTS
    NoDuplicateKeys
