SPECIFICATION Spec
CONSTANTS
    Procs = {1, 2}
    Scenes <- MCScenes
    MaxHaves = 2
    MaxFaults = 1
INVARIANTS
    TypeOK
    RefsClosed
    LogsRemember
    IndexWhole
    CheckedOut
PROPERTIES
    NoLostCommits
CHECK_DEADLOCK FALSE
