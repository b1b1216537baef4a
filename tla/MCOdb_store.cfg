SPECIFICATION Spec
CONSTANTS
    Oid = {o1}
    Dir = {d1}
    DirOf <- OneDir
    Proc = {p1, p2}
    Builds = {TRUE, FALSE}
    Faults = {"mkdir", "open", "write", "fsync", "rename", "uring"}
    NoOid = NoOid
    MaxCrashes = 2
SYMMETRY Symmetry
INVARIANTS
    TypeOK
    VisibleWhole
    AckedSurvives
    WriteStores
    CacheBacked
    NoTmpLeft
