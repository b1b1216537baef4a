SPECIFICATION Spec
CONSTANTS
    Oid = {o1}
    Dir = {d1}
    DirOf <- OneDir
    Proc = {p1}
    Builds = {TRUE}
    Faults = {"uring"}
    NoOid = NoOid
    MaxCrashes = 0
PROPERTY WriteReturnsStored
