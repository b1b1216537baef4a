SPECIFICATION Spec
CONSTANTS
    Oid = {o1}
    Dir = {d1}
    DirOf <- OneDir
    Proc = {p1}
    Builds = {FALSE}
    Faults = {}
    NoOid = NoOid
    MaxCrashes = 1
PROPERTY WriteReturnsStored
