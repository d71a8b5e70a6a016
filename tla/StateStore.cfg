\* Two writers, up to eight updates, failures at every step, power losses.
CONSTANTS
    p1 = p1
    p2 = p2
    NoProc = NoProc
    Procs <- MCProcs
    MaxRecord = 8
SPECIFICATION Spec
CHECK_DEADLOCK FALSE
INVARIANTS
    TypeOK
    AlwaysReadable
PROPERTIES
    IsAtomic
