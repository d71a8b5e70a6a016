\* Two processes, lagging listings, user actions; the persisted attempt stays valid.
CONSTANTS
    p1 = p1
    p2 = p2
    i1 = i1
    i2 = i2
    i3 = i3
    f1 = f1
    t1 = t1
    t2 = t2
    t3 = t3
    NoInstance = NoInstance
    NoToken = NoToken
    NoProc = NoProc
    Procs <- TwoProcs
    Instances <- ThreeInstances
    Foreign <- OneForeign
    Preexisting <- OnePreexisting
    Tokens <- TwoTokens
    OnceModes <- BothModes
    Validity = 2
    Retention = 2
    MaxTime = 2
    ListLag = TRUE
    UserActs = TRUE
    AttemptsLapse = FALSE
    LongRetries = TRUE
    LateRequests = "inOrder"
SPECIFICATION Spec
SYMMETRY Symmetry
INVARIANTS
    TypeOK
    AtMostOneLive
    LaunchesPersistedAttempt
    NoOrphan
    ForeignUntouched
    RunningWasActive
PROPERTIES
    NeverForgets
