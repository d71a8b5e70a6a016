\* Liveness of a target that is started again and again.
CONSTANTS
    p1 = p1
    p2 = p2
    i1 = i1
    i2 = i2
    i3 = i3
    f1 = f1
    t1 = t1
    t2 = t2
    t3 = t3
    NoInstance = NoInstance
    NoToken = NoToken
    NoProc = NoProc
    Procs <- OneProc
    Instances <- TwoInstances
    Foreign <- NoneForeign
    Preexisting <- NoneForeign
    Tokens <- TwoTokens
    OnceModes <- BothModes
    Validity = 2
    Retention = 2
    MaxTime = 1
    ListLag = TRUE
    UserActs = FALSE
    AttemptsLapse = FALSE
    LongRetries = TRUE
    LateRequests = "anyOrder"
SPECIFICATION FairSpec
PROPERTIES
    Converges
