\* Two runs: one lists while the other launches, takes the lock afterwards, and retries the attempt once it has expired.
CONSTANTS
    p1 = p1
    p2 = p2
    i1 = i1
    i2 = i2
    i3 = i3
    f1 = f1
    t1 = t1
    t2 = t2
    t3 = t3
    NoInstance = NoInstance
    NoToken = NoToken
    NoProc = NoProc
    Procs <- TwoProcs
    Instances <- TwoInstances
    Foreign <- NoneForeign
    Preexisting <- NoneForeign
    Tokens <- TwoTokens
    OnceModes <- Looping
    Validity = 1
    Retention = 1
    MaxTime = 2
    ListLag = FALSE
    UserActs = FALSE
    AttemptsLapse = TRUE
    LongRetries = FALSE
    LateRequests = "never"
SPECIFICATION Spec
SYMMETRY Symmetry
INVARIANTS
    AtMostOneLive
