\* One process across expiries, consistent listings, launch retries shorter than a tick.
CONSTANTS
    p1 = p1
    p2 = p2
    i1 = i1
    i2 = i2
    i3 = i3
    f1 = f1
    t1 = t1
    t2 = t2
    t3 = t3
    NoInstance = NoInstance
    NoToken = NoToken
    NoProc = NoProc
    Procs <- OneProc
    Instances <- ThreeInstances
    Foreign <- OneForeign
    Preexisting <- OnePreexisting
    Tokens <- ThreeTokens
    OnceModes <- Looping
    Validity = 2
    Retention = 2
    MaxTime = 6
    ListLag = FALSE
    UserActs = TRUE
    AttemptsLapse = TRUE
    LongRetries = FALSE
    LateRequests = "never"
SPECIFICATION Spec
SYMMETRY Symmetry
INVARIANTS
    AtMostOneLive
    NoOrphan
PROPERTIES
    NeverForgets
