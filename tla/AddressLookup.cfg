\* The instance is terminated while the public address is looked up.
CONSTANTS
    i1 = i1
    i2 = i2
    t1 = t1
    NoInstance = NoInstance
    NoToken = NoToken
    Instances <- MCInstances
    Foreign = {}
    Preexisting <- MCPreexisting
    Tokens <- MCTokens
    Validity = 1
    Retention = 1
    ListLag = TRUE
    UserActs = TRUE
    Width = 5
    RetryBounds <- MCRetryBounds
SPECIFICATION Spec
CHECK_DEADLOCK FALSE
INVARIANTS
    FinishesRunning
