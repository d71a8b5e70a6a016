\* One call of the orchestrator, any answers, users acting on the instance.
CONSTANTS
    i1 = i1
    i2 = i2
    t1 = t1
    NoInstance = NoInstance
    NoToken = NoToken
    Instances <- MCInstances
    Foreign = {}
    Preexisting <- MCPreexisting
    Tokens <- MCTokens
    Validity = 1
    Retention = 1
    ListLag = TRUE
    UserActs = TRUE
    Width = 5
    RetryBounds <- MCRetryBounds
SPECIFICATION FairSpec
CHECK_DEADLOCK FALSE
INVARIANTS
    TypeOK
    RetriesWithinBudget
PROPERTIES
    KeepsContract
    Returns
