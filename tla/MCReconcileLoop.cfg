\* Reconciliation against arbitrary observations, over several expiries.
CONSTANTS
    i1 = i1
    i2 = i2
    t1 = t1
    t2 = t2
    t3 = t3
    NoInstance = NoInstance
    NoToken = NoToken
    Instances <- MCInstances
    Tokens <- MCTokens
    Listings <- MCListings
    Damaged <- MCDamaged
    Validity = 2
    MaxTime = 6
SPECIFICATION Spec
INVARIANTS
    TypeOK
    RestartKeepsDecision
PROPERTIES
    TokenReplacedOnlyWhenExpired
    NeverClaimsUnowned
    IncompleteNeverReplaced
