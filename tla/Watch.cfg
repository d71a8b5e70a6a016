\* The watch across runs: interruptions, --once, throttling, changing domains.
CONSTANTS
    a = a
    b = b
    c = c
    NoAD = NoAD
    ADs <- MCADs
    ADLists <- MCADLists
    InitialInterval = 2
    MaxInterval = 6
    Jitter = 50
    Guidance = {2, 7}
    MaxRetryCount = 3
    Width = 4
    Failures = 2
    HalfOpenRequests = 1
    Interval = 3
    OpenTimeout = 2
    ExclusionReleases = TRUE
SPECIFICATION FairSpec
INVARIANTS
    TypeOK
    FailuresBounded
    RefusesOnlyAfterFailure
PROPERTIES
    OnceProbesEachOnce
    DelayHonoured
    EveryDomainProbed
    OnceLeaves
