\* Two processes and one target; runs follow each other without end.
CONSTANTS
    r1 = r1
    r2 = r2
    t1 = t1
    Runs <- MCRuns
    NoRun = NoRun
    Targets <- MCTargets
    NoTarget = NoTarget
    Modes <- MCModes
SPECIFICATION FairSpec
INVARIANTS
    TypeOK
    EndsAsRecorded
    WaitToldAsRecorded
    EndReported
PROPERTIES
    InterruptionEnds
