\* One process: the exit code 124 without --max-runtime.
CONSTANTS
    r1 = r1
    r2 = r2
    t1 = t1
    Runs <- MCOneRun
    NoRun = NoRun
    Targets <- MCTargets
    NoTarget = NoTarget
    Modes <- MCOneMode
SPECIFICATION Spec
INVARIANTS
    DeadlineIsMaxRuntime
