SPECIFICATION KindSpec
CONSTANTS
    Kind = {"experiment", "walk_forward", "optimization"}
    Worker = {w1, w2}
    Job = {j1}
    NoOne = NoOne
    NoJob = NoJob
    PolicyAttempts = 2
    HardLimit = 3
    MaxProgress = 100
    MaxLapses = 2
    MaxCrashes = 1
SYMMETRY WorkerSymmetry
INVARIANTS EverySuccessIsBacked SuccessAgrees ResumeLosesOneStep
PROPERTIES EndedExecutionKept ExecutionProgressMonotone
CHECK_DEADLOCK FALSE
