SPECIFICATION ExecSpec
CONSTANTS
    Worker = {w1, w2}
    Job = {j1}
    NoOne = NoOne
    NoJob = NoJob
    PolicyAttempts = 2
    HardLimit = 3
    MaxProgress = 100
    MaxLapses = 0
    MaxCrashes = 1
    TotalTrials = 2
    TotalFolds = 2
SYMMETRY WorkerSymmetry
INVARIANTS ResumedReportAccepted
CHECK_DEADLOCK FALSE
