SPECIFICATION Spec
CONSTANTS
    Worker = {w1, w2}
    Client = {c1}
    Job = {j1}
    NoOne = NoOne
    NoJob = NoJob
    PolicyAttempts = 2
    HardLimit = 3
    RetryDelays <- MCRetryDelays
    LeaseDuration = 1
    MaxProgress = 2
    MaxAge = 1
    MaxCrashes = 1
SYMMETRY WorkerSymmetry
INVARIANTS RowsValid OneRunnerPerAttempt
PROPERTIES StaleWorkerRejected CancellationSticks AttemptsBounded AtomicLifecycle
