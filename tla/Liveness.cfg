SPECIFICATION LiveSpec
CONSTANTS
    Part = {"queue", "stream"}
    Worker = {w1}
    Client = {c1}
    Job = {j1}
    NoOne = NoOne
    NoJob = NoJob
    PolicyAttempts = 2
    HardLimit = 3
    RetryDelays <- MCRetryDelays
    LeaseDuration = 1
    MaxProgress = 2
    MaxAge = 1
    MaxCrashes = 2
    Workers = {s1, s2}
    Payloads = {a, b}
    MaxWindow = 2
    Lateness = 1
    MaxPolls = 2
PROPERTIES QueuedJobsFinish StreamJobsEnd
CHECK_DEADLOCK FALSE
