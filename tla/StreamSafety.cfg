CONSTANTS
    Workers = {s1, s2}
    Payloads = {a, b}
    MaxWindow = 2
    Lateness = 1
    MaxPolls = 3
SPECIFICATION Spec
SYMMETRY Symmetry
INVARIANT WatermarkForward
INVARIANT FinalBehindWatermark
INVARIANT FinalOnlyRevised
INVARIANT JournalMatchesWindows
INVARIANT OneRevisionPerSource
CHECK_DEADLOCK FALSE
