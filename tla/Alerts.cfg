SPECIFICATION Spec
CONSTANTS
    Worker = {w1, w2}
    e1 = e1
    e2 = e2
    NoWork = NoWork
    MaxHour = 3
    Part = {"center", "observation", "review"}
    Step = 1
    Day = 3
    Scale = 1000
    Threshold = 5
    SourceEvent <- TwoEvents
    Assessment <- TwoAssessments
    RuleContent <- TwoRules
    PolicyContent <- QuietHours
    Duration = {3}
    SweepLimit = 1
    MaxVersions = 2
    MaxPolicies = 1
    MaxActions = 2
    MaxJobs = 2
    Alert <- TwoAlerts
    PricePath <- FourPaths
    Horizon = 1
    Mode = {"shadow"}
    Trend = {"trending_up", "ranging"}
    Learning <- ReviewPolicy
    ClosedPositions <- TwoClosed
    Journal <- TwoJournals
    JournalEnd = {"no_position", "target"}
    Evaluation <- OneEvaluation
    StageRecord <- StageRecords
SYMMETRY Symmetry
INVARIANTS RowsReadable WindowsRespected OutcomesSound ReviewFailsByRaceOnly
CHECK_DEADLOCK FALSE
