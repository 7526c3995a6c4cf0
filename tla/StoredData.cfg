CONSTANTS
    Events = {e1}
    RawDays = 1
    EventDays = 1
    InboxDays = 2
    DeliveredDays = 1
    FailedDays = 1
    ProvisionalDays = 1
    EvidenceDays = 2
    Limit = 2
    MaxDay = 4
    MaxWatermarks = 2
    MaxRetries = 1
    Redeliveries = TRUE
    Part = {"retention", "migration"}
SPECIFICATION StoredSpec
SYMMETRY Symmetry
PROPERTY HoldFreezes
PROPERTY NewestWindowKept
INVARIANTS ReplayLineageKept SchemaMatchesModels OnlyExitReasonsBlock BackfillsHold
CHECK_DEADLOCK FALSE
