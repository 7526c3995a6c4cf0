CONSTANTS
    Events = {e1}
    RawDays = 1
    EventDays = 1
    InboxDays = 2
    DeliveredDays = 1
    FailedDays = 1
    ProvisionalDays = 1
    EvidenceDays = 2
    Limit = 1
    MaxDay = 3
    MaxWatermarks = 2
    MaxRetries = 0
    Redeliveries = FALSE
    Part = {"retention"}
SPECIFICATION StoredSpec
SYMMETRY Symmetry
INVARIANT NoStrandedDecision
CHECK_DEADLOCK FALSE
