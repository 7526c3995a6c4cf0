CONSTANTS
    Workers = {s1, s2}
    Providers <- BothProviders
    Route <- KrakenThenBinance
    Burst = 1
    TokenTicks = 1
    MaxDelay = 1
    MaxClock = 2
    Scheduler = {d1, d2}
    Operator = {o1, o2}
    NoEntry = NoEntry
    NoCall = NoCall
    Interval = 2
    MaxTime = 3
    MaxCalls = 3
    Part = {"requests", "schedule"}
SPECIFICATION PartSpec
SYMMETRY Symmetry
INVARIANT WithinBudget
INVARIANT BudgetExhaustionIsRetried
INVARIANT ScheduleKept
CHECK_DEADLOCK FALSE
