SPECIFICATION Spec
CONSTANTS
    MaxLength = 3
    max_source_bytes = 2
    MaxChanges = 3
    Limit = 60
    MaxString = 5
    SecondsPerDay = 12
    Grain = 9
    SampleSeconds = 4
    MaxPoints = 3
    MaxSlope = 3
    NoPair = NoPair
INVARIANTS
    LimitsAreExact
    ParserUsesApprovedBytes
    ContentIsKept
    ScheduleIsCircular
CHECK_DEADLOCK FALSE
