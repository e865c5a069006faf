SPECIFICATION MCSpec
CONSTANTS
    SecondsPerDay = 5
    Grain = 8
    SampleSeconds = 1
    Image = {1, 2, 3}
    Primary = 2
    TimePoints <- MCTimePoints
    SolarPoints <- MCSolarPoints
    Dissolve = 2
    RetryAfter = 2
    Tolerance = 1
    None = None
    Broken = {1}
    Flaky = {}
    MaxInflight = 1
    MaxJumps = 1
PROPERTIES
    ScheduledImageIsShown
    LatestIsShown
    LocationIsSought
CHECK_DEADLOCK FALSE
