SPECIFICATION MCSpec
CONSTANTS
    NoFrame = NoFrame
    Poster = Poster
    Failed = Failed
    Torn = Torn
    PipeSize = 2
    MaxFrames = 4
    PosterLoads = {TRUE}
    AutomaticStartup = 1
    SoftwareStartup = 2
    FrameStall = 1
    SeekStall = 1
INVARIANTS
    HandoversAreCurrent
PROPERTIES
    BackgroundNeverRegresses
    PlaybackNeverFreezes
CHECK_DEADLOCK FALSE
