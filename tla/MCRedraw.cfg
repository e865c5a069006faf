CONSTANTS
    Surface = {s1, s2}
    Size = {1}
    Scale = {1}
    Background = {b1}
    Pixels = {p1}
    Geometry = {g1}
    Nothing = Nothing
    \* Surfaces at and beyond the limits on their sides and bytes.
    LargestSurfaceSide = 9
    LargestBuffer = 300
    LargestInteger = 400
    FilterScale = 64
    OpaqueAlpha = 15
    MaxFrameSide = 4
    MaxSurfaceSide = 6
    Prompts = {"code", "terms", "Password"}
    Notices = {"hint", "story"}
    Lines <- TextLines
    PromptLines = 3
    NoticeLines = 1
    Inputs <- KeyTexts
    MAX_TEXT_CHARS = 3
    MaskChars = 2
    MaxPresses = 5
    MaxFrames = 1
    \* One product of size and scale is too large.
    Outputs = {left, right}
    OutputSizes = {1, 2}
    OutputScales = {1, 2}
    LargestSide = 3
    DissolveSteps = 2
    MaxChanges = 4
    \* Any decode may fail.
    DaySeconds = 7
    Pictures = {1, 2, 3}
    PrimaryPicture = 2
    DayPoints <- ThreePoints
    SunPoints <- TwoPoints
    DissolveSeconds = 2
    RetrySeconds = 3
    ClockTolerance = 1
    BrokenPictures = {}
    FlakyPictures = {1, 2, 3}
    MaxDecodes = 1
    MaxClockJumps = 1
SPECIFICATION LockSpec
PROPERTIES
    RedrawHappens
    MediaIsPolled
