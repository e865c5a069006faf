SPECIFICATION MCSpec
CONSTANTS
    Invocation = {a, b}
    MaxWaiters = 1
    NoOne = NoOne
    Account = {alice, bob}
    Session = {sway}
    None = None
    Stranger = Stranger
    MaxAttempts = 2
    MaxQuestions = 1
    Layouts <- DeskLayouts
    Windows <- WindowSizes
    Unnamed = 0
    Internal = 2
    Requested = 3
    Extent = 4
    MaxChanges = 2
INVARIANTS
    RegionIsOnScreen
PROPERTIES
    LockerAnswers
    GreeterMovesOn
CHECK_DEADLOCK FALSE
