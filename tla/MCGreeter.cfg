SPECIFICATION MCSpec
CONSTANTS
    Account = {alice, bob}
    Session = {sway, niri}
    None = None
    Stranger = Stranger
    MaxAttempts = 4
    MaxQuestions = 2
    MaxAccounts = 2
    MaxSessions = 2
    MaxMail = 2
SYMMETRY Symmetry
INVARIANTS
    ResponseReachesItsQuestion
    ExitStartsSelection
    ReplyIsOwed
    RequestFitsSession
    CloseLeavesNoSession
    DiscoveryIsDetermined
PROPERTIES
    FocusIsOffered
CHECK_DEADLOCK FALSE
