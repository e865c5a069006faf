SPECIFICATION Spec
CONSTANTS
    Output = {1, 2}
    Requested = 2
    Internal = 1
    MaxCommits = 2
    MaxFeedback = 2
INVARIANTS
    OneOutputShowsAuthentication
    HandoffIsUnderWay
