SPECIFICATION Spec
CONSTANTS
    Output = {1, 2}
    Requested = 2
    Internal = 1
    MaxCommits = 1
    MaxFeedback = 1
PROPERTIES
    AuthenticationReturns
    AuthenticationBecomesVisible
