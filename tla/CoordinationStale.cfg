SPECIFICATION Spec
CONSTANTS
    Invocation = {a, b}
    MaxWaiters = 1
    NoOne = NoOne
INVARIANTS
    JoinedWhileLocked
CHECK_DEADLOCK FALSE
