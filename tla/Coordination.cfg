SPECIFICATION Spec
CONSTANTS
    Invocation = {a, b, c}
    MaxWaiters = 1
    NoOne = NoOne
INVARIANTS
    ReadyAfterConfirmation
    SocketLeadsToOwner
PROPERTIES
    UnlockOnlyWhileLocked
    ImplementsScreenLock
CHECK_DEADLOCK FALSE
