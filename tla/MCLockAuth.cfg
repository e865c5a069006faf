SPECIFICATION MCSpec
CONSTANTS
    EventCapacity = 2
    SocketCapacity = 1
    MaxPrompts = 2
    MaxAttempts = 3
    MaxNotices = 2
    User = {"self", "other", "nobody"}
    Self = "self"
    PAM_MAX_NUM_MSG = 3
    MAX_MESSAGES = 4
    Messages <- SizedMessages
    Identity <- ReadyForSelf
    HEADER_BYTES = 2
    UID_BYTES = 1
    ID_BYTES = 2
    MAX_PAYLOAD_BYTES = 4
    MAX_RESPONSE_BYTES = 2
    MAX_MESSAGE_BYTES = 1
    READY_TIMEOUT = 2
    MaxSent = 2
    MaxTime = 4
INVARIANTS
    AuthorizedByCurrentAttempt
    ResponseReachesItsPrompt
    PromptIsAnswerable
    WriteNeverBlocks
    WorkerKeepsItsWord
PROPERTIES
    ConversationMovesOn
CHECK_DEADLOCK FALSE
