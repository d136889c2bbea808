CONSTANTS
    BLOCK = 3
    U16 = 6
    OtherWakes = FALSE
    AadLens <- MCFewAadLens
    MessageLens <- MCMessageLens
SPECIFICATION CcmSpec
INVARIANT CompletionNotMissed
CHECK_DEADLOCK FALSE
