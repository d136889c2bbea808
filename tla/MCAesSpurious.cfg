CONSTANTS
    BLOCK = 3
    U16 = 6
    OtherWakes = TRUE
    AadLens <- MCFewAadLens
    MessageLens <- MCMessageLens
SPECIFICATION CcmSpec
INVARIANT OwnCompletion
CHECK_DEADLOCK FALSE
