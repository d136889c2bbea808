CONSTANTS
    BLOCK = 3
    U16 = 6
    OtherWakes = FALSE
    AadLens <- MCAadLens
    MessageLens <- MCMessageLens
SPECIFICATION CcmSpec
INVARIANTS OwnCompletion MacCoversAll RoundTrip CountersUnique
CHECK_DEADLOCK FALSE
