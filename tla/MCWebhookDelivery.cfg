\* Two notifications to two endpoints, with crashes.
SPECIFICATION Spec
CONSTANTS
    Endpoint = {e1, e2}
    Replica = {rep1}
    Notes = 2
    MaxRetries = 3
    PostCap = 1
SYMMETRY Symmetry
INVARIANTS
    EveryTargetTried
PROPERTIES
    NoRepeatAfterAck
    LateOnlyByRetry
CHECK_DEADLOCK FALSE
