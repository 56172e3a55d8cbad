\* Two notifications to one endpoint under fairness; no symmetry.
SPECIFICATION FairSpec
CONSTANTS
    Endpoint = {e1}
    Replica = {rep1}
    Notes = 2
    MaxRetries = 3
    PostCap = 1

PROPERTY
    EventuallyAcked
CHECK_DEADLOCK FALSE
