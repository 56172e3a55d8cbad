\* Two replicas bill two subscriptions every two hours.
SPECIFICATION FairSpec
CONSTANTS
    Replica = {rep1, rep2}
    Subscription = {s1, s2}
    Length = 2
    None = None
PROPERTIES
    ChargedOncePerPeriod
    ActiveIsBilled
