\* Two replicas, two requests at a time and each replica's own reloads, two
\* updates of the key, under fairness; no symmetry.
SPECIFICATION FairSpec
CONSTANTS
    Replicas = {rep1, rep2}
    Requests = {q1, q2}
    Values = {v1, v2}
    None = None
    MaxWrites = 2
INVARIANTS
    CacheCoherent
    ReplicaCurrent
PROPERTY
    CacheCatchesUp
