\* Two requests of one client are enough: the second is answered from the cache.
SPECIFICATION PipelineSpec
CONSTANTS
    None = None
    HttpRequest = {q1, q2}
    Client = {i1}
    Other = {"GET"}
    Query = {s1}
    Points = 2
    RoutePoints = 1
INVARIANT
    WebhookProcessed
CHECK_DEADLOCK FALSE
