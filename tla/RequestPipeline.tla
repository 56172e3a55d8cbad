--------------------------- MODULE RequestPipeline ---------------------------
(***************************************************************************)
(* The middleware every request passes before its handler: the rate limit  *)
(* of its client, that of its route, and the cache of answers in a store   *)
(* all replicas share.  The cache is bound to every path, so the URL it    *)
(* sees has lost its path: answers are kept by method and query string.    *)
(* What a handler does is abstracted to the fact that it ran.  A request   *)
(* is made at most once; its answer is named by the request whose handler  *)
(* gave it.                                                                *)
(***************************************************************************)
EXTENDS Absent, Integers

CONSTANTS HttpRequest, Client,
          Other,         \* the methods but POST
          Query,         \* query strings
          Points,        \* requests of a client per minute: 100 in the code
          RoutePoints    \* of those, on a limited route: 30 to 100

ASSUME PipelineAssumption ==
    /\ {Points, RoutePoints} \subseteq Nat
    /\ {None, "refused", "failed"} \cap HttpRequest = {}
    /\ "POST" \notin Other

Method == Other \cup {"POST"}

\* plain: any method but POST, whose success is a 200.  That of a POST is a 201,
\* but for the handler of inbound webhooks, which has it made a 200.  exempt:
\* the creation of a payment, and every call that configures webhooks.
Endpoint == {"plain", "POST", "webhook", "exempt"}
Cacheable == {"plain", "webhook"}

\* limited: the path is one of those with a limit of their own.
HttpCall ==
    {call \in [client : Client, endpoint : Endpoint, method : Method, query : Query,
               limited : BOOLEAN] :
        /\ call.endpoint = "plain" => call.method \in Other
        /\ call.endpoint \in {"POST", "webhook"} => call.method = "POST"
        /\ call.limited => /\ call.endpoint # "webhook"
                           /\ call.endpoint = "exempt" => call.method = "POST"}

VARIABLES
    used,       \* per client: requests in the current minute
    routeUsed,  \* per client: those on the limited route
    remembered, \* per method and query: the answer in the cache, or None
    http,       \* per request: where it is and what it asks for
    answer,     \* per request: whose answer it got, "refused", "failed" or None
    handled     \* requests whose handler has run

httpVars == <<used, routeUsed, remembered, http, answer, handled>>

HttpStep == {"new", "limit", "routeLimit", "cache", "handler", "store", "end"}
Outcome == HttpRequest \cup {"refused", "failed", None}
Url == Method \X Query

PipelineTypeOK ==
    /\ used \in [Client -> Nat] /\ routeUsed \in [Client -> Nat]
    /\ remembered \in [Url -> HttpRequest \cup {None}]
    /\ http \in [HttpRequest -> [at : HttpStep, call : HttpCall \cup {None}]]
    /\ answer \in [HttpRequest -> Outcome]
    /\ handled \subseteq HttpRequest

PipelineInit ==
    /\ used = [i \in Client |-> 0] /\ routeUsed = used
    /\ remembered = [k \in Url |-> None]
    /\ http = [q \in HttpRequest |-> [at |-> "new", call |-> None]]
    /\ answer = [q \in HttpRequest |-> None]
    /\ handled = {}

Asks(q) == http[q].call
Key(q) == <<Asks(q).method, Asks(q).query>>
Moves(q, at) == http' = [http EXCEPT ![q].at = at]
Answers(q, a) == answer' = [answer EXCEPT ![q] = a]
-----------------------------------------------------------------------------
Arrive(q, call) ==
    /\ http[q].at = "new"
    /\ http' = [http EXCEPT ![q] = [at |-> "limit", call |-> call]]
    /\ UNCHANGED <<used, routeUsed, remembered, answer, handled>>

\* consume counts a request before it refuses it.
Passes(count, points) == count < points

Lets(q, count, points, next) ==
    IF Passes(count, points) THEN Moves(q, next) /\ UNCHANGED answer
    ELSE Moves(q, "end") /\ Answers(q, "refused")

\* Where the limits lead: an exempt path passes the cache by.
Onward(q) == IF Asks(q).endpoint = "exempt" THEN "handler" ELSE "cache"

\* RateLimitMiddleware.
LimitClient(q) ==
    LET i == Asks(q).client IN
    /\ http[q].at = "limit"
    /\ used' = [used EXCEPT ![i] = used[i] + 1]
    /\ Lets(q, used[i], Points, IF Asks(q).limited THEN "routeLimit" ELSE Onward(q))
    /\ UNCHANGED <<routeUsed, remembered, handled>>

\* RateLimitPerRouteMiddleware.
LimitRoute(q) ==
    LET i == Asks(q).client IN
    /\ http[q].at = "routeLimit"
    /\ routeUsed' = [routeUsed EXCEPT ![i] = routeUsed[i] + 1]
    /\ Lets(q, routeUsed[i], RoutePoints, Onward(q))
    /\ UNCHANGED <<used, remembered, handled>>

\* The store of the counters cannot be reached: refused all the same.
LimiterFails(q) ==
    /\ http[q].at \in {"limit", "routeLimit"}
    /\ Moves(q, "end") /\ Answers(q, "refused")
    /\ UNCHANGED <<used, routeUsed, remembered, handled>>

MinuteEnds(i) ==
    /\ used[i] + routeUsed[i] # 0
    /\ used' = [used EXCEPT ![i] = 0]
    /\ routeUsed' = [routeUsed EXCEPT ![i] = 0]
    /\ UNCHANGED <<remembered, http, answer, handled>>
-----------------------------------------------------------------------------
(* CacheMiddleware.                                                         *)

\* An answer in the cache is sent as a 200, whatever the path and the body of
\* the request: a creation can be answered by an inbound webhook's.
LookUp(q) ==
    /\ http[q].at = "cache"
    /\ IF remembered[Key(q)] # None
       THEN Moves(q, "end") /\ Answers(q, remembered[Key(q)])
       ELSE Moves(q, "handler") /\ UNCHANGED answer
    /\ UNCHANGED <<used, routeUsed, remembered, handled>>

\* Mutant: the status is not looked at.
StoresAny(q, a) == TRUE

\* res.json keeps an answer whose status is 200.
Stores(q, a) == a = q /\ Asks(q).endpoint \in Cacheable

\* HttpExceptionFilter: a failure is answered through res.json too.
Given(q) == {q, "failed"}

\* The guards, pipes and the handler.
Handle(q) ==
    /\ http[q].at = "handler"
    /\ \E a \in Given(q) :
          /\ Answers(q, a)
          /\ handled' = IF a = q THEN handled \cup {q} ELSE handled
          /\ Moves(q, IF Stores(q, a) THEN "store" ELSE "end")
    /\ UNCHANGED <<used, routeUsed, remembered>>

\* Nobody waits for the answer to be stored.
Store(q) ==
    /\ http[q].at = "store"
    /\ remembered' = [remembered EXCEPT ![Key(q)] = q]
    /\ Moves(q, "end")
    /\ UNCHANGED <<used, routeUsed, answer, handled>>

RememberedExpires(k) ==
    /\ remembered[k] # None
    /\ remembered' = [remembered EXCEPT ![k] = None]
    /\ UNCHANGED <<used, routeUsed, http, answer, handled>>

\* The store cannot be reached, or the replica dies; a handler may have run.
RequestFails(q) ==
    /\ http[q].at \in {"cache", "handler", "store"}
    /\ Moves(q, "end")
    /\ answer' = IF http[q].at = "store" THEN answer ELSE [answer EXCEPT ![q] = "failed"]
    /\ handled' \in {handled, IF http[q].at = "handler" THEN handled \cup {q} ELSE handled}
    /\ UNCHANGED <<used, routeUsed, remembered>>

PipelineNext ==
    \/ \E q \in HttpRequest :
          \/ \E call \in HttpCall : Arrive(q, call)
          \/ LimitClient(q) \/ LimitRoute(q) \/ LimiterFails(q)
          \/ LookUp(q) \/ Handle(q) \/ Store(q) \/ RequestFails(q)
    \/ \E i \in Client : MinuteEnds(i)
    \/ \E k \in Url : RememberedExpires(k)

PipelineSpec == PipelineInit /\ [][PipelineNext]_httpVars
-----------------------------------------------------------------------------
Succeeded(q) == answer[q] \in HttpRequest

\* cache.middleware.ts, app.module.ts: whoever is told of success gets the
\* answer of a request of the same method and query string that ran and was
\* answered itself, so a failure is never repeated from the cache.  Without
\* having run, nobody is told what only a 201 says, and no exempt request
\* anything: a payment that is answered was created.
AnswersAreEarned ==
    \A q \in HttpRequest : Succeeded(q) =>
        LET o == answer[q] IN
        /\ o \in handled /\ answer[o] = o /\ Key(o) = Key(q)
        /\ q \in handled \/ (Asks(q).endpoint # "exempt" /\ Asks(o).endpoint \in Cacheable)

\* What webhooks.controller.ts:17 says of a 200: the webhook was processed.
\* Another one's answer may be in the cache.
WebhookProcessed ==
    \A q \in HttpRequest :
        Succeeded(q) /\ Asks(q).endpoint = "webhook" => q \in handled
=============================================================================
