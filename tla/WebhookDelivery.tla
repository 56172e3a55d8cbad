--------------------------- MODULE WebhookDelivery ---------------------------
(***************************************************************************)
(* Outgoing webhooks: the endpoints merchants register, the notification   *)
(* loops of WebhooksService and the delivery and retry of one event to one *)
(* endpoint by WebhookDeliveryService.  Retry timers live in the memory of *)
(* the replica that made the attempt; each attempt saves a delivery row of *)
(* its own.                                                                *)
(***************************************************************************)
EXTENDS Integers

CONSTANTS Endpoint, Replica,
          Notes,        \* notifications are numbered 1..Notes, oldest first
          MaxRetries,   \* maxRetries
          PostCap       \* bound: posts of a delivery are counted up to PostCap

ASSUME BoundsAssumption == /\ Notes \in Nat \ {0}
                           /\ MaxRetries \in Nat \ {0, 1}
                           /\ PostCap \in Nat \ {0}

Note == 1..Notes

VARIABLES
    endpoint,  \* webhook_endpoints rows: absent, active or deactivated
    loop,      \* per note: its notification loop
    home,      \* per note: the replica that runs its loop and its timers
    todo,      \* per note: endpoints its loop has still to deliver to
    chain,     \* per note and endpoint: the latest attempt to deliver it
    \* History.
    targets,   \* per note: the endpoints its loop set out to notify
    posts,     \* per note and endpoint: POSTs made, up to PostCap
    acked,     \* notes an endpoint answered with success
    last,      \* per endpoint: the note it received last, 0 for none
    retried,   \* deliveries that needed more than one attempt
    overlap,   \* notes whose loop was open while another note's began
    lost       \* notes cut short by a crash or a failed save

vars == <<endpoint, loop, home, todo, chain, targets, posts, acked, last,
          retried, overlap, lost>>
history == <<targets, posts, acked, last, retried, overlap, lost>>

EndpointRow == {"absent", "active", "deactivated"}

At == {"none", "posting", "saving", "timer"}
\* attempts: of the row, and each attempt has a row of its own.
Attempt == [at : At, attempts : 0..1, success : BOOLEAN, retry : BOOLEAN]
NoAttempt == [at |-> "none", attempts |-> 0, success |-> FALSE, retry |-> FALSE]

TypeOK ==
    /\ endpoint \in [Endpoint -> EndpointRow]
    /\ loop \in [Note -> {"idle", "open", "closed"}]
    /\ home \in [Note -> Replica]
    /\ todo \in [Note -> SUBSET Endpoint]
    /\ chain \in [Note -> [Endpoint -> Attempt]]
    /\ targets \in [Note -> SUBSET Endpoint]
    /\ posts \in [Note -> [Endpoint -> 0..PostCap]]
    /\ acked \subseteq Note \X Endpoint
    /\ last \in [Endpoint -> 0..Notes]
    /\ retried \subseteq Note \X Endpoint
    /\ overlap \subseteq Note
    /\ lost \subseteq Note

Init ==
    /\ endpoint = [e \in Endpoint |-> "absent"]
    /\ loop = [n \in Note |-> "idle"]
    /\ home \in [Note -> Replica]
    /\ todo = [n \in Note |-> {}]
    /\ chain = [n \in Note |-> [e \in Endpoint |-> NoAttempt]]
    /\ targets = [n \in Note |-> {}]
    /\ posts = [n \in Note |-> [e \in Endpoint |-> 0]]
    /\ acked = {} /\ retried = {} /\ overlap = {} /\ lost = {}
    /\ last = [e \in Endpoint |-> 0]
-----------------------------------------------------------------------------
Set(n, e, attempt) == chain' = [chain EXCEPT ![n][e] = attempt]

Count(n, e) == posts' = [posts EXCEPT ![n][e] = IF @ = PostCap THEN @ ELSE @ + 1]

Open == {n \in Note : loop[n] = "open"}

CreateEndpoint(e) ==
    /\ endpoint[e] = "absent"
    /\ endpoint' = [endpoint EXCEPT ![e] = "active"]
    /\ UNCHANGED <<loop, home, todo, chain, history>>

DeleteEndpoint(e) ==
    /\ endpoint[e] = "active"
    /\ endpoint' = [endpoint EXCEPT ![e] = "deactivated"]
    /\ UNCHANGED <<loop, home, todo, chain, history>>

\* findEndpointsByMerchant and the start of the loop over its answer.  The
\* notes are numbered in this order.
OpenLoop(n, endpoints) ==
    /\ loop[n] = "idle"
    /\ \A m \in 1..(n - 1) : loop[m] # "idle"
    /\ loop' = [loop EXCEPT ![n] = "open"]
    /\ todo' = [todo EXCEPT ![n] = endpoints]
    /\ targets' = [targets EXCEPT ![n] = endpoints]
    /\ overlap' = IF Open = {} THEN overlap ELSE overlap \cup Open \cup {n}
    /\ UNCHANGED <<endpoint, home, chain, posts, acked, last, retried, lost>>

NotifyPaymentUpdate(n) == OpenLoop(n, {e \in Endpoint : endpoint[e] = "active"})

\* A test is sent to a deactivated endpoint too.
SendTestWebhook(n, e) == endpoint[e] # "absent" /\ OpenLoop(n, {e})

\* Mutant: the loop does not await deliverWebhook.
PostUnawaited(n, e) ==
    /\ loop[n] = "open" /\ e \in todo[n]
    /\ Set(n, e, [NoAttempt EXCEPT !.at = "posting", !.retry = TRUE])
    /\ Count(n, e)
    /\ todo' = [todo EXCEPT ![n] = @ \ {e}]
    /\ UNCHANGED <<endpoint, loop, home, targets, acked, last, retried, overlap, lost>>

\* deliverWebhook from the loop, which awaits each call before the next one.
Post(n, e) ==
    /\ loop[n] = "open" /\ e \in todo[n]
    /\ \A f \in Endpoint : chain[n][f].at \in {"posting", "saving"} => chain[n][f].retry
    /\ Set(n, e, [NoAttempt EXCEPT !.at = "posting"])
    /\ Count(n, e)
    /\ UNCHANGED <<endpoint, loop, home, todo, targets, acked, last, retried, overlap, lost>>

\* Mutants: the row is saved before the answer's outcome is set; a failed
\* fetch is not caught and ends the loop.
AnswerUnrecorded(n, e, success, received) ==
    /\ chain[n][e].at = "posting"
    /\ success => received
    /\ Set(n, e, [chain[n][e] EXCEPT !.at = "saving", !.attempts = @ + 1])
    /\ acked' = IF success THEN acked \cup {<<n, e>>} ELSE acked
    /\ last' = IF received THEN [last EXCEPT ![e] = n] ELSE last
    /\ UNCHANGED <<endpoint, loop, home, todo, targets, posts, retried, overlap, lost>>
AnswerUncaught(n, e, success, received) ==
    /\ chain[n][e].at = "posting"
    /\ success => received
    /\ Set(n, e, IF success THEN [chain[n][e] EXCEPT !.at = "saving", !.success = TRUE,
                                                     !.attempts = @ + 1]
                 ELSE NoAttempt)
    /\ todo' = IF success THEN todo ELSE [todo EXCEPT ![n] = {}]
    /\ acked' = IF success THEN acked \cup {<<n, e>>} ELSE acked
    /\ last' = IF received THEN [last EXCEPT ![e] = n] ELSE last
    /\ UNCHANGED <<endpoint, loop, home, targets, posts, retried, overlap, lost>>

\* The endpoint's answer.  It may have received the event although the answer
\* is an error, is lost, or cannot be read to its end.
Answer(n, e, success, received) ==
    /\ chain[n][e].at = "posting"
    /\ success => received
    /\ Set(n, e, [chain[n][e] EXCEPT !.at = "saving", !.success = success,
                                     !.attempts = @ + 1])
    /\ acked' = IF success THEN acked \cup {<<n, e>>} ELSE acked
    /\ last' = IF received THEN [last EXCEPT ![e] = n] ELSE last
    /\ UNCHANGED <<endpoint, loop, home, todo, targets, posts, retried, overlap, lost>>

\* The loop goes on once a delivery it awaits is saved.
Resume(n, e) == todo' = IF chain[n][e].retry THEN todo ELSE [todo EXCEPT ![n] = @ \ {e}]

\* Mutant: the comparison with the limit is turned round.
WantsRetryAtLimit(attempt) == ~attempt.success /\ attempt.attempts >= MaxRetries

WantsRetry(attempt) == ~attempt.success /\ attempt.attempts < MaxRetries

SaveDelivery(n, e) ==
    /\ chain[n][e].at = "saving"
    /\ Set(n, e, IF WantsRetry(chain[n][e])
                 THEN [chain[n][e] EXCEPT !.at = "timer"] ELSE NoAttempt)
    /\ Resume(n, e)
    /\ UNCHANGED <<endpoint, loop, home, history>>

\* The save is rejected: the loop ends with the error, a retry just ends.
SaveFails(n, e) ==
    /\ chain[n][e].at = "saving"
    /\ Set(n, e, NoAttempt)
    /\ todo' = IF chain[n][e].retry THEN todo ELSE [todo EXCEPT ![n] = {}]
    /\ lost' = lost \cup {n}
    /\ UNCHANGED <<endpoint, loop, home, targets, posts, acked, last, retried, overlap>>

CloseLoop(n) ==
    /\ loop[n] = "open" /\ todo[n] = {}
    /\ loop' = [loop EXCEPT ![n] = "closed"]
    /\ UNCHANGED <<endpoint, home, todo, chain, history>>

\* retryDelivery reads the row the timer names and, when it may, delivers its
\* event with a new row.  Whether the endpoint is still active is not read.
RetryDelivery(n, e) ==
    /\ chain[n][e].at = "timer"
    /\ IF chain[n][e].success \/ chain[n][e].attempts >= MaxRetries
       THEN Set(n, e, NoAttempt) /\ UNCHANGED <<posts, retried>>
       ELSE /\ Set(n, e, [NoAttempt EXCEPT !.at = "posting", !.retry = TRUE])
            /\ Count(n, e)
            /\ retried' = retried \cup {<<n, e>>}
    /\ UNCHANGED <<endpoint, loop, home, todo, targets, acked, last, overlap, lost>>

\* The replica's timers and loops die with it.
Crash(rep) ==
    LET here == {n \in Note : home[n] = rep /\ loop[n] # "idle"}
        cut == {n \in here : loop[n] = "open" \/ \E e \in Endpoint : chain[n][e].at # "none"}
    IN  /\ cut # {}
        /\ loop' = [n \in Note |-> IF n \in cut THEN "closed" ELSE loop[n]]
        /\ todo' = [n \in Note |-> IF n \in cut THEN {} ELSE todo[n]]
        /\ chain' = [n \in Note |->
                        IF n \in cut THEN [e \in Endpoint |-> NoAttempt] ELSE chain[n]]
        /\ lost' = lost \cup cut
        /\ UNCHANGED <<endpoint, home, targets, posts, acked, last, retried, overlap>>

Service(n, e) ==
    Post(n, e) \/ SaveDelivery(n, e) \/ RetryDelivery(n, e) \/ CloseLoop(n)

MerchantWebhooks ==
    \E e \in Endpoint :
        CreateEndpoint(e) \/ DeleteEndpoint(e) \/ \E n \in Note : SendTestWebhook(n, e)

Next ==
    \/ MerchantWebhooks
    \/ \E n \in Note : NotifyPaymentUpdate(n)
    \/ \E n \in Note, e \in Endpoint :
        \/ Service(n, e)
        \/ \E success, received \in BOOLEAN : Answer(n, e, success, received)
        \/ SaveFails(n, e)
    \/ \E rep \in Replica : Crash(rep)

Spec == Init /\ [][Next]_vars

\* The event loop runs settled calls and due timers, an endpoint answers
\* every request, and one that is asked for ever succeeds at some time.
FairSpec ==
    /\ Spec
    /\ \A n \in Note, e \in Endpoint :
          WF_vars(Service(n, e) \/ \E success, received \in BOOLEAN : Answer(n, e, success, received))
    /\ \A e \in Endpoint : SF_vars(\E n \in Note : Answer(n, e, TRUE, TRUE))
-----------------------------------------------------------------------------
\* webhook-delivery.service.ts: an event an endpoint has acknowledged is not
\* posted to it again, whatever retries were under way.
NoRepeatAfterAck ==
    [][\A n \in Note, e \in Endpoint :
           chain'[n][e].at = "posting" /\ chain[n][e].at # "posting"
               => <<n, e>> \notin acked]_vars

\* webhooks.service.ts notifyPaymentUpdate: when a loop ends without a crash
\* or a failed save, every endpoint it set out to notify has been tried: an
\* endpoint that is down does not keep the event from the others.
EveryTargetTried ==
    \A n \in Note \ lost : loop[n] = "closed" => \A e \in targets[n] : posts[n][e] > 0

\* webhooks.service.ts, webhook-delivery.service.ts: an endpoint sees an older
\* update after a newer one only because of a retry or because the two
\* notifications overlapped.
LateOnlyByRetry ==
    [][\A e \in Endpoint :
           last'[e] < last[e] =>
               \/ <<last'[e], e>> \in retried
               \/ {last'[e], last[e]} \subseteq overlap]_vars

\* webhook-delivery.service.ts: an update for an endpoint that keeps being
\* asked and is not down for ever is acknowledged at last, however often it
\* fails, unless a crash or a failed save loses it.
EventuallyAcked ==
    \A n \in Note, e \in Endpoint :
        e \in targets[n] ~> <<n, e>> \in acked \/ n \in lost
=============================================================================
