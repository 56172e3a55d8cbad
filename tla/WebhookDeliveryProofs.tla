------------------------ MODULE WebhookDeliveryProofs ------------------------
(***************************************************************************)
(* Proofs about WebhookDelivery, for any endpoints, replicas, number of    *)
(* notifications and limit of retries.                                     *)
(***************************************************************************)
EXTENDS WebhookDelivery, TLAPS

-----------------------------------------------------------------------------
(* The inductive invariant.                                                 *)

\* A loop that has not begun has left no trace; one that is over, nothing to do.
Looping(n) ==
    /\ loop[n] # "open" => todo[n] = {}
    /\ loop[n] = "idle" =>
           /\ \A e \in Endpoint : chain[n][e] = NoAttempt /\ <<n, e>> \notin acked
           /\ \A m \in Note : n < m => loop[m] = "idle"
    /\ \A m \in Note : n < m /\ loop[n] = "open" /\ loop[m] # "idle" => {n, m} \subseteq overlap

\* A loop awaits one delivery at a time.
Awaiting(n) ==
    LET awaited == {e \in Endpoint : chain[n][e].at \in {"posting", "saving"} /\ ~chain[n][e].retry}
    IN  \A e, f \in awaited : e = f

\* Where the latest attempt is: the loop awaits it as long as the endpoint is
\* its to do, a retry comes after that, and an acknowledgement is the last
\* thing to happen.
Attempting(n, e) ==
    LET c == chain[n][e] IN
    /\ c.at \in {"none", "posting"} => ~c.success
    /\ c.at = "none" => ~c.retry
    /\ c.at = "posting" => c.attempts = 0
    /\ e \in todo[n] => c.at # "timer" /\ ~c.retry
    /\ c.at \in {"posting", "saving"} => IF c.retry THEN <<n, e>> \in retried ELSE e \in todo[n]
    /\ <<n, e>> \in acked => \/ c.at = "none" /\ e \notin todo[n]
                             \/ c.at = "saving" /\ c.success
    /\ c.at = "timer" => <<n, e>> \notin acked

\* What the loop set out to do is still to do or has been posted.
Tried(n, e) ==
    /\ chain[n][e].at # "none" => posts[n][e] > 0
    /\ n \notin lost /\ e \in targets[n] => e \in todo[n] \/ posts[n][e] > 0

\* What an endpoint received last comes from a loop that has begun.
Received(e) == last[e] # 0 => loop[last[e]] # "idle"

WInv == /\ TypeOK
        /\ \A n \in Note : Looping(n) /\ Awaiting(n)
        /\ \A n \in Note, e \in Endpoint : Attempting(n, e) /\ Tried(n, e)
        /\ \A e \in Endpoint : Received(e)

-----------------------------------------------------------------------------
LEMMA NotesAreNumbers == Note \subseteq Nat /\ 0 \notin Note /\ Note = 1..Notes /\ Notes \in Nat
BY BoundsAssumption DEF Note

LEMMA WebhooksStart == Init => WInv
<1> SUFFICES ASSUME Init PROVE WInv
  OBVIOUS
<1>1. TypeOK
  BY BoundsAssumption, NotesAreNumbers DEF Init, TypeOK, Attempt, NoAttempt, At, EndpointRow
<1>2. \A n \in Note : Looping(n) /\ Awaiting(n)
  BY DEF Init, Looping, Awaiting, NoAttempt
<1>3. \A n \in Note, e \in Endpoint : Attempting(n, e) /\ Tried(n, e)
  BY DEF Init, Attempting, Tried, NoAttempt
<1>4. \A e \in Endpoint : Received(e)
  BY DEF Init, Received
<1> QED  BY <1>1, <1>2, <1>3, <1>4 DEF WInv

\* One delivery gets the attempt c; its loop can only have less to do.
Delivers(n, e, c) ==
    /\ Set(n, e, c)
    /\ UNCHANGED <<endpoint, loop, home, targets, overlap>>
    /\ \A m \in Note \ {n} : todo'[m] = todo[m]
    /\ todo'[n] \subseteq todo[n]
    /\ \A f \in todo[n] \ {e} : f \in todo'[n] \/ n \in lost'
    /\ \/ todo'[n] = todo[n]
       \/ chain[n][e].at = "saving" /\ ~chain[n][e].retry
    /\ lost \subseteq lost' /\ retried \subseteq retried'
    /\ \A m \in Note, f \in Endpoint : <<m, f>> # <<n, e>> =>
           (<<m, f>> \in acked' <=> <<m, f>> \in acked) /\ posts'[m][f] = posts[m][f]
    /\ \A f \in Endpoint : last'[f] \in {last[f], n}

\* It is enough that this delivery keeps what it has to.
LEMMA DeliveryKeeps ==
    ASSUME WInv, NEW n \in Note, NEW e \in Endpoint, NEW c \in Attempt, loop[n] # "idle",
           TypeOK', Delivers(n, e, c), Awaiting(n)', Attempting(n, e)', Tried(n, e)'
    PROVE  WInv'
<1> USE DEF WInv
<1>1. /\ chain'[n][e] = c
      /\ \A m \in Note, f \in Endpoint : <<m, f>> # <<n, e>> => chain'[m][f] = chain[m][f]
  BY DEF Delivers, Set, TypeOK
<1>2. /\ \A m \in Note : todo'[m] \subseteq todo[m]
      /\ \A m \in Note \ {n} : todo'[m] = todo[m]
  BY DEF Delivers
<1>0. /\ UNCHANGED <<loop, targets, overlap>>
      /\ \A f \in todo[n] \ {e} : f \in todo'[n] \/ n \in lost'
      /\ todo'[n] = todo[n] \/ (chain[n][e].at = "saving" /\ ~chain[n][e].retry)
      /\ lost \subseteq lost' /\ retried \subseteq retried'
      /\ \A m \in Note, f \in Endpoint : <<m, f>> # <<n, e>> =>
             (<<m, f>> \in acked' <=> <<m, f>> \in acked) /\ posts'[m][f] = posts[m][f]
      /\ \A f \in Endpoint : last'[f] \in {last[f], n}
  BY DEF Delivers
<1>3. ASSUME NEW m \in Note PROVE Looping(m)'
  <2>1. Looping(m)
    OBVIOUS
  <2>2. loop'[m] # "open" => todo'[m] = {}
    BY <1>0, <1>2, <2>1 DEF Looping
  <2>3. ASSUME loop'[m] = "idle"
        PROVE  \A f \in Endpoint : chain'[m][f] = NoAttempt /\ <<m, f>> \notin acked'
    <3>1. m # n /\ loop[m] = "idle"
      BY <1>0, <2>3
    <3> QED  BY <1>0, <1>1, <2>1, <3>1 DEF Looping
  <2>4. (\A k \in Note : m < k => loop'[k] = "idle") \/ loop'[m] # "idle"
    BY <1>0, <2>1 DEF Looping
  <2>5. \A k \in Note : m < k /\ loop'[m] = "open" /\ loop'[k] # "idle" => {m, k} \subseteq overlap'
    BY <1>0, <2>1 DEF Looping
  <2> QED  BY <2>2, <2>3, <2>4, <2>5 DEF Looping
<1>4. ASSUME NEW m \in Note, NEW f \in Endpoint, <<m, f>> # <<n, e>>
      PROVE  Attempting(m, f)'
  <2>1. Attempting(m, f) /\ chain'[m][f] = chain[m][f] /\ (<<m, f>> \in acked' <=> <<m, f>> \in acked)
    BY <1>0, <1>1, <1>4
  <2>2. chain[m][f].at \in {"posting", "saving"} /\ ~chain[m][f].retry /\ f \in todo[m]
            => f \in todo'[m]
    BY <1>0, <1>2, <1>4 DEF Awaiting
  <2> QED  BY <1>0, <1>2, <2>1, <2>2 DEF Attempting
<1>5. ASSUME NEW m \in Note, NEW f \in Endpoint, <<m, f>> # <<n, e>>
      PROVE  Tried(m, f)'
  <2>1. Tried(m, f) /\ chain'[m][f] = chain[m][f] /\ posts'[m][f] = posts[m][f]
    BY <1>0, <1>1, <1>5
  <2>2. f \in todo[m] => f \in todo'[m] \/ m \in lost'
    BY <1>0, <1>2, <1>5
  <2> QED  BY <1>0, <1>2, <2>1, <2>2 DEF Tried
<1>6. ASSUME NEW f \in Endpoint PROVE Received(f)'
  BY <1>0 DEF Received
<1>7. \A m \in Note, f \in Endpoint : Attempting(m, f)' /\ Tried(m, f)'
  BY <1>4, <1>5
<1>8. ASSUME NEW m \in Note PROVE Awaiting(m)'
  BY <1>1 DEF Awaiting
<1> QED  BY <1>3, <1>6, <1>7, <1>8

\* Opening a loop, for any endpoints.
LEMMA OpenKeeps ==
    ASSUME WInv, NEW n \in Note, NEW endpoints \in SUBSET Endpoint, OpenLoop(n, endpoints)
    PROVE  WInv'
<1> USE DEF WInv
<1>1. /\ UNCHANGED <<endpoint, home, chain, posts, acked, last, retried, lost>>
      /\ loop[n] = "idle" /\ \A m \in 1..(n - 1) : loop[m] # "idle"
      /\ loop' = [loop EXCEPT ![n] = "open"]
      /\ todo' = [todo EXCEPT ![n] = endpoints]
      /\ targets' = [targets EXCEPT ![n] = endpoints]
      /\ overlap' = IF Open = {} THEN overlap ELSE overlap \cup Open \cup {n}
  BY DEF OpenLoop
<1>2. TypeOK'
  BY <1>1 DEF TypeOK, Open
<1>3. \A e \in Endpoint : chain[n][e] = NoAttempt /\ <<n, e>> \notin acked
  BY <1>1 DEF Looping
<1>4. \A m \in Note : n < m => loop[m] = "idle"
  BY <1>1 DEF Looping
<1>5. ASSUME NEW m \in Note PROVE Looping(m)'
  <2>1. Looping(m)
    OBVIOUS
  <2>2. loop'[m] # "open" => todo'[m] = {}
    BY <1>1, <2>1 DEF Looping, TypeOK
  <2>3. loop'[m] = "idle" => \A e \in Endpoint : chain'[m][e] = NoAttempt /\ <<m, e>> \notin acked'
    BY <1>1, <2>1 DEF Looping, TypeOK
  <2>4. ASSUME loop'[m] = "idle", NEW k \in Note, m < k PROVE loop'[k] = "idle"
    <3>1. m # n /\ loop[m] = "idle"
      BY <1>1, <2>4 DEF TypeOK
    <3>2. m \notin 1..(n - 1)
      BY <1>1, <3>1
    <3>3. k # n
      BY <2>4, <3>1, <3>2, NotesAreNumbers
    <3> QED  BY <1>1, <2>1, <2>4, <3>1, <3>3 DEF Looping, TypeOK
  <2>5. ASSUME NEW k \in Note, m < k, loop'[m] = "open", loop'[k] # "idle"
        PROVE  {m, k} \subseteq overlap'
    <3>1. CASE m = n
      BY <1>1, <1>4, <2>5, <3>1, NotesAreNumbers DEF TypeOK
    <3>2. CASE k = n
      <4>1. m \in Open
        BY <1>1, <2>5, <3>2, NotesAreNumbers DEF Open, TypeOK
      <4> QED  BY <1>1, <3>2, <4>1
    <3>3. CASE m # n /\ k # n
      <4>1. {m, k} \subseteq overlap
        BY <1>1, <2>1, <2>5, <3>3 DEF Looping, TypeOK
      <4> QED  BY <1>1, <4>1
    <3> QED  BY <3>1, <3>2, <3>3
  <2> QED  BY <2>2, <2>3, <2>4, <2>5 DEF Looping
<1>6. ASSUME NEW m \in Note, NEW e \in Endpoint PROVE Attempting(m, e)' /\ Tried(m, e)'
  <2>1. CASE m = n
    BY <1>1, <1>3, <2>1 DEF Attempting, Tried, NoAttempt, TypeOK
  <2>2. CASE m # n
    BY <1>1, <2>2 DEF Attempting, Tried, TypeOK
  <2> QED  BY <2>1, <2>2
<1>8. ASSUME NEW m \in Note PROVE Awaiting(m)'
  BY <1>1 DEF Awaiting
<1>7. ASSUME NEW e \in Endpoint PROVE Received(e)'
  <2>1. Received(e) /\ last'[e] = last[e]
    BY <1>1
  <2> QED  BY <1>1, <2>1 DEF Received, TypeOK
<1> QED  BY <1>2, <1>5, <1>6, <1>7, <1>8

-----------------------------------------------------------------------------
(* The steps of a delivery.                                                 *)

LEMMA Begun ==
    ASSUME WInv, NEW n \in Note, NEW e \in Endpoint, chain[n][e].at # "none" \/ e \in todo[n]
    PROVE  loop[n] # "idle"
<1>1. Looping(n) /\ NoAttempt.at = "none"
  BY DEF WInv, NoAttempt
<1> QED  BY <1>1 DEF Looping

LEMMA Counted ==
    ASSUME TypeOK, NEW n \in Note, NEW e \in Endpoint, Count(n, e)
    PROVE  /\ posts' \in [Note -> [Endpoint -> 0..PostCap]] /\ posts'[n][e] > 0
           /\ \A m \in Note, f \in Endpoint : <<m, f>> # <<n, e>> => posts'[m][f] = posts[m][f]
<1>1. posts[n][e] \in 0..PostCap /\ PostCap \in Nat \ {0}
  BY BoundsAssumption DEF TypeOK
<1> DEFINE k == IF posts[n][e] = PostCap THEN PostCap ELSE posts[n][e] + 1
<1>2. k \in 0..PostCap /\ k > 0
  BY <1>1
<1>3. posts' = [posts EXCEPT ![n][e] = k]
  BY DEF Count
<1> HIDE DEF k
<1> QED  BY <1>2, <1>3 DEF TypeOK

\* What a chain is after a step of one delivery.
LEMMA Attempted ==
    ASSUME TypeOK, NEW n \in Note, NEW e \in Endpoint, NEW c \in Attempt, Set(n, e, c)
    PROVE  /\ chain' \in [Note -> [Endpoint -> Attempt]] /\ chain'[n][e] = c
           /\ \A f \in Endpoint \ {e} : chain'[n][f] = chain[n][f]
BY DEF TypeOK, Set

LEMMA PostKeeps ==
    ASSUME WInv, NEW n \in Note, NEW e \in Endpoint, Post(n, e)
    PROVE  WInv' /\ <<n, e>> \notin acked
<1> DEFINE c == [NoAttempt EXCEPT !.at = "posting"]
<1>1. /\ NoAttempt \in Attempt /\ ~NoAttempt.success /\ ~NoAttempt.retry
      /\ NoAttempt.attempts = 0
  BY DEF Attempt, At, NoAttempt
<1>2. c \in Attempt /\ c.at = "posting" /\ ~c.success /\ ~c.retry /\ c.attempts = 0
  BY <1>1 DEF Attempt, At
<1>3. /\ Set(n, e, c) /\ Count(n, e) /\ e \in todo[n]
      /\ \A f \in Endpoint : chain[n][f].at \in {"posting", "saving"} => chain[n][f].retry
      /\ UNCHANGED <<endpoint, loop, home, todo, targets, acked, last, retried, overlap, lost>>
  BY DEF Post
<1> HIDE DEF c
<1>4. Attempting(n, e) /\ Tried(n, e) /\ TypeOK
  BY DEF WInv
<1>5. <<n, e>> \notin acked
  BY <1>3, <1>4 DEF Attempting
<1>6. /\ chain' \in [Note -> [Endpoint -> Attempt]] /\ chain'[n][e] = c
      /\ \A f \in Endpoint \ {e} : chain'[n][f] = chain[n][f]
  BY <1>2, <1>3, <1>4, Attempted
<1>7. TypeOK'
  BY <1>3, <1>4, <1>6, Counted DEF TypeOK
<1>8. Delivers(n, e, c)
  BY <1>3, <1>4, Counted DEF Delivers
<1>9. Attempting(n, e)' /\ Awaiting(n)'
  BY <1>2, <1>3, <1>5, <1>6 DEF Attempting, Awaiting
<1>10. Tried(n, e)'
  BY <1>3, <1>4, Counted DEF Tried
<1>11. loop[n] # "idle"
  BY <1>3, Begun
<1> QED  BY <1>2, <1>5, <1>7, <1>8, <1>9, <1>10, <1>11, DeliveryKeeps

LEMMA AnswerKeeps ==
    ASSUME WInv, NEW n \in Note, NEW e \in Endpoint, NEW success \in BOOLEAN,
           NEW received \in BOOLEAN, Answer(n, e, success, received)
    PROVE  WInv'
<1> DEFINE c == [chain[n][e] EXCEPT !.at = "saving", !.success = success, !.attempts = @ + 1]
<1>1. Attempting(n, e) /\ Tried(n, e) /\ TypeOK /\ Awaiting(n) /\ chain[n][e].at = "posting"
  BY DEF WInv, Answer
<1>2. chain[n][e] \in Attempt /\ chain[n][e].attempts = 0
  BY <1>1 DEF Attempting, TypeOK
<1>3. c.at = "saving" /\ c.attempts = 1 /\ c.retry = chain[n][e].retry
  BY <1>2 DEF Attempt
<1>4. c.success = success
  BY <1>2 DEF Attempt
<1>5. c \in Attempt
  <2> DEFINE u == [chain[n][e] EXCEPT !.at = "saving", !.success = success]
  <2>1. u \in Attempt /\ u.attempts = 0
    BY <1>2 DEF Attempt, At
  <2>2. c = [u EXCEPT !.attempts = 1]
    BY <1>2 DEF Attempt
  <2>3. \A v \in Attempt : [v EXCEPT !.attempts = 1] \in Attempt
    BY DEF Attempt
  <2> QED  BY <2>1, <2>2, <2>3
<1>6. /\ Set(n, e, c)
      /\ acked' = IF success THEN acked \cup {<<n, e>>} ELSE acked
      /\ last' = IF received THEN [last EXCEPT ![e] = n] ELSE last
      /\ UNCHANGED <<endpoint, loop, home, todo, targets, posts, retried, overlap, lost>>
  BY DEF Answer
<1> HIDE DEF c
<1>7. /\ chain' \in [Note -> [Endpoint -> Attempt]] /\ chain'[n][e] = c
      /\ \A f \in Endpoint \ {e} : chain'[n][f] = chain[n][f]
  BY <1>1, <1>5, <1>6, Attempted
<1>8. last' \in [Endpoint -> 0..Notes] /\ acked' \subseteq Note \X Endpoint
  BY <1>1, <1>6, NotesAreNumbers DEF TypeOK
<1>9. TypeOK'
  BY <1>1, <1>6, <1>7, <1>8 DEF TypeOK
<1>10. \A f \in Endpoint : last'[f] \in {last[f], n}
  BY <1>1, <1>6 DEF TypeOK
<1>11. \A m \in Note, f \in Endpoint :
          <<m, f>> # <<n, e>> => (<<m, f>> \in acked' <=> <<m, f>> \in acked)
  BY <1>6
<1>12. Delivers(n, e, c)
  BY <1>6, <1>10, <1>11 DEF Delivers
<1>13. Awaiting(n)'
  BY <1>1, <1>3, <1>7 DEF Awaiting
<1>14. Attempting(n, e)'
  <2>1. <<n, e>> \notin acked
    BY <1>1 DEF Attempting
  <2>2. <<n, e>> \in acked' => c.success
    BY <1>4, <1>6, <2>1
  <2> QED  BY <1>1, <1>3, <1>6, <1>7, <2>2 DEF Attempting
<1>15. Tried(n, e)'
  BY <1>1, <1>6 DEF Tried
<1>16. loop[n] # "idle"
  BY <1>1, Begun
<1> QED  BY <1>5, <1>9, <1>12, <1>13, <1>14, <1>15, <1>16, DeliveryKeeps

\* A save, whether it fails or not.
LEMMA SaveKeeps ==
    ASSUME WInv, NEW n \in Note, NEW e \in Endpoint, SaveDelivery(n, e) \/ SaveFails(n, e)
    PROVE  WInv'
<1> DEFINE d == [chain[n][e] EXCEPT !.at = "timer"]
<1>1. Attempting(n, e) /\ Tried(n, e) /\ TypeOK /\ Awaiting(n) /\ chain[n][e].at = "saving"
  BY DEF WInv, SaveDelivery, SaveFails
<1>2. chain[n][e] \in Attempt
  BY <1>1 DEF TypeOK
<1>3. /\ d \in Attempt /\ d.at = "timer" /\ d.retry = chain[n][e].retry
      /\ NoAttempt \in Attempt /\ NoAttempt.at = "none" /\ ~NoAttempt.success /\ ~NoAttempt.retry
  BY <1>2 DEF Attempt, NoAttempt, At
<1>4. /\ \/ Set(n, e, d) /\ ~chain[n][e].success
         \/ Set(n, e, NoAttempt)
      /\ UNCHANGED <<endpoint, loop, home, targets, posts, acked, last, retried, overlap>>
      /\ IF chain[n][e].retry THEN todo' = todo
         ELSE \/ todo' = [todo EXCEPT ![n] = @ \ {e}]
              \/ todo' = [todo EXCEPT ![n] = {}] /\ n \in lost'
      /\ lost' = lost \/ lost' = lost \cup {n}
  <2>1. CASE SaveDelivery(n, e)
    BY <2>1 DEF SaveDelivery, WantsRetry, Resume, history
  <2>2. CASE SaveFails(n, e)
    BY <2>2 DEF SaveFails
  <2> QED  BY <2>1, <2>2
<1> HIDE DEF d
<1>5. /\ \A m \in Note \ {n} : todo'[m] = todo[m]
      /\ todo' \in [Note -> SUBSET Endpoint]
      /\ todo'[n] \subseteq todo[n] /\ e \notin todo'[n]
      /\ \A f \in todo[n] \ {e} : f \in todo'[n] \/ n \in lost'
  <2>1. e \in todo[n] => ~chain[n][e].retry
    BY <1>1 DEF Attempting
  <2> QED  BY <1>1, <1>4, <2>1 DEF TypeOK
<1>5a. todo'[n] = todo[n] \/ ~chain[n][e].retry
  BY <1>4
<1>6. PICK c \in {NoAttempt, d} : Set(n, e, c) /\ (c = d => ~chain[n][e].success)
  BY <1>3, <1>4
<1>7. c \in Attempt /\ c.at \in {"none", "timer"}
  BY <1>3
<1>8. /\ chain' \in [Note -> [Endpoint -> Attempt]] /\ chain'[n][e] = c
      /\ \A f \in Endpoint \ {e} : chain'[n][f] = chain[n][f]
  BY <1>1, <1>6, <1>7, Attempted
<1>9. TypeOK'
  BY <1>1, <1>4, <1>5, <1>8 DEF TypeOK
<1>10. Delivers(n, e, c)
  BY <1>1, <1>4, <1>5, <1>5a, <1>6 DEF Delivers
<1>11. Awaiting(n)'
  BY <1>1, <1>7, <1>8 DEF Awaiting
<1>12. Attempting(n, e)'
  <2>1. <<n, e>> \in acked => chain[n][e].success
    BY <1>1 DEF Attempting
  <2>2. CASE c = d
    BY <1>3, <1>4, <1>5, <1>6, <1>8, <2>1, <2>2 DEF Attempting
  <2>3. CASE c = NoAttempt
    BY <1>3, <1>4, <1>5, <1>8, <2>3 DEF Attempting
  <2> QED  BY <2>2, <2>3
<1>13. Tried(n, e)'
  BY <1>1, <1>4 DEF Tried
<1>14. loop[n] # "idle"
  BY <1>1, Begun
<1> QED  BY <1>7, <1>9, <1>10, <1>11, <1>12, <1>13, <1>14, DeliveryKeeps

LEMMA RetryKeeps ==
    ASSUME WInv, NEW n \in Note, NEW e \in Endpoint, RetryDelivery(n, e)
    PROVE  WInv' /\ <<n, e>> \notin acked
<1> DEFINE d == [NoAttempt EXCEPT !.at = "posting", !.retry = TRUE]
<1>1. Attempting(n, e) /\ Tried(n, e) /\ TypeOK /\ Awaiting(n) /\ chain[n][e].at = "timer"
  BY DEF WInv, RetryDelivery
<1>2. /\ NoAttempt \in Attempt /\ NoAttempt.at = "none" /\ NoAttempt.attempts = 0
      /\ ~NoAttempt.success /\ ~NoAttempt.retry
  BY DEF Attempt, At, NoAttempt
<1>3. d \in Attempt /\ d.at = "posting" /\ ~d.success /\ d.retry /\ d.attempts = 0
  BY <1>2 DEF Attempt, At
<1>4. /\ UNCHANGED <<endpoint, loop, home, todo, targets, acked, last, overlap, lost>>
      /\ \/ Set(n, e, NoAttempt) /\ UNCHANGED <<posts, retried>>
         \/ Set(n, e, d) /\ Count(n, e) /\ retried' = retried \cup {<<n, e>>}
  BY DEF RetryDelivery
<1> HIDE DEF d
<1>5. <<n, e>> \notin acked /\ e \notin todo[n]
  BY <1>1 DEF Attempting
<1>6. PICK c \in {NoAttempt, d} : Set(n, e, c) /\ (c = d => <<n, e>> \in retried')
  BY <1>2, <1>3, <1>4
<1>7. /\ chain' \in [Note -> [Endpoint -> Attempt]] /\ chain'[n][e] = c
      /\ \A f \in Endpoint \ {e} : chain'[n][f] = chain[n][f]
  BY <1>1, <1>2, <1>3, <1>6, Attempted
<1>8. /\ posts' \in [Note -> [Endpoint -> 0..PostCap]] /\ posts'[n][e] > 0
      /\ \A m \in Note, f \in Endpoint : <<m, f>> # <<n, e>> => posts'[m][f] = posts[m][f]
  BY <1>1, <1>4, Counted DEF TypeOK, Tried
<1>9. retried' \subseteq Note \X Endpoint /\ retried \subseteq retried'
  BY <1>1, <1>4 DEF TypeOK
<1>10. TypeOK'
  BY <1>1, <1>4, <1>7, <1>8, <1>9 DEF TypeOK
<1>11. Delivers(n, e, c)
  BY <1>4, <1>6, <1>8, <1>9 DEF Delivers
<1>12. Awaiting(n)'
  BY <1>1, <1>2, <1>3, <1>7 DEF Awaiting
<1>13. Attempting(n, e)'
  <2>1. CASE c = d
    BY <1>2, <1>3, <1>4, <1>5, <1>6, <1>7, <2>1 DEF Attempting
  <2>2. CASE c = NoAttempt
    BY <1>2, <1>4, <1>5, <1>7, <2>2 DEF Attempting
  <2> QED  BY <2>1, <2>2
<1>14. Tried(n, e)'
  BY <1>8 DEF Tried
<1>15. loop[n] # "idle"
  BY <1>1, Begun
<1>16. c \in Attempt
  BY <1>2, <1>3
<1> QED  BY <1>5, <1>10, <1>11, <1>12, <1>13, <1>14, <1>15, <1>16, DeliveryKeeps

-----------------------------------------------------------------------------
\* A loop ends.
LEMMA CloseKeeps ==
    ASSUME WInv, NEW n \in Note, CloseLoop(n)
    PROVE  WInv'
<1> USE DEF WInv
<1>1. /\ UNCHANGED <<endpoint, home, todo, chain, targets, posts, acked, last, retried, overlap, lost>>
      /\ loop[n] = "open" /\ todo[n] = {} /\ loop' = [loop EXCEPT ![n] = "closed"]
  BY DEF CloseLoop, history
<1>2. TypeOK'
  BY <1>1 DEF TypeOK
<1>3. \A m \in Note : Looping(m)'
  BY <1>1 DEF Looping, TypeOK
<1>4. \A m \in Note : Awaiting(m)'
  BY <1>1 DEF Awaiting
<1>5. ASSUME NEW m \in Note, NEW e \in Endpoint PROVE Attempting(m, e)' /\ Tried(m, e)'
  <2>1. Attempting(m, e) /\ Tried(m, e)
    OBVIOUS
  <2> QED  BY <1>1, <2>1 DEF Attempting, Tried
<1>6. \A e \in Endpoint : Received(e)'
  BY <1>1 DEF Received, TypeOK
<1> QED  BY <1>2, <1>3, <1>4, <1>5, <1>6

\* A replica dies.
LEMMA CrashKeeps ==
    ASSUME WInv, NEW rep \in Replica, Crash(rep)
    PROVE  WInv'
<1> USE DEF WInv
<1> DEFINE here == {n \in Note : home[n] = rep /\ loop[n] # "idle"}
           cut == {n \in here : loop[n] = "open" \/ \E e \in Endpoint : chain[n][e].at # "none"}
<1>1. /\ cut \in SUBSET Note /\ \A n \in cut : loop[n] # "idle"
      /\ loop' = [n \in Note |-> IF n \in cut THEN "closed" ELSE loop[n]]
      /\ todo' = [n \in Note |-> IF n \in cut THEN {} ELSE todo[n]]
      /\ chain' = [n \in Note |->
                     IF n \in cut THEN [e \in Endpoint |-> NoAttempt] ELSE chain[n]]
      /\ lost' = lost \cup cut
      /\ UNCHANGED <<endpoint, home, targets, posts, acked, last, retried, overlap>>
  BY DEF Crash
<1> HIDE DEF cut
<1>2. NoAttempt \in Attempt /\ NoAttempt.at = "none" /\ ~NoAttempt.success /\ ~NoAttempt.retry
  BY DEF Attempt, NoAttempt, At
<1>3. TypeOK'
  <2>1. chain' \in [Note -> [Endpoint -> Attempt]]
    BY <1>1, <1>2 DEF TypeOK
  <2> QED  BY <1>1, <2>1 DEF TypeOK
<1>4. ASSUME NEW n \in Note PROVE Looping(n)' /\ Awaiting(n)'
  <2>1. Looping(n) /\ Awaiting(n)
    OBVIOUS
  <2>2. Looping(n)'
    BY <1>1, <2>1 DEF Looping
  <2>3. Awaiting(n)'
    BY <1>1, <1>2, <2>1 DEF Awaiting
  <2> QED  BY <2>2, <2>3
<1>5. ASSUME NEW n \in Note, NEW e \in Endpoint PROVE Attempting(n, e)' /\ Tried(n, e)'
  <2>1. Attempting(n, e) /\ Tried(n, e)
    OBVIOUS
  <2>2. CASE n \in cut
    BY <1>1, <1>2, <2>2 DEF Attempting, Tried
  <2>3. CASE n \notin cut
    BY <1>1, <2>1, <2>3 DEF Attempting, Tried
  <2> QED  BY <2>2, <2>3
<1>6. \A e \in Endpoint : Received(e)'
  BY <1>1, NotesAreNumbers DEF Received, TypeOK
<1> QED  BY <1>3, <1>4, <1>5, <1>6

\* An endpoint is registered or deactivated, or nothing happens.
LEMMA EndpointKeeps ==
    ASSUME WInv, \/ \E e \in Endpoint : CreateEndpoint(e) \/ DeleteEndpoint(e)
                 \/ UNCHANGED vars
    PROVE  WInv'
<1> USE DEF WInv
<1>1. /\ UNCHANGED <<loop, home, todo, chain, targets, posts, acked, last, retried, overlap, lost>>
      /\ endpoint' \in [Endpoint -> EndpointRow]
  BY DEF CreateEndpoint, DeleteEndpoint, TypeOK, EndpointRow, history, vars
<1>2. TypeOK'
  BY <1>1 DEF TypeOK
<1>3. \A n \in Note : Looping(n)' /\ Awaiting(n)'
  BY <1>1 DEF Looping, Awaiting
<1>4. ASSUME NEW n \in Note, NEW e \in Endpoint PROVE Attempting(n, e)' /\ Tried(n, e)'
  <2>1. Attempting(n, e) /\ Tried(n, e)
    OBVIOUS
  <2> QED  BY <1>1, <2>1 DEF Attempting, Tried
<1>5. \A e \in Endpoint : Received(e)'
  BY <1>1 DEF Received
<1> QED  BY <1>2, <1>3, <1>4, <1>5

LEMMA WebhookStep == WInv /\ [Next]_vars => WInv'
<1> SUFFICES ASSUME WInv, [Next]_vars PROVE WInv'
  OBVIOUS
<1>1. ASSUME NEW n \in Note, NEW e \in Endpoint, SendTestWebhook(n, e) PROVE WInv'
  BY <1>1, OpenKeeps DEF SendTestWebhook
<1>2. ASSUME NEW n \in Note, NotifyPaymentUpdate(n) PROVE WInv'
  <2>1. {e \in Endpoint : endpoint[e] = "active"} \in SUBSET Endpoint
    OBVIOUS
  <2> QED  BY <1>2, <2>1, OpenKeeps DEF NotifyPaymentUpdate
<1>3. ASSUME NEW n \in Note, NEW e \in Endpoint, Service(n, e) PROVE WInv'
  BY <1>3, PostKeeps, SaveKeeps, RetryKeeps, CloseKeeps DEF Service
<1> QED
  BY <1>1, <1>2, <1>3, AnswerKeeps, SaveKeeps, CrashKeeps, EndpointKeeps DEF Next, MerchantWebhooks

\* Only the loop and the retry timer post.
LEMMA PostsOnly ==
    ASSUME WInv, Next, NEW n \in Note, NEW e \in Endpoint,
           chain'[n][e].at = "posting", chain[n][e].at # "posting"
    PROVE  Post(n, e) \/ RetryDelivery(n, e)
<1>1. TypeOK /\ NoAttempt.at = "none"
  BY DEF WInv, NoAttempt
<1>2. ASSUME NEW m \in Note, NEW f \in Endpoint, Post(m, f) \/ RetryDelivery(m, f)
      PROVE  Post(n, e) \/ RetryDelivery(n, e)
  <2>1. PICK c : Set(m, f, c)
    BY <1>2 DEF Post, RetryDelivery
  <2>2. m = n /\ f = e
    BY <1>1, <2>1 DEF Set, TypeOK
  <2> QED  BY <1>2, <2>2
<1>3. ASSUME NEW m \in Note, NEW f \in Endpoint, NEW c, Set(m, f, c), c.at # "posting"
      PROVE  FALSE
  BY <1>1, <1>3 DEF Set, TypeOK
<1>4. \A m \in Note, f \in Endpoint : ~SaveDelivery(m, f)
  <2> SUFFICES ASSUME NEW m \in Note, NEW f \in Endpoint, SaveDelivery(m, f) PROVE FALSE
    OBVIOUS
  <2>1. chain[m][f] \in Attempt
    BY <1>1 DEF TypeOK
  <2>2. [chain[m][f] EXCEPT !.at = "timer"].at = "timer"
    BY <2>1 DEF Attempt
  <2> QED  BY <1>1, <1>3, <2>2 DEF SaveDelivery
<1>5. \A m \in Note, f \in Endpoint : ~SaveFails(m, f)
  BY <1>1, <1>3 DEF SaveFails
<1>6. \A m \in Note, f \in Endpoint, success, received \in BOOLEAN : ~Answer(m, f, success, received)
  <2> SUFFICES ASSUME NEW m \in Note, NEW f \in Endpoint, NEW success \in BOOLEAN,
                      NEW received \in BOOLEAN, Answer(m, f, success, received)
               PROVE  FALSE
    OBVIOUS
  <2> DEFINE c == [chain[m][f] EXCEPT !.at = "saving", !.success = success, !.attempts = @ + 1]
  <2>1. chain[m][f] \in Attempt
    BY <1>1 DEF TypeOK
  <2>2. c.at = "saving"
    BY <2>1 DEF Attempt
  <2>3. Set(m, f, c)
    BY DEF Answer
  <2> HIDE DEF c
  <2> QED  BY <1>3, <2>2, <2>3
<1>7. \A rep \in Replica : ~Crash(rep)
  BY <1>1 DEF Crash
<1>8. chain' # chain
  OBVIOUS
<1> QED
  BY <1>2, <1>4, <1>5, <1>6, <1>7, <1>8
  DEF Next, MerchantWebhooks, CreateEndpoint, DeleteEndpoint, SendTestWebhook,
      NotifyPaymentUpdate, OpenLoop, Service, CloseLoop

LEMMA WInvHolds == Spec => []WInv
BY WebhooksStart, WebhookStep, PTL DEF Spec

-----------------------------------------------------------------------------
(* The theorems.                                                            *)

\* The type invariant of the deliveries.
THEOREM WebhooksTypeCorrect == Spec => []TypeOK
<1>1. WInv => TypeOK
  BY DEF WInv
<1> QED  BY <1>1, WInvHolds, PTL

\* webhook-delivery.service.ts: what an endpoint has acknowledged is not posted
\* to it again, for any number of retries, loops and crashes.
THEOREM AcknowledgedStaysQuiet == Spec => NoRepeatAfterAck
<1> DEFINE Quiet == \A n \in Note, e \in Endpoint :
               chain'[n][e].at = "posting" /\ chain[n][e].at # "posting" => <<n, e>> \notin acked
<1>1. WInv /\ [Next]_vars => [Quiet]_vars
  <2> SUFFICES ASSUME WInv, Next, NEW n \in Note, NEW e \in Endpoint,
                      chain'[n][e].at = "posting", chain[n][e].at # "posting"
               PROVE  <<n, e>> \notin acked
    OBVIOUS
  <2> QED  BY PostsOnly, PostKeeps, RetryKeeps
<1> QED  BY <1>1, WInvHolds, PTL DEF Spec, NoRepeatAfterAck

\* webhooks.service.ts: a loop that ends without a crash or a failed save has
\* tried every endpoint, for any number of them.
THEOREM LoopsReachEveryone == Spec => []EveryTargetTried
<1>1. WInv => EveryTargetTried
  <2> SUFFICES ASSUME WInv, NEW n \in Note \ lost, loop[n] = "closed", NEW e \in targets[n]
               PROVE  posts[n][e] > 0
    BY DEF EveryTargetTried
  <2>1. e \in Endpoint /\ TypeOK
    BY DEF WInv, TypeOK
  <2>2. Looping(n) /\ Tried(n, e)
    BY <2>1 DEF WInv
  <2> QED  BY <2>2 DEF Looping, Tried
<1> QED  BY <1>1, WInvHolds, PTL

\* webhooks.service.ts, webhook-delivery.service.ts: an older update reaches an
\* endpoint after a newer one only by a retry or from overlapping loops, for any
\* number of notifications.
THEOREM OldNewsIsExplained == Spec => LateOnlyByRetry
<1> DEFINE Late == \A e \in Endpoint : last'[e] < last[e] =>
                       \/ <<last'[e], e>> \in retried
                       \/ {last'[e], last[e]} \subseteq overlap
<1>1. WInv /\ [Next]_vars => [Late]_vars
  <2> SUFFICES ASSUME WInv, Next, NEW e \in Endpoint, last'[e] < last[e]
               PROVE  \/ <<last'[e], e>> \in retried
                      \/ {last'[e], last[e]} \subseteq overlap
    OBVIOUS
  <2>1. TypeOK /\ last[e] \in 0..Notes
    BY DEF WInv, TypeOK
  <2>2. last'[e] # last[e]
    BY <2>1, NotesAreNumbers
  <2>3. PICK n \in Note, f \in Endpoint, success \in BOOLEAN, received \in BOOLEAN :
           Answer(n, f, success, received)
    BY <2>2
    DEF Next, MerchantWebhooks, CreateEndpoint, DeleteEndpoint, SendTestWebhook,
        NotifyPaymentUpdate, OpenLoop, Service, CloseLoop, Post, SaveDelivery, SaveFails,
        RetryDelivery, Crash, history
  <2>4. f = e /\ last'[e] = n /\ chain[n][e].at = "posting"
    BY <2>1, <2>2, <2>3 DEF Answer, TypeOK
  <2> DEFINE m == last[e]
  <2>5. m \in Note /\ n < m
    BY <2>1, <2>4, NotesAreNumbers
  <2>6. Attempting(n, e) /\ Looping(n) /\ Received(e)
    BY DEF WInv
  <2>7. loop[m] # "idle"
    BY <2>5, <2>6, NotesAreNumbers DEF Received
  <2>8. CASE chain[n][e].retry
    BY <2>4, <2>6, <2>8 DEF Attempting
  <2>9. CASE ~chain[n][e].retry
    <3>1. loop[n] = "open"
      BY <2>4, <2>6, <2>9 DEF Attempting, Looping
    <3> QED  BY <2>4, <2>5, <2>6, <2>7, <3>1 DEF Looping
  <2> QED  BY <2>8, <2>9
<1> QED  BY <1>1, WInvHolds, PTL DEF Spec, LateOnlyByRetry
=============================================================================
