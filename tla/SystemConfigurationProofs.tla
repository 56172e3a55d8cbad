---------------------- MODULE SystemConfigurationProofs ----------------------
(***************************************************************************)
(* Proofs about SystemConfiguration, for any number of replicas, requests, *)
(* values and updates.                                                     *)
(***************************************************************************)
EXTENDS SystemConfiguration, TLAPS

\* The pseudo-request of a replica's start only ever loads, into its own copy.
StartsLoad ==
    \A r \in Replicas :
        task[r].at = "idle" \/ (task[r].at \in {"reload", "assign"} /\ task[r].on = r)

\* A task that is going to reload a copy knows whose; a setConfig has none to
\* reload.
ReloadsPlaced ==
    \A p \in Tasks :
        /\ task[p].at \in {"put", "reload", "assign"} => task[p].on \in Replicas
        /\ task[p].at \in {"save", "clear"} => task[p].on = None

Assigning(p, r) == task[p].at = "assign" /\ task[p].on = r

\* What a replica outside unread has read, or assigned, is the row.
CopyRead ==
    \A r \in Replicas \ unread :
        /\ \A p \in Tasks : Assigning(p, r) => task[p].seen = stored
        /\ (\A p \in Tasks : ~Assigning(p, r)) => memory[r] = stored

\* The inductive invariant: CacheCoherent needs to know that only requests
\* save and clear, ReplicaCurrent what the reloads under way have read.
CInv == TypeOK /\ StartsLoad /\ ReloadsPlaced /\ CacheCoherent /\ CopyRead

-----------------------------------------------------------------------------
(* What the steps do to the tasks.                                          *)

LEMMA BegunTask ==
    ASSUME NEW s \in Steps, NEW r \in Replicas \cup {None}, NEW v \in Value
    PROVE  Begun(s, r, v) \in Task /\ Idle \in Task
  BY DEF Task, Idle, Begun, Steps, Value

\* A task moves on with what it has just read.
LEMMA TaskMoves ==
    ASSUME TypeOK, NEW p \in Tasks, NEW s \in Steps, NEW v \in Value,
           \/ task' = [task EXCEPT ![p].at = s]
           \/ task' = [task EXCEPT ![p].at = s, ![p].seen = v]
    PROVE  /\ task' \in [Tasks -> Task]
           /\ task'[p].at = s /\ task'[p].on = task[p].on
           /\ \A q \in Tasks \ {p} : task'[q] = task[q]
  BY DEF TypeOK, Task

LEMMA TaskEnds ==
    ASSUME TypeOK, NEW p \in Tasks, Ends(p)
    PROVE  /\ task' \in [Tasks -> Task]
           /\ task'[p].at = "idle"
           /\ \A q \in Tasks \ {p} : task'[q] = task[q]
<1>1. Idle \in Task /\ Idle.at = "idle"
  BY DEF Idle, Task, Steps, Value
<1> QED  BY <1>1 DEF TypeOK, Ends

LEMMA TaskBegins ==
    ASSUME TypeOK, NEW p \in Tasks, NEW s \in Steps, NEW r \in Replicas \cup {None},
           NEW v \in Value, task' = [task EXCEPT ![p] = Begun(s, r, v)]
    PROVE  /\ task' \in [Tasks -> Task]
           /\ task'[p].at = s /\ task'[p].on = r
           /\ \A q \in Tasks \ {p} : task'[q] = task[q]
<1>1. Begun(s, r, v) \in Task /\ Begun(s, r, v).at = s /\ Begun(s, r, v).on = r
  BY BegunTask DEF Begun, Idle
<1> QED  BY <1>1 DEF TypeOK

\* An answered getConfig leaves its task idle or with an audit to write.
LEMMA TaskAnswered ==
    ASSUME TypeOK, NEW p \in Tasks, NEW v \in Value, Answered(p, v)
    PROVE  /\ task' \in [Tasks -> Task]
           /\ task'[p].at \in {"idle", "audit"}
           /\ \A q \in Tasks \ {p} : task'[q] = task[q]
<1>1. CASE task[p].value = None
  BY <1>1, TaskEnds DEF Answered, Ends, TypeOK
<1>2. CASE task[p].value # None
  <2>1. task' = [task EXCEPT ![p].at = "audit", ![p].seen = v]
    BY <1>2 DEF Answered, TypeOK
  <2> QED  BY <2>1, TaskMoves DEF Steps
<1> QED  BY <1>1, <1>2

-----------------------------------------------------------------------------
(* The invariant holds at the start.                                        *)

LEMMA ConfigInit == Init => CInv
<1> SUFFICES ASSUME Init PROVE CInv
  OBVIOUS
<1>1. Idle \in Task /\ Idle.at = "idle"
  BY DEF Idle, Task, Steps, Value
<1>2. TypeOK
  <2>1. cached \in Entry
    BY DEF Init, Entry, NoEntry, Value
  <2>2. task \in [Tasks -> Task]
    BY <1>1 DEF Init
  <2>3. memory \in [Replicas -> Value]
    BY DEF Init, Value
  <2>4. stored \in Value /\ excused \in BOOLEAN /\ unread \subseteq Replicas
    BY DEF Init, Value
  <2>5. writes \in 0..MaxWrites
    BY ConfigAssumption DEF Init
  <2> QED  BY <2>1, <2>2, <2>3, <2>4, <2>5 DEF TypeOK
<1>3. StartsLoad /\ ReloadsPlaced
  BY <1>1 DEF Init, StartsLoad, ReloadsPlaced, Tasks
<1>4. CacheCoherent
  BY DEF Init, CacheCoherent, Behind, NoEntry
<1>5. CopyRead
  BY <1>1 DEF Init, CopyRead, Assigning
<1> QED  BY <1>2, <1>3, <1>4, <1>5 DEF CInv

-----------------------------------------------------------------------------
(* What each part needs to be preserved.                                    *)

\* A task at a step no start takes is a request's.
LEMMA OnlyRequests ==
    ASSUME StartsLoad, NEW p \in Tasks, task[p].at \notin {"idle", "reload", "assign"}
    PROVE  p \in Requests
  BY DEF StartsLoad, Tasks

\* Starts go on loading, and reloads know their replica, when the one task
\* that moved is a request with the replica it needs, or was reloading.
LEMMA TasksKept ==
    ASSUME StartsLoad, ReloadsPlaced, NEW p \in Tasks,
           \A q \in Tasks \ {p} : task'[q] = task[q],
           \/ task'[p].at = "idle"
           \/ p \in Requests /\ task'[p].at \notin {"put", "reload", "assign", "save", "clear"}
           \/ p \in Requests /\ task'[p].at \in {"put", "reload"} /\ task'[p].on \in Replicas
           \/ p \in Requests /\ task'[p].at \in {"save", "clear"} /\ task'[p].on = None
           \/ /\ task[p].at = "reload" /\ task'[p].at = "assign"
              /\ task'[p].on = task[p].on
    PROVE  StartsLoad' /\ ReloadsPlaced'
  BY ConfigAssumption DEF StartsLoad, ReloadsPlaced, Tasks

\* A step that touches neither the row nor the cache, taken by a task that
\* has no entry to clear, leaves the cache as coherent as it was.
LEMMA CoherentKept ==
    ASSUME CacheCoherent, NEW p \in Tasks, \A q \in Tasks \ {p} : task'[q] = task[q],
           task[p].at # "clear", stored' = stored, cached' = cached, excused' = excused
    PROVE  CacheCoherent'
  BY DEF CacheCoherent, Behind, Tasks

\* A step that assigns no copy and touches neither the row nor a copy leaves
\* what the copies have read.
LEMMA CopyKept ==
    ASSUME CopyRead, NEW p \in Tasks, \A q \in Tasks \ {p} : task'[q] = task[q],
           task[p].at # "assign", task'[p].at # "assign",
           stored' = stored, memory' = memory, unread' = unread
    PROVE  CopyRead'
  BY DEF CopyRead, Assigning

\* A step of a request that changes nothing but where the request is.
LEMMA QuietStep ==
    ASSUME CInv, NEW p \in Requests,
           task' \in [Tasks -> Task], \A q \in Tasks \ {p} : task'[q] = task[q],
           task[p].at \notin {"clear", "assign"}, task'[p].at # "assign",
           task'[p].at \in {"put", "reload"} => task'[p].on \in Replicas,
           task'[p].at \in {"save", "clear"} => task'[p].on = None,
           writes' \in 0..MaxWrites, UNCHANGED <<stored, cached, memory, excused, unread>>
    PROVE  CInv'
<1>1. p \in Tasks
  BY DEF Tasks
<1>2. TypeOK'
  BY DEF CInv, TypeOK
<1>3. StartsLoad' /\ ReloadsPlaced'
  BY <1>1, TasksKept DEF CInv
<1>4. CacheCoherent' /\ CopyRead'
  BY <1>1, CoherentKept, CopyKept DEF CInv
<1> QED  BY <1>2, <1>3, <1>4 DEF CInv

-----------------------------------------------------------------------------
(* Every step preserves the invariant.                                      *)

LEMMA ConfigNext == CInv /\ [Next]_vars => CInv'
<1> SUFFICES ASSUME CInv, [Next]_vars PROVE CInv'
  OBVIOUS
<1> USE DEF CInv
<1>0. Requests \subseteq Tasks /\ writes \in 0..MaxWrites
  BY DEF Tasks, TypeOK
<1>1. ASSUME NEW p \in Requests, GetConfig(p) PROVE CInv'
  <2>1. /\ task' \in [Tasks -> Task] /\ task'[p].at = "get" /\ p \in Tasks
        /\ \A q \in Tasks \ {p} : task'[q] = task[q]
    BY <1>0, <1>1, TaskMoves DEF GetConfig, Goes, Steps, Value
  <2> QED  BY <1>0, <1>1, <2>1, QuietStep DEF GetConfig
<1>2. ASSUME NEW p \in Requests, SetConfig(p) PROVE CInv'
  <2>1. PICK v \in Values : task' = [task EXCEPT ![p] = Begun("save", None, v)]
    BY <1>2 DEF SetConfig
  <2>2. /\ task' \in [Tasks -> Task] /\ task'[p].at = "save" /\ task'[p].on = None /\ p \in Tasks
        /\ \A q \in Tasks \ {p} : task'[q] = task[q]
    BY <1>0, <2>1, TaskBegins DEF Steps, Value
  <2>3. writes' \in 0..MaxWrites
    BY <1>2, ConfigAssumption DEF SetConfig, TypeOK
  <2> QED  BY <1>2, <2>2, <2>3, QuietStep DEF SetConfig
<1>3. ASSUME NEW p \in Requests, NEW r \in Replicas, UpdateConfig(p, r) PROVE CInv'
  <2>1. PICK v \in Values : task' = [task EXCEPT ![p] = Begun("put", r, v)]
    BY <1>3 DEF UpdateConfig
  <2>2. /\ task' \in [Tasks -> Task] /\ task'[p].at = "put" /\ task'[p].on = r
        /\ p \in Tasks /\ \A q \in Tasks \ {p} : task'[q] = task[q]
    BY <1>0, <2>1, TaskBegins DEF Steps, Value
  <2>3. writes' \in 0..MaxWrites
    BY <1>3, ConfigAssumption DEF UpdateConfig, TypeOK
  <2> QED  BY <1>3, <2>2, <2>3, QuietStep DEF UpdateConfig
<1>4. ASSUME NEW p \in Tasks, CacheGet(p) PROVE CInv'
  <2>1. p \in Requests /\ cached.value \in Value
    BY <1>4, OnlyRequests DEF CacheGet, TypeOK, Entry
  <2>2. /\ task' \in [Tasks -> Task] /\ task'[p].at \in {"idle", "audit", "find"}
        /\ \A q \in Tasks \ {p} : task'[q] = task[q]
    <3>1. CASE cached.value # None
      BY <1>4, <2>1, <3>1, TaskAnswered DEF CacheGet
    <3>2. CASE cached.value = None
      BY <1>4, <2>1, <3>2, TaskMoves DEF CacheGet, Goes, Steps, Value
    <3> QED  BY <3>1, <3>2
  <2> QED  BY <1>0, <1>4, <2>1, <2>2, QuietStep DEF CacheGet
<1>5. ASSUME NEW p \in Tasks, FindOne(p) PROVE CInv'
  <2>1. p \in Requests /\ stored \in Value
    BY <1>5, OnlyRequests DEF FindOne, TypeOK
  <2>2. /\ task' \in [Tasks -> Task] /\ task'[p].at \in {"idle", "audit", "fill"}
        /\ \A q \in Tasks \ {p} : task'[q] = task[q]
    <3>1. CASE stored = None
      BY <1>5, <2>1, <3>1, TaskAnswered DEF FindOne
    <3>2. CASE stored # None
      BY <1>5, <2>1, <3>2, TaskMoves DEF FindOne, Steps
    <3> QED  BY <3>1, <3>2
  <2> QED  BY <1>0, <1>5, <2>1, <2>2, QuietStep DEF FindOne
<1>6. ASSUME NEW p \in Tasks, CacheSet(p) PROVE CInv'
  <2>1. p \in Requests /\ task[p].seen \in Value /\ task[p].at = "fill"
    BY <1>6, OnlyRequests DEF CacheSet, TypeOK, Task
  <2>2. /\ task' \in [Tasks -> Task] /\ task'[p].at \in {"idle", "audit"}
        /\ \A q \in Tasks \ {p} : task'[q] = task[q]
    BY <1>6, <2>1, TaskAnswered DEF CacheSet
  <2>3. TypeOK'
    BY <1>6, <2>1, <2>2 DEF TypeOK, CacheSet, Entry
  <2>4. CacheCoherent'
    BY <1>6 DEF CacheSet, CacheCoherent, Behind
  <2>5. CopyRead'
    BY <1>6, <2>1, <2>2, CopyKept DEF CacheSet
  <2> QED  BY <2>1, <2>2, <2>3, <2>4, <2>5, TasksKept
<1>7. ASSUME NEW p \in Tasks, SaveConfig(p) PROVE CInv'
  <2>1. p \in Requests /\ task[p].value \in Value /\ task[p].on = None
    BY <1>7, OnlyRequests DEF SaveConfig, TypeOK, Task, ReloadsPlaced
  <2>2. /\ task' \in [Tasks -> Task] /\ task'[p].at = "clear" /\ task'[p].on = task[p].on
        /\ \A q \in Tasks \ {p} : task'[q] = task[q]
    BY <1>7, TaskMoves DEF SaveConfig, Goes, Steps, Value
  <2>3. TypeOK'
    BY <1>7, <2>1, <2>2 DEF TypeOK, SaveConfig
  <2>4. CacheCoherent'
    BY <2>1, <2>2 DEF CacheCoherent
  <2>5. CopyRead'
    BY <1>7 DEF SaveConfig, CopyRead
  <2> QED  BY <2>1, <2>2, <2>3, <2>4, <2>5, TasksKept
<1>8. ASSUME NEW p \in Tasks, CacheDel(p) PROVE CInv'
  <2>1. p \in Requests /\ task[p].at = "clear"
    BY <1>8, OnlyRequests DEF CacheDel
  <2>2. /\ task' \in [Tasks -> Task] /\ task'[p].at = "get"
        /\ \A q \in Tasks \ {p} : task'[q] = task[q]
    BY <1>8, TaskMoves DEF CacheDel, Goes, Steps, Value
  <2>3. cached' \in Entry
    BY <1>8 DEF CacheDel, NoEntry, Entry, Value
  <2>4. TypeOK'
    BY <1>8, <2>2, <2>3 DEF TypeOK, CacheDel
  <2>5. CacheCoherent'
    BY <1>8 DEF CacheDel, CacheCoherent, Behind, NoEntry
  <2>6. CopyRead'
    BY <1>8, <2>1, <2>2, CopyKept DEF CacheDel
  <2> QED  BY <2>1, <2>2, <2>4, <2>5, <2>6, TasksKept
<1>9. ASSUME NEW p \in Tasks, LogAudit(p) PROVE CInv'
  <2>1. p \in Requests
    BY <1>9, OnlyRequests DEF LogAudit
  <2>2. /\ task' \in [Tasks -> Task] /\ task'[p].at = "idle"
        /\ \A q \in Tasks \ {p} : task'[q] = task[q]
    BY <1>9, TaskEnds DEF LogAudit
  <2> QED  BY <1>0, <1>9, <2>1, <2>2, QuietStep DEF LogAudit
<1>10. ASSUME NEW p \in Tasks, Put(p) PROVE CInv'
  <2>1. p \in Requests /\ task[p].value \in Value /\ task[p].on \in Replicas
    BY <1>10, OnlyRequests DEF Put, TypeOK, Task, ReloadsPlaced
  <2>2. /\ task' \in [Tasks -> Task]
        /\ task'[p].at = "reload" /\ task'[p].on = task[p].on
        /\ \A q \in Tasks \ {p} : task'[q] = task[q]
    BY <1>10, TaskMoves DEF Put, Goes, Steps, Value
  <2>3. TypeOK'
    BY <1>10, <2>1, <2>2 DEF TypeOK, Put
  <2>4. CacheCoherent'
    BY <1>10 DEF Put, CacheCoherent
  <2>5. CopyRead'
    BY <1>10 DEF Put, CopyRead
  <2> QED  BY <2>1, <2>2, <2>3, <2>4, <2>5, TasksKept
<1>11. ASSUME NEW p \in Tasks, LoadConfig(p) PROVE CInv'
  <2>0. PICK r \in Replicas : r = task[p].on
    BY <1>11 DEF LoadConfig, ReloadsPlaced
  <2>1. stored \in Value /\ task[p].at = "reload"
    BY <1>11 DEF LoadConfig, TypeOK
  <2>2. /\ task' \in [Tasks -> Task]
        /\ task'[p].at = "assign" /\ task'[p].on = r
        /\ \A q \in Tasks \ {p} : task'[q] = task[q]
    BY <1>11, <2>0, <2>1, TaskMoves DEF LoadConfig, Steps
  <2>3. task'[p].seen = stored
    BY <1>11 DEF LoadConfig, TypeOK, Task
  <2>4. TypeOK'
    BY <1>11, <2>0, <2>2 DEF TypeOK, LoadConfig, Reads
  <2>5. CacheCoherent'
    BY <1>11, <2>1, <2>2, CoherentKept DEF LoadConfig
  <2>6. CopyRead'
    <3>1. /\ stored' = stored /\ memory' = memory
          /\ unread' = IF Overtaken(r) THEN unread ELSE unread \ {r}
      BY <1>11, <2>0 DEF LoadConfig, Reads
    <3>2. \A x \in Replicas \ {r}, q \in Tasks : Assigning(q, x)' <=> Assigning(q, x)
      BY <2>1, <2>2 DEF Assigning
    <3>3. ASSUME NEW x \in Replicas \ unread', x # r
          PROVE  /\ \A q \in Tasks : Assigning(q, x)' => task'[q].seen = stored
                 /\ (\A q \in Tasks : ~Assigning(q, x)') => memory[x] = stored
      <4>1. x \notin unread
        BY <3>1, <3>3
      <4>2. \A q \in Tasks : Assigning(q, x)' => task'[q].seen = stored
        BY <2>2, <3>2, <3>3, <4>1 DEF CopyRead, Assigning
      <4>3. (\A q \in Tasks : ~Assigning(q, x)') => memory[x] = stored
        BY <3>2, <3>3, <4>1 DEF CopyRead
      <4> QED  BY <4>2, <4>3
    <3>4. ASSUME r \notin unread'
          PROVE  /\ \A q \in Tasks : Assigning(q, r)' => task'[q].seen = stored
                 /\ Assigning(p, r)'
      <4>1. ~Overtaken(r)
        BY <2>1, <3>1, <3>4 DEF Overtaken, CopyRead, Assigning
      <4> QED  BY <2>2, <2>3, <4>1 DEF Overtaken, Assigning
    <3>5. ASSUME NEW x \in Replicas \ unread'
          PROVE  /\ \A q \in Tasks : Assigning(q, x)' => task'[q].seen = stored'
                 /\ (\A q \in Tasks : ~Assigning(q, x)') => memory'[x] = stored'
      <4>1. CASE x # r
        BY <3>1, <3>3, <4>1
      <4>2. CASE x = r
        BY <3>1, <3>4, <4>2 DEF Assigning
      <4> QED  BY <4>1, <4>2
    <3> QED  BY <3>5 DEF CopyRead
  <2> QED  BY <2>0, <2>1, <2>2, <2>4, <2>5, <2>6, TasksKept
<1>12. ASSUME NEW p \in Tasks, AssignConfig(p) PROVE CInv'
  <2>1. /\ task[p].at = "assign" /\ task[p].on \in Replicas /\ task[p].seen \in Value
    BY <1>12 DEF AssignConfig, ReloadsPlaced, TypeOK, Task
  <2>2. /\ task' \in [Tasks -> Task] /\ task'[p].at = "idle"
        /\ \A q \in Tasks \ {p} : task'[q] = task[q]
    BY <1>12, TaskEnds DEF AssignConfig
  <2>3. TypeOK'
    BY <1>12, <2>1, <2>2 DEF TypeOK, AssignConfig
  <2>4. CacheCoherent'
    BY <1>12, <2>1, <2>2, CoherentKept DEF AssignConfig
  <2>5. CopyRead'
    <3>1. memory' = [memory EXCEPT ![task[p].on] = task[p].seen] /\ UNCHANGED <<stored, unread>>
      BY <1>12 DEF AssignConfig
    <3>2. ASSUME NEW x \in Replicas \ unread
          PROVE  /\ \A q \in Tasks : Assigning(q, x)' => task'[q].seen = stored
                 /\ (\A q \in Tasks : ~Assigning(q, x)') => memory'[x] = stored
      <4>1. \A q \in Tasks : Assigning(q, x)' => Assigning(q, x) /\ task'[q] = task[q]
        BY <2>2 DEF Assigning
      <4>2. CASE x = task[p].on
        <5>1. task[p].seen = stored
          BY <2>1, <4>2 DEF CopyRead, Assigning
        <5>2. memory'[x] = stored
          BY <3>1, <4>2, <5>1 DEF TypeOK
        <5> QED  BY <4>1, <5>2 DEF CopyRead
      <4>3. CASE x # task[p].on
        <5>1. memory'[x] = memory[x]
          BY <3>1, <4>3 DEF TypeOK
        <5>2. \A q \in Tasks : Assigning(q, x) => Assigning(q, x)'
          BY <2>2, <4>3 DEF Assigning
        <5> QED  BY <4>1, <5>1, <5>2 DEF CopyRead
      <4> QED  BY <4>2, <4>3
    <3> QED  BY <3>1, <3>2 DEF CopyRead
  <2> QED  BY <2>2, <2>3, <2>4, <2>5, TasksKept
<1>13. ASSUME NEW p \in Tasks, Fails(p) PROVE CInv'
  <2>1. /\ task' \in [Tasks -> Task] /\ task'[p].at = "idle"
        /\ \A q \in Tasks \ {p} : task'[q] = task[q]
    BY <1>13, TaskEnds DEF Fails
  <2>2. TypeOK'
    <3>1. unread' \subseteq Replicas
      BY <1>13 DEF Fails, TypeOK, ReloadsPlaced
    <3> QED  BY <1>13, <2>1, <3>1 DEF TypeOK, Fails, Forgets
  <2>3. CacheCoherent'
    <3>1. CASE task[p].at = "clear"
      <4>1. excused'
        BY <1>13, <3>1, Zenon DEF Fails, Forgets
      <4> QED  BY <4>1 DEF CacheCoherent
    <3>2. CASE task[p].at # "clear"
      <4>1. excused' = excused
        BY <1>13, <3>2 DEF Fails, Forgets, TypeOK
      <4> QED  BY <1>13, <2>1, <3>2, <4>1, CoherentKept DEF Fails
    <3> QED  BY <3>1, <3>2
  <2>4. CopyRead'
    <3>1. CASE task[p].at = "assign"
      <4>1. unread' = unread \cup {task[p].on} /\ UNCHANGED <<stored, memory>>
        BY <1>13, <3>1 DEF Fails
      <4>2. ASSUME NEW x \in Replicas \ unread', NEW q \in Tasks
            PROVE  /\ x # task[p].on
                   /\ Assigning(q, x)' <=> Assigning(q, x)
                   /\ Assigning(q, x)' => task'[q].seen = task[q].seen
        BY <2>1, <4>1 DEF Assigning
      <4> QED  BY <4>1, <4>2 DEF CopyRead
    <3>2. CASE task[p].at # "assign"
      BY <1>13, <2>1, <3>2, CopyKept DEF Fails
    <3> QED  BY <3>1, <3>2
  <2> QED  BY <2>1, <2>2, <2>3, <2>4, TasksKept
<1>14. ASSUME NEW r \in Replicas, Restart(r) PROVE CInv'
  <2>1. /\ Begun("reload", r, None) \in Task /\ Begun("reload", r, None).at = "reload"
        /\ Begun("reload", r, None).on = r
        /\ Idle \in Task /\ Idle.at = "idle"
    BY BegunTask DEF Begun, Idle, Steps, Value
  <2>2. TypeOK'
    <3>1. task' \in [Tasks -> Task]
      BY <1>14, <2>1 DEF Restart, TypeOK
    <3>2. memory' \in [Replicas -> Value]
      BY <1>14 DEF Restart, TypeOK, Value
    <3> QED  BY <1>14, <3>1, <3>2 DEF Restart, TypeOK
  <2>3. StartsLoad' /\ ReloadsPlaced'
    BY <1>14, <2>1 DEF Restart, StartsLoad, ReloadsPlaced, Tasks
  <2>4. CacheCoherent'
    <3>1. \A p \in Requests : task[p].at = "clear" => task[p].on \notin Replicas
      BY ConfigAssumption DEF ReloadsPlaced, Tasks
    <3>2. \A p \in Requests : task[p].at = "clear" => task'[p].at = "clear"
      BY <1>14, <3>1, ConfigAssumption DEF Restart, Tasks
    <3> QED  BY <1>14, <3>2 DEF Restart, CacheCoherent, Behind
  <2>5. CopyRead'
    <3>1. unread' = unread \cup {r} /\ stored' = stored /\ memory' = [memory EXCEPT ![r] = None]
      BY <1>14 DEF Restart
    <3>2. ASSUME NEW x \in Replicas \ unread', NEW q \in Tasks
          PROVE  /\ Assigning(q, x)' <=> Assigning(q, x)
                 /\ Assigning(q, x)' => task'[q].seen = task[q].seen
                 /\ memory'[x] = memory[x]
      <4>1. x # r
        BY <3>1, <3>2
      <4>2. memory'[x] = memory[x]
        BY <3>1, <4>1 DEF TypeOK
      <4>3. task'[q] = IF q = r THEN Begun("reload", r, None)
                       ELSE IF task[q].on = r THEN Idle ELSE task[q]
        BY <1>14 DEF Restart
      <4>4. ~Assigning(r, x)
        BY <4>1 DEF Assigning, StartsLoad
      <4> QED  BY <2>1, <4>1, <4>2, <4>3, <4>4 DEF Assigning
    <3> QED  BY <3>1, <3>2 DEF CopyRead
  <2> QED  BY <2>2, <2>3, <2>4, <2>5
<1>15. CASE CacheExpires
  <2>1. TypeOK'
    BY <1>15 DEF CacheExpires, TypeOK, NoEntry, Entry, Value
  <2>2. StartsLoad' /\ ReloadsPlaced'
    BY <1>15 DEF CacheExpires, StartsLoad, ReloadsPlaced
  <2>3. CacheCoherent'
    BY <1>15 DEF CacheExpires, CacheCoherent, Behind, NoEntry
  <2>4. CopyRead'
    BY <1>15 DEF CacheExpires, CopyRead, Assigning
  <2> QED  BY <2>1, <2>2, <2>3, <2>4
<1>16. CASE UNCHANGED vars
  BY <1>16 DEF vars, TypeOK, StartsLoad, ReloadsPlaced, CacheCoherent, Behind, CopyRead, Assigning
<1> QED
  BY <1>1, <1>2, <1>3, <1>4, <1>5, <1>6, <1>7, <1>8, <1>9, <1>10, <1>11, <1>12, <1>13, <1>14, <1>15, <1>16 DEF Next, ConfigEndpoints, Step

-----------------------------------------------------------------------------

\* Every variable has its type in every reachable state.
THEOREM ConfigTypeCorrect == Spec => []TypeOK
<1>1. CInv => TypeOK
  BY DEF CInv
<1> QED  BY <1>1, ConfigInit, ConfigNext, PTL DEF Spec

\* The cache is behind the row only under one of the three excuses or while
\* a setConfig has still to clear it.
THEOREM CacheStaysCoherent == Spec => []CacheCoherent
<1>1. CInv => CacheCoherent
  BY DEF CInv
<1> QED  BY <1>1, ConfigInit, ConfigNext, PTL DEF Spec

\* A replica's copy is behind the row only as long as nobody has reloaded it.
THEOREM ReplicaStaysCurrent == Spec => []ReplicaCurrent
<1>1. CInv => ReplicaCurrent
  BY DEF CInv, CopyRead, Assigning, ReplicaCurrent
<1> QED  BY <1>1, ConfigInit, ConfigNext, PTL DEF Spec
=============================================================================
