------------------------- MODULE SystemConfiguration -------------------------
(***************************************************************************)
(* One key of the system configuration: its row in system_configs, its     *)
(* entry in the cache the replicas share, and the copy each replica's      *)
(* SystemConfigService keeps in memory.  ConfigManagementService reads     *)
(* through the cache and clears it; SystemConfigService knows neither the  *)
(* cache nor the other replicas.  A request is a sequence of awaited steps *)
(* that interleave with everybody else's.                                  *)
(***************************************************************************)
EXTENDS Naturals

CONSTANTS Replicas, Requests, Values, None,
          MaxWrites   \* bound: updates of the key in a behaviour

ASSUME ConfigAssumption == /\ None \notin Values \cup Replicas
                           /\ MaxWrites \in Nat \ {0}
                           /\ Replicas \cap Requests = {}

VARIABLES
    stored,    \* the row's value, None if there is no row
    cached,    \* the cache entry: its value and whether it has a lifetime
    memory,    \* per replica: SystemConfigService.config[key]
    task,      \* per request, and per replica for its start: the step it is at
    \* History.
    writes,    \* updates begun, up to MaxWrites
    excused,   \* the cache entry may differ from the row: see CacheCoherent
    unread     \* replicas whose copy may: see ReplicaCurrent

vars == <<stored, cached, memory, task, writes, excused, unread>>

Value == Values \cup {None}
Tasks == Requests \cup Replicas

\* on: the replica whose copy the task reloads; value: what it writes, None for
\* a read; seen: what it read last.
Steps == {"idle", "get", "find", "fill", "save", "clear", "audit",
          "put", "reload", "assign"}
Task == [at : Steps, on : Replicas \cup {None}, value : Value, seen : Value]
Idle == [at |-> "idle", on |-> None, value |-> None, seen |-> None]
Begun(step, r, v) == [Idle EXCEPT !.at = step, !.on = r, !.value = v]

Entry == [value : Value, lifetime : BOOLEAN]
NoEntry == [value |-> None, lifetime |-> FALSE]

TypeOK ==
    /\ stored \in Value
    /\ cached \in Entry
    /\ memory \in [Replicas -> Value]
    /\ task \in [Tasks -> Task]
    /\ writes \in 0..MaxWrites
    /\ excused \in BOOLEAN
    /\ unread \subseteq Replicas

\* Every replica has started: loadConfig of an empty table.
Init ==
    /\ stored = None
    /\ cached = NoEntry
    /\ memory = [r \in Replicas |-> None]
    /\ task = [p \in Tasks |-> Idle]
    /\ writes = 0
    /\ excused = FALSE
    /\ unread = {}

Goes(p, step) == task' = [task EXCEPT ![p].at = step]
Ends(p) == task' = [task EXCEPT ![p] = Idle]

-----------------------------------------------------------------------------
(* ConfigManagementService.                                                 *)

GetConfig(p) ==
    /\ task[p].at = "idle"
    /\ Goes(p, "get")
    /\ UNCHANGED <<stored, cached, memory, writes, excused, unread>>

\* setConfig and resetConfig; a value that fails its schema changes nothing.
SetConfig(p) ==
    /\ task[p].at = "idle"
    /\ writes < MaxWrites
    /\ writes' = writes + 1
    /\ \E v \in Values : task' = [task EXCEPT ![p] = Begun("save", None, v)]
    /\ UNCHANGED <<stored, cached, memory, excused, unread>>

\* getConfig answers: to a reader, or to the setConfig that called it.
Answered(p, v) ==
    task' = [task EXCEPT ![p] =
                IF @.value = None THEN Idle ELSE [@ EXCEPT !.at = "audit", !.seen = v]]

CacheGet(p) ==
    /\ task[p].at = "get"
    /\ IF cached.value # None THEN Answered(p, cached.value) ELSE Goes(p, "find")
    /\ UNCHANGED <<stored, cached, memory, writes, excused, unread>>

FindOne(p) ==
    /\ task[p].at = "find"
    /\ IF stored = None
       THEN Answered(p, None)
       ELSE task' = [task EXCEPT ![p].at = "fill", ![p].seen = stored]
    /\ UNCHANGED <<stored, cached, memory, writes, excused, unread>>

\* Mutant: the entry is set without a lifetime.
CacheSetForEver(p) ==
    /\ task[p].at = "fill"
    /\ cached' = [value |-> task[p].seen, lifetime |-> FALSE]
    /\ excused' = (task[p].seen # stored)
    /\ Answered(p, task[p].seen)
    /\ UNCHANGED <<stored, memory, writes, unread>>

CacheSet(p) ==
    /\ task[p].at = "fill"
    /\ cached' = [value |-> task[p].seen, lifetime |-> TRUE]
    /\ excused' = (task[p].seen # stored)
    /\ Answered(p, task[p].seen)
    /\ UNCHANGED <<stored, memory, writes, unread>>

\* Mutant: the row is saved and the cache is not cleared.
SaveConfigOnly(p) ==
    /\ task[p].at = "save"
    /\ stored' = task[p].value
    /\ unread' = Replicas
    /\ Goes(p, "get")
    /\ UNCHANGED <<cached, memory, writes, excused>>

SaveConfig(p) ==
    /\ task[p].at = "save"
    /\ stored' = task[p].value
    /\ unread' = Replicas
    /\ Goes(p, "clear")
    /\ UNCHANGED <<cached, memory, writes, excused>>

CacheDel(p) ==
    /\ task[p].at = "clear"
    /\ cached' = NoEntry
    /\ excused' = FALSE
    /\ Goes(p, "get")
    /\ UNCHANGED <<stored, memory, writes, unread>>

\* The record of the change; the models' state does not depend on it.
LogAudit(p) ==
    /\ task[p].at = "audit"
    /\ Ends(p)
    /\ UNCHANGED <<stored, cached, memory, writes, excused, unread>>

-----------------------------------------------------------------------------
(* SystemConfigService.                                                     *)

\* updateConfig and setMaintenanceMode, for the one key.
UpdateConfig(p, r) ==
    /\ task[p].at = "idle"
    /\ writes < MaxWrites
    /\ writes' = writes + 1
    /\ \E v \in Values : task' = [task EXCEPT ![p] = Begun("put", r, v)]
    /\ UNCHANGED <<stored, cached, memory, excused, unread>>

Put(p) ==
    /\ task[p].at = "put"
    /\ stored' = task[p].value
    /\ excused' = TRUE
    /\ unread' = Replicas
    /\ Goes(p, "reload")
    /\ UNCHANGED <<cached, memory, writes>>

\* A reload of replica r still holds an older row.
Overtaken(r) == \E q \in Tasks : task[q].at = "assign" /\ task[q].on = r /\ task[q].seen # stored

Reads(r) == unread' = IF Overtaken(r) THEN unread ELSE unread \ {r}

\* Mutant: a replica that has a copy does not read the table again.
LoadConfigOnce(p) ==
    /\ task[p].at = "reload"
    /\ task' = [task EXCEPT ![p].at = "assign",
                            ![p].seen = IF memory[task[p].on] # None THEN memory[task[p].on]
                                        ELSE stored]
    /\ Reads(task[p].on)
    /\ UNCHANGED <<stored, cached, memory, writes, excused>>

\* loadConfig: the table is read, and the answer replaces the copy.
LoadConfig(p) ==
    /\ task[p].at = "reload"
    /\ task' = [task EXCEPT ![p].at = "assign", ![p].seen = stored]
    /\ Reads(task[p].on)
    /\ UNCHANGED <<stored, cached, memory, writes, excused>>

AssignConfig(p) ==
    /\ task[p].at = "assign"
    /\ memory' = [memory EXCEPT ![task[p].on] = task[p].seen]
    /\ Ends(p)
    /\ UNCHANGED <<stored, cached, writes, excused, unread>>

-----------------------------------------------------------------------------
(* The environment.                                                         *)

\* The lifetime of an entry ends.
CacheExpires ==
    /\ cached.lifetime
    /\ cached' = NoEntry
    /\ excused' = FALSE
    /\ UNCHANGED <<stored, memory, task, writes, unread>>

\* An update dies between its save and its CacheDel.
Forgets(p) == task[p].at = "clear"

\* An await rejects: the request answers with the error.
Fails(p) ==
    /\ task[p].at # "idle"
    /\ Ends(p)
    /\ excused' = (excused \/ Forgets(p))
    /\ unread' = IF task[p].at = "assign" THEN unread \cup {task[p].on} ELSE unread
    /\ UNCHANGED <<stored, cached, memory, writes>>

\* A replica restarts: its constructor calls loadConfig and does not wait.  Of
\* the requests it served the ones that reload its copy end here; the others
\* end with Fails.
Restart(r) ==
    /\ memory' = [memory EXCEPT ![r] = None]
    /\ task' = [p \in Tasks |-> IF p = r THEN Begun("reload", r, None)
                                ELSE IF task[p].on = r THEN Idle ELSE task[p]]
    /\ unread' = unread \cup {r}
    /\ UNCHANGED <<stored, cached, writes, excused>>

Step(p) == \/ CacheGet(p) \/ FindOne(p) \/ CacheSet(p)
           \/ SaveConfig(p) \/ CacheDel(p) \/ LogAudit(p)
           \/ Put(p) \/ LoadConfig(p) \/ AssignConfig(p)

ConfigEndpoints(p) == GetConfig(p) \/ SetConfig(p)

Next ==
    \/ \E p \in Requests :
          \/ ConfigEndpoints(p)
          \/ \E r \in Replicas : UpdateConfig(p, r)
    \/ \E p \in Tasks : Step(p) \/ Fails(p)
    \/ \E r \in Replicas : Restart(r)
    \/ CacheExpires

Spec == Init /\ [][Next]_vars

\* The event loop resumes every task, and the cache drops what is too old;
\* nobody has to send a request, and nothing has to fail.
FairSpec == /\ Spec
            /\ \A p \in Tasks : WF_vars(Step(p))
            /\ WF_vars(CacheExpires)

-----------------------------------------------------------------------------
(* Properties.                                                              *)

Behind == cached.value \notin {None, stored}

\* The cache is behind the row only while a setConfig has still to clear it,
\* or for one of three reasons: a reader filled it with a value read before
\* an update, SystemConfigService wrote the row, or a setConfig died before
\* its del.  Whatever clears the entry or fills it anew ends the excuse.
CacheCoherent ==
    Behind => excused \/ \E p \in Requests : task[p].at = "clear"

\* Updates end some day, and from then on the cache forgets what it has
\* that the row has not: no stale entry outlives its lifetime for ever.
CacheCatchesUp == <>[](~Behind)

\* SystemConfigService: a replica's copy of the configuration, maintenance mode
\* included, differs from the row only while a reload has still to assign it,
\* or if the row was written since the replica last read it, or if that read
\* was lost or overtaken by an older one.
ReplicaCurrent ==
    \A r \in Replicas :
        memory[r] # stored =>
            r \in unread \/ \E p \in Tasks : task[p].on = r /\ task[p].at = "assign"
=============================================================================
