--------------------------- MODULE RuntimeManager ---------------------------
(***************************************************************************)
(* The lifecycle of the embedded sing-box instances                        *)
(* (service/proxy/runtime_lifecycle.go, with its callers in api/proxy and  *)
(* in the health checker).                                                 *)
(*                                                                         *)
(* Every enabled port mapping is served by a core of its own, which holds  *)
(* the mapping's listening port.  A caller first writes the database (or   *)
(* the health records) and then, under operationMu, brings the cores in    *)
(* line: a mapping is removed, updated in place, restarted, or started.    *)
(*                                                                         *)
(* What a core is built from is represented by stamps: the mapping's row   *)
(* (port and gen) and what its nodes, groups and their health imply        *)
(* (options: outbound options, immutable in a running core; members:       *)
(* everything that can be changed in place).                               *)
(***************************************************************************)
EXTENDS Naturals, FiniteSets

CONSTANTS
    Mappings,   \* port mappings
    Ports,      \* listening addresses (inbound keys)
    Callers,    \* concurrent callers: HTTP handlers, health checks, callbacks
    Cores,      \* slots for sing-box cores
    None,       \* no caller, no core
    MaxWrites   \* bound on the number of configuration changes

ASSUME MaxWritesIsNat == MaxWrites \in Nat
ASSUME NonEmpty == Mappings # {} /\ Ports # {}
ASSUME NoneIsNothing == None \notin Callers \cup Cores
ASSUME ContextsDistinct == {"background", "request"} \cap Cores = {}

VARIABLES
    row,          \* rows of port_mappings
    config,       \* what nodes, groups and health imply for each mapping
    writes,       \* stamp of the latest change
    core,         \* the cores, open or closed
    instances,    \* singBoxRuntime.instances
    inbounds,     \* mappings listed in status.Inbounds
    failures,     \* mappings listed in status.Failures
    operationMu,  \* holder of operationMu
    todo,         \* mappings each caller has still to sync (or to build)
    op,           \* what it calls: sync, remove, reload or stop
    ctx,          \* its context: background, the request's, or a core's
    cancelled,    \* callers whose context is done
    cur,          \* the mapping in work
    seen,         \* the rows the caller has read
    existing,     \* the core found for the mapping in work
    plan,         \* the plan built for it
    victims,      \* cores about to be closed
    after,        \* where to go on after closing them
    staged,       \* cores built by a reload and not yet published
    stagedFail,   \* mappings that failed in it
    missed,       \* mappings whose owed sync was given up
    pc

dbVars     == <<row, config, writes>>
statusVars == <<instances, inbounds, failures>>
callVars   == <<todo, op, ctx, cancelled>>
workVars   == <<cur, seen, existing, plan, victims, after, staged, stagedFail>>
vars == <<dbVars, core, statusVars, operationMu, callVars, workVars, missed, pc>>

Stamp   == 0..MaxWrites
Row     == [state: {"new", "off", "on", "deleted"}, port: Ports, gen: Stamp]
Config  == [options: Stamp, members: Stamp]
Core    == [open: BOOLEAN, mapping: Mappings, port: Ports, gen: Stamp,
            options: Stamp, members: Stamp]
Ops     == {"sync", "remove", "reload", "stop"}
Labels  == {"idle", "lock", "plan", "apply", "close", "fail", "build"} \cup Ops

\* The type invariant: a detached core is a core, never the None of a mapping
\* that had none.
TypeOK ==
    /\ row \in [Mappings -> Row]
    /\ config \in [Mappings -> Config]
    /\ writes \in Stamp
    /\ core \in [Cores -> Core]
    /\ instances \in [Mappings -> Cores \cup {None}]
    /\ inbounds \subseteq Mappings
    /\ failures \subseteq Mappings
    /\ operationMu \in Callers \cup {None}
    /\ todo \in [Callers -> SUBSET Mappings]
    /\ op \in [Callers -> Ops]
    /\ ctx \in [Callers -> {"background", "request"} \cup Cores]
    /\ cancelled \subseteq Callers
    /\ cur \in [Callers -> Mappings]
    /\ seen \in [Callers -> [Mappings -> Row]]
    /\ existing \in [Callers -> Cores \cup {None}]
    /\ plan \in [Callers -> Config]
    /\ victims \in [Callers -> SUBSET Cores]
    /\ after \in [Callers -> Labels]
    /\ staged \in [Callers -> [Mappings -> Cores \cup {None}]]
    /\ stagedFail \in [Callers -> SUBSET Mappings]
    /\ missed \subseteq Mappings
    /\ pc \in [Callers -> Labels]

SomeMapping == CHOOSE m \in Mappings : TRUE
SomePort    == CHOOSE p \in Ports : TRUE

NoConfig == [options |-> 0, members |-> 0]
NoRow    == [state |-> "new", port |-> SomePort, gen |-> 0]
Closed   == [open |-> FALSE, mapping |-> SomeMapping, port |-> SomePort, gen |-> 0,
             options |-> 0, members |-> 0]
NoRows   == [m \in Mappings |-> NoRow]
NoCores  == [m \in Mappings |-> None]

Init ==
    /\ row = NoRows
    /\ config = [m \in Mappings |-> NoConfig]
    /\ writes = 0
    /\ core = [k \in Cores |-> Closed]
    /\ instances = NoCores
    /\ inbounds = {}
    /\ failures = {}
    /\ operationMu = None
    /\ todo = [c \in Callers |-> {}]
    /\ op = [c \in Callers |-> "sync"]
    /\ ctx = [c \in Callers |-> "background"]
    /\ cancelled = {}
    /\ cur = [c \in Callers |-> SomeMapping]
    /\ seen = [c \in Callers |-> NoRows]
    /\ existing = [c \in Callers |-> None]
    /\ plan = [c \in Callers |-> NoConfig]
    /\ victims = [c \in Callers |-> {}]
    /\ after = [c \in Callers |-> "idle"]
    /\ staged = [c \in Callers |-> NoCores]
    /\ stagedFail = [c \in Callers |-> {}]
    /\ missed = {}
    /\ pc = [c \in Callers |-> "idle"]

Goto(c, label) == pc' = [pc EXCEPT ![c] = label]

-----------------------------------------------------------------------------
(***************************************************************************)
(* The callers: a change, then a call of the runtime manager.              *)
(***************************************************************************)

\* c goes on to call the runtime manager for the mappings in S.
Call(c, o, S, x) ==
    /\ pc[c] = "idle"
    /\ op' = [op EXCEPT ![c] = o]
    /\ todo' = [todo EXCEPT ![c] = S]
    /\ ctx' = [ctx EXCEPT ![c] = x]
    /\ cancelled' = cancelled \ {c}
    /\ Goto(c, "lock")
    /\ UNCHANGED <<core, statusVars, operationMu, workVars, missed>>

Exists(m) == row[m].state \in {"off", "on"}

\* ensureListenPortAvailable and the unique index over all rows.
PortFree(m, p) == \A n \in Mappings \ {m} : Exists(n) => row[n].port # p

\* mappingCreateHandler, mappingUpdateHandler, mappingSwitchHandler.
WriteMapping(c, m, st, p) ==
    /\ writes < MaxWrites
    /\ row[m].state # "deleted" /\ PortFree(m, p)
    /\ writes' = writes + 1
    /\ row' = [row EXCEPT ![m] = [state |-> st, port |-> p, gen |-> writes']]
    /\ Call(c, "sync", {m}, "request")
    /\ UNCHANGED config

\* mappingDeleteHandler: RuntimeRemoveMapping has no context.
DeleteMapping(c, m) ==
    /\ Exists(m)
    /\ row' = [row EXCEPT ![m].state = "deleted"]
    /\ Call(c, "remove", {m}, "background")
    /\ UNCHANGED <<config, writes>>

Change(S, part) ==
    /\ writes < MaxWrites
    /\ writes' = writes + 1
    /\ config' = [m \in Mappings |->
                    IF m \notin S THEN config[m]
                    ELSE IF part = "options" THEN [config[m] EXCEPT !.options = writes']
                    ELSE [config[m] EXCEPT !.members = writes']]
    /\ UNCHANGED row

\* The node, group and subscription handlers sync every affected mapping in
\* the background; a health check uses the context of its caller.
ChangeConfig(c, S, part, x) ==
    /\ S # {} /\ (x = "request" => part = "members")
    /\ Change(S, part)
    /\ Call(c, "sync", S, x)

\* A change that no sync follows: finding the affected mappings fails, after a
\* health change or in a node or group handler, or the health change is one that
\* shouldSyncRuntimeForHealthBlacklist does not sync (a success, a revival, the
\* end of a blacklisting; only reaching the failure threshold is synced).
ChangeConfigUnsynced(c, S, part) ==
    /\ pc[c] = "idle" /\ S # {}
    /\ Change(S, part)
    /\ missed' = missed \cup S
    /\ UNCHANGED <<core, statusVars, operationMu, callVars, workVars, pc>>

\* recordRuntimeTrafficFailure, recordRuntimeProbeResult: the callback of a
\* running core blacklists a node and syncs the mappings that use it, in the
\* context of that core.
TrafficFailure(c, k, S) ==
    /\ core[k].open /\ core[k].mapping \in S
    /\ Change(S, "members")
    /\ Call(c, "sync", S, k)

\* The start of the server, the reload handler and SettingsImport.
Reload(c) == Call(c, "reload", {}, "background") /\ UNCHANGED dbVars

\* The end of the server.
RuntimeStop(c) == Call(c, "stop", {}, "background") /\ UNCHANGED dbVars

\* The client of a request goes away, or the timeout of a callback expires.
Cancel(c) ==
    /\ pc[c] # "idle" /\ ctx[c] # "background" /\ c \notin cancelled
    /\ cancelled' = cancelled \cup {c}
    /\ UNCHANGED <<dbVars, core, statusVars, operationMu, todo, op, ctx, workVars,
                   missed, pc>>

-----------------------------------------------------------------------------
(***************************************************************************)
(* The runtime manager.                                                    *)
(***************************************************************************)

Lock(c) ==
    /\ pc[c] = "lock" /\ operationMu = None
    /\ operationMu' = c
    /\ Goto(c, op[c])
    /\ UNCHANGED <<dbVars, core, statusVars, callVars, workVars, missed>>

\* Return from the call: the caller's locals are gone.
Return(c) ==
    /\ operationMu' = None
    /\ Goto(c, "idle")
    /\ todo' = [todo EXCEPT ![c] = {}]
    /\ cancelled' = cancelled \ {c}
    /\ ctx' = [ctx EXCEPT ![c] = "background"]
    /\ op' = [op EXCEPT ![c] = "sync"]
    /\ cur' = [cur EXCEPT ![c] = SomeMapping]
    /\ seen' = [seen EXCEPT ![c] = NoRows]
    /\ existing' = [existing EXCEPT ![c] = None]
    /\ plan' = [plan EXCEPT ![c] = NoConfig]
    /\ victims' = [victims EXCEPT ![c] = {}]
    /\ after' = [after EXCEPT ![c] = "idle"]
    /\ staged' = [staged EXCEPT ![c] = NoCores]
    /\ stagedFail' = [stagedFail EXCEPT ![c] = {}]

\* Mutant: what is detached is not handed on to be closed.
CoreOfNobody(m) == {}

CoreOf(m) == {instances[m]} \ {None}

\* detachRuntimeMapping, followed by the close of what was detached.
Detach(c, m, next) ==
    /\ instances' = [instances EXCEPT ![m] = None]
    /\ inbounds' = inbounds \ {m}
    /\ failures' = failures \ {m}
    /\ victims' = [victims EXCEPT ![c] = CoreOf(m)]
    /\ after' = [after EXCEPT ![c] = next]
    /\ Goto(c, "close")

\* Core.Close: the port is released and the context of the core is done.
Close(c) ==
    /\ pc[c] = "close"
    /\ core' = [k \in Cores |-> IF k \in victims[c] THEN Closed ELSE core[k]]
    /\ cancelled' = cancelled \cup {d \in Callers : ctx[d] \in victims[c]}
    /\ victims' = [victims EXCEPT ![c] = {}]
    /\ after' = [after EXCEPT ![c] = "idle"]
    /\ Goto(c, after[c])
    /\ UNCHANGED <<dbVars, statusVars, operationMu, todo, op, ctx, cur, seen, existing,
                   plan, staged, stagedFail, missed>>

\* RuntimeSyncMappings is done.
SyncReturn(c) ==
    /\ pc[c] = "sync" /\ todo[c] = {}
    /\ Return(c)
    /\ UNCHANGED <<dbVars, core, statusVars, missed>>

\* Mutant: the mapping given up is tried again.
SyncSkipRetries(c, m) ==
    /\ pc[c] = "sync" /\ m \in todo[c]
    /\ missed' = missed \cup {m}
    /\ UNCHANGED <<dbVars, core, statusVars, operationMu, callVars, workVars, pc>>

\* The context is done, or MappingGet fails: this mapping is given up.
SyncSkip(c, m) ==
    /\ pc[c] = "sync" /\ m \in todo[c]
    /\ todo' = [todo EXCEPT ![c] = @ \ {m}]
    /\ missed' = missed \cup {m}
    /\ UNCHANGED <<dbVars, core, statusVars, operationMu, op, ctx, cancelled, workVars, pc>>

\* The mapping is gone or disabled.
SyncRemove(c, m) ==
    /\ pc[c] = "sync" /\ m \in todo[c] /\ c \notin cancelled
    /\ row[m].state # "on"
    /\ todo' = [todo EXCEPT ![c] = @ \ {m}]
    /\ missed' = missed \ {m}
    /\ Detach(c, m, "sync")
    /\ UNCHANGED <<dbVars, core, operationMu, op, ctx, cancelled, cur, seen, existing,
                   plan, staged, stagedFail>>

\* The mapping is enabled.  A core with the same inbound can be updated.
SyncRead(c, m) ==
    /\ pc[c] = "sync" /\ m \in todo[c] /\ c \notin cancelled
    /\ row[m].state = "on"
    /\ todo' = [todo EXCEPT ![c] = @ \ {m}]
    /\ cur' = [cur EXCEPT ![c] = m]
    /\ seen' = [seen EXCEPT ![c][m] = row[m]]
    /\ missed' = missed \ {m}
    /\ IF instances[m] # None /\ core[instances[m]].port = row[m].port
       THEN /\ existing' = [existing EXCEPT ![c] = instances[m]]
            /\ Goto(c, "plan")
            /\ UNCHANGED <<statusVars, victims, after>>
       ELSE /\ existing' = [existing EXCEPT ![c] = None]
            /\ Detach(c, m, "plan")
    /\ UNCHANGED <<dbVars, core, operationMu, op, ctx, cancelled, plan, staged, stagedFail>>

\* RuntimeRemoveMapping, whatever the row says.
Remove(c, m) ==
    /\ pc[c] = "remove" /\ m \in todo[c]
    /\ todo' = [todo EXCEPT ![c] = @ \ {m}]
    /\ missed' = missed \ {m}
    /\ Detach(c, m, "sync")
    /\ UNCHANGED <<dbVars, core, operationMu, op, ctx, cancelled, cur, seen, existing,
                   plan, staged, stagedFail>>

\* buildDynamicRuntimePlanForMapping reads nodes, groups and health.
Plan(c) ==
    /\ pc[c] = "plan" /\ c \notin cancelled
    /\ plan' = [plan EXCEPT ![c] = config[cur[c]]]
    /\ Goto(c, "apply")
    /\ UNCHANGED <<dbVars, core, statusVars, operationMu, callVars, cur, seen, existing,
                   victims, after, staged, stagedFail, missed>>

\* excludeRuntimeNode blacklists a node that cannot be built or added, or
\* reviveIfAllCandidatesBlacklisted revives some: the health records change, the
\* plan is built anew, and the other mappings that use the node are not synced.
Replan(c, S) ==
    /\ pc[c] \in {"plan", "apply"} /\ c \notin cancelled /\ cur[c] \in S
    /\ Change(S, "members")
    /\ missed' = missed \cup (S \ {cur[c]})
    /\ Goto(c, "plan")
    /\ UNCHANGED <<core, statusVars, operationMu, callVars, workVars>>

\* Mutant: the core that could not be updated is not closed.
PlanErrorLeaks(c) ==
    /\ pc[c] \in {"plan", "apply"}
    /\ Goto(c, "fail")
    /\ UNCHANGED <<dbVars, core, statusVars, operationMu, callVars, workVars, missed>>

\* It fails (no available node, a query error, the context is done), the plan
\* cannot be applied, or the core cannot start (the port may be taken by another
\* program too): a core that was being updated is closed first.
PlanError(c) ==
    /\ pc[c] \in {"plan", "apply"}
    /\ IF existing[c] = None
       THEN /\ Goto(c, "fail")
            /\ UNCHANGED <<victims, after>>
       ELSE /\ victims' = [victims EXCEPT ![c] = {existing[c]}]
            /\ after' = [after EXCEPT ![c] = "fail"]
            /\ Goto(c, "close")
    /\ UNCHANGED <<dbVars, core, statusVars, operationMu, callVars, cur, seen, existing,
                   plan, staged, stagedFail, missed>>

Built(c) == [open |-> TRUE, mapping |-> cur[c], port |-> seen[c][cur[c]].port,
             gen |-> seen[c][cur[c]].gen, options |-> plan[c].options,
             members |-> plan[c].members]

\* setRuntimeMappingInstance.
SetInstance(m, k) ==
    /\ instances' = [instances EXCEPT ![m] = k]
    /\ inbounds' = inbounds \cup {m}
    /\ failures' = failures \ {m}

\* Mutant: outbound options are taken to be those of the running core.
ApplyAnyOptions(c) ==
    /\ pc[c] = "apply" /\ existing[c] # None
    /\ core' = [core EXCEPT ![existing[c]] = [Built(c) EXCEPT !.options = core[existing[c]].options]]
    /\ SetInstance(cur[c], existing[c])
    /\ Goto(c, "sync")
    /\ UNCHANGED <<dbVars, operationMu, callVars, workVars, missed>>

\* applyDynamicRuntimePlan on the existing core.
Apply(c) ==
    /\ pc[c] = "apply" /\ existing[c] # None
    /\ core[existing[c]].options = plan[c].options
    /\ core' = [core EXCEPT ![existing[c]] = Built(c)]
    /\ SetInstance(cur[c], existing[c])
    /\ Goto(c, "sync")
    /\ UNCHANGED <<dbVars, operationMu, callVars, workVars, missed>>

\* Outbound options have changed: the core is replaced, from a new plan.
Restart(c) ==
    /\ pc[c] = "apply" /\ existing[c] # None
    /\ core[existing[c]].options # plan[c].options
    /\ existing' = [existing EXCEPT ![c] = None]
    /\ Detach(c, cur[c], "plan")
    /\ UNCHANGED <<dbVars, core, operationMu, callVars, cur, seen, plan, staged,
                   stagedFail, missed>>

Bound(p) == \E k \in Cores : core[k].open /\ core[k].port = p

\* newRuntimeInstanceFromPlan; a reload keeps the core to itself for now.
Start(c) ==
    /\ pc[c] = "apply" /\ existing[c] = None
    /\ ~Bound(seen[c][cur[c]].port)
    /\ \E k \in Cores :
          /\ ~core[k].open
          /\ core' = [core EXCEPT ![k] = Built(c)]
          /\ IF op[c] = "reload"
             THEN /\ staged' = [staged EXCEPT ![c][cur[c]] = k]
                  /\ Goto(c, "build")
                  /\ UNCHANGED statusVars
             ELSE /\ SetInstance(cur[c], k)
                  /\ Goto(c, "sync")
                  /\ UNCHANGED staged
    /\ UNCHANGED <<dbVars, operationMu, callVars, cur, seen, existing, plan, victims,
                   after, stagedFail, missed>>

\* Mutant: a failed mapping keeps its place in the table.
FailKeepsInstance(c) ==
    /\ pc[c] = "fail"
    /\ IF op[c] = "reload"
       THEN /\ stagedFail' = [stagedFail EXCEPT ![c] = @ \cup {cur[c]}]
            /\ Goto(c, "build")
            /\ UNCHANGED statusVars
       ELSE /\ inbounds' = inbounds \ {cur[c]}
            /\ failures' = failures \cup {cur[c]}
            /\ Goto(c, "sync")
            /\ UNCHANGED <<instances, stagedFail>>
    /\ UNCHANGED <<dbVars, core, operationMu, callVars, cur, seen, existing, plan, victims,
                   after, staged, missed>>

\* setRuntimeMappingFailure; a reload collects the failures.
Fail(c) ==
    /\ pc[c] = "fail"
    /\ IF op[c] = "reload"
       THEN /\ stagedFail' = [stagedFail EXCEPT ![c] = @ \cup {cur[c]}]
            /\ Goto(c, "build")
            /\ UNCHANGED statusVars
       ELSE /\ instances' = [instances EXCEPT ![cur[c]] = None]
            /\ inbounds' = inbounds \ {cur[c]}
            /\ failures' = failures \cup {cur[c]}
            /\ Goto(c, "sync")
            /\ UNCHANGED stagedFail
    /\ UNCHANGED <<dbVars, core, operationMu, callVars, cur, seen, existing, plan, victims,
                   after, staged, missed>>

AllCores == {instances[m] : m \in Mappings} \ {None}

\* replaceRuntimeInstances with an empty table.
ReplaceAll(c, next) ==
    /\ instances' = NoCores
    /\ inbounds' = {}
    /\ failures' = {}
    /\ victims' = [victims EXCEPT ![c] = AllCores]
    /\ after' = [after EXCEPT ![c] = next]
    /\ Goto(c, "close")

\* RuntimeReload reads the enabled mappings and takes everything down.
ReloadRead(c) ==
    /\ pc[c] = "reload"
    /\ seen' = [seen EXCEPT ![c] = row]
    /\ todo' = [todo EXCEPT ![c] = {m \in Mappings : row[m].state = "on"}]
    /\ missed' = {}
    /\ ReplaceAll(c, "build")
    /\ UNCHANGED <<dbVars, core, operationMu, op, ctx, cancelled, cur, existing, plan,
                   staged, stagedFail>>

\* The query fails: setRuntimeError, and the instances stay as they are.
ReloadError(c) ==
    /\ pc[c] = "reload"
    /\ inbounds' = {}
    /\ failures' = {}
    /\ missed' = Mappings
    /\ Return(c)
    /\ UNCHANGED <<dbVars, core, instances>>

\* The next mapping of the reload.
Build(c, m) ==
    /\ pc[c] = "build" /\ m \in todo[c]
    /\ todo' = [todo EXCEPT ![c] = @ \ {m}]
    /\ cur' = [cur EXCEPT ![c] = m]
    /\ Goto(c, "plan")
    /\ UNCHANGED <<dbVars, core, statusVars, operationMu, op, ctx, cancelled, seen, existing,
                   plan, victims, after, staged, stagedFail, missed>>

\* setRuntimeInstances: publish what was built.
Publish(c) ==
    /\ pc[c] = "build" /\ todo[c] = {}
    /\ instances' = staged[c]
    /\ inbounds' = {m \in Mappings : staged[c][m] # None}
    /\ failures' = stagedFail[c]
    /\ Return(c)
    /\ UNCHANGED <<dbVars, core, missed>>

\* RuntimeStop takes everything down.
Stop(c) ==
    /\ pc[c] = "stop"
    /\ missed' = Mappings
    /\ ReplaceAll(c, "sync")
    /\ UNCHANGED <<dbVars, core, operationMu, callVars, cur, seen, existing, plan, staged,
                   stagedFail>>

\* The steps of a caller inside the runtime manager that succeed.
Work(c) ==
    \/ SyncReturn(c) \/ Plan(c) \/ Apply(c) \/ Restart(c) \/ Start(c) \/ Fail(c) \/ Close(c)
    \/ ReloadRead(c) \/ Publish(c) \/ Stop(c)
    \/ \E m \in Mappings : SyncRemove(c, m) \/ SyncRead(c, m) \/ Remove(c, m) \/ Build(c, m)
    \/ \E S \in SUBSET Mappings : Replan(c, S)

Error(c) == PlanError(c) \/ ReloadError(c) \/ \E m \in Mappings : SyncSkip(c, m)

\* A caller issues a change or a command.
Request(c) ==
    \/ \E m \in Mappings, st \in {"off", "on"}, p \in Ports : WriteMapping(c, m, st, p)
    \/ \E m \in Mappings : DeleteMapping(c, m)
    \/ \E S \in SUBSET Mappings, part \in {"options", "members"} :
          \/ \E x \in {"background", "request"} : ChangeConfig(c, S, part, x)
          \/ ChangeConfigUnsynced(c, S, part)
    \/ \E k \in Cores, S \in SUBSET Mappings : TrafficFailure(c, k, S)
    \/ Reload(c)
    \/ RuntimeStop(c)

Next == \E c \in Callers : Request(c) \/ Cancel(c) \/ Lock(c) \/ Work(c) \/ Error(c)

Spec == Init /\ [][Next]_vars

\* A goroutine inside the manager runs on, and sync.Mutex starves nobody.
Fairness ==
    \A c \in Callers : WF_vars(Work(c) \/ Error(c)) /\ SF_vars(Lock(c))

FairSpec == Spec /\ Fairness

-----------------------------------------------------------------------------
OpenCores == {k \in Cores : core[k].open}

\* The cores a call in progress has taken out of the table or not yet put in.
InHand(c) == victims[c] \cup ({staged[c][m] : m \in Mappings} \ {None})

\* No listener is ever left behind: an open core, which holds its port, is in
\* the table or in the hands of a running call that will close or publish it.
NoLeakedListener == OpenCores \subseteq AllCores \cup UNION {InHand(c) : c \in Callers}

\* No mapping is served by two cores and no port is bound by two, at any step of any
\* call: the core a sync replaces, or a reload takes down, is closed before the next
\* one starts, also where the mapping has moved to another port.
OneCoreEach ==
    \A j, k \in OpenCores :
        j # k => core[j].mapping # core[k].mapping /\ core[j].port # core[k].port

\* Whoever finds the manager idle finds in the table open cores of the right
\* mappings, and the published status names exactly them.
StatusAgrees ==
    operationMu = None =>
        \A m \in Mappings :
            /\ instances[m] # None => core[instances[m]].open /\ core[instances[m]].mapping = m
            /\ m \notin missed => (m \in inbounds <=> instances[m] # None)

\* What is served is what the database and the health records say, or the
\* failure is reported, as soon as no call that will look at it again is under
\* way: reading rows and configuration only after operationMu has been taken
\* loses no change, in whatever order the callers get it.
UpToDate ==
    operationMu = None =>
        \A m \in Mappings \ missed :
            \/ \E c \in Callers : pc[c] = "lock" /\ (m \in todo[c] \/ op[c] \in {"reload", "stop"})
            \/ IF row[m].state # "on" THEN instances[m] = None
               ELSE \/ m \in failures
                    \/ /\ instances[m] # None
                       /\ core[instances[m]] =
                            [open |-> TRUE, mapping |-> m, port |-> row[m].port,
                             gen |-> row[m].gen, options |-> config[m].options,
                             members |-> config[m].members]

\* A call of the runtime manager returns.
CallsReturn == \A c \in Callers : (pc[c] # "idle") ~> (pc[c] = "idle")
=============================================================================
