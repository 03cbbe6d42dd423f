---------------------------- MODULE HealthRunner ----------------------------
(***************************************************************************)
(* The health runner (service/proxy/health.go): a goroutine that takes     *)
(* node identifiers from a bounded queue, gathers them into batches and    *)
(* probes each batch with a pool of workers.                               *)
(*                                                                         *)
(* HealthStart replaces the runner and HealthStop ends it; both cancel its *)
(* context and wait for it.  Handlers read the runner under a mutex and    *)
(* send to its queue afterwards; without a runner they spawn a goroutine   *)
(* that probes on its own (a detached probe), which nobody cancels or      *)
(* waits for.  An owner is whoever executes probeNodeIDsWithLog: a runner  *)
(* or a detached goroutine.                                                *)
(***************************************************************************)
EXTENDS Naturals, Sequences, FiniteSets

CONSTANTS
    Nodes,           \* node identifiers
    Runs,            \* incarnations of the runner
    Detached,        \* goroutines spawned without a runner
    Callers,         \* handlers that ask for probes
    QueueSize,       \* healthProbeQueueSize
    BatchSize,       \* healthProbeBatchSize
    MaxConcurrency,  \* cfg.MaxConcurrency, normalised
    MaxCalls,        \* bound on the requests of the handlers
    NoRun, NoNode

ASSUME RunsAndDetached == Runs \cap Detached = {} /\ NoRun \notin Runs
ASSUME NodesAreFinite  == IsFiniteSet(Nodes) /\ NoNode \notin Nodes
ASSUME SizesPositive   == {QueueSize, BatchSize, MaxConcurrency} \subseteq Nat \ {0}
ASSUME MaxCallsIsNat   == MaxCalls \in Nat

VARIABLES
    main,       \* the server: at which step of HealthStart or HealthStop it is
    runner,     \* healthRunner, or NoRun
    cancelled,  \* the context of an owner is cancelled
    queue,      \* runner.queue
    loop,       \* at which step an owner is
    batch,      \* identifiers gathered so far
    todo,       \* how often a row is still to be sent to the workers
    slots,      \* free places of the channel of results
    work,       \* the workers of an owner
    caller,     \* the handlers: whose queue they are filling, and with what
    recorded,   \* outcomes that have been recorded in the health cache
    calls       \* requests so far

vars == <<main, runner, cancelled, queue, loop, batch, todo, slots, work, caller,
          recorded, calls>>

Owners   == Runs \cup Detached
Workers  == 1..MaxConcurrency
Items(s) == {s[i] : i \in DOMAIN s}

\* A probe answers, fails by itself, or fails because its context was cancelled.
Outcomes == {"ok", "failed", "cut"}
Steps    == {"unborn", "idle", "drain", "find", "dispatch", "wait", "done"}
Off      == [at |-> "off", node |-> NoNode, outcome |-> "ok"]
Idle     == [Off EXCEPT !.at = "idle"]

\* Steps of an owner outside probeNodes, where it has no workers.
Alone == {"unborn", "idle", "drain", "find", "done"}
\* The worker has taken a node and not yet posted its result.
Busy(o, w) == work[o][w].at \notin {"off", "idle"}

\* The type invariant; the queue and a batch keep to their sizes.
TypeOK ==
    /\ main \in [at : {"ready", "cancel", "wait", "install"}, run : Runs \cup {NoRun},
                 enabled : BOOLEAN]
    /\ runner \in Runs \cup {NoRun}
    /\ cancelled \in [Owners -> BOOLEAN]
    /\ queue \in [Runs -> Seq(Nodes)]
    /\ \A r \in Runs : Len(queue[r]) <= QueueSize
    /\ loop \in [Owners -> Steps]
    /\ batch \in [Owners -> Seq(Nodes)]
    /\ todo \in [Owners -> [Nodes -> Nat]]
    /\ slots \in [Owners -> Nat]
    /\ work \in [Owners -> [Workers -> [at : {"off", "idle", "check", "probe", "save", "post"},
                                        node : Nodes \cup {NoNode}, outcome : Outcomes]]]
    /\ caller \in [Callers -> [to : Runs \cup {NoRun}, ids : SUBSET Nodes]]
    /\ recorded \subseteq Outcomes
    /\ calls \in Nat

Init ==
    /\ main = [at |-> "ready", run |-> NoRun, enabled |-> FALSE]
    /\ runner = NoRun
    /\ cancelled = [o \in Owners |-> FALSE]
    /\ queue = [r \in Runs |-> <<>>]
    /\ loop = [o \in Owners |-> "unborn"]
    /\ batch = [o \in Owners |-> <<>>]
    /\ todo = [o \in Owners |-> [n \in Nodes |-> 0]]
    /\ slots = [o \in Owners |-> 0]
    /\ work = [o \in Owners |-> [w \in Workers |-> Off]]
    /\ caller = [c \in Callers |-> [to |-> NoRun, ids |-> {}]]
    /\ recorded = {}
    /\ calls = 0

-----------------------------------------------------------------------------
(* HealthStart and HealthStop.                                             *)

owned == <<batch, todo, slots, work, recorded>>

\* Both begin with stopHealthRunner, which takes the runner out; a start with
\* health checks disabled is nothing else.  Runs bounds how often it is started.
TakeRunner(enabled) ==
    /\ main.at = "ready"
    /\ runner # NoRun \/ enabled
    /\ enabled => \E r \in Runs : loop[r] = "unborn"
    /\ main' = [at |-> IF runner # NoRun THEN "cancel" ELSE "install",
                run |-> runner, enabled |-> enabled]
    /\ runner' = NoRun
    /\ UNCHANGED <<cancelled, queue, loop, caller, calls, owned>>

CancelRunner ==
    /\ main.at = "cancel"
    /\ main' = [main EXCEPT !.at = "wait"]
    /\ cancelled' = [cancelled EXCEPT ![main.run] = TRUE]
    /\ UNCHANGED <<runner, queue, loop, caller, calls, owned>>

\* <-runner.done
RunnerDone ==
    /\ main.at = "wait"
    /\ loop[main.run] = "done"
    /\ main' = [main EXCEPT !.at = IF main.enabled THEN "install" ELSE "ready",
                            !.run = NoRun]
    /\ UNCHANGED <<runner, cancelled, queue, loop, caller, calls, owned>>

\* Register a new runner and start its goroutine.
InstallRunner(r) ==
    /\ main.at = "install"
    /\ loop[r] = "unborn"
    /\ main' = [main EXCEPT !.at = "ready"]
    /\ runner' = r
    /\ loop' = [loop EXCEPT ![r] = "idle"]
    /\ UNCHANGED <<cancelled, queue, caller, calls, owned>>

-----------------------------------------------------------------------------
(* enqueueHealthProbeIDs, called by NodeProbe and NodeProbeAll.            *)

\* A runner is registered: its queue will be filled after the mutex is released.
EnqueueRead(c, ids) ==
    /\ calls < MaxCalls
    /\ caller[c].to = NoRun
    /\ runner # NoRun
    /\ calls' = calls + 1
    /\ caller' = [caller EXCEPT ![c] = [to |-> runner, ids |-> ids]]
    /\ UNCHANGED <<main, runner, cancelled, queue, loop, owned>>

\* No runner: a goroutine probes the nodes in the background context.
EnqueueDetached(c, d, ids) ==
    /\ calls < MaxCalls
    /\ caller[c].to = NoRun
    /\ runner = NoRun
    /\ loop[d] = "unborn"
    /\ calls' = calls + 1
    /\ loop' = [loop EXCEPT ![d] = "find"]
    /\ \E s \in [1..Cardinality(ids) -> ids] :
         /\ Items(s) = ids
         /\ batch' = [batch EXCEPT ![d] = s]
    /\ UNCHANGED <<main, runner, cancelled, queue, caller, todo, slots, work, recorded>>

Room(r) == Len(queue[r]) < QueueSize

\* A send that does not block.
EnqueueSend(c, n) ==
    /\ caller[c].to # NoRun /\ n \in caller[c].ids
    /\ Room(caller[c].to)
    /\ queue' = [queue EXCEPT ![caller[c].to] = Append(@, n)]
    /\ caller' = [caller EXCEPT ![c].ids = @ \ {n}]
    /\ UNCHANGED <<main, runner, cancelled, loop, calls, owned>>

\* Everything is queued, or the queue is full and the rest is dropped.
EnqueueReturn(c) ==
    /\ caller[c].to # NoRun
    /\ caller[c].ids = {} \/ ~Room(caller[c].to)
    /\ caller' = [caller EXCEPT ![c] = [to |-> NoRun, ids |-> {}]]
    /\ UNCHANGED <<main, runner, cancelled, queue, loop, calls, owned>>

-----------------------------------------------------------------------------
(* runHealthLoop and drainHealthProbeBatch.                                *)

outer == <<main, runner, cancelled, caller, calls>>

\* The select takes any arm that is ready, also a queued node after the cancel.
LoopStop(r) ==
    /\ loop[r] = "idle"
    /\ cancelled[r]
    /\ loop' = [loop EXCEPT ![r] = "done"]
    /\ UNCHANGED <<outer, queue, owned>>

LoopTake(r) ==
    /\ loop[r] = "idle"
    /\ queue[r] # <<>>
    /\ batch' = [batch EXCEPT ![r] = <<Head(queue[r])>>]
    /\ queue' = [queue EXCEPT ![r] = Tail(@)]
    /\ loop' = [loop EXCEPT ![r] = "drain"]
    /\ UNCHANGED <<outer, todo, slots, work, recorded>>

DrainOne(r) ==
    /\ loop[r] = "drain"
    /\ Len(batch[r]) < BatchSize
    /\ queue[r] # <<>>
    /\ batch' = [batch EXCEPT ![r] = Append(@, Head(queue[r]))]
    /\ queue' = [queue EXCEPT ![r] = Tail(@)]
    /\ UNCHANGED <<outer, loop, todo, slots, work, recorded>>

DrainEnd(r) ==
    /\ loop[r] = "drain"
    /\ Len(batch[r]) >= BatchSize \/ queue[r] = <<>>
    /\ loop' = [loop EXCEPT ![r] = "find"]
    /\ UNCHANGED <<outer, queue, owned>>

-----------------------------------------------------------------------------
(* probeNodeIDsWithLog and probeNodes.                                     *)

\* The owner returns from probeNodeIDsWithLog.
Return(o) == IF o \in Runs THEN "idle" ELSE "done"

\* Mutant: repetitions are kept.
Times_repeated(s, n) == Cardinality({i \in DOMAIN s : s[i] = n})
\* How often a row is probed: UniqueNonEmpty and findNodesByIDs drop repetitions.
Times(s, n) == IF n \in Items(s) THEN 1 ELSE 0

\* The size of the pool; one node, or a concurrency of one, is probed in sequence.
PoolSize(rows) == IF Cardinality(rows) < MaxConcurrency THEN Cardinality(rows) ELSE MaxConcurrency

\* Mutant: the channel of results has a single place.
Places_single(rows) == 1
\* The capacity of the channel of results.
Places(rows) == Cardinality(rows)

\* The rows that are found, and a worker for each of them up to MaxConcurrency.
Find(o, rows) ==
    /\ loop[o] = "find"
    /\ rows \subseteq Items(batch[o])
    /\ rows # {}
    /\ todo' = [todo EXCEPT ![o] = [n \in Nodes |-> IF n \in rows THEN Times(batch[o], n) ELSE 0]]
    /\ slots' = [slots EXCEPT ![o] = Places(rows)]
    /\ work' = [work EXCEPT ![o] = [w \in Workers |-> IF w <= PoolSize(rows) THEN Idle ELSE Off]]
    /\ batch' = [batch EXCEPT ![o] = <<>>]
    /\ loop' = [loop EXCEPT ![o] = "dispatch"]
    /\ UNCHANGED <<outer, queue, recorded>>

\* The query fails (a cancelled context included), or no row is there any more.
FindNothing(o) ==
    /\ loop[o] = "find"
    /\ batch' = [batch EXCEPT ![o] = <<>>]
    /\ loop' = [loop EXCEPT ![o] = Return(o)]
    /\ UNCHANGED <<outer, queue, todo, slots, work, recorded>>

\* jobs <- node: the channel has no buffer, a waiting worker takes the node.
Send(o, w, n) ==
    /\ loop[o] = "dispatch"
    /\ todo[o][n] > 0
    /\ work[o][w].at = "idle"
    /\ todo' = [todo EXCEPT ![o][n] = @ - 1]
    /\ work' = [work EXCEPT ![o][w] = [at |-> "check", node |-> n, outcome |-> "ok"]]
    /\ UNCHANGED <<outer, queue, loop, batch, slots, recorded>>

\* The pool is made of several workers; the sequential loop does not look at its context.
Pooled(o) == \E w \in Workers : w > 1 /\ work[o][w].at # "off"

\* close(jobs): everything is sent, or the context is cancelled.
CloseJobs(o) ==
    /\ loop[o] = "dispatch"
    /\ \/ \A n \in Nodes : todo[o][n] = 0
       \/ cancelled[o] /\ Pooled(o)
    /\ todo' = [todo EXCEPT ![o] = [n \in Nodes |-> 0]]
    /\ loop' = [loop EXCEPT ![o] = "wait"]
    /\ UNCHANGED <<outer, queue, batch, slots, work, recorded>>

\* Mutant: the owner does not wait for its workers.
Joined_early(o) == TRUE
\* wg.Wait
Joined(o) == \A w \in Workers : work[o][w].at = "off"

PoolDone(o) ==
    /\ loop[o] = "wait"
    /\ Joined(o)
    /\ slots' = [slots EXCEPT ![o] = 0]
    /\ loop' = [loop EXCEPT ![o] = Return(o)]
    /\ UNCHANGED <<outer, queue, batch, todo, work, recorded>>

-----------------------------------------------------------------------------
(* A worker: probeAndSaveNode for each node it receives.                   *)

Working(o, w, at, step) ==
    /\ work[o][w].at = at
    /\ work' = [work EXCEPT ![o][w] = step]
    /\ UNCHANGED <<outer, queue, loop, batch, todo>>

\* The record cannot be read, or says that the node is blacklisted: no probe.
Skip(o, w) ==
    /\ Working(o, w, "check", [work[o][w] EXCEPT !.at = "post"])
    /\ UNCHANGED <<slots, recorded>>

Begin(o, w) ==
    /\ Working(o, w, "check", [work[o][w] EXCEPT !.at = "probe"])
    /\ UNCHANGED <<slots, recorded>>

\* The probe ends, at the latest by its timeout; after a cancel it may be cut off.
ProbeEnd(o, w, outcome) ==
    /\ outcome = "cut" => cancelled[o]
    /\ Working(o, w, "probe", [work[o][w] EXCEPT !.at = "save", !.outcome = outcome])
    /\ UNCHANGED <<slots, recorded>>

\* Mutant: recordNodeHealthResult does not look at its context.
MayRecord_always(o) == TRUE
\* recordNodeHealthResult looks at its context first.
MayRecord(o) == ~cancelled[o]

\* A blacklisting is followed by a sync of the mappings (module NodeHealth) before
\* the worker goes on; every such call returns (module RuntimeManager).
Save(o, w) ==
    /\ Working(o, w, "save", [work[o][w] EXCEPT !.at = "post"])
    /\ recorded' = IF MayRecord(o) THEN recorded \cup {work[o][w].outcome} ELSE recorded
    /\ UNCHANGED slots

\* results <- probeResult
Post(o, w) ==
    /\ slots[o] > 0
    /\ Working(o, w, "post", Idle)
    /\ slots' = [slots EXCEPT ![o] = @ - 1]
    /\ UNCHANGED recorded

\* The channel of jobs is closed and the worker has nothing in hand.
WorkerEnd(o, w) ==
    /\ loop[o] \notin {"find", "dispatch"}
    /\ Working(o, w, "idle", Off)
    /\ UNCHANGED <<slots, recorded>>

-----------------------------------------------------------------------------
Main ==
    \/ \E enabled \in BOOLEAN : TakeRunner(enabled)
    \/ CancelRunner
    \/ RunnerDone
    \/ \E r \in Runs : InstallRunner(r)

Handler(c) ==
    \/ \E ids \in SUBSET Nodes \ {{}} :
         \/ EnqueueRead(c, ids)
         \/ \E d \in Detached : EnqueueDetached(c, d, ids)
    \/ \E n \in Nodes : EnqueueSend(c, n)
    \/ EnqueueReturn(c)

Owner(o) ==
    \/ o \in Runs /\ (LoopTake(o) \/ LoopStop(o) \/ DrainOne(o) \/ DrainEnd(o))
    \/ \E rows \in SUBSET Nodes : Find(o, rows)
    \/ FindNothing(o)
    \/ \E w \in Workers, n \in Nodes : Send(o, w, n)
    \/ CloseJobs(o)
    \/ PoolDone(o)

Worker(o, w) ==
    \/ Skip(o, w)
    \/ Begin(o, w)
    \/ \E outcome \in Outcomes : ProbeEnd(o, w, outcome)
    \/ Save(o, w)
    \/ Post(o, w)
    \/ WorkerEnd(o, w)

Next ==
    \/ Main
    \/ \E c \in Callers : Handler(c)
    \/ \E o \in Owners : Owner(o)
    \/ \E o \in Owners, w \in Workers : Worker(o, w)

Spec == Init /\ [][Next]_vars

\* Runnable goroutines run, and a probe ends by its timeout; nobody has to start or
\* stop the runner, or to ask for probes.
Fairness ==
    /\ WF_vars(CancelRunner \/ RunnerDone)
    /\ \A o \in Owners : WF_vars(Owner(o))
    /\ \A o \in Owners, w \in Workers : WF_vars(Worker(o, w))

FairSpec == Spec /\ Fairness

-----------------------------------------------------------------------------
(* Properties.                                                             *)

\* When stopHealthRunner has returned, nothing of that runner is at work any more:
\* its loop has ended and so have its workers.  Hence there is one runner at a time.
StoppedIsQuiet ==
    \A r \in Runs : loop[r] # "unborn" /\ r \notin {runner, main.run} =>
        loop[r] = "done" /\ \A w \in Workers : work[r][w].at = "off"

\* A probe cut off by a stop is never recorded as a failure of the node.
CutIsNotFailure == "cut" \notin recorded

\* Two workers of one pool never probe the same node, however often it was queued.
NoTwinProbe ==
    \A o \in Owners : \A v, w \in Workers :
        v # w /\ Busy(o, v) /\ Busy(o, w) => work[o][v].node # work[o][w].node

\* A stop, and a restart, return.
StopReturns == main.at \in {"cancel", "wait"} ~> main.at \in {"ready", "install"}

\* The identifier is with the owner, waiting or being probed.
Held(o, n) ==
    \/ o \in Runs /\ n \in Items(queue[o])
    \/ n \in Items(batch[o])
    \/ todo[o][n] > 0
    \/ \E w \in Workers : Busy(o, w) /\ work[o][w].node = n

\* What has been accepted is dealt with: probed, skipped, or given up because the
\* runner was stopped.
AcceptedIsServed ==
    \A o \in Owners, n \in Nodes : Held(o, n) ~> (~Held(o, n) \/ loop[o] = "done")

\* How an owner lets go of an identifier: a worker posts its result, its row is not
\* found, or a pool that is cancelled gives up the rows it has not sent.
LetGo(o, n) ==
    \/ \E w \in Workers : work[o][w].at = "post" /\ work[o][w].node = n
    \/ loop[o] = "find" /\ n \in Items(batch[o])
    \/ loop[o] = "dispatch" /\ cancelled[o] /\ Pooled(o)

\* What has been accepted is not lost on the way from the queue to the workers: the
\* owner lets go of an identifier in one of these ways only, never because it takes
\* the next batch or because a handler spawns a probe.
NoneForgotten ==
    [][\A o \in Owners, n \in Nodes : Held(o, n) /\ ~Held(o, n)' => LetGo(o, n)]_vars

-----------------------------------------------------------------------------
(* The inductive invariant.                                                *)

\* Which step of a start or stop has which runner in hand.
MainInv ==
    /\ main.run = NoRun <=> main.at \in {"ready", "install"}
    /\ main.at # "ready" => runner = NoRun
    /\ runner # NoRun => loop[runner] # "unborn"
    /\ main.run # NoRun => loop[main.run] # "unborn"

\* There are workers only in probeNodes.
PoolInv == \A o \in Owners : loop[o] \in Alone => \A w \in Workers : work[o][w].at = "off"

\* Only a cancelled owner has a probe that was cut off in hand.
CutInv ==
    \A o \in Owners, w \in Workers :
        work[o][w].outcome = "cut" => cancelled[o]

\* A row is to be sent once, or with one worker.
TwinInv ==
    \A o \in Owners, n \in Nodes :
        /\ todo[o][n] <= 1
        /\ todo[o][n] = 1 => \A w \in Workers : Busy(o, w) => work[o][w].node # n

IInv ==
    /\ TypeOK
    /\ MainInv
    /\ PoolInv
    /\ CutInv
    /\ TwinInv
    /\ StoppedIsQuiet
    /\ CutIsNotFailure
    /\ NoTwinProbe

\* Identifiers are gathered, and rows are to be sent, only at the steps that do so.
HandInv ==
    \A o \in Owners :
        /\ loop[o] \notin {"drain", "find"} => batch[o] = <<>>
        /\ loop[o] # "dispatch" => \A n \in Nodes : todo[o][n] = 0
=============================================================================
