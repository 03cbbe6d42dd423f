# proxy-hub: a TLA+ verification project

proxy-hub serves local listening ports ("port mappings"), each through an embedded
sing-box core that forwards to proxy nodes. Nodes, groups, chains, subscriptions and
mappings are rows of a database edited over HTTP; the health of nodes is measured by
probes and by real traffic, and decides which nodes a mapping may use. What is hard in
it is not the data but the timing: HTTP handlers, a health runner, callbacks of running
cores, connections, probers and a write-back cache all act on the same state.

## 1. Inventory

| Component | State | Operations | Talks to | What makes it correct |
|---|---|---|---|---|
| Health write-back cache (`service/proxy/health_batcher.go`) | entries with dirty flag and revision, `loaded`, goroutine handle, three locks | record, update, revive, read, load, flush, stop, discard | database; called by handlers, runner, callbacks, plan builder | nothing is marked clean that was not written; loads forget nothing; a stop writes everything; a shutdown returns |
| Runtime manager (`runtime_lifecycle.go`) | table of cores, published status, `operationMu` | reload, sync one or several mappings, remove, stop, status | reads database and health; builds, updates and closes cores; called by every handler that changes configuration and by health callbacks | no listener is lost; status and table agree; the latest change is what is served |
| Plan builder and application (`runtime_plan.go`, `runtime_chain.go`, `runtime_route.go`) | `instance.outbounds`, the excluded nodes of a sync; revives and blacklists health records | build a plan, apply it to a running or a new core, exclude a node and plan again | database, health cache, core | after a sync the core is what the plan says; one bad node does not fail a mapping; a sync ends |
| Dynamic group and node state (`core/singboxcore/group.go`, `node.go`) | members, selection, policy; per node: enabled, tombstoned, health, connections | add, disable, remove, select, mark failed, garbage-collect, dial, close, report traffic failure, probe, revive | outbound manager of the core; callbacks into the health cache | no connection through a removed node; selection valid; membership follows the plan |
| Least-latency probe loop (`group.go`) | `probeRunning`, `probeWake`, `runtimeStarted` | ensure, wake, round, sleep, exit | policy of the group, context of the core | one loop, never none where one is due, no lost wake-up, ends with the group |
| Core wrapper (`core.go`) | groups, outbound tags and their owners | start, close, add and remove outbounds and groups | sing-box | an outbound lives as long as something uses it |
| Affected mappings (`runtime_reconcile.go`) | none | mappings reached from nodes or groups | database | reaches every mapping whose plan changes |
| Health rules (`health.go`) | counters and blacklist of a node | record, blacklist, release, revive, sync affected mappings | cache, plan builder, runtime manager | a blacklisting and a release reach the running group |
| Health runner (`health.go`) | runner goroutine, queue, worker pool | start, stop, enqueue, gather, probe | handlers, health rules | a stop is complete and returns, what it cuts off is not a failure, what was accepted is dealt with |
| Configuration store (`service.go`, `group_service.go`) | rows of nodes, chains, groups, mappings | create, update, delete, switch, import | database | no dangling reference, an active target that is listed, no chain through a chain and no cycle |
| Subscriptions (`subscription_service.go`) | rows of subscriptions, and the nodes and groups they bring | create, update, delete, sync with a fetched document | database, configuration store | a sync replaces its rows and leaves nothing behind |
| Backup, IP lookup, DTOs, share links, users, system API, utilities, UI | rows or none | see `PROJECT.json` | | |

Hard behaviours: an update recorded while a flush is under way; a deletion between a
flush's existence check and its transaction; a settings import that replaces the
database under a loaded cache; two syncs of one mapping and the port it holds; a sync in
the context of the core it closes; dials holding pointers to nodes that a sync removes
and adds again; a strategy switched while the probe loop decides to end; a request that
is refused after half of its groups have been changed; checks of chains that look at a
group without its children, or before the row they are about is written. The hazards, each
at its line, are listed in `PROJECT.json`. `src/runtime-audit-2026-09-19.md` reports
earlier defects of exactly these kinds (a leaked listener of concurrent syncs, a window
in which the probe loop was not restarted); `NoLeakedListener` and `LoopPresent` state
that they are gone.

## 2. Modules

Each component has a module (state, `Init`, one action per atomic step, `Next`, `Spec`,
properties), one TLC configuration per question, an `MC` module where an instance needs
definitions of its own (plans, symmetry sets), and, where something is proved, a
`...Proofs` module. An action is what the
code does between two points where another goroutine may step in: a critical section, a
database transaction, a query. Operators with a `Mutant` comment are
plausible bugs; each property is violated when one of them replaces the original.

**HealthBatcher** (`health_batcher.go`, with `SettingsImport`, `NodeDelete`,
`HealthStop`). A record's content is the set of updates it reflects, in memory and in the
database, so lost and resurrected updates are visible. Recorders go through
`BeginUpdate`/`BeginRead`, `ensureLoaded` (`AlreadyLoaded`, `LoadRead`, `LoadInstall`,
`LoadError`), `EnsureStarted`, `Apply` (or `ApplyDuplicate`, a failure already reported
by the other source). A flush is `Collect`, `CheckExists`, `Commit`, `MarkClean`, or
`FlushError` in between. `Main` executes `shutdown`; an import is discard, `Import`,
discard. `Crash` keeps only the database. The server stops the health cache while its
cores still run (`api.go:148`), and an import may happen under load, so calls may be in
the middle of their work while a shutdown runs (`Overlap`); all properties but
`DirtyIsFlushed` are claimed of that case. Two history variables say what can be claimed:
`owed` is what the cache knew when the stop under way began, and `reloaded` that a call
has loaded the cache again between the two locks of a shutdown (`health_batcher.go:221`
and 225), which then empties the entries and leaves the cache loaded. One assumption on
time is in the guard of `Tick`: a goroutine started during a shutdown is 30 s away from
its first tick, and the shutdown's flushes are limited to 5 s and 10 s.

**HealthStore** is what the cache promises to those who record and read: of every node
something is known, and a part of it is saved. It has no entries, revisions, locks or
goroutines. Opening, saving and deleting other nodes take nothing from what is known, an
orderly stop first saves what was known at its beginning, a crash keeps what was saved.
Records may be recorded and opened in the middle of a shutdown; what is opened there is
`torn`, and only torn records may be emptied, or save less than was saved. An import that
finds the records open decides what is known only by its second discard.
`ImplementsStore` says that `HealthBatcher` implements it, with overlapping calls: known
is what memory says if it is loaded and what the rows say if not, torn is `reloaded`, and
a stop whose last flush failed may lose what was not saved.

**RuntimeManager** (`runtime_lifecycle.go` and its callers). A mapping's row carries a
port and a stamp; what nodes, groups and health imply for it is a pair of stamps:
`options` (outbound options, immutable in a running core) and `members` (changed in
place). A caller writes, waits for `operationMu` (`Lock`) and then syncs (`SyncRead`,
`SyncRemove`, `Plan`, `Replan`, `Apply`, `Restart`, `Start`, `Fail`, `PlanError`), removes,
reloads (`ReloadRead`, `Build`, `Publish`) or stops. `Close` releases the port and ends
the context of the core, which may be the context of a waiting caller. It is one step:
`Core.Close` (`core.go:98`) cancels and hands over to sing-box without waiting for
callbacks, and whether sing-box waits for them is not in the repository. `missed` records
the mappings for which the code itself gives up a sync (a failed query, a cancelled
context, a health change it does not propagate), so that `UpToDate` claims no more than
the code attempts.

**DynamicGroup** (`group.go`, `node.go`, `syncDynamicGroupMembers`). A `NodeState` is an
object `<<node, generation>>`: a removed and re-added node is a new object while a dial
may still hold the old one. Dials, the prober, expiry of blacklistings and one sync at a
time interleave at the granularity of `n.mu` and `g.mu`. `force` is a manual mapping
(`ForceSelected`), `failover` the manual strategy without it, `balance` the others; which
eligible candidate is tried first is left open.

**GroupMembership** is what a dynamic group promises: the nodes that can be used, the
connections through them, and a sync that makes the nodes of its plan usable and the
others unusable, one at a time. It has no objects, tombstones or snapshots.
`ImplementsGroup` says that `DynamicGroup` implements it: a node can be used if its
latest object serves, and a connection counts until it is cut.

**ProbeLoop** (`group.go`). The loop's life: `EnsureContext`, `EnsureSnapshot`, `Spawn`
or `NoSpawn`; `LoopSnapshot`, `LoopActive`, `LoopDrain`, `LoopRound`, `LoopProbed`, the
three arms of the select, and `LoopExit`, the deferred function that ensures a loop again.

**ConfigStore** (`service.go`, `group_service.go`, `subscription_service.go`,
`runtime_reconcile.go`). The rows, one action per request, requests one at a time (races
between handlers are not modelled). Lists are sets; where the code takes the first
element, or goes through a list in order, the model takes any element and any order.
Identifiers are random in the code, so a new row gets one that no row mentions
(`NewNodes`, `NewGroups`). `NodeCreate` makes no rows of subscriptions: `SubscriptionID`
is not part of the JSON of a request (`dto.go:198`), and the import clears it
(`service.go:562`); rows of subscriptions come from a sync only. The model follows the
order in which the code checks and writes: `NodeUpdate` changes the groups first, each
checked against the node's old row, and a refusal keeps what was done; a subscription is
synced in one transaction. The import of a document is `NodeCreate` or `ImportNode` for
each of its nodes and `ImportGroups` for its groups: a node that fails is skipped, a group
that fails ends the import. Second half: from which groups and nodes a mapping's plan is
built (`TargetGroups`, `HopGroups`, `HopNodes`), and which mappings `runtime_reconcile.go`
finds for a node, a group or a subscription (`AffectedByNodes`, `AffectedByGroups`,
`AffectedBySubscription`). `RefsExist` does not speak of `group_id` of a node: the groups
of a deleted subscription leave it behind in nodes of others, and it then selects nothing,
since every reader looks it up among the groups that are there.

**HealthRunner** (`health.go`). The server is at a step of `HealthStart` or `HealthStop`
(`TakeRunner`, `CancelRunner`, `RunnerDone`, `InstallRunner`); a handler reads the runner
(`EnqueueRead`) and sends to its queue afterwards (`EnqueueSend`, `EnqueueReturn`), or
spawns a probe of its own (`EnqueueDetached`). An owner, a runner or such a goroutine,
gathers a batch (`LoopTake`, `DrainOne`, `DrainEnd`), reads the rows (`Find`,
`FindNothing`) and hands them to workers (`Send`, `CloseJobs`, `PoolDone`); a worker goes
through `Skip` or `Begin`, `ProbeEnd`, `Save`, `Post`, `WorkerEnd`. A sequential probe is
a pool of one. The sync that a result may cause is in `NodeHealth`.

**NodeHealth** (`health.go`, `health_batcher.go`, `runtime_plan.go`). One mapping of a
strategy other than manual that lists its nodes. A record is the count of consecutive
failures and the blacklisting; an actor (runner, callback, test, handler) probes
(`BeginProbe`), records (`Record`, `RecordDuplicate`, `Drop`), or releases and blacklists
by hand, and then waits for a sync (`GiveUp`, `Lock`). A sync reads the blacklist
(`ReadBlacklist`), revives nodes if none is left (`Revive`), leaves out what the core
refuses (`Exclude`), begins again with a new core (`Restart`), and ends in `Apply` or
`SyncFail`. `Tick` lets blacklistings run out anywhere in between. `missed` and `released`
are history: a sync was given up and no plan read since; nodes released and not failed
since. That the record itself survives flushes and restarts is `HealthBatcher`'s part,
that a sync is alone is `RuntimeManager`'s.

**PlanBuilder** (`runtime_plan.go`, `runtime_chain.go`). `PlanFor` is
`buildDynamicRuntimePlanForMapping`: from the rows of nodes, groups and a mapping, and
the blacklisted and excluded nodes, to outbounds, their owners and dynamic groups in the
order of their tags. A chain becomes outbounds with detours (`Chain`, `Hop`), a group in
it a selector (`ChainGroup`, `TerminalGroup`) that is then replaced by a dynamic group
(`CacheGroup`). Tags are tuples; the options of an outbound are the node, its version and
the tag it dials through. The nodes of a group's row stand for those that
`findNodesByGroupOrIDs` finds. It uses recursive operators and is evaluated by TLC only.

**Core** (`core.go`, `runtime_plan.go`, `runtime_lifecycle.go`). The outbounds and groups
of one mapping's core, and the sync that applies a plan to them: `Begin`, `BuildPlan`
(with any rows and blacklist), then `Compare` for a running core or `Boot`/`BootRefused` for
a new one, `RemoveStale`/`StaleDone`, and for each group `EnterGroup`, `AddMember` or
`AddMemberFails`, `RemoveMember`, `GroupDone` (builtins, selection, collection) or
`SelectFails`; `Applied` or `StartFails`. `Exclude` plans again without a node, `Fail`
closes the core. So do errors that no plan explains, with the result `"fault"`: a query
of the builder (`QueryFails`), a core or a group that cannot be created (`BootFails`,
`GroupFails`), an outbound that sing-box does not remove (`RemovalFails`: the errors of
`RemoveGroup`, `RemoveNode` and `GC`). The reads of one plan are taken at one moment, and
query errors in `cacheDynamicChainGroups`, which the code drops, are left out. A removed
member stays as a tombstone until
a collection takes it; `Free` says which may be gone. `Core` has a plan as an operator
parameter: `MCCore` gives it `PlanFor`, the
proofs know only its shape. Of the selection, only whether the member to select is there
matters here; which one serves, and connections, are `DynamicGroup`'s part; that syncs
run one at a time is `RuntimeManager`'s. What sing-box itself does is external: it accepts
an outbound or refuses it for its options, a dynamic outbound without a group cannot be
created, and anything else it is asked for may fail.

## 3. Runs

| Run | Properties | Shows |
|---|---|---|
| `HealthBatcher_quiet` | `DirtyIsFlushed` | without calls in the middle of a shutdown every update is eventually written |
| `HealthBatcher_overlap` | `CleanIsPersisted`, `LoadedIsComplete`, `StopPersists`, `ShutdownReturns`, `ImplementsStore` | when calls overlap shutdowns and imports a clean entry equals its rows, a loaded cache knows all rows (unless it was reloaded inside a shutdown), a stop loses nothing that was known when it began unless its last flush fails, stop and discard return, and the cache keeps the promise of `HealthStore` |
| `RuntimeManager_safe` | `NoLeakedListener`, `OneCoreEach`, `StatusAgrees`, `UpToDate` | cores, table and status agree while two mappings hand over a port, at no step has a mapping or a port two open cores, and three racing callers never leave an older configuration in service |
| `RuntimeManager_live` | `CallsReturn` | every call returns |
| `DynamicGroup_safe` | `TypeOK`, `SyncedMembers`, `SelectedPresent`, `NoStrayConnection`, `ImplementsGroup` | membership and selection under every plan, no connection survives the removal of its node, and the group keeps the promise of `GroupMembership` |
| `Core` | `TagsLive`, `PlanApplied`, `OneBadNodeIsExcluded`, `SyncEnds`, `UpdatesKeepServing` | no outbound is removed while a member of any group lists it; a sync that reports success leaves the groups of its plan and no outbound with older options (except for those it could not know); a node that sing-box refuses is excluded and the others go on, and every other reason for which a mapping fails is named; excluding comes to an end; updating a running core interrupts no member that the plan keeps |
| `ProbeLoop` | `TypeOK`, `OneLoop`, `LoopPresent`, `WakeNotLost`, `LoopEnds` | one loop, always, awake, and it ends with its group |
| `ConfigStore_rows` | `RefsExist`, `ActiveListed`, `ChainGroupsSound`, `AffectedListed`, `EditsKeepChoice` | no sequence of requests, refused and half-done ones included, leaves a dangling reference, an active target that is not listed, or a chain through a chain; the search from the bottom up finds every mapping that the plan builder, from the top down, would change; edits of nodes, groups and subscriptions move the active target of a mapping only if it is gone |
| `ConfigStore_unsynced` | `DeletionReachesMappings` (violated) | deleting a subscription changes mappings that list its nodes directly, and these are not synced |
| `HealthRunner_safe` | `StoppedIsQuiet`, `CutIsNotFailure`, `NoTwinProbe`, `NoneForgotten` | when a stop returns nothing of the runner is at work, a probe it cut off is not recorded, repeated requests do not make two workers probe one node, and no identifier is lost between queue, batch and workers |
| `HealthRunner_live` | `StopReturns`, `AcceptedIsServed` | a stop returns and accepted identifiers are dealt with: loop, workers and the channel of results never wait for each other |
| `NodeHealth` | `TypeOK`, `BlacklistReaches`, `ReleaseReaches` | what the record says of a node reaches the running group, although a plan is applied after the record has changed again; the exceptions are in the properties |

The violated property quotes what a test of the repository says; the counterexample is a
short sequence the tests do not produce.

*Known deviations.* Four more formulas are stated beside the others and are violated by
the code; no run repeats them, and adding the formula as an INVARIANT to a configuration
shows the counterexample.

* `DeletedNodeHasNoRows` (any configuration of `HealthBatcher`): a flush writes the rows of a node
  that was deleted since the existence check (`health_batcher.go:451`);
  `service_test.go:97` expects none.
* `ForcedSelection` (`DynamicGroup_safe` with `Nodes = {a, b}`, `Builtin = {}` and
  `StrategyPlans`): a dial begun under another strategy overwrites the node that a manual
  sync has selected (`group.go:386`).
* `ChainsBuildable` (`ConfigStore_rows` with `MaxList = 2`): a member of a chain can be
  updated into a chain (`service.go:1280` looks at the members of the row it writes only),
  and the outer chain is refused when it is built (`runtime_chain.go:238`).
* `RevivalLeavesSomeone` (`NodeHealth`): a plan reads the blacklist (`runtime_plan.go:86`)
  and looks at the clock again when it revives (line 518). Nodes whose blacklisting runs out
  in between are neither members nor revived, and the mapping is planned with block,
  although all of its nodes are usable.

Others are behaviours of the models that the properties allow for, or do not speak of:

* A node that is planned again while its tombstone still counts a closing connection is
  skipped as already present (`runtime_plan.go:368`), and so is a builtin that was disabled
  (line 404): the sync reports success and the member serves nothing. `SyncedMembers` and
  `GroupMembership` except what the snapshot showed as leaving.
* The member that a plan selects may be a tombstone that the snapshot still shows: it is
  skipped as present, and a removal in the same sync may collect it. The selection then
  fails with `ErrNodeNotFound` (`runtime_plan.go:411`), and with it the mapping.
  `OneBadNodeIsExcluded` excepts it (`SelectionLost`).
* A call between the two locks of a shutdown of the health cache reloads it; the shutdown
  then empties the entries and the cache counts as loaded (`health_batcher.go:221`), so
  that the next flush of a node replaces its rows by less. `LoadedIsComplete` and
  `HealthStore` except it.
* An update that was applied after a shutdown had dropped the memory is forgotten by the
  next load, and one applied while a shutdown is under way is not written until the next
  recorder starts a goroutine: `DirtyIsFlushed` is claimed without overlap.
* Results recorded during a settings import concern the replaced nodes and may be written
  over the imported rows, by the last flush of a stop or of a goroutine started meanwhile
  (`settings_backup.go:93`); an import that fails under load may leave it so.
  `CleanIsPersisted` does not speak of the time in which an import is under way.
* Only the member built first lists the hops of a chain that several groups use. When it
  leaves, the hops go, although the members of other groups dial through them
  (`core.go:354`; `group_test.go:196` says of a simpler case "shared outbound was removed
  while another group still references it"). `TagsLive` speaks of the tags a member lists.
* A group that gains a child group whose tag sorts after its own cannot be synced on a
  running core: the child is not registered yet, no node is to blame, and the mapping fails
  (`runtime_plan.go:385`) until the next sync. `OneBadNodeIsExcluded` excepts it
  (`NestedLater`).
* A refused hop of a chain: the hop's own node is excluded, which chains do not look at, so
  the same hop is refused again and the mapping fails (`runtime_lifecycle.go:375`). Where a
  member of a group of a chain cannot be created, the node of the first outbound it
  depends on is blamed (`runtime_errors.go:110`), which may be another.
* Outbounds left behind by a half-added member, or held by a tombstone, are not in
  `instance.outbounds`: that their options have changed since is never noticed
  (`runtime_plan.go:256`). `PlanApplied` excepts them (`unnoticed`).
* A strategy override that is switched on or off changes the tag of a group but not its
  identifier: the mapping's member is skipped as present and goes on naming the tag that
  was removed (`runtime_plan.go:368`).
* A chain that ends with a group and a node, on a running core: when the group gains a
  node, the outbound of the new last hop is created, the one it dials through is not,
  because dependencies are followed through selectors and not through detours
  (`runtime_plan.go:746`).

*Bounds.* `HealthBatcher_overlap` has one node, since liveness over two is out of reach;
its invariants and the refinement were also run with two nodes and two recorders, without
error. `Updates` bounds how often something is recorded (two suffice for one update in a
flush and one recorded during it), `Runs` the goroutine incarnations (the one a shutdown
waits for and the next). `MaxWrites` bounds configuration changes (one per racing caller);
two ports and two mappings are enough to hand a port over, and three callers to have one
at work and two waiting in either order. A core exists for each mapping or for the one in
construction. `MaxSyncs` bounds plans applied to a group (remove and add again needs two
after the first), one dial beside the sync is enough to hold an object that is removed.
`MaxOps` bounds the operations on a probe loop (start, switch away and back, add, stop and
close); the second loop slot is there so that a second loop would be possible beside an
ending one. `Core` has two groups, two nodes and a chain, two mappings (one with both
groups and the chain, one manual), and four contents of the rows; one node may be
blacklisted, and connections may outlive one member of one group. Every pair of plans can
follow each other, any number of times, and the chain goes through a group that is in two
lists. `DynamicGroup` and `ProbeLoop` stop when these bounds are used up or when there is
nothing to serve, so deadlock is not checked there; it is in the others. Symmetry is used
for interchangeable processes, and in no liveness run. `ConfigStore` has two nodes, two
groups, a mapping and a subscription: a chain and what it goes through, a group and its
child. `MaxList` bounds the nodes and the groups a request lists, the groups a node joins
excepted, and `MaxTargets` the targets of a mapping. Both are one: what is affected
through several targets is the union, and longer lists of a manual mapping, where a
deletion leaves a choice of the next active target, are covered by the proofs of
`ActiveListed` and `EditsKeepChoice`. Orders of filling two groups are reached through the
import; a sync's root takes one of the two. `HealthRunner` has two nodes and two workers,
a queue of two (a third send is dropped), a batch of three (both nodes and a repetition;
two in the liveness run), two runners (one being stopped while a handler still fills its
queue, and its successor) and one detached probe; the liveness run has one runner. A
runner is not obliged to be stopped, so deadlock is not checked; `StopReturns` and
`AcceptedIsServed` say what must not hang. `NodeHealth` has two nodes, two actors beside
the sync, threshold two, and a clock that reaches the end of the longest blacklisting;
`MaxCount` lets failures go one beyond the threshold; `RevivalLimit` is one, so that not
all are revived.

*Fairness.* `HealthBatcher`: runnable goroutines run, `select` does not prefer the ticker
to `ctx.Done` for ever (strong fairness of `RunStop`), and the database does not fail for
ever; callers, deletions, stops and crashes owe nothing. `RuntimeManager`: a goroutine
inside the manager runs on and `sync.Mutex` starves nobody (strong fairness of `Lock`).
`ProbeLoop`: goroutines run, the timer fires and a probe ends by its timeout.
`HealthRunner`: goroutines run (weak fairness of each owner and worker), and a probe ends
by its timeout; starts, stops and requests owe nothing. `Core`: the goroutine of a sync runs
on; whether there is another sync is up to the callers.

## 4. Proofs

All theorems hold for every value of the constants, under the named assumptions of the
modules (identifiers of processes are distinct, bounds are numbers, there is a mapping
and a port, groups are finite in number).

* `HealthBatcherProofs`: `TypeCorrect`, and `CleanPersisted` (`CleanIsPersisted`).
  `CleanIsPersisted` is not inductive: a flush marks entries clean on the strength of a
  revision it read three steps earlier. `IInv` adds who holds `loadMu` and `flushMu`
  (`LockInv`), that only the registered run or the one being waited for is alive
  (`RunInv`), that entries in a flush stay dirty and have not changed unless their
  revision has (`BatchInv`), and that what a loader has read is still in the rows
  (`LoadInv`, with the window of an import). `LoadedKnowsRows` (`LoadedIsComplete`) and
  `StopLosesNothing` (`StopPersists`) hold with or without calls in the middle of a
  shutdown. `KeepInv` says that memory still knows what a flush has copied, and that a
  flush takes for existing the nodes that do (`CopyInv`), that the registered goroutine is
  alive and is not the one a shutdown waits for, which flushes once more (`LifeInv`), that
  an absent entry says nothing and that loaders and, unless the cache was reloaded inside a
  shutdown, flushes have in hand no less than the rows say (`RowsInv`), that what a stop
  owes is known until it unloads (`OwedInv`), and that its last flush has copied what is
  owed and leaves it in the rows (`LastFlush`). `CacheImplements` (`ImplementsStore`) is
  the refinement of `HealthStore`, from the same invariant, with a lemma for each action.
* `RuntimeManagerProofs`: `TypeCorrect`, and `ListenersAccounted` (`NoLeakedListener`).
  `IInv` adds mutual exclusion by `operationMu` (`Mutex`) and, per caller, what it
  has in hand (`Hands`), which operation is at which step (`Modes`), that a sync works on
  the table's core and closes it before dropping it (`SyncState`), and that a reload works
  with an empty table and builds each mapping once (`ReloadState`). `StatusIsTrue`
  (`StatusAgrees`) and `NoChangeLost` (`UpToDate`) speak of an idle manager; the ledger
  (`Ledger`) says what holds while a caller has `operationMu`. Each mapping has an entry
  in it, as that caller sees it: the mapping is excused (it was missed, or somebody who
  will look at it waits), or settled (table, status and rows agree), or still held by the caller, who is
  charged with finishing it (`Charge`): it closes only what it has detached, syncs with
  the row as it is, removes only what is deleted, and stages cores that are right for the
  rows its reload has read. When the caller leaves, no entry is held any more.
  `ServedOnce` (`OneCoreEach`) needs that the core a sync updates in place listens on the
  port of the row that was read (`SamePort`), since a later restart of it closes that core
  and opens another on that port; the rest follows from `Mutex`, `SyncState` and `ReloadState`.
* `ProbeLoopProofs`: `TypeCorrect`, `SingleLoop`, `NeverWithoutLoop`, `NeverSleepsOver`
  (`OneLoop`, `LoopPresent`, `WakeNotLost`). `IInv` adds that a loop is owed by somebody
  in `ensureLeastLatencyProbeLoop` whenever the policy read there is stale (`LoopOwed`),
  that a node is announced by a token, a round or an unfinished call (`TakenUp`), and
  what an unfinished `AddNode` is adding (`ArgOfAdd`).
* `ConfigStoreProofs`: `TypeCorrect`, `TargetsListed` (`ActiveListed`) and
  `ReferencesExist` (`RefsExist`). `IInv` is the conjunction of the three: that
  references stay alive needs that only chains have members (a deletion asks only
  chains whether they go through a group), and that active targets stay listed needs the
  types (the empty identifier is no row). There is a lemma for each table an action goes
  through and one for each action; those of `SubscriptionSync` name its intermediate
  tables (`SyncParts`). `SearchFindsMappings` (`AffectedListed`) compares the two closures
  without induction: the code's is the least set closed upwards, so the complement of a
  set closed upwards is closed downwards, and a plan that starts outside the affected rows stays
  outside; it needs only `TypeOK` and `RefsExist`. `ChainsThroughSoundGroups`
  (`ChainGroupsSound`) rests on `CInv`: the code's own check (`ChainGroupsValid`) holds of the
  stored rows, and no group is its own child. Closures shrink with the tables
  (`ValidShrinks`), which covers deletions; a request that adds something was checked with
  rows that have at least as much in them as those it leaves, or, where a node joins a group with its row not
  yet written, with the row as it was, and a chain is refused there (`ChainRefused`); new
  groups are named by nobody. The import checks groups one by one, and the check of the last one counts,
  which is why the number of groups must be finite. `ChoiceSurvivesEdits`
  (`EditsKeepChoice`) compares a mapping before and after a request; the operators through
  which deletions go are composed of two steps, and a choice kept by each is kept by both
  (`ChoiceOfBoth`).
* `HealthRunnerProofs`: `TypeCorrect`, `StopIsComplete` (`StoppedIsQuiet`),
  `CutNeverRecorded` (`CutIsNotFailure`), `ProbedAlone` (`NoTwinProbe`). `IInv` adds which
  step of a stop has which runner in hand, that an owner outside `probeNodes` has no
  workers, that a result cut off belongs to a cancelled owner, and that a node still to
  be sent is with no worker. `AcceptedNeverLost` (`NoneForgotten`) needs `HandInv`: outside
  gathering there is no batch and outside dispatching nothing to send, so that an
  identifier has no place to be left behind in.
* `NodeHealthProofs`: `TypeCorrect`, `BlacklistsReach` (`BlacklistReaches`),
  `ReleasesReach` (`ReleaseReaches`). The properties speak of the moments without a sync;
  `IInv` says what holds in the middle of one: a blacklisted node is out of the plan, or
  the plan is not read yet, or somebody still owes it a sync (`BlacklistInv`), the same for released nodes
  and membership (`ReleaseInv`), who holds the mutex (`SyncInv`), and that a count at the
  threshold goes with a blacklisting (`CountInv`), since the next failure would otherwise
  pass the threshold without a sync.

* `DynamicGroupProofs`: `TypeCorrect`, `SelectionIsMember` (`SelectedPresent`),
  `ConnectionsAreServed` (`NoStrayConnection`), `SyncsReachThePlan` (`SyncedMembers`) and
  `GroupImplements` (`ImplementsGroup`, the refinement: initial states and every step).
  `IInv` adds that a node's latest object is the only one that can be enabled (`ObjInv`),
  that an object added by a sync is new (`GenInv`), what a sync still has to do
  (`LeftInv`), and how far the membership is what the plan says (`GoalInv`).
* `CoreProofs`: `TypeCorrect`, `OutboundsInUseStay` (`TagsLive`), `SyncsApplyThePlan`
  (`PlanApplied`) and `BadNodesAreExcluded` (`OneBadNodeIsExcluded`), for any plans that
  satisfy `PlansHaveShape`. The assumption says what the builder owes: tags that exist,
  groups listed once and selecting one of their members, an outbound for everything referred
  to, members with the options the plan lists, an owner for whatever may be refused, and no
  node blamed before under its own tag. A group's tag may be among the outbounds: the
  selector of a chain in two lists is built a second time (`runtime_plan.go:594`) and stays,
  since it is deleted only when its group is first made (line 665); the checked instance
  has such a chain. Nothing is
  proved about `PlanFor`; TLC evaluates the assumption on every mapping, content, blacklist
  and set of excluded nodes of the instance. `IInv` adds that direct and block are always there (`BaseLive`).
  `PInv` says that the instance is what it is taken for (`InstInv`), that a pass creates
  outbounds only as planned (`OptInv`), which groups are registered (`GroupsInv`), and that
  a new core has its plan's outbounds from the start and loses none (`Fresh`). `BInv`
  relates the plan to the nodes excluded so far. `UpdatesInterruptNobody`
  (`UpdatesKeepServing`) needs that what is to be removed is what the plan of the group at
  hand does not list (`LeaveInv`); a step leaves outbounds of nodes as they are or removes
  them (`InPlace`), and what is removed is used by no member (`TagsLive`).

Every invariant and action property of the passing runs is proved, and both refinements.
The type invariants of `HealthBatcher`, `RuntimeManager`, `ConfigStore`, `HealthRunner` and
`Core` are proved and in no configuration.
Only model-checked: liveness under fairness, and everything that needs `ENABLED`, which
the prover cannot treat. Induction over data and recursive operators are out of its reach
too: `PlanBuilder` is recursive, and is checked only as part of `Core`.

## 5. Not modelled

Probing over HTTP, downloading subscriptions, share-link parsing, archive encoding, IP
lookup, user accounts, migration, static files, the web interface and packaging: I/O or
stateless conversion. Latency figures and the order of candidates. The inside of sing-box,
whose source is not in the repository: in particular what it answers when an outbound is
removed that others depend on. `NodeHealth` treats neither manual mappings (they ignore
the blacklist) nor groups and chains between a mapping and its nodes; which mappings a
node affects is `AffectedListed` of `ConfigStore`. The expiry of a blacklisting causes no
sync in the code, and no property asks for one.

## 6. Plan

1. `PlanBuilder` with two chains and longer lists, checked against a reference definition
   of what a mapping may dial through.
2. `Backup`: import of settings as a replacement of rows; races of two handlers over the
   rows of `ConfigStore` (checks before a transaction).
3. Balancers: the order of candidates as operators checked against a reference.
4. `NodeHealth` with groups between mapping and nodes, and with two mappings that share
   nodes (an exclusion or a revival for one concerns the other).
5. Proofs: the shape of plans (`PlansHaveShape`) for the builder itself, with `PlanBuilder`
   rewritten without recursive operators. A specification of what `ProbeLoop`
   promises to a group (it is probed as long as its strategy asks for it) and its
   refinement.
