----------------------------- MODULE NodeHealth -----------------------------
(***************************************************************************)
(* The health record of a node and what it means for a running mapping     *)
(* (service/proxy/health.go, health_batcher.go, runtime_plan.go).          *)
(*                                                                         *)
(* Results of probes and of traffic count consecutive failures; at a       *)
(* threshold the node is blacklisted for a while.  The record is changed   *)
(* under the cache's mutex, and only afterwards the mappings that use the  *)
(* node are synced, one sync at a time; a plan reads the blacklist first   *)
(* and is applied later, and when every candidate is blacklisted it        *)
(* revives some of them.  Modelled is one mapping of a strategy other than *)
(* manual that lists the nodes directly.                                   *)
(***************************************************************************)
EXTENDS Naturals, FiniteSets

CONSTANTS
    Nodes,         \* the nodes the mapping lists
    Actors,        \* handlers, callbacks and workers that report or change health
    Threshold,     \* cfg.FailureThreshold, normalised
    Duration,      \* cfg.BlacklistDuration, normalised
    RevivalLimit,  \* DefaultBlacklistRevivalLimit
    Durations,     \* what NodeBlacklist may be asked for
    MaxTime,       \* bound on the clock
    MaxCount,      \* bound on the failures that are counted
    None

ASSUME NumbersPositive == {Threshold, Duration, RevivalLimit} \subseteq Nat \ {0}
ASSUME DurationsPositive == Durations \subseteq Nat \ {0}
ASSUME BoundsAreNat == MaxTime \in Nat /\ MaxCount \in Nat
ASSUME NoneIsNobody == None \notin Nodes \cup Actors

VARIABLES
    now,       \* the clock
    record,    \* ConsecutiveFailureCount, Blacklisted and BlacklistedUntil of a node
    actor,     \* what an actor is doing, for which node, and CheckedAt of its result
    sync,      \* the sync that holds operationMu
    served,    \* members of the running group; without any, traffic is blocked
    missed,    \* a sync has been given up, and no plan has been read since
    released   \* nodes that were released and have had no failure since

vars == <<now, record, actor, sync, served, missed, released>>

Clean    == [count |-> 0, listed |-> FALSE, until |-> 0]
AtRest   == [at |-> "idle", node |-> None, since |-> 0]
NoSync   == [at |-> "none", by |-> None, plan |-> {}, excluded |-> {}]
Planning == {"read", "revive", "apply"}

\* isHealthBlacklisted
Blacklisted(n) == record[n].listed /\ record[n].until > now

\* The type invariant.
TypeOK ==
    /\ now \in Nat
    /\ record \in [Nodes -> [count : Nat, listed : BOOLEAN, until : Nat]]
    /\ actor \in [Actors -> [at : {"idle", "probing", "waiting", "syncing"},
                             node : Nodes \cup {None}, since : Nat]]
    /\ sync \in [at : Planning \cup {"none"}, by : Actors \cup {None},
                 plan : SUBSET Nodes, excluded : SUBSET Nodes]
    /\ served \subseteq Nodes
    /\ missed \in BOOLEAN
    /\ released \subseteq Nodes

Init ==
    /\ now = 0
    /\ record = [n \in Nodes |-> Clean]
    /\ actor = [a \in Actors |-> AtRest]
    /\ sync = NoSync
    /\ served = Nodes
    /\ missed = FALSE
    /\ released = {}

Tick ==
    /\ now < MaxTime
    /\ now' = now + 1
    /\ UNCHANGED <<record, actor, sync, served, missed, released>>

-----------------------------------------------------------------------------
(* Results.                                                                *)

running == <<now, sync, served, missed>>

\* A probe, a test or a connection begins; CheckedAt is read here.  The health
\* runner skips a node that is blacklisted, a test is forced.
BeginProbe(a, n, force) ==
    /\ actor[a].at = "idle"
    /\ force \/ ~Blacklisted(n)
    /\ actor' = [actor EXCEPT ![a] = [at |-> "probing", node |-> n, since |-> now]]
    /\ UNCHANGED <<running, record, released>>

\* Mutant: the duration is subtracted.
Applied_backdated(r, ok, since) ==
    IF ok THEN Clean
    ELSE IF r.count + 1 >= Threshold
    THEN [count |-> r.count + 1, listed |-> TRUE, until |-> since - Duration]
    ELSE IF r.listed /\ r.until > since THEN [r EXCEPT !.count = @ + 1]
    ELSE [Clean EXCEPT !.count = r.count + 1]

\* applyNodeHealthProbeRecord: a success clears the record; a failure is counted,
\* and blacklists the node from the threshold on.  Below it an earlier blacklisting
\* goes on, unless it had run out when the result was obtained.
Applied(r, ok, since) ==
    IF ok THEN Clean
    ELSE IF r.count + 1 >= Threshold
    THEN [count |-> r.count + 1, listed |-> TRUE, until |-> since + Duration]
    ELSE IF r.listed /\ r.until > since THEN [r EXCEPT !.count = @ + 1]
    ELSE [Clean EXCEPT !.count = r.count + 1]

\* Mutant: the threshold is compared before the failure is counted.
ShouldSync_early(r) == r.listed /\ r.count = Threshold - 1
\* shouldSyncRuntimeForHealthBlacklist, and the same test for traffic failures.
ShouldSync(r) == r.listed /\ r.count = Threshold

\* What an actor does once the record of its node is r.
Then(a, r) == IF ShouldSync(r) THEN [actor[a] EXCEPT !.at = "waiting"] ELSE AtRest

\* recordNodeHealthResult.
Record(a, ok) ==
    LET n == actor[a].node
        r == Applied(record[n], ok, actor[a].since)
    IN  /\ actor[a].at = "probing"
        /\ r.count <= MaxCount
        /\ record' = [record EXCEPT ![n] = r]
        /\ actor' = [actor EXCEPT ![a] = Then(a, r)]
        /\ released' = IF ok THEN released ELSE released \ {n}
        /\ UNCHANGED running

\* A failure of traffic that a test of the mapping has already reported, or the
\* reverse, leaves the record alone; the rest is done as if it had been recorded.
RecordDuplicate(a) ==
    /\ actor[a].at = "probing"
    /\ actor' = [actor EXCEPT ![a] = Then(a, record[actor[a].node])]
    /\ UNCHANGED <<running, record, released>>

\* The context was cancelled or the cache cannot be loaded: the result is dropped.
Drop(a) ==
    /\ actor[a].at = "probing"
    /\ actor' = [actor EXCEPT ![a] = AtRest]
    /\ UNCHANGED <<running, record, released>>

-----------------------------------------------------------------------------
(* Requests.                                                               *)

Waiting(n) == [at |-> "waiting", node |-> n, since |-> 0]

\* Mutant: no sync after a release.
AfterRelease_none(n) == AtRest
\* NodeRelease ends with a sync of the mappings that use the node.
AfterRelease(n) == Waiting(n)

NodeRelease(a, n) ==
    /\ actor[a].at = "idle"
    /\ record' = [record EXCEPT ![n] = Clean]
    /\ actor' = [actor EXCEPT ![a] = AfterRelease(n)]
    /\ released' = released \cup {n}
    /\ UNCHANGED running

NodeBlacklist(a, n, duration) ==
    /\ actor[a].at = "idle"
    /\ record' = [record EXCEPT ![n] = [count |-> 0, listed |-> TRUE, until |-> now + duration]]
    /\ actor' = [actor EXCEPT ![a] = Waiting(n)]
    /\ released' = released \ {n}
    /\ UNCHANGED running

\* A handler that has changed the configuration syncs as well.
RequestSync(a) ==
    /\ actor[a].at = "idle"
    /\ actor' = [actor EXCEPT ![a] = Waiting(None)]
    /\ UNCHANGED <<running, record, released>>

\* reviveNodes, after the running group has revived members by itself.
CoreRevive(N) ==
    /\ N # {} /\ N \subseteq served
    /\ record' = [n \in Nodes |-> IF n \in N THEN Clean ELSE record[n]]
    /\ UNCHANGED <<running, actor, released>>

-----------------------------------------------------------------------------
(* The sync.                                                               *)

\* The affected mappings cannot be looked up, or the context ends: no sync.
GiveUp(a) ==
    /\ actor[a].at = "waiting"
    /\ actor' = [actor EXCEPT ![a] = AtRest]
    /\ missed' = TRUE
    /\ UNCHANGED <<now, record, sync, served, released>>

Lock(a) ==
    /\ actor[a].at = "waiting"
    /\ sync.at = "none"
    /\ sync' = [NoSync EXCEPT !.at = "read", !.by = a]
    /\ actor' = [actor EXCEPT ![a] = [AtRest EXCEPT !.at = "syncing"]]
    /\ UNCHANGED <<now, record, served, missed, released>>

\* buildDynamicRuntimePlanForMapping reads the blacklist; what is neither on it nor
\* excluded becomes a member.  If nothing is left, and nothing was excluded, some
\* nodes are revived.
ReadBlacklist ==
    LET plan == {n \in Nodes : ~Blacklisted(n)} \ sync.excluded
    IN  /\ sync.at = "read"
        /\ sync' = [sync EXCEPT !.plan = plan,
                                !.at = IF plan = {} /\ sync.excluded = {} THEN "revive" ELSE "apply"]
        /\ missed' = (missed /\ sync.excluded # {})
        /\ UNCHANGED <<now, record, actor, served, released>>

\* The nodes that may be revived: those still blacklisted, at most RevivalLimit.
\* Which ones is decided by their history and left open here.
Revivable ==
    LET candidates == {n \in Nodes : Blacklisted(n)}
    IN  {R \in SUBSET candidates :
            \/ R = candidates /\ Cardinality(R) <= RevivalLimit
            \/ Cardinality(R) = RevivalLimit}

\* reviveIfAllCandidatesBlacklisted.
Revive(R) ==
    /\ sync.at = "revive"
    /\ R \in Revivable
    /\ record' = [n \in Nodes |-> IF n \in R THEN Clean ELSE record[n]]
    /\ sync' = [sync EXCEPT !.plan = R, !.at = "apply"]
    /\ UNCHANGED <<now, actor, served, missed, released>>

\* excludeRuntimeNode: the core refuses a node, which is blacklisted and left out of
\* the next plan of this sync.
Exclude(n) ==
    /\ sync.at = "apply"
    /\ n \in sync.plan
    /\ record' = [record EXCEPT ![n] = [count |-> 0, listed |-> TRUE, until |-> now + Duration]]
    /\ sync' = [sync EXCEPT !.at = "read", !.plan = {}, !.excluded = @ \cup {n}]
    /\ released' = released \ {n}
    /\ UNCHANGED <<now, actor, served, missed>>

\* The options of an outbound have changed: the core is replaced by a new one, with a
\* plan of its own.  The code does this once in a sync; the model does not count.
Restart ==
    /\ sync.at = "apply"
    /\ sync' = [sync EXCEPT !.at = "read", !.plan = {}, !.excluded = {}]
    /\ UNCHANGED <<now, record, actor, served, missed, released>>

Unlock == sync' = NoSync /\ actor' = [actor EXCEPT ![sync.by] = AtRest]

Apply ==
    /\ sync.at = "apply"
    /\ served' = sync.plan
    /\ Unlock
    /\ UNCHANGED <<now, record, missed, released>>

\* The plan cannot be built, or not be applied: then the core is closed.
SyncFail ==
    /\ sync.at \in Planning
    /\ missed' = TRUE
    /\ served' \in {served, {}}
    /\ Unlock
    /\ UNCHANGED <<now, record, released>>

-----------------------------------------------------------------------------
Report(a) ==
    \/ \E n \in Nodes, force \in BOOLEAN : BeginProbe(a, n, force)
    \/ \E ok \in BOOLEAN : Record(a, ok)
    \/ RecordDuplicate(a)
    \/ Drop(a)

Request(a) ==
    \/ \E n \in Nodes : NodeRelease(a, n)
    \/ \E n \in Nodes, duration \in Durations : NodeBlacklist(a, n, duration)
    \/ RequestSync(a)
    \/ GiveUp(a)
    \/ Lock(a)

Sync ==
    \/ ReadBlacklist
    \/ \E R \in SUBSET Nodes : Revive(R)
    \/ \E n \in Nodes : Exclude(n)
    \/ Restart
    \/ Apply
    \/ SyncFail

Next ==
    \/ Tick
    \/ \E a \in Actors : Report(a) \/ Request(a)
    \/ \E N \in SUBSET Nodes : CoreRevive(N)
    \/ Sync

Spec == Init /\ [][Next]_vars

-----------------------------------------------------------------------------
(* Properties.                                                             *)

\* A sync on behalf of node n is still to come.
Pending(n) == \E a \in Actors : actor[a].at = "waiting" /\ actor[a].node = n

\* When no sync is at work or pending for it, a blacklisted node is not a member of
\* the running group, unless its failures went on beyond the threshold: the code
\* syncs when the threshold is reached, not when a node that has come back fails again.
BlacklistReaches ==
    \A n \in Nodes :
        Blacklisted(n) /\ n \in served /\ sync.at = "none" /\ ~Pending(n) /\ ~missed
            => record[n].count > Threshold

\* A node that was released, and has had no failure since, is a member again when
\* no sync is at work or pending for it.
ReleaseReaches ==
    \A n \in released : sync.at = "none" /\ ~Pending(n) /\ ~missed => n \in served

\* When every node is blacklisted some are revived: a plan is left without a member
\* only because a node was excluded.
RevivalLeavesSomeone == sync.at = "apply" /\ sync.plan = {} => sync.excluded # {}

-----------------------------------------------------------------------------
(* The inductive invariant.                                                *)

\* A count at the threshold or beyond goes with a blacklisting.
CountInv == \A n \in Nodes : record[n].count >= Threshold => record[n].listed

\* Who holds operationMu; a probe has a node; nodes are revived when there are no others.
SyncInv ==
    /\ sync.at # "none" <=> sync.by \in Actors
    /\ \A a \in Actors : actor[a].at = "syncing" <=> sync.by = a
    /\ \A a \in Actors : actor[a].at = "probing" => actor[a].node \in Nodes
    /\ sync.at = "revive" => sync.plan = {}

\* Somebody will see to n, or the code has given it up.
OwedOut(n) == missed \/ Pending(n) \/ record[n].count > Threshold
OwedIn(n)  == missed \/ Pending(n)

\* A plan has been read.
Planned == sync.at \in {"revive", "apply"}

BlacklistInv ==
    \A n \in Nodes : Blacklisted(n) =>
        /\ n \in served => OwedOut(n) \/ sync.at = "read" \/ (Planned /\ n \notin sync.plan)
        /\ Planned /\ n \in sync.plan => OwedOut(n)

ReleaseInv ==
    \A n \in released :
        /\ ~record[n].listed
        /\ n \notin served => OwedIn(n) \/ sync.at = "read" \/ (Planned /\ n \in sync.plan)
        /\ Planned /\ n \notin sync.plan => OwedIn(n)
        /\ n \in sync.excluded => OwedIn(n)

IInv ==
    /\ TypeOK
    /\ SyncInv
    /\ CountInv
    /\ BlacklistInv
    /\ ReleaseInv
=============================================================================
