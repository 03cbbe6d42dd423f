---------------------------- MODULE DynamicGroup ----------------------------
(***************************************************************************)
(* A dynamic group of a running core (core/singboxcore/group.go, node.go)  *)
(* while the runtime manager re-applies plans to it                        *)
(* (service/proxy/runtime_plan.go, syncDynamicGroupMembers).               *)
(*                                                                         *)
(* Dials run concurrently with the sync, with each other and with the      *)
(* least-latency prober.  A dial works on pointers to NodeState objects: a *)
(* node that is removed and added again is a new object, and the old one   *)
(* may still be in the hands of a dial.  An object is <<node, generation>>.*)
(* The operations of one object, or of the group, are atomic under n.mu    *)
(* and g.mu; everything else interleaves.                                  *)
(***************************************************************************)
EXTENDS Naturals, FiniteSets

CONSTANTS
    Nodes,         \* member identifiers: nodes, child groups, direct, block
    Builtin,       \* those with the tags direct and block
    Dials,         \* concurrent connections
    RevivalLimit,  \* BlacklistRevivalLimit
    Plans,         \* the plans that may be applied
    MaxSyncs,      \* bound on the number of plans applied
    None

ASSUME BuiltinAreNodes == Builtin \subseteq Nodes
ASSUME BoundsAreNat == RevivalLimit \in Nat \ {0} /\ MaxSyncs \in Nat
ASSUME NoneIsFree == None \notin Nodes \cup Dials

VARIABLES
    gen,       \* generation of the latest object of each node (0: none yet)
    present,   \* keys of g.nodes
    enabled,   \* objects with n.enabled
    tomb,      \* objects with n.tombstoned
    health,    \* n.health; "expired": blacklisted, and the time is over
    selected,  \* g.selected
    policy,    \* g.policy: force (manual), failover or balance
    dpc,       \* the next step of each dial ("open": connection established)
    cand,      \* the candidates a dial has still to try
    at,        \* the object it works on
    dpol,      \* the policy it has read
    ppc,       \* the next step of the least-latency prober
    probe,     \* the object it probes
    spc,       \* the next step of the sync
    plan,      \* the plan it applies, or has applied
    existing,  \* the members its snapshot showed
    dying,     \* those of them the snapshot showed as tombstoned
    left,      \* members still to add or to remove
    victim,    \* the one being removed
    ret,       \* where the sync continues after a garbage collection
    started,   \* the core has been started
    applied,   \* the latest sync has succeeded
    syncs      \* number of syncs so far

objVars  == <<gen, present, enabled, tomb>>
dialVars == <<dpc, cand, at, dpol>>
probeVars == <<ppc, probe>>
syncVars == <<spc, plan, existing, dying, left, victim, ret, started, applied, syncs>>
vars == <<objVars, health, selected, policy, dialVars, probeVars, syncVars>>

Gens     == 0..(MaxSyncs + 1)
Objects  == Nodes \X Gens
NoObject == <<None, 0>>
Policies == {"force", "failover", "balance"}
Healths  == {"alive", "dead", "black", "expired"}

\* What buildDynamicRuntimePlanForMapping can ask of a group: at least one member
\* and, for a manual mapping, always a selected one.
Plannable(p) ==
    /\ p \in [members: SUBSET Nodes \ {{}}, policy: Policies, selected: Nodes \cup {None}]
    /\ p.selected \in p.members \cup {None}
    /\ p.policy = "force" => p.selected # None

ASSUME PlansArePlannable == Plans # {} /\ \A p \in Plans : Plannable(p)

DialPc == {"idle", "policy", "try", "fail_close", "fail_close_forced", "fail_select",
           "select", "register", "open", "dec", "traffic", "traffic_select", "traffic_close",
           "traffic_select_close"}
SyncPc == {"idle", "gc", "gc_select", "policy", "snapshot", "add", "remove", "close",
           "reselect", "builtin", "select"}

\* The type invariant: objects in the hands of dials, identifiers in the group.
TypeOK ==
    /\ gen \in [Nodes -> Gens]
    /\ present \subseteq Nodes
    /\ enabled \subseteq Objects
    /\ tomb \subseteq Objects
    /\ health \in [Objects -> Healths]
    /\ selected \in Nodes \cup {None}
    /\ policy \in Policies
    /\ dpc \in [Dials -> DialPc]
    /\ cand \in [Dials -> SUBSET Objects]
    /\ at \in [Dials -> Objects \cup {NoObject}]
    /\ dpol \in [Dials -> Policies]
    /\ ppc \in {"idle", "round", "probe", "close"}
    /\ probe \in Objects \cup {NoObject}
    /\ spc \in SyncPc
    /\ plan \in Plans
    /\ existing \subseteq Nodes
    /\ dying \subseteq existing
    /\ left \subseteq Nodes
    /\ victim \in Nodes \cup {None}
    /\ ret \in {"policy", "remove", "idle"}
    /\ started \in BOOLEAN
    /\ applied \in BOOLEAN
    /\ syncs \in 0..MaxSyncs

Init ==
    /\ gen = [n \in Nodes |-> 0]
    /\ present = {}
    /\ enabled = {}
    /\ tomb = {}
    /\ health = [o \in Objects |-> "alive"]
    /\ selected = None
    /\ policy = "balance"
    /\ dpc = [d \in Dials |-> "idle"]
    /\ cand = [d \in Dials |-> {}]
    /\ at = [d \in Dials |-> NoObject]
    /\ dpol = [d \in Dials |-> "balance"]
    /\ ppc = "idle"
    /\ probe = NoObject
    /\ spc = "idle"
    /\ plan = CHOOSE p \in Plans : TRUE
    /\ existing = {}
    /\ dying = {}
    /\ left = {}
    /\ victim = None
    /\ ret = "idle"
    /\ started = FALSE
    /\ applied = FALSE
    /\ syncs = 0

-----------------------------------------------------------------------------
(***************************************************************************)
(* Nodes of the group.                                                     *)
(***************************************************************************)
Obj(n) == <<n, gen[n]>>

\* enabled and not tombstoned: what eligibleLocked asks when health is ignored.
Usable(o) == o \in enabled \ tomb

Eligible(o, ignoreHealth) ==
    Usable(o) /\ (ignoreHealth \/ health[o] \in {"alive", "expired"})

EligibleNodes == {n \in present : Eligible(Obj(n), FALSE)}

\* activeConnections: the registered connections of object o.
Active(o) == {d \in Dials : dpc[d] = "open" /\ at[d] = o}

\* activeCount: a closed connection is first unregistered, then subtracted.
ActiveCount(o) == Cardinality({d \in Dials : dpc[d] \in {"open", "dec"} /\ at[d] = o})

\* Dials D end; dial d, if there is one, goes to step pc.
Idle(D, d, pc) ==
    /\ dpc' = [e \in Dials |-> IF e = d THEN pc ELSE IF e \in D THEN "idle" ELSE dpc[e]]
    /\ at' = [e \in Dials |-> IF e \in D THEN NoObject ELSE at[e]]
    /\ cand' = [e \in Dials |-> IF e \in D THEN {} ELSE cand[e]]
    /\ dpol' = [e \in Dials |-> IF e \in D THEN "balance" ELSE dpol[e]]

\* ensureSelected: keep an eligible selection, otherwise take any eligible node
\* (the first one of g.order); a manual mapping is left alone.
EnsureSelected ==
    IF policy = "force" \/ (selected \in present /\ Eligible(Obj(selected), FALSE))
    THEN UNCHANGED selected
    ELSE IF EligibleNodes = {} THEN selected' = None
    ELSE selected' \in EligibleNodes

-----------------------------------------------------------------------------
(***************************************************************************)
(* DialContext and ListenPacket.                                           *)
(***************************************************************************)

Candidates ==
    IF policy = "force"
    THEN {Obj(n) : n \in {m \in present : m = selected /\ Eligible(Obj(m), TRUE)}}
    ELSE {Obj(n) : n \in EligibleNodes}

DialBegin(d) ==
    /\ started /\ dpc[d] = "idle" /\ Candidates # {}
    /\ cand' = [cand EXCEPT ![d] = Candidates]
    /\ dpc' = [dpc EXCEPT ![d] = "policy"]
    /\ UNCHANGED <<objVars, health, selected, policy, at, dpol, probeVars, syncVars>>

Revivable == {n \in present : Usable(Obj(n)) /\ health[Obj(n)] = "black"}

\* Without an eligible node the best blacklisted ones are revived (which ones
\* the ordering prefers is left open) and the candidates are taken again.
Revive ==
    /\ policy # "force" /\ EligibleNodes = {} /\ Revivable # {}
    /\ \E R \in SUBSET Revivable :
          /\ Cardinality(R) = IF Cardinality(Revivable) < RevivalLimit
                              THEN Cardinality(Revivable) ELSE RevivalLimit
          /\ health' = [o \in Objects |-> IF o \in {Obj(n) : n \in R} THEN "alive" ELSE health[o]]
    /\ UNCHANGED <<objVars, selected, policy, dialVars, probeVars, syncVars>>

\* The second reading of the policy, by DialContext itself.
ReadPolicy(d) ==
    /\ dpc[d] = "policy"
    /\ dpol' = [dpol EXCEPT ![d] = policy]
    /\ dpc' = [dpc EXCEPT ![d] = "try"]
    /\ UNCHANGED <<objVars, health, selected, policy, cand, at, probeVars, syncVars>>

\* No candidate is left: the dial fails.
DialGiveUp(d) ==
    /\ dpc[d] = "try" /\ cand[d] = {}
    /\ Idle({d}, d, "idle")
    /\ UNCHANGED <<objVars, health, selected, policy, probeVars, syncVars>>

\* The dial through o succeeds: markAlive.
DialSuccess(d, o) ==
    /\ dpc[d] = "try" /\ o \in cand[d]
    /\ cand' = [cand EXCEPT ![d] = @ \ {o}]
    /\ at' = [at EXCEPT ![d] = o]
    /\ health' = [health EXCEPT ![o] = "alive"]
    /\ dpc' = [dpc EXCEPT ![d] = "select"]
    /\ UNCHANGED <<objVars, selected, policy, dpol, probeVars, syncVars>>

\* It fails, or the outbound is gone: MarkNodeFailed by identifier, so it may hit
\* a newer object.  A manual mapping has no blacklist: the node is dead, which
\* manual dials ignore.
DialFailure(d, o) ==
    /\ dpc[d] = "try" /\ o \in cand[d]
    /\ cand' = [cand EXCEPT ![d] = @ \ {o}]
    /\ IF o[1] \in present
       THEN /\ health' = [health EXCEPT ![Obj(o[1])] = IF policy = "force" THEN "dead" ELSE "black"]
            /\ at' = [at EXCEPT ![d] = Obj(o[1])]
            /\ dpc' = [dpc EXCEPT ![d] = IF policy = "force" THEN "fail_close_forced" ELSE "fail_close"]
       ELSE UNCHANGED <<health, at, dpc>>
    /\ UNCHANGED <<objVars, selected, policy, dpol, probeVars, syncVars>>

\* closeActiveConnections of the failed node unless it is (still) eligible.
FailClose(d) ==
    /\ dpc[d] \in {"fail_close", "fail_close_forced"}
    /\ Idle(IF Eligible(at[d], dpc[d] = "fail_close_forced") THEN {} ELSE Active(at[d]),
            d, "fail_select")
    /\ UNCHANGED <<objVars, health, selected, policy, probeVars, syncVars>>

FailSelect(d) ==
    /\ dpc[d] = "fail_select"
    /\ EnsureSelected
    /\ at' = [at EXCEPT ![d] = NoObject]
    /\ dpc' = [dpc EXCEPT ![d] = "try"]
    /\ UNCHANGED <<objVars, health, policy, cand, dpol, probeVars, syncVars>>

\* Mutant: the selection is the object rather than its identifier.
SetSelectedByObject(d) ==
    /\ dpc[d] = "select"
    /\ selected' = IF dpol[d] = "balance" /\ at[d][1] \in present THEN at[d] ELSE selected
    /\ dpc' = [dpc EXCEPT ![d] = "register"]
    /\ UNCHANGED <<objVars, health, policy, cand, at, dpol, probeVars, syncVars>>

\* setSelected: the strategy was read before the dial.
SetSelected(d) ==
    /\ dpc[d] = "select"
    /\ selected' = IF dpol[d] = "balance" /\ at[d][1] \in present THEN at[d][1] ELSE selected
    /\ dpc' = [dpc EXCEPT ![d] = "register"]
    /\ UNCHANGED <<objVars, health, policy, cand, at, dpol, probeVars, syncVars>>

\* Mutant: registerConnection without a second check of the object.
RegisterUnchecked(d) ==
    /\ dpc[d] = "register"
    /\ dpc' = [dpc EXCEPT ![d] = "open"]
    /\ cand' = [cand EXCEPT ![d] = {}]
    /\ UNCHANGED <<objVars, health, selected, policy, at, dpol, probeVars, syncVars>>

\* registerConnection checks the object again; a refused one is closed.
Register(d) ==
    /\ dpc[d] = "register"
    /\ IF Eligible(at[d], dpol[d] = "force")
       THEN /\ dpc' = [dpc EXCEPT ![d] = "open"]
            /\ cand' = [cand EXCEPT ![d] = {}]
            /\ UNCHANGED at
       ELSE /\ dpc' = [dpc EXCEPT ![d] = "try"]
            /\ at' = [at EXCEPT ![d] = NoObject]
            /\ UNCHANGED cand
    /\ UNCHANGED <<objVars, health, selected, policy, dpol, probeVars, syncVars>>

\* The client or the server closes the connection: unregisterConnection, then
\* decActive.
CloseConn(d) ==
    /\ dpc[d] = "open"
    /\ dpc' = [dpc EXCEPT ![d] = "dec"]
    /\ UNCHANGED <<objVars, health, selected, policy, cand, at, dpol, probeVars, syncVars>>

DecActive(d) ==
    /\ dpc[d] = "dec"
    /\ Idle({d}, d, "idle")
    /\ UNCHANGED <<objVars, health, selected, policy, probeVars, syncVars>>

\* reportPreFirstByteFailure: the connection fails before the first byte.  It is
\* closed, and the failure is counted against its object.
TrafficFailure(d) ==
    /\ dpc[d] = "open"
    /\ dpc' = [dpc EXCEPT ![d] = "traffic"]
    /\ UNCHANGED <<objVars, health, selected, policy, cand, at, dpol, probeVars, syncVars>>

\* recordRuntimeTrafficFailure: whether the count reaches the threshold is left
\* open; a manual mapping has no threshold.
RecordTraffic(d) ==
    /\ dpc[d] = "traffic"
    /\ \/ /\ UNCHANGED health
          /\ dpc' = [dpc EXCEPT ![d] = "traffic_select"]
       \/ /\ policy # "force"
          /\ health' = [health EXCEPT ![at[d]] = "black"]
          /\ dpc' = [dpc EXCEPT ![d] = IF health[at[d]] = "black" THEN "traffic_select"
                                       ELSE "traffic_select_close"]
    /\ UNCHANGED <<objVars, selected, policy, cand, at, dpol, probeVars, syncVars>>

TrafficSelect(d) ==
    /\ dpc[d] \in {"traffic_select", "traffic_select_close"}
    /\ EnsureSelected
    /\ IF dpc[d] = "traffic_select"
       THEN Idle({d}, d, "idle")
       ELSE dpc' = [dpc EXCEPT ![d] = "traffic_close"] /\ UNCHANGED <<at, cand, dpol>>
    /\ UNCHANGED <<objVars, health, policy, probeVars, syncVars>>

TrafficClose(d) ==
    /\ dpc[d] = "traffic_close"
    /\ Idle(Active(at[d]) \cup {d}, d, "idle")
    /\ UNCHANGED <<objVars, health, selected, policy, probeVars, syncVars>>

-----------------------------------------------------------------------------
(***************************************************************************)
(* The least-latency prober, one node at a time, and time itself.          *)
(***************************************************************************)

RoundBegin ==
    /\ started /\ ppc = "idle" /\ policy = "balance"
    /\ ppc' = "round"
    /\ UNCHANGED <<objVars, health, selected, policy, dialVars, probe, syncVars>>

RoundEnd ==
    /\ ppc = "round"
    /\ ppc' = "idle"
    /\ UNCHANGED <<objVars, health, selected, policy, dialVars, probe, syncVars>>

ProbeStart(n) ==
    /\ ppc = "round" /\ n \in EligibleNodes
    /\ ppc' = "probe"
    /\ probe' = Obj(n)
    /\ UNCHANGED <<objVars, health, selected, policy, dialVars, syncVars>>

ProbeSuccess ==
    /\ ppc = "probe"
    /\ health' = [health EXCEPT ![probe] = "alive"]
    /\ ppc' = "round"
    /\ probe' = NoObject
    /\ UNCHANGED <<objVars, selected, policy, dialVars, syncVars>>

\* Below the threshold only the counter changes.
ProbeFailure ==
    /\ ppc = "probe"
    /\ \/ ppc' = "round" /\ probe' = NoObject /\ UNCHANGED health
       \/ /\ health' = [health EXCEPT ![probe] = "black"]
          /\ IF health[probe] = "black" THEN ppc' = "round" /\ probe' = NoObject
             ELSE ppc' = "close" /\ UNCHANGED probe
    /\ UNCHANGED <<objVars, selected, policy, dialVars, syncVars>>

ProbeClose ==
    /\ ppc = "close"
    /\ Idle(IF health[probe] = "black" THEN Active(probe) ELSE {}, None, "idle")
    /\ ppc' = "round"
    /\ probe' = NoObject
    /\ UNCHANGED <<objVars, health, selected, policy, syncVars>>

\* blacklistedUntil passes.
Expire(o) ==
    /\ health[o] = "black"
    /\ health' = [health EXCEPT ![o] = "expired"]
    /\ UNCHANGED <<objVars, selected, policy, dialVars, probeVars, syncVars>>

-----------------------------------------------------------------------------
(***************************************************************************)
(* applyDynamicRuntimePlan; operationMu admits one sync at a time.         *)
(***************************************************************************)

SyncBegin(p) ==
    /\ spc = "idle" /\ syncs < MaxSyncs
    /\ syncs' = syncs + 1
    /\ plan' = p
    /\ applied' = FALSE
    /\ spc' = "gc" /\ ret' = "policy"
    /\ UNCHANGED <<objVars, health, selected, policy, dialVars, probeVars,
                   existing, dying, left, victim, started>>

\* Mutant: the collection forgets the selection.
GCKeepsSelection ==
    /\ spc = "gc"
    /\ present' = {n \in present : Obj(n) \notin tomb \/ ActiveCount(Obj(n)) > 0}
    /\ spc' = "gc_select"
    /\ UNCHANGED <<gen, enabled, tomb, health, selected, policy, dialVars, probeVars, plan,
                   existing, dying, left, victim, ret, started, applied, syncs>>

\* removeReady: tombstoned and without connections; with connections as soon as
\* RemoveTTL is over, which may be any time.
GC ==
    /\ spc = "gc"
    /\ LET tombstoned == {n \in present : Obj(n) \in tomb}
           unused == {n \in tombstoned : ActiveCount(Obj(n)) = 0}
       IN \E ready \in SUBSET tombstoned :
             /\ unused \subseteq ready
             /\ present' = present \ ready
             /\ selected' = IF selected \in ready THEN None ELSE selected
    /\ spc' = "gc_select"
    /\ UNCHANGED <<gen, enabled, tomb, health, policy, dialVars, probeVars, plan, existing,
                   dying, left, victim, ret, started, applied, syncs>>

\* The last collection ends the sync.  The first sync is followed by core.Start.
GCSelect ==
    /\ spc = "gc_select"
    /\ EnsureSelected
    /\ spc' = ret
    /\ applied' = (ret = "idle")
    /\ started' = (started \/ ret = "idle")
    /\ UNCHANGED <<objVars, health, policy, dialVars, probeVars, plan, existing,
                   dying, left, victim, ret, syncs>>

\* UpsertGroup.
UpdatePolicy ==
    /\ spc = "policy"
    /\ policy' = plan.policy
    /\ spc' = "snapshot"
    /\ UNCHANGED <<objVars, health, selected, dialVars, probeVars, plan, existing,
                   dying, left, victim, ret, started, applied, syncs>>

Snapshot ==
    /\ spc = "snapshot"
    /\ existing' = present
    /\ dying' = {n \in present : Obj(n) \in tomb}
    /\ left' = (plan.members \ Builtin) \ present
    /\ spc' = "add"
    /\ UNCHANGED <<objVars, health, selected, policy, dialVars, probeVars, plan,
                   victim, ret, started, applied, syncs>>

\* AddNodeOutbound of a member the snapshot did not show.
AddNode(n) ==
    /\ spc \in {"add", "builtin"} /\ n \in left
    /\ gen' = [gen EXCEPT ![n] = @ + 1]
    /\ present' = present \cup {n}
    /\ enabled' = enabled \cup {<<n, gen[n] + 1>>}
    /\ selected' = IF selected = None THEN n ELSE selected
    /\ left' = left \ {n}
    /\ UNCHANGED <<tomb, health, policy, dialVars, probeVars, spc, plan, existing, dying,
                   victim, ret, started, applied, syncs>>

\* An outbound cannot be created: the sync stops half-way.  (During the first
\* sync the whole core is discarded instead.)
AddError ==
    /\ spc \in {"add", "builtin"} /\ left # {} /\ started
    /\ spc' = "idle"
    /\ left' = {}
    /\ UNCHANGED <<objVars, health, selected, policy, dialVars, probeVars, plan, existing,
                   dying, victim, ret, started, applied, syncs>>

\* Mutant: members that are no longer planned stay.
AddDoneKeepsStale ==
    /\ spc = "add" /\ left = {}
    /\ spc' = "remove"
    /\ UNCHANGED <<objVars, health, selected, policy, dialVars, probeVars, plan, existing,
                   dying, left, victim, ret, started, applied, syncs>>

\* Mutant: builtin members are disabled even if they are planned.
AddDoneDropsBuiltins ==
    /\ spc = "add" /\ left = {}
    /\ left' = existing \ (plan.members \ Builtin)
    /\ spc' = "remove"
    /\ UNCHANGED <<objVars, health, selected, policy, dialVars, probeVars, plan, existing,
                   dying, victim, ret, started, applied, syncs>>

AddDone ==
    /\ spc = "add" /\ left = {}
    /\ left' = existing \ plan.members
    /\ spc' = "remove"
    /\ UNCHANGED <<objVars, health, selected, policy, dialVars, probeVars, plan, existing,
                   dying, victim, ret, started, applied, syncs>>

\* DisableNode of direct or block, RemoveNode (markTombstone) of the others.
RemoveNode(n) ==
    /\ spc = "remove" /\ n \in left
    /\ left' = left \ {n}
    /\ IF n \in present
       THEN /\ enabled' = enabled \ {Obj(n)}
            /\ tomb' = IF n \in Builtin THEN tomb ELSE tomb \cup {Obj(n)}
            /\ victim' = n
            /\ spc' = "close"
       ELSE UNCHANGED <<enabled, tomb, victim, spc>>
    /\ UNCHANGED <<gen, present, health, selected, policy, dialVars, probeVars, plan, existing,
                   dying, ret, started, applied, syncs>>

CloseVictim ==
    /\ spc = "close"
    /\ Idle(Active(Obj(victim)), None, "idle")
    /\ spc' = "reselect"
    /\ UNCHANGED <<objVars, health, selected, policy, probeVars, plan, existing,
                   dying, left, victim, ret, started, applied, syncs>>

Reselect ==
    /\ spc = "reselect"
    /\ EnsureSelected
    /\ spc' = IF victim \in Builtin THEN "remove" ELSE "gc"
    /\ ret' = "remove"
    /\ victim' = None
    /\ UNCHANGED <<objVars, health, policy, dialVars, probeVars, plan, existing,
                   dying, left, started, applied, syncs>>

\* The builtin members come last; one the snapshot showed is skipped.
RemoveDone ==
    /\ spc = "remove" /\ left = {}
    /\ left' = (plan.members \cap Builtin) \ existing
    /\ spc' = "builtin"
    /\ UNCHANGED <<objVars, health, selected, policy, dialVars, probeVars, plan, existing,
                   dying, victim, ret, started, applied, syncs>>

BuiltinDone ==
    /\ spc = "builtin" /\ left = {}
    /\ spc' = "select"
    /\ UNCHANGED <<objVars, health, selected, policy, dialVars, probeVars, plan, existing,
                   dying, left, victim, ret, started, applied, syncs>>

\* ErrNoAvailableNode is ignored, ErrNodeNotFound ends the sync.
SelectNode ==
    /\ spc = "select"
    /\ IF plan.selected \in present \cup {None} THEN spc' = "gc" ELSE spc' = "idle"
    /\ ret' = "idle"
    /\ selected' = IF plan.selected \in present /\ Eligible(Obj(plan.selected), policy = "force")
                   THEN plan.selected ELSE selected
    /\ UNCHANGED <<objVars, health, policy, dialVars, probeVars, plan, existing,
                   dying, left, victim, started, applied, syncs>>
-----------------------------------------------------------------------------
Dial(d) ==
    \/ DialBegin(d) \/ ReadPolicy(d) \/ DialGiveUp(d)
    \/ \E o \in Objects : DialSuccess(d, o) \/ DialFailure(d, o)
    \/ FailClose(d) \/ FailSelect(d) \/ SetSelected(d) \/ Register(d)
    \/ CloseConn(d) \/ DecActive(d)
    \/ TrafficFailure(d) \/ RecordTraffic(d) \/ TrafficSelect(d) \/ TrafficClose(d)

Probe ==
    \/ RoundBegin \/ RoundEnd \/ ProbeSuccess \/ ProbeFailure \/ ProbeClose
    \/ \E n \in Nodes : ProbeStart(n)

Sync ==
    \/ \E p \in Plans : SyncBegin(p)
    \/ GC \/ GCSelect \/ UpdatePolicy \/ Snapshot \/ AddError \/ AddDone
    \/ CloseVictim \/ Reselect \/ RemoveDone \/ BuiltinDone \/ SelectNode
    \/ \E n \in Nodes : AddNode(n) \/ RemoveNode(n)

Next ==
    \/ \E d \in Dials : Dial(d)
    \/ Revive \/ Probe \/ Sync
    \/ \E o \in Objects : Expire(o)

Spec == Init /\ [][Next]_vars

-----------------------------------------------------------------------------
(***************************************************************************)
(* Properties.                                                             *)
(***************************************************************************)

\* No connection runs through a node that was removed or disabled: one that is
\* open belongs to a usable object, or to the one the sync is just about to
\* close.  (registerConnection checks under n.mu what markTombstone sets.)
NoStrayConnection ==
    \A d \in Dials : dpc[d] = "open" /\ ~Usable(at[d]) =>
        spc = "close" /\ at[d] = Obj(victim)

\* After a successful sync the group is the plan: every planned node is there and
\* usable (except one the snapshot showed as tombstoned), nothing is there that
\* is not planned except builtins and tombstones with open connections, and a
\* builtin that is not planned cannot be used.
SyncedMembers ==
    spc = "idle" /\ applied =>
        /\ \A n \in plan.members \ (Builtin \cup dying) : n \in present /\ Usable(Obj(n))
        /\ \A n \in present \ plan.members : ~Usable(Obj(n))

\* The selection names a member of the group, or nothing: GC clears it, and
\* setSelected and SelectNode check it.
SelectedPresent == selected \in present \cup {None}

\* How the group looks from outside: the nodes that can be used, the one whose
\* connections are about to be closed, and the node behind each connection, which
\* counts until its object closes it.
Serving == {n \in present : Usable(Obj(n))}
Closing == IF spc = "close" THEN victim ELSE None
Through == [d \in Dials |-> IF dpc[d] = "open" THEN at[d][1] ELSE None]

Group == INSTANCE GroupMembership WITH
    goal <- plan.members, syncing <- spc # "idle", done <- applied, held <- dying,
    usable <- Serving, cut <- Closing, conn <- Through

\* A member that is planned before and after a sync serves all the time, one that
\* is not planned loses its connections before the sync goes on, and a
\* connection opens only through a node that can be used.
ImplementsGroup == Group!Spec

\* After a successful sync of a manual mapping the selection is the planned one,
\* until the next sync.
ForcedSelection ==
    spc = "idle" /\ applied /\ plan.policy = "force" /\ plan.selected \notin Builtin
        => selected = plan.selected
=============================================================================
