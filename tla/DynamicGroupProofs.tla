-------------------------- MODULE DynamicGroupProofs --------------------------
(***************************************************************************)
(* Proofs about DynamicGroup, for any number of nodes, dials and syncs and *)
(* any plans: its types, the selection, the connections, what a sync       *)
(* leaves behind, and that it implements GroupMembership.                  *)
(*                                                                         *)
(* The dials and the prober leave the objects and the sync alone, so most  *)
(* of the invariant is about the sync: which generation is current, and    *)
(* what is left to do in each of its phases.                               *)
(***************************************************************************)
EXTENDS DynamicGroup, TLAPS

\* An object that can be used is the current one of a node of the group, no
\* object is younger than the current one, and only a builtin is disabled without
\* being tombstoned.
ObjInv ==
    /\ \A o \in enabled \ tomb : o[1] \in present /\ o = Obj(o[1])
    /\ \A o \in enabled \cup tomb : o[2] <= gen[o[1]]
    /\ \A n \in present \ Builtin : Obj(n) \in enabled \cup tomb

\* The phases of a sync.
Before == spc \in {"policy", "snapshot"} \/ (spc \in {"gc", "gc_select"} /\ ret = "policy")
Removing ==
    spc \in {"remove", "close", "reselect"} \/ (spc \in {"gc", "gc_select"} /\ ret = "remove")
After == spc \in {"builtin", "select"} \/ (spc \in {"gc", "gc_select"} /\ ret = "idle")

\* Every node is added at most once in a sync.
GenInv ==
    /\ \A n \in Nodes : gen[n] <= syncs
    /\ Before => \A n \in Nodes : gen[n] < syncs
    /\ spc = "add" => \A n \in left \cup Builtin : gen[n] < syncs
    /\ Removing => \A n \in Builtin : gen[n] < syncs
    /\ spc = "builtin" => \A n \in left : gen[n] < syncs

\* What is left to do concerns nodes outside the group, or outside the plan.
LeftInv ==
    /\ spc = "add" =>
          /\ left \subseteq plan.members \ (Builtin \cup present)
          /\ present \subseteq existing \cup plan.members
    /\ Removing => left \cap plan.members = {}
    /\ spc = "add" \/ Removing => present \cap Builtin \subseteq existing
    /\ spc = "builtin" => left \subseteq (plan.members \cap Builtin) \ present
    /\ spc = "close" => victim \in present \ plan.members /\ ~Usable(Obj(victim))
    /\ spc = "reselect" => victim \in Nodes
    /\ applied => spc = "idle"

\* The planned nodes serve from the time they are added.
Served == \A n \in plan.members \ (Builtin \cup dying \cup left) : n \in present /\ Usable(Obj(n))

\* Those that are not planned do not, once they have been removed.
Gone == \A n \in (present \ plan.members) \ left : ~Usable(Obj(n))

GoalInv ==
    /\ spc = "add" \/ Removing \/ After \/ applied => Served
    /\ Removing \/ After \/ applied => Gone
    /\ After \/ applied => left \cap plan.members \subseteq Builtin /\ left \subseteq plan.members

IInv ==
    /\ TypeOK /\ ObjInv /\ GenInv /\ LeftInv /\ GoalInv
    /\ NoStrayConnection /\ SelectedPresent

-----------------------------------------------------------------------------
(* The dials and the prober *)

\* The parts about objects and the sync.
SyncInv == ObjInv /\ GenInv /\ LeftInv /\ GoalInv

\* They do not depend on the dials, the health, the selection or the policy.
LEMMA SyncFrame ==
    ASSUME SyncInv, UNCHANGED <<objVars, syncVars>>
    PROVE  SyncInv'
  <1> USE DEF objVars, syncVars, Obj, Usable
  <1>1. ObjInv' BY DEF SyncInv, ObjInv
  <1>2. GenInv' BY DEF SyncInv, GenInv, Before, Removing
  <1>3. LeftInv' BY DEF SyncInv, LeftInv, Removing
  <1>4. GoalInv' BY DEF SyncInv, GoalInv, Removing, After, Served, Gone
  <1> QED BY <1>1, <1>2, <1>3, <1>4 DEF SyncInv

\* A step that opens no connection and leaves the objects alone keeps them straight.
LEMMA ConnFrame ==
    ASSUME NoStrayConnection, UNCHANGED <<objVars, syncVars>>,
           \A d \in Dials : dpc'[d] = "open" => dpc[d] = "open" /\ at'[d] = at[d]
    PROVE  NoStrayConnection'
  BY DEF NoStrayConnection, Usable, Obj, objVars, syncVars

\* Idle ends dials: it opens none.
LEMMA IdleFrame ==
    ASSUME TypeOK, NEW D \in SUBSET Dials, NEW x, NEW pc \in DialPc \ {"open"}, Idle(D, x, pc)
    PROVE  /\ dpc' \in [Dials -> DialPc] /\ at' \in [Dials -> Objects \cup {NoObject}]
           /\ cand' \in [Dials -> SUBSET Objects] /\ dpol' \in [Dials -> Policies]
           /\ \A d \in Dials : dpc'[d] = "open" => dpc[d] = "open" /\ at'[d] = at[d]
  <1>1. \A d \in Dials : dpc'[d] \in DialPc
    BY DEF TypeOK, Idle, DialPc
  <1>2. "balance" \in Policies
    BY DEF Policies
  <1> QED BY <1>1, <1>2 DEF TypeOK, Idle

LEMMA ActiveDials == \A o : Active(o) \subseteq Dials
  BY DEF Active

\* ensureSelected selects a member of the group.
LEMMA EnsureSelectedPresent ==
    ASSUME TypeOK, SelectedPresent, EnsureSelected, present' = present
    PROVE  selected' \in Nodes \cup {None} /\ SelectedPresent'
  BY DEF TypeOK, SelectedPresent, EnsureSelected, EligibleNodes

LEMMA ObjectsOf == TypeOK => \A n \in Nodes : Obj(n) \in Objects
  BY DEF TypeOK, Obj, Objects

\* What such a step has to show.
LEMMA Quiet ==
    ASSUME IInv, UNCHANGED <<objVars, syncVars>>,
           \/ UNCHANGED health \/ health' \in [Objects -> Healths],
           selected' \in Nodes \cup {None}, SelectedPresent', policy' = policy,
           dpc' \in [Dials -> DialPc], at' \in [Dials -> Objects \cup {NoObject}],
           cand' \in [Dials -> SUBSET Objects], dpol' \in [Dials -> Policies],
           ppc' \in {"idle", "round", "probe", "close"}, probe' \in Objects \cup {NoObject},
           NoStrayConnection'
    PROVE  IInv'
  <1>1. TypeOK'
    BY DEF IInv, TypeOK, objVars, syncVars
  <1>2. SyncInv'
    BY SyncFrame DEF IInv, SyncInv
  <1> QED BY <1>1, <1>2 DEF IInv, SyncInv

LEMMA DialStep ==
    ASSUME IInv, NEW d \in Dials, Dial(d)
    PROVE  IInv'
  <1>0. TypeOK /\ NoStrayConnection /\ SelectedPresent
    BY DEF IInv
  <1> USE <1>0
  <1> DEFINE Calm == \A e \in Dials : dpc'[e] = "open" => dpc[e] = "open" /\ at'[e] = at[e]
  <1>1. CASE DialBegin(d)
    <2>1. Candidates \in SUBSET Objects
      BY ObjectsOf DEF Candidates, EligibleNodes, TypeOK
    <2>2. /\ dpc' \in [Dials -> DialPc] /\ cand' \in [Dials -> SUBSET Objects] /\ Calm
          /\ UNCHANGED <<objVars, syncVars, health, selected, policy, at, dpol, ppc, probe>>
      BY <1>1, <2>1 DEF DialBegin, TypeOK, DialPc, probeVars
    <2>3. NoStrayConnection' /\ SelectedPresent'
      BY <2>2, ConnFrame DEF SelectedPresent, objVars
    <2> QED BY <2>2, <2>3, Quiet DEF TypeOK
  <1>2. CASE ReadPolicy(d)
    <2>1. /\ dpc' \in [Dials -> DialPc] /\ dpol' \in [Dials -> Policies] /\ Calm
          /\ UNCHANGED <<objVars, syncVars, health, selected, policy, at, cand, ppc, probe>>
      BY <1>2 DEF ReadPolicy, TypeOK, DialPc, probeVars
    <2>2. NoStrayConnection' /\ SelectedPresent'
      BY <2>1, ConnFrame DEF SelectedPresent, objVars
    <2> QED BY <2>1, <2>2, Quiet DEF TypeOK
  <1>3. ASSUME NEW D \in SUBSET Dials, NEW x, NEW pc \in DialPc \ {"open"}, Idle(D, x, pc),
               UNCHANGED <<objVars, syncVars, health, policy, ppc, probe>>,
               selected' \in Nodes \cup {None}, SelectedPresent'
        PROVE  IInv'
    <2>1. NoStrayConnection'
      BY <1>3, IdleFrame, ConnFrame
    <2> QED BY <1>3, <2>1, IdleFrame, Quiet DEF TypeOK
  <1>4. UNCHANGED <<objVars, selected>> => selected' \in Nodes \cup {None} /\ SelectedPresent'
    BY DEF TypeOK, SelectedPresent, objVars
  <1>5. CASE DialGiveUp(d)
    BY <1>3, <1>4, <1>5 DEF DialGiveUp, DialPc, probeVars
  <1>6. ASSUME NEW o \in Objects, DialSuccess(d, o) \/ DialFailure(d, o)
        PROVE  IInv'
    <2>1. /\ UNCHANGED <<objVars, syncVars, selected, policy, dpol, ppc, probe>>
          /\ cand' \in [Dials -> SUBSET Objects]
          /\ dpc' \in [Dials -> DialPc] /\ Calm
      BY <1>6 DEF DialSuccess, DialFailure, TypeOK, DialPc, probeVars
    <2>2. o[1] \in present => Obj(o[1]) \in Objects
      BY ObjectsOf DEF TypeOK
    <2>3. at' \in [Dials -> Objects \cup {NoObject}]
      BY <1>6, <2>2 DEF DialSuccess, DialFailure, TypeOK
    <2>4. health' \in [Objects -> Healths]
      BY <1>6 DEF DialSuccess, DialFailure, TypeOK, Healths
    <2>5. NoStrayConnection'
      BY <2>1, ConnFrame
    <2> QED BY <1>4, <2>1, <2>3, <2>4, <2>5, Quiet DEF TypeOK
  <1>7. CASE FailClose(d)
    <2>1. (IF Eligible(at[d], dpc[d] = "fail_close_forced") THEN {} ELSE Active(at[d])) \in SUBSET Dials
      BY ActiveDials
    <2> QED BY <1>3, <1>4, <1>7, <2>1 DEF FailClose, DialPc, probeVars
  <1>8. CASE FailSelect(d)
    <2>1. /\ UNCHANGED <<objVars, syncVars, health, policy, cand, dpol, ppc, probe>>
          /\ dpc' \in [Dials -> DialPc] /\ at' \in [Dials -> Objects \cup {NoObject}] /\ Calm
      BY <1>8 DEF FailSelect, TypeOK, DialPc, probeVars
    <2>2. selected' \in Nodes \cup {None} /\ SelectedPresent'
      BY <1>8, <2>1, EnsureSelectedPresent DEF FailSelect, objVars
    <2> QED BY <2>1, <2>2, ConnFrame, Quiet DEF TypeOK
  <1>9. CASE SetSelected(d)
    <2>1. /\ UNCHANGED <<objVars, syncVars, health, policy, cand, at, dpol, ppc, probe>>
          /\ dpc' \in [Dials -> DialPc] /\ Calm
      BY <1>9 DEF SetSelected, TypeOK, DialPc, probeVars
    <2>2. selected' \in Nodes \cup {None} /\ SelectedPresent'
      BY <1>9 DEF SetSelected, SelectedPresent, TypeOK, objVars
    <2> QED BY <2>1, <2>2, ConnFrame, Quiet DEF TypeOK
  <1>10. CASE Register(d)
    <2>1. /\ UNCHANGED <<objVars, syncVars, health, selected, policy, dpol, ppc, probe>>
          /\ dpc' \in [Dials -> DialPc] /\ at' \in [Dials -> Objects \cup {NoObject}]
          /\ cand' \in [Dials -> SUBSET Objects]
      BY <1>10 DEF Register, TypeOK, DialPc, probeVars
    <2>2. \A e \in Dials : dpc'[e] = "open" => at'[e] = at[e] /\ (dpc[e] = "open" \/ Usable(at[e]))
      BY <1>10 DEF Register, TypeOK, Eligible
    <2>3. NoStrayConnection'
      BY <2>1, <2>2 DEF NoStrayConnection, Usable, Obj, objVars, syncVars
    <2> QED BY <1>4, <2>1, <2>3, Quiet DEF TypeOK
  <1>11. CASE CloseConn(d) \/ TrafficFailure(d)
    <2>1. /\ UNCHANGED <<objVars, syncVars, health, selected, policy, cand, at, dpol, ppc, probe>>
          /\ dpc' \in [Dials -> DialPc] /\ Calm
      BY <1>11 DEF CloseConn, TrafficFailure, TypeOK, DialPc, probeVars
    <2> QED BY <1>4, <2>1, ConnFrame, Quiet DEF TypeOK
  <1>12. CASE DecActive(d)
    BY <1>3, <1>4, <1>12 DEF DecActive, DialPc, probeVars
  <1>13. CASE RecordTraffic(d)
    <2>1. /\ UNCHANGED <<objVars, syncVars, selected, policy, cand, at, dpol, ppc, probe>>
          /\ dpc' \in [Dials -> DialPc] /\ Calm
      BY <1>13 DEF RecordTraffic, TypeOK, DialPc, probeVars
    <2>2. health' \in [Objects -> Healths]
      BY <1>13 DEF RecordTraffic, TypeOK, Healths
    <2> QED BY <1>4, <2>1, <2>2, ConnFrame, Quiet DEF TypeOK
  <1>14. CASE TrafficSelect(d)
    <2>1. /\ UNCHANGED <<objVars, syncVars, health, policy, ppc, probe>>
      BY <1>14 DEF TrafficSelect, probeVars
    <2>2. selected' \in Nodes \cup {None} /\ SelectedPresent'
      BY <1>14, <2>1, EnsureSelectedPresent DEF TrafficSelect, objVars
    <2>3. CASE dpc[d] = "traffic_select"
      BY <1>3, <1>14, <2>1, <2>2, <2>3 DEF TrafficSelect, DialPc
    <2>4. CASE dpc[d] # "traffic_select"
      <3>1. /\ dpc' = [dpc EXCEPT ![d] = "traffic_close"] /\ UNCHANGED <<at, cand, dpol>>
        BY <1>14, <2>4 DEF TrafficSelect
      <3>2. dpc' \in [Dials -> DialPc] /\ Calm
        BY <3>1 DEF TypeOK, DialPc
      <3> QED BY <2>1, <2>2, <3>1, <3>2, ConnFrame, Quiet DEF TypeOK
    <2> QED BY <2>3, <2>4
  <1>15. CASE TrafficClose(d)
    <2>1. Active(at[d]) \cup {d} \in SUBSET Dials
      BY ActiveDials
    <2> QED BY <1>3, <1>4, <1>15, <2>1 DEF TrafficClose, DialPc, probeVars
  <1> QED
    BY <1>1, <1>2, <1>5, <1>6, <1>7, <1>8, <1>9, <1>10, <1>11, <1>12, <1>13, <1>14, <1>15 DEF Dial

\* The prober, the revival of blacklisted nodes, and time.
LEMMA ProbeStep ==
    ASSUME IInv, Probe \/ Revive \/ \E o \in Objects : Expire(o)
    PROVE  IInv'
  <1>0. TypeOK /\ NoStrayConnection /\ SelectedPresent
    BY DEF IInv
  <1> USE <1>0
  <1>1. UNCHANGED <<objVars, selected>> => selected' \in Nodes \cup {None} /\ SelectedPresent'
    BY DEF TypeOK, SelectedPresent, objVars
  <1>2. CASE ProbeClose
    <2> DEFINE D == IF health[probe] = "black" THEN Active(probe) ELSE {}
    <2>1. D \in SUBSET Dials /\ Idle(D, None, "idle") /\ "idle" \in DialPc \ {"open"}
      BY <1>2, ActiveDials DEF ProbeClose, DialPc
    <2>2. UNCHANGED <<objVars, syncVars, health, selected, policy>> /\ ppc' = "round" /\ probe' = NoObject
      BY <1>2 DEF ProbeClose
    <2> HIDE DEF D
    <2> QED BY <1>1, <2>1, <2>2, IdleFrame, ConnFrame, Quiet
  <1>3. CASE ~ProbeClose
    <2>1. /\ UNCHANGED <<objVars, syncVars, selected, policy, dpc, at, cand, dpol>>
          /\ ppc' \in {"idle", "round", "probe", "close"}
      BY <1>3 DEF Probe, RoundBegin, RoundEnd, ProbeSuccess, ProbeFailure, ProbeStart, Revive, Expire,
         dialVars, probeVars, TypeOK
    <2>2. probe' \in Objects \cup {NoObject}
      BY <1>3, ObjectsOf DEF Probe, RoundBegin, RoundEnd, ProbeSuccess, ProbeFailure, ProbeStart, Revive,
         Expire, probeVars, EligibleNodes, TypeOK
    <2>3. health' \in [Objects -> Healths]
      BY <1>3 DEF Probe, RoundBegin, RoundEnd, ProbeSuccess, ProbeFailure, ProbeStart, Revive, Expire,
         Healths, TypeOK
    <2> QED BY <1>1, <2>1, <2>2, <2>3, ConnFrame, Quiet DEF TypeOK
  <1> QED BY <1>2, <1>3

-----------------------------------------------------------------------------
(* The sync: one lemma for each part of the invariant *)

\* Most steps of the sync touch neither the objects nor the group.
SyncControl ==
    \/ \E p \in Plans : SyncBegin(p)
    \/ GCSelect \/ UpdatePolicy \/ Snapshot \/ AddError \/ AddDone
    \/ CloseVictim \/ Reselect \/ RemoveDone \/ BuiltinDone \/ SelectNode

LEMMA ControlKeeps == SyncControl => UNCHANGED <<objVars, health, ppc, probe>>
  BY DEF SyncControl, SyncBegin, GCSelect, UpdatePolicy, Snapshot, AddError, AddDone, CloseVictim,
     Reselect, RemoveDone, BuiltinDone, SelectNode, probeVars

LEMMA SyncSplit == Sync => SyncControl \/ GC \/ \E n \in Nodes : AddNode(n) \/ RemoveNode(n)
  BY DEF Sync, SyncControl

\* A node that is still to be added is outside the group, and was not added before.
LEMMA Addable ==
    ASSUME IInv, NEW n \in Nodes, AddNode(n)
    PROVE  n \notin present /\ gen[n] < syncs /\ n \in plan.members
  BY DEF IInv, TypeOK, LeftInv, GenInv, AddNode

LEMMA SyncObj ==
    ASSUME IInv, Sync
    PROVE  ObjInv'
  <1>0. TypeOK /\ ObjInv
    BY DEF IInv
  <1> USE <1>0
  <1>1. CASE SyncControl
    BY <1>1, ControlKeeps DEF ObjInv, objVars, Obj
  <1>2. CASE GC
    <2>1. /\ UNCHANGED <<gen, enabled, tomb>>
          /\ present' \subseteq present
          /\ \A n \in present : Obj(n) \notin tomb => n \in present'
      BY <1>2 DEF GC
    <2> QED BY <2>1 DEF ObjInv, Obj
  <1>3. ASSUME NEW n \in Nodes, AddNode(n)
        PROVE  ObjInv'
    <2>1. n \notin present
      BY <1>3, Addable
    <2>2. /\ gen' = [gen EXCEPT ![n] = @ + 1] /\ present' = present \cup {n}
          /\ enabled' = enabled \cup {<<n, gen[n] + 1>>} /\ tomb' = tomb
      BY <1>3 DEF AddNode
    <2>3. gen'[n] = gen[n] + 1 /\ gen[n] \in Nat /\ \A m \in Nodes \ {n} : gen'[m] = gen[m]
      BY <2>2 DEF TypeOK, Gens
    <2>4. \A o \in enabled \cup tomb : o[1] \in Nodes /\ o[2] \in Nat /\ gen[o[1]] \in Nat
      BY DEF TypeOK, Objects, Gens
    <2>5. \A o \in enabled' \ tomb' : o[1] \in present' /\ o = Obj(o[1])'
      <3> TAKE o \in enabled' \ tomb'
      <3>1. CASE o \in enabled
        BY <3>1, <2>1, <2>2, <2>3, <2>4 DEF ObjInv, Obj
      <3>2. CASE o = <<n, gen[n] + 1>>
        BY <3>2, <2>2, <2>3 DEF Obj
      <3> QED BY <3>1, <3>2, <2>2
    <2>6. \A o \in enabled' \cup tomb' : o[2] <= gen'[o[1]]
      <3> TAKE o \in enabled' \cup tomb'
      <3>1. CASE o = <<n, gen[n] + 1>>
        BY <3>1, <2>3
      <3>2. CASE o \in enabled \cup tomb
        <4>1. o[2] <= gen[o[1]]
          BY <3>2 DEF ObjInv
        <4>2. gen'[o[1]] = gen[o[1]] \/ gen'[o[1]] = gen[o[1]] + 1
          BY <3>2, <2>3, <2>4
        <4> QED BY <4>1, <4>2, <3>2, <2>4
      <3> QED BY <3>1, <3>2, <2>2
    <2>7. \A m \in present' \ Builtin : Obj(m)' \in enabled' \cup tomb'
      <3> TAKE m \in present' \ Builtin
      <3>1. CASE m = n
        BY <3>1, <2>2, <2>3 DEF Obj
      <3>2. CASE m # n
        BY <3>2, <2>2, <2>3 DEF ObjInv, Obj, TypeOK
      <3> QED BY <3>1, <3>2
    <2> QED BY <2>5, <2>6, <2>7 DEF ObjInv
  <1>4. ASSUME NEW n \in Nodes, RemoveNode(n)
        PROVE  ObjInv'
    <2>1. UNCHANGED <<gen, present>>
      BY <1>4 DEF RemoveNode
    <2>2. CASE n \in present
      <3>1. /\ enabled' = enabled \ {Obj(n)}
            /\ tomb' = IF n \in Builtin THEN tomb ELSE tomb \cup {Obj(n)}
        BY <1>4, <2>2 DEF RemoveNode
      <3>2. Obj(n)[2] <= gen[Obj(n)[1]]
        BY DEF Obj, TypeOK, Gens
      <3>3. \A m \in present \ Builtin : Obj(m) \in enabled' \cup tomb'
        BY <3>1 DEF ObjInv, Obj
      <3>4. \A o \in enabled' \ tomb' : o[1] \in present /\ o = Obj(o[1])
        BY <3>1 DEF ObjInv
      <3>5. \A o \in enabled' \cup tomb' : o[2] <= gen[o[1]]
        BY <3>1, <3>2 DEF ObjInv
      <3> QED BY <2>1, <3>3, <3>4, <3>5 DEF ObjInv, Obj
    <2>3. CASE n \notin present
      BY <1>4, <2>1, <2>3 DEF RemoveNode, ObjInv, Obj
    <2> QED BY <2>2, <2>3
  <1> QED BY <1>1, <1>2, <1>3, <1>4, SyncSplit

LEMMA SyncTypes ==
    ASSUME IInv, Sync
    PROVE  TypeOK'
  <1>0. TypeOK /\ SelectedPresent
    BY DEF IInv
  <1> USE <1>0
  <1>1. MaxSyncs \in Nat /\ syncs \in Nat /\ syncs <= MaxSyncs
    BY BoundsAreNat DEF TypeOK
  <1>2. \A p \in Plans : p.policy \in Policies /\ p.members \subseteq Nodes /\ p.selected \in Nodes \cup {None}
    BY PlansArePlannable DEF Plannable
  <1>3. ASSUME UNCHANGED <<objVars, health, dpc, at, cand, dpol, ppc, probe>>,
               selected' \in Nodes \cup {None}, policy' \in Policies, spc' \in SyncPc, plan' \in Plans,
               existing' \subseteq Nodes, dying' \subseteq existing', left' \subseteq Nodes,
               victim' \in Nodes \cup {None}, ret' \in {"policy", "remove", "idle"},
               started' \in BOOLEAN, applied' \in BOOLEAN, syncs' \in 0..MaxSyncs
        PROVE  TypeOK'
    BY <1>3 DEF TypeOK, objVars
  <1>4. ASSUME NEW p \in Plans, SyncBegin(p)
        PROVE  TypeOK'
    <2>1. syncs' \in 0..MaxSyncs
      BY <1>1, <1>4 DEF SyncBegin
    <2> QED BY <1>3, <1>4, <2>1 DEF SyncBegin, TypeOK, SyncPc, dialVars, probeVars
  <1>5. CASE GC
    BY <1>5 DEF GC, TypeOK, SyncPc, dialVars, probeVars
  <1>6. CASE GCSelect
    <2>1. selected' \in Nodes \cup {None}
      BY <1>6, EnsureSelectedPresent DEF GCSelect, objVars
    <2> QED BY <1>3, <1>6, <2>1 DEF GCSelect, TypeOK, SyncPc, dialVars, probeVars
  <1>7. CASE UpdatePolicy \/ Snapshot
    <2>1. plan.policy \in Policies /\ plan.members \subseteq Nodes
      BY <1>2 DEF TypeOK
    <2> QED BY <1>3, <1>7, <2>1 DEF UpdatePolicy, Snapshot, TypeOK, SyncPc, dialVars, probeVars
  <1>8. CASE AddError \/ AddDone \/ RemoveDone \/ BuiltinDone
    <2>1. plan.members \subseteq Nodes
      BY <1>2 DEF TypeOK
    <2> QED BY <1>3, <1>8, <2>1
        DEF AddError, AddDone, RemoveDone, BuiltinDone, TypeOK, SyncPc, dialVars, probeVars
  <1>9. CASE CloseVictim
    <2>1. /\ dpc' \in [Dials -> DialPc] /\ at' \in [Dials -> Objects \cup {NoObject}]
          /\ cand' \in [Dials -> SUBSET Objects] /\ dpol' \in [Dials -> Policies]
      BY <1>9, ActiveDials, IdleFrame DEF CloseVictim, DialPc
    <2> QED BY <1>9, <2>1 DEF CloseVictim, TypeOK, SyncPc, objVars, probeVars
  <1>10. CASE Reselect
    <2>1. selected' \in Nodes \cup {None}
      BY <1>10, EnsureSelectedPresent DEF Reselect, objVars
    <2> QED BY <1>3, <1>10, <2>1 DEF Reselect, TypeOK, SyncPc, dialVars, probeVars
  <1>11. CASE SelectNode
    <2>1. plan.selected \in Nodes \cup {None}
      BY <1>2 DEF TypeOK
    <2> QED BY <1>3, <1>11, <2>1 DEF SelectNode, TypeOK, SyncPc, dialVars, probeVars
  <1>12. ASSUME NEW n \in Nodes, AddNode(n)
         PROVE  TypeOK'
    <2>1. gen[n] < syncs /\ gen[n] \in Nat
      BY <1>12, Addable DEF TypeOK, Gens
    <2>2. gen[n] + 1 \in Gens
      BY <1>1, <2>1 DEF Gens
    <2>3. gen' \in [Nodes -> Gens] /\ enabled' \subseteq Objects
      BY <1>12, <2>2 DEF AddNode, TypeOK, Objects
    <2> QED BY <1>12, <2>3 DEF AddNode, TypeOK, SyncPc, dialVars, probeVars
  <1>13. ASSUME NEW n \in Nodes, RemoveNode(n)
         PROVE  TypeOK'
    BY <1>13, ObjectsOf DEF RemoveNode, TypeOK, SyncPc, dialVars, probeVars
  <1> QED
    BY <1>4, <1>5, <1>6, <1>7, <1>8, <1>9, <1>10, <1>11, <1>12, <1>13 DEF Sync

LEMMA SyncGen ==
    ASSUME IInv, Sync
    PROVE  GenInv'
  <1>0. TypeOK /\ GenInv /\ LeftInv
    BY DEF IInv
  <1> USE <1>0
  <1>1. syncs \in Nat /\ \A n \in Nodes : gen[n] \in Nat
    BY DEF TypeOK, Gens
  <1>2. plan.members \subseteq Nodes /\ Builtin \subseteq Nodes
    BY PlansArePlannable, BuiltinAreNodes DEF Plannable, TypeOK
  <1>3. ASSUME NEW p \in Plans, SyncBegin(p)
        PROVE  GenInv'
    <2>1. UNCHANGED gen /\ syncs' = syncs + 1 /\ spc' = "gc" /\ ret' = "policy"
      BY <1>3 DEF SyncBegin, objVars
    <2> QED BY <1>1, <2>1 DEF GenInv, Before, Removing
  <1>4. CASE GC \/ GCSelect \/ UpdatePolicy \/ CloseVictim \/ AddError \/ BuiltinDone
    BY <1>4 DEF GC, GCSelect, UpdatePolicy, CloseVictim, AddError, BuiltinDone, GenInv, Before, Removing,
       objVars, TypeOK
  <1>5. CASE Snapshot \/ AddDone \/ Reselect \/ RemoveDone \/ SelectNode
    BY <1>2, <1>5 DEF Snapshot, AddDone, Reselect, RemoveDone, SelectNode, GenInv, Before, Removing, objVars
  <1>6. ASSUME NEW n \in Nodes, AddNode(n)
        PROVE  GenInv'
    <2>1. gen[n] < syncs
      BY <1>6, Addable
    <2>2. /\ gen' = [gen EXCEPT ![n] = @ + 1] /\ left' = left \ {n}
          /\ UNCHANGED <<spc, syncs, ret>> /\ spc \in {"add", "builtin"}
          /\ spc = "add" => n \notin Builtin
      BY <1>6 DEF AddNode, LeftInv
    <2>3. \A m \in Nodes : gen'[m] <= syncs /\ (m # n => gen'[m] = gen[m])
      BY <1>1, <2>1, <2>2 DEF GenInv, TypeOK
    <2> QED BY <1>2, <2>2, <2>3 DEF GenInv, Before, Removing, TypeOK
  <1>7. ASSUME NEW n \in Nodes, RemoveNode(n)
        PROVE  GenInv'
    <2>1. UNCHANGED <<gen, syncs, ret>> /\ spc = "remove" /\ spc' \in {"remove", "close"}
      BY <1>7 DEF RemoveNode
    <2> QED BY <2>1 DEF GenInv, Before, Removing
  <1> QED BY <1>3, <1>4, <1>5, <1>6, <1>7 DEF Sync

LEMMA SyncLeft ==
    ASSUME IInv, Sync
    PROVE  LeftInv'
  <1>0. TypeOK /\ LeftInv
    BY DEF IInv
  <1> USE <1>0
  <1>1. plan.members \subseteq Nodes /\ Builtin \subseteq Nodes
    BY PlansArePlannable, BuiltinAreNodes DEF Plannable, TypeOK
  <1>2. CASE \E p \in Plans : SyncBegin(p)
    BY <1>2 DEF SyncBegin, LeftInv, Removing
  <1>3. CASE GC
    BY <1>3 DEF GC, LeftInv, Removing
  <1>4. CASE GCSelect \/ UpdatePolicy \/ AddError
    BY <1>4 DEF GCSelect, UpdatePolicy, AddError, LeftInv, Removing, objVars, TypeOK
  <1>5. CASE Snapshot \/ AddDone
    BY <1>5 DEF Snapshot, AddDone, LeftInv, Removing, objVars
  <1>6. CASE CloseVictim \/ Reselect
    BY <1>6 DEF CloseVictim, Reselect, LeftInv, Removing, objVars, TypeOK
  <1>7. CASE RemoveDone \/ BuiltinDone \/ SelectNode
    BY <1>7 DEF RemoveDone, BuiltinDone, SelectNode, LeftInv, Removing, objVars
  <1>8. ASSUME NEW n \in Nodes, AddNode(n)
        PROVE  LeftInv'
    <2>1. n \notin present /\ n \in plan.members
      BY <1>8, Addable
    <2> QED BY <1>8, <2>1 DEF AddNode, LeftInv, Removing
  <1>9. ASSUME NEW n \in Nodes, RemoveNode(n)
        PROVE  LeftInv'
    <2>1. /\ spc = "remove" /\ n \in left /\ left' = left \ {n}
          /\ UNCHANGED <<gen, present, plan, existing, applied, ret>>
      BY <1>9 DEF RemoveNode
    <2>2. CASE n \in present
      <3>1. /\ enabled' = enabled \ {Obj(n)} /\ victim' = n /\ spc' = "close"
        BY <1>9, <2>2 DEF RemoveNode
      <3>2. ~Usable(Obj(n))'
        BY <2>1, <3>1 DEF Usable, Obj
      <3> QED BY <2>1, <2>2, <3>1, <3>2 DEF LeftInv, Removing
    <2>3. CASE n \notin present
      BY <1>9, <2>1, <2>3 DEF RemoveNode, LeftInv, Removing
    <2> QED BY <2>2, <2>3
  <1> QED BY <1>2, <1>3, <1>4, <1>5, <1>6, <1>7, <1>8, <1>9 DEF Sync

LEMMA SyncGoal ==
    ASSUME IInv, Sync
    PROVE  GoalInv'
  <1>0. TypeOK /\ ObjInv /\ LeftInv /\ GoalInv
    BY DEF IInv
  <1> USE <1>0
  <1>1. plan.members \subseteq Nodes /\ Builtin \subseteq Nodes
    BY PlansArePlannable, BuiltinAreNodes DEF Plannable, TypeOK
  <1>2. CASE \E p \in Plans : SyncBegin(p)
    BY <1>2 DEF SyncBegin, GoalInv, Removing, After
  <1>3. ASSUME UNCHANGED <<objVars, plan, dying, left>>
        PROVE  Served' <=> Served
    BY <1>3 DEF Served, Usable, Obj, objVars
  <1>4. ASSUME UNCHANGED <<objVars, plan, left>>
        PROVE  Gone' <=> Gone
    BY <1>4 DEF Gone, Usable, Obj, objVars
  <1>5. CASE GC
    <2>1. /\ UNCHANGED <<gen, enabled, tomb, plan, dying, left, ret, applied>>
          /\ spc = "gc" /\ spc' = "gc_select" /\ present' \subseteq present
          /\ \A n \in present : Obj(n) \notin tomb => n \in present'
      BY <1>5 DEF GC
    <2>2. Served => Served'
      BY <2>1 DEF Served, Usable, Obj
    <2>3. Gone => Gone'
      BY <2>1 DEF Gone, Usable, Obj
    <2> QED BY <2>1, <2>2, <2>3 DEF GoalInv, Removing, After
  <1>6. CASE GCSelect \/ UpdatePolicy \/ AddError
    <2>1. CASE GCSelect
      <3>1. /\ UNCHANGED <<objVars, plan, dying, left, ret>> /\ spc = "gc_select" /\ spc' = ret
            /\ applied' = (ret = "idle") /\ ret \in {"policy", "remove", "idle"}
        BY <2>1 DEF GCSelect, TypeOK
      <3> QED BY <1>3, <1>4, <3>1 DEF GoalInv, Removing, After
    <2>2. CASE UpdatePolicy \/ AddError
      <3>1. spc' \in {"snapshot", "idle"} /\ ~applied'
        BY <2>2 DEF UpdatePolicy, AddError, LeftInv
      <3> QED BY <3>1 DEF GoalInv, Removing, After
    <2> QED BY <1>6, <2>1, <2>2
  <1>7. CASE Snapshot
    <2>1. Served'
      BY <1>1, <1>7 DEF Snapshot, Served, ObjInv, Usable, Obj, objVars
    <2> QED BY <1>7, <2>1 DEF Snapshot, GoalInv, LeftInv, Removing, After
  <1>8. CASE AddDone
    <2>1. Served'
      BY <1>8 DEF AddDone, GoalInv, Served, Usable, Obj, objVars
    <2>2. Gone'
      BY <1>8 DEF AddDone, LeftInv, Gone, objVars
    <2> QED BY <1>8, <2>1, <2>2 DEF AddDone, GoalInv, LeftInv, Removing, After
  <1>9. CASE CloseVictim \/ Reselect \/ BuiltinDone \/ SelectNode
    BY <1>3, <1>4, <1>9 DEF CloseVictim, Reselect, BuiltinDone, SelectNode, GoalInv, LeftInv, Removing, After
  <1>10. CASE RemoveDone
    <2>1. /\ spc = "remove" /\ left = {} /\ left' = (plan.members \cap Builtin) \ existing
          /\ spc' = "builtin" /\ UNCHANGED <<objVars, plan, dying, applied>>
      BY <1>10 DEF RemoveDone
    <2>2. Served /\ Gone
      BY <2>1 DEF GoalInv, Removing
    <2>3. Served' /\ Gone'
      BY <2>1, <2>2 DEF Served, Gone, Usable, Obj, objVars
    <2> QED BY <2>1, <2>3 DEF GoalInv, LeftInv
  <1>11. ASSUME NEW n \in Nodes, AddNode(n)
         PROVE  GoalInv'
    <2>1. n \notin present /\ n \in plan.members
      BY <1>11, Addable
    <2>2. /\ gen' = [gen EXCEPT ![n] = @ + 1] /\ present' = present \cup {n} /\ left' = left \ {n}
          /\ enabled' = enabled \cup {<<n, gen[n] + 1>>}
          /\ UNCHANGED <<tomb, spc, plan, dying, ret, applied>> /\ spc \in {"add", "builtin"}
      BY <1>11 DEF AddNode
    <2>3. gen'[n] = gen[n] + 1 /\ gen[n] \in Nat /\ \A m \in Nodes \ {n} : gen'[m] = gen[m]
      BY <2>2 DEF TypeOK, Gens
    <2>4. Usable(Obj(n))'
      <3>1. <<n, gen[n] + 1>> \notin tomb
        BY <2>3 DEF ObjInv
      <3> QED BY <2>2, <2>3, <3>1 DEF Usable, Obj
    <2>5. \A m \in Nodes \ {n} : Usable(Obj(m))' <=> Usable(Obj(m))
      BY <2>2, <2>3 DEF Usable, Obj
    <2>6. Served => Served'
      BY <1>1, <2>2, <2>4, <2>5 DEF Served
    <2>7. Gone => Gone'
      BY <2>1, <2>2, <2>5 DEF Gone, TypeOK
    <2> QED BY <2>2, <2>6, <2>7 DEF GoalInv, LeftInv, Removing, After
  <1>12. ASSUME NEW n \in Nodes, RemoveNode(n)
         PROVE  GoalInv'
    <2>1. /\ spc = "remove" /\ n \in left /\ left' = left \ {n} /\ spc' \in {"remove", "close"}
          /\ UNCHANGED <<gen, present, plan, dying, applied>>
      BY <1>12 DEF RemoveNode
    <2>2. n \notin plan.members /\ Served /\ Gone
      BY <2>1 DEF LeftInv, GoalInv, Removing
    <2>3. /\ n \in present => ~Usable(Obj(n))'
          /\ \A m \in Nodes \ {n} : Usable(Obj(m))' <=> Usable(Obj(m))
      BY <1>12, <2>1 DEF RemoveNode, Usable, Obj
    <2>4. Served'
      BY <1>1, <2>1, <2>2, <2>3 DEF Served
    <2>5. Gone'
      BY <2>1, <2>2, <2>3 DEF Gone, TypeOK
    <2> QED BY <2>1, <2>4, <2>5 DEF GoalInv, LeftInv, Removing, After
  <1> QED BY <1>2, <1>5, <1>6, <1>7, <1>8, <1>9, <1>10, <1>11, <1>12 DEF Sync

LEMMA SyncConn ==
    ASSUME IInv, Sync
    PROVE  NoStrayConnection'
  <1>0. TypeOK /\ NoStrayConnection
    BY DEF IInv
  <1> USE <1>0
  <1>1. ASSUME UNCHANGED <<gen, enabled, tomb, dpc, at>>, spc # "close"
        PROVE  NoStrayConnection'
    BY <1>1 DEF NoStrayConnection, Usable
  <1>2. CASE CloseVictim
    <2>1. /\ Idle(Active(Obj(victim)), None, "idle") /\ UNCHANGED objVars
      BY <1>2 DEF CloseVictim
    <2>2. "idle" \in DialPc \ {"open"}
      BY DEF DialPc
    <2>3. \A e \in Dials : dpc'[e] = "open" => dpc[e] = "open" /\ at'[e] = at[e]
      BY <2>1, <2>2, ActiveDials, IdleFrame
    <2>4. \A e \in Dials : dpc'[e] = "open" => at[e] # Obj(victim)
      BY <2>1, <2>3 DEF Idle, Active
    <2> QED BY <2>1, <2>3, <2>4 DEF NoStrayConnection, Usable, objVars
  <1>3. ASSUME NEW n \in Nodes, AddNode(n)
        PROVE  NoStrayConnection'
    BY <1>3 DEF AddNode, NoStrayConnection, Usable, dialVars
  <1>4. ASSUME NEW n \in Nodes, RemoveNode(n)
        PROVE  NoStrayConnection'
    BY <1>4 DEF RemoveNode, NoStrayConnection, Usable, Obj, dialVars
  <1>5. CASE SyncControl /\ ~CloseVictim
    <2>1. UNCHANGED <<gen, enabled, tomb>>
      BY <1>5, ControlKeeps DEF objVars
    <2>2. spc # "close" /\ UNCHANGED <<dpc, at>>
      BY <1>5 DEF SyncControl, SyncBegin, GCSelect, UpdatePolicy, Snapshot, AddError, AddDone, Reselect,
         RemoveDone, BuiltinDone, SelectNode, dialVars
    <2> QED BY <1>1, <2>1, <2>2
  <1>6. CASE GC
    BY <1>1, <1>6 DEF GC, dialVars
  <1> QED BY <1>2, <1>3, <1>4, <1>5, <1>6, SyncSplit

LEMMA SyncSelected ==
    ASSUME IInv, Sync
    PROVE  SelectedPresent'
  <1>0. TypeOK /\ SelectedPresent
    BY DEF IInv
  <1> USE <1>0
  <1>1. CASE GCSelect \/ Reselect
    BY <1>1, EnsureSelectedPresent DEF GCSelect, Reselect, objVars
  <1>2. CASE GC
    BY <1>2 DEF GC, SelectedPresent
  <1>3. CASE SelectNode
    BY <1>3 DEF SelectNode, SelectedPresent, objVars
  <1>4. CASE \E n \in Nodes : AddNode(n) \/ RemoveNode(n)
    BY <1>4 DEF AddNode, RemoveNode, SelectedPresent
  <1>5. CASE SyncControl /\ ~GCSelect /\ ~Reselect /\ ~SelectNode
    BY <1>5 DEF SyncControl, SyncBegin, UpdatePolicy, Snapshot, AddError, AddDone, CloseVictim,
       RemoveDone, BuiltinDone, objVars, SelectedPresent
  <1> QED BY <1>1, <1>2, <1>3, <1>4, <1>5, SyncSplit

-----------------------------------------------------------------------------
(* Theorems *)

LEMMA InitInv == Init => IInv
  <1> SUFFICES ASSUME Init PROVE IInv
    OBVIOUS
  <1>1. plan \in Plans
    BY PlansArePlannable DEF Init
  <1>2. 0 \in Gens /\ 0 \in 0..MaxSyncs
    BY BoundsAreNat DEF Gens
  <1>3. TypeOK
    BY <1>1, <1>2 DEF Init, TypeOK, Healths, Policies, DialPc, SyncPc
  <1>4. ObjInv /\ GenInv /\ LeftInv /\ GoalInv
    BY DEF Init, ObjInv, GenInv, LeftInv, GoalInv, Before, Removing, After
  <1>5. NoStrayConnection /\ SelectedPresent
    BY DEF Init, NoStrayConnection, SelectedPresent
  <1> QED BY <1>3, <1>4, <1>5 DEF IInv

LEMMA StepInv == IInv /\ [Next]_vars => IInv'
  <1> SUFFICES ASSUME IInv, [Next]_vars PROVE IInv'
    OBVIOUS
  <1>1. CASE Sync
    BY <1>1, SyncTypes, SyncObj, SyncGen, SyncLeft, SyncGoal, SyncConn, SyncSelected DEF IInv
  <1>2. CASE UNCHANGED vars
    <2>1. TypeOK' /\ NoStrayConnection' /\ SelectedPresent'
      BY <1>2 DEF vars, objVars, dialVars, probeVars, syncVars, IInv, TypeOK, NoStrayConnection,
         SelectedPresent, Usable, Obj
    <2>2. SyncInv'
      BY <1>2, SyncFrame DEF vars, IInv, SyncInv
    <2> QED BY <2>1, <2>2 DEF IInv, SyncInv
  <1>3. CASE \E d \in Dials : Dial(d)
    BY <1>3, DialStep
  <1>4. CASE Probe \/ Revive \/ \E o \in Objects : Expire(o)
    BY <1>4, ProbeStep
  <1> QED BY <1>1, <1>2, <1>3, <1>4 DEF Next

LEMMA Invariance == Spec => []IInv
  BY InitInv, StepInv, PTL DEF Spec

\* The types, for any number of nodes, dials and syncs.
THEOREM TypeCorrect == Spec => []TypeOK
  BY Invariance, PTL DEF IInv

\* The selection is a member of the group or nothing, whoever removes members.
THEOREM SelectionIsMember == Spec => []SelectedPresent
  BY Invariance, PTL DEF IInv

\* No connection runs through a removed node, whatever a dial had read before.
THEOREM ConnectionsAreServed == Spec => []NoStrayConnection
  BY Invariance, PTL DEF IInv

\* A successful sync leaves the plan behind, whatever was there before and
\* whatever garbage collections, dials and failures happened on the way.
THEOREM SyncsReachThePlan == Spec => []SyncedMembers
  <1>1. IInv => SyncedMembers
    BY DEF IInv, GoalInv, SyncedMembers, Served, Gone
  <1> QED BY <1>1, Invariance, PTL

-----------------------------------------------------------------------------
(* The group implements GroupMembership *)

\* The part of the mapping that does not depend on the dials.
LEMMA MapFrame ==
    ASSUME UNCHANGED <<objVars, syncVars>>
    PROVE  UNCHANGED <<plan, applied, dying, Serving, Closing>> /\ (spc # "idle")' = (spc # "idle")
  BY DEF objVars, syncVars, Serving, Closing, Usable, Obj

\* A step that opens no connection is a Disconnect of those it ends.
LEMMA MapDisconnect ==
    ASSUME UNCHANGED <<objVars, syncVars>>,
           \A d \in Dials : dpc'[d] = "open" => dpc[d] = "open" /\ at'[d] = at[d]
    PROVE  Group!Next
  <1> DEFINE D == {d \in Dials : dpc'[d] # "open"}
  <1>1. Through' = [d \in Dials |-> IF d \in D THEN None ELSE Through[d]]
    BY DEF Through
  <1>2. Group!Disconnect(D)
    BY <1>1, MapFrame DEF Group!Disconnect
  <1>3. D \in SUBSET Dials
    OBVIOUS
  <1> HIDE DEF D
  <1> QED BY <1>2, <1>3 DEF Group!Next

\* A dial opens a connection through a node that can be used, or opens none.
LEMMA MapDial ==
    ASSUME IInv, NEW d \in Dials, Dial(d)
    PROVE  Group!Next
  <1>0. TypeOK /\ ObjInv
    BY DEF IInv
  <1> USE <1>0
  <1> DEFINE Calm == \A e \in Dials : dpc'[e] = "open" => dpc[e] = "open" /\ at'[e] = at[e]
  <1>1. UNCHANGED <<objVars, syncVars>>
    BY DEF Dial, DialBegin, ReadPolicy, DialGiveUp, DialSuccess, DialFailure, FailClose, FailSelect, SetSelected,
       Register, CloseConn, DecActive, TrafficFailure, RecordTraffic, TrafficSelect, TrafficClose
  <1>2. ASSUME Calm PROVE Group!Next
    BY <1>1, <1>2, MapDisconnect
  <1>3. ASSUME NEW D \in SUBSET Dials, NEW pc \in DialPc \ {"open"}, Idle(D, d, pc)
        PROVE  Group!Next
    BY <1>2, <1>3, IdleFrame
  <1>4. "idle" \in DialPc \ {"open"} /\ "fail_select" \in DialPc \ {"open"} /\ {d} \in SUBSET Dials
    BY DEF DialPc
  <1>5. CASE DialBegin(d) \/ ReadPolicy(d) \/ \E o \in Objects : DialSuccess(d, o) \/ DialFailure(d, o)
    BY <1>2, <1>5 DEF DialBegin, ReadPolicy, DialSuccess, DialFailure, TypeOK
  <1>6. CASE FailSelect(d) \/ SetSelected(d) \/ CloseConn(d) \/ TrafficFailure(d) \/ RecordTraffic(d)
    BY <1>2, <1>6 DEF FailSelect, SetSelected, CloseConn, TrafficFailure, RecordTraffic, TypeOK
  <1>7. CASE DialGiveUp(d) \/ DecActive(d)
    BY <1>3, <1>4, <1>7 DEF DialGiveUp, DecActive
  <1>8. CASE FailClose(d)
    BY <1>3, <1>4, <1>8, ActiveDials DEF FailClose
  <1>9. CASE TrafficClose(d)
    <2>1. Active(at[d]) \cup {d} \in SUBSET Dials
      BY ActiveDials
    <2> QED BY <1>3, <1>4, <1>9, <2>1 DEF TrafficClose
  <1>10. CASE TrafficSelect(d)
    <2>1. CASE dpc[d] = "traffic_select"
      BY <1>3, <1>4, <1>10, <2>1 DEF TrafficSelect
    <2>2. CASE dpc[d] # "traffic_select"
      BY <1>2, <1>10, <2>2 DEF TrafficSelect, TypeOK
    <2> QED BY <2>1, <2>2
  <1>11. CASE Register(d)
    <2>1. CASE Eligible(at[d], dpol[d] = "force")
      <3>1. at[d][1] \in Serving
        BY <2>1 DEF Eligible, Usable, ObjInv, Serving
      <3>2. Through[d] = None /\ Through' = [Through EXCEPT ![d] = at[d][1]]
        BY <1>11, <2>1 DEF Register, Through, TypeOK
      <3>3. Group!Connect(d)
        BY <1>1, <3>1, <3>2, MapFrame DEF Group!Connect
      <3> QED BY <3>3 DEF Group!Next
    <2>2. CASE ~Eligible(at[d], dpol[d] = "force")
      BY <1>2, <1>11, <2>2 DEF Register, TypeOK
    <2> QED BY <2>1, <2>2
  <1> QED BY <1>5, <1>6, <1>7, <1>8, <1>9, <1>10, <1>11 DEF Dial

LEMMA MapProbe ==
    ASSUME IInv, Probe \/ Revive \/ \E o \in Objects : Expire(o)
    PROVE  Group!Next
  <1>1. TypeOK
    BY DEF IInv
  <1>2. CASE ProbeClose
    <2> DEFINE D == IF health[probe] = "black" THEN Active(probe) ELSE {}
    <2>1. D \in SUBSET Dials /\ Idle(D, None, "idle") /\ "idle" \in DialPc \ {"open"}
      BY <1>2, ActiveDials DEF ProbeClose, DialPc
    <2>2. UNCHANGED <<objVars, syncVars>>
      BY <1>2 DEF ProbeClose
    <2> HIDE DEF D
    <2> QED BY <1>1, <2>1, <2>2, IdleFrame, MapDisconnect
  <1>3. CASE ~ProbeClose
    <2>1. UNCHANGED <<objVars, syncVars, dpc, at>>
      BY <1>3 DEF Probe, RoundBegin, RoundEnd, ProbeSuccess, ProbeFailure, ProbeStart, Revive, Expire, dialVars
    <2> QED BY <2>1, MapDisconnect
  <1> QED BY <1>2, <1>3

\* A step of the sync is the abstract one of the same purpose, or a stutter.
LEMMA MapSync ==
    ASSUME IInv, Sync
    PROVE  [Group!Next]_(Group!vars)
  <1>0. TypeOK /\ ObjInv /\ LeftInv /\ GoalInv
    BY DEF IInv
  <1> USE <1>0
  <1>1. plan.members \subseteq Nodes /\ Builtin \subseteq Nodes /\ None \notin Nodes
    BY PlansArePlannable, BuiltinAreNodes, NoneIsFree DEF Plannable, TypeOK
  <1>2. spc # "close" => Closing = None
    BY DEF Closing
  <1>3. applied => spc = "idle"
    BY DEF LeftInv
  <1>4. UNCHANGED dialVars => UNCHANGED Through
    BY DEF dialVars, Through
  <1>5. UNCHANGED objVars => UNCHANGED Serving
    BY DEF objVars, Serving, Usable, Obj
  <1>6. ASSUME UNCHANGED <<plan, applied, dying, Serving, Through>>,
               spc \notin {"idle", "close"}, spc' \notin {"idle", "close"}
        PROVE  UNCHANGED Group!vars
    BY <1>6 DEF Group!vars, Closing
  <1>7. ASSUME NEW p \in Plans, SyncBegin(p)
        PROVE  Group!Next
    <2>1. p.members \in SUBSET Nodes
      BY PlansArePlannable DEF Plannable
    <2>2. Closing' = Closing
      BY <1>7 DEF SyncBegin, Closing
    <2>3. Group!Begin(p.members)
      BY <1>4, <1>5, <1>7, <2>2 DEF SyncBegin, Group!Begin
    <2> QED BY <2>1, <2>3 DEF Group!Next
  <1>8. CASE GC
    <2>1. UNCHANGED Serving
      BY <1>8 DEF GC, Serving, Usable, Obj
    <2> QED BY <1>4, <1>6, <1>8, <2>1 DEF GC
  <1>9. ASSUME NEW ok \in BOOLEAN, UNCHANGED <<plan, dying, Serving, Through>>, ok => Group!Agrees,
               spc \notin {"idle", "close"}, spc' = "idle", applied' = ok
        PROVE  Group!Next
    <2>1. Group!End(ok)
      BY <1>9 DEF Group!End, Closing
    <2> QED BY <2>1 DEF Group!Next
  <1>10. CASE GCSelect
    <2>1. /\ UNCHANGED <<plan, dying, Serving, Through>> /\ spc = "gc_select"
          /\ spc' = ret /\ applied' = (ret = "idle") /\ ret \in {"policy", "remove", "idle"}
      BY <1>4, <1>5, <1>10 DEF GCSelect, TypeOK
    <2>2. CASE ret = "idle"
      <3>1. Served /\ Gone /\ left \cap plan.members \subseteq Builtin /\ left \subseteq plan.members
        BY <2>1, <2>2 DEF GoalInv, After
      <3>2. Serving \subseteq plan.members
        BY <3>1 DEF Serving, Gone
      <3>3. plan.members \ (Builtin \cup dying) \subseteq Serving
        BY <3>1 DEF Serving, Served
      <3>4. Group!Agrees
        BY <3>2, <3>3 DEF Group!Agrees
      <3> QED BY <1>9, <2>1, <2>2, <3>4
    <2>3. CASE ret # "idle"
      <3>1. applied' = FALSE /\ applied = FALSE
        BY <1>3, <2>1, <2>3 DEF TypeOK
      <3> QED BY <1>6, <2>1, <2>3, <3>1
    <2> QED BY <2>2, <2>3
  <1>11. CASE UpdatePolicy \/ AddDone \/ Reselect \/ RemoveDone \/ BuiltinDone
    BY <1>4, <1>5, <1>6, <1>11 DEF UpdatePolicy, AddDone, Reselect, RemoveDone, BuiltinDone
  <1>12. CASE Snapshot
    <2>1. dying' \in SUBSET Nodes /\ dying' \cap Serving = {}
      BY <1>12 DEF Snapshot, Serving, Usable, TypeOK
    <2>2. Group!Look(dying')
      BY <1>4, <1>5, <1>12, <2>1 DEF Snapshot, Group!Look, Closing
    <2> QED BY <2>1, <2>2 DEF Group!Next
  <1>13. CASE AddError \/ SelectNode
    <2>1. UNCHANGED <<plan, dying, Serving, Through, applied>> /\ spc \notin {"idle", "close"}
      BY <1>4, <1>5, <1>13 DEF AddError, SelectNode
    <2>2. applied' = FALSE
      BY <1>3, <2>1 DEF TypeOK
    <2>3. spc' = "idle" => Group!Next
      BY <1>9, <2>1, <2>2
    <2>4. spc' = "idle" \/ spc' = "gc"
      BY <1>13 DEF AddError, SelectNode
    <2> QED BY <1>6, <2>1, <2>3, <2>4
  <1>14. CASE CloseVictim
    <2>1. spc = "close" /\ spc' = "reselect" /\ UNCHANGED <<objVars, plan, applied, dying>>
          /\ Idle(Active(Obj(victim)), None, "idle")
      BY <1>14 DEF CloseVictim
    <2>2. Closing = victim /\ Closing' = None /\ victim # None
      BY <1>1, <2>1 DEF Closing, LeftInv, TypeOK
    <2>3. \A d \in Dials : dpc[d] = "open" /\ at[d][1] = victim => at[d] = Obj(victim)
      BY <2>1 DEF IInv, NoStrayConnection, ObjInv, Usable
    <2>4. ASSUME NEW d \in Dials PROVE d \in Active(Obj(victim)) <=> Through[d] = victim
      <3>1. CASE dpc[d] # "open"
        BY <2>2, <3>1 DEF Active, Through
      <3>2. CASE dpc[d] = "open"
        <4>1. Through[d] = at[d][1] /\ Obj(victim)[1] = victim
          BY <3>2 DEF Through, Obj
        <4> QED BY <2>3, <3>2, <4>1 DEF Active
      <3> QED BY <3>1, <3>2
    <2>5. ASSUME NEW d \in Dials
          PROVE  (IF dpc'[d] = "open" THEN at'[d][1] ELSE None)
                     = IF Through[d] = victim THEN None ELSE Through[d]
      <3>1. d # None
        BY NoneIsFree
      <3>2. CASE d \in Active(Obj(victim))
        BY <2>1, <2>4, <3>1, <3>2 DEF Idle
      <3>3. CASE d \notin Active(Obj(victim))
        <4>1. dpc'[d] = dpc[d] /\ at'[d] = at[d]
          BY <2>1, <3>1, <3>3 DEF Idle
        <4> QED BY <2>4, <3>3, <4>1 DEF Through
      <3> QED BY <3>2, <3>3
    <2>6. Through' = [d \in Dials |-> IF Through[d] = victim THEN None ELSE Through[d]]
      BY <2>5 DEF Through
    <2>7. Group!Cut
      BY <1>5, <2>1, <2>2, <2>6 DEF Group!Cut
    <2> QED BY <2>7 DEF Group!Next
  <1>15. ASSUME NEW n \in Nodes, AddNode(n)
         PROVE  Group!Next
    <2>1. n \notin present /\ n \in plan.members
      BY <1>15, Addable
    <2>2. /\ gen' = [gen EXCEPT ![n] = @ + 1] /\ present' = present \cup {n}
          /\ enabled' = enabled \cup {<<n, gen[n] + 1>>} /\ spc \in {"add", "builtin"}
          /\ UNCHANGED <<tomb, spc, plan, dying, applied, dialVars>>
      BY <1>15 DEF AddNode
    <2>3. gen'[n] = gen[n] + 1 /\ gen[n] \in Nat /\ \A m \in Nodes \ {n} : gen'[m] = gen[m]
      BY <2>2 DEF TypeOK, Gens
    <2>4. <<n, gen[n] + 1>> \notin tomb
      BY <2>3 DEF ObjInv
    <2>5. Usable(Obj(n))' /\ \A m \in Nodes \ {n} : Usable(Obj(m))' <=> Usable(Obj(m))
      BY <2>2, <2>3, <2>4 DEF Usable, Obj
    <2>6. Serving' = Serving \cup {n} /\ n \notin Serving
      BY <2>1, <2>2, <2>5 DEF Serving, TypeOK
    <2>7. Group!Admit(n)
      BY <1>4, <2>1, <2>2, <2>6 DEF Group!Admit, Closing
    <2> QED BY <2>7 DEF Group!Next
  <1>16. ASSUME NEW n \in Nodes, RemoveNode(n)
         PROVE  [Group!Next]_(Group!vars)
    <2>1. /\ spc = "remove" /\ n \in left
          /\ UNCHANGED <<gen, present, plan, dying, applied, dialVars>>
      BY <1>16 DEF RemoveNode
    <2>2. n \notin plan.members
      BY <2>1 DEF LeftInv, Removing
    <2>3. CASE n \in present
      <3>1. /\ enabled' = enabled \ {Obj(n)} /\ victim' = n /\ spc' = "close"
            /\ tomb' = IF n \in Builtin THEN tomb ELSE tomb \cup {Obj(n)}
        BY <1>16, <2>3 DEF RemoveNode
      <3>2. Serving' = Serving \ {n}
        BY <2>1, <3>1 DEF Serving, Usable, Obj
      <3>3. Group!Retire(n)
        BY <1>4, <2>1, <2>2, <3>1, <3>2 DEF Group!Retire, Closing
      <3> QED BY <3>3 DEF Group!Next
    <2>4. CASE n \notin present
      <3>1. UNCHANGED <<enabled, tomb, spc>>
        BY <1>16, <2>4 DEF RemoveNode
      <3> QED BY <1>4, <1>5, <1>6, <2>1, <3>1 DEF objVars
    <2> QED BY <2>3, <2>4
  <1> QED
    BY <1>7, <1>8, <1>10, <1>11, <1>12, <1>13, <1>14, <1>15, <1>16 DEF Sync

\* The group with its objects, tombstones and snapshots keeps the promise made to
\* its users.
THEOREM GroupImplements == Spec => ImplementsGroup
  <1>1. Init => Group!Init
    <2> SUFFICES ASSUME Init PROVE Group!Init
      OBVIOUS
    <2>1. plan.members \in SUBSET Nodes
      BY PlansArePlannable DEF Init, Plannable
    <2>2. Serving = {} /\ Closing = None /\ Through = [d \in Dials |-> None]
      BY DEF Init, Serving, Closing, Through
    <2> QED BY <2>1, <2>2 DEF Init, Group!Init
  <1>2. IInv /\ [Next]_vars => [Group!Next]_(Group!vars)
    <2> SUFFICES ASSUME IInv, [Next]_vars PROVE [Group!Next]_(Group!vars)
      OBVIOUS
    <2>1. CASE UNCHANGED vars
      <3>1. UNCHANGED <<objVars, syncVars>> /\ UNCHANGED Through
        BY <2>1 DEF vars, dialVars, Through
      <3> QED BY <3>1, MapFrame DEF Group!vars
    <2> QED BY <2>1, MapDial, MapProbe, MapSync DEF Next
  <1> QED BY <1>1, <1>2, Invariance, PTL DEF Spec, ImplementsGroup, Group!Spec
=============================================================================
