----------------------------- MODULE CoreProofs -----------------------------
(***************************************************************************)
(* Proofs about Core, for any rows and blacklists, any plans that have the *)
(* shape of plans, and any members that connections may outlive: its       *)
(* types, that no outbound goes while a member lists it, what a sync has   *)
(* done when it reports success, what it may fail for, and that updating a *)
(* running core disturbs no member that the plan keeps.                    *)
(*                                                                         *)
(* Every step either closes the core, or adds outbounds, or takes members  *)
(* away and then the outbounds that no remaining member lists.  A core     *)
(* that is updated is compared with the plan first; a new one has the      *)
(* plan's outbounds from the start, and loses none before it is started.   *)
(***************************************************************************)
EXTENDS Core, TLAPS

Table == [GroupTags -> [Ids -> {None} \cup Record]]

\* TagsLive for the outbounds o, the groups G and the members m.
Sound(o, G, m) ==
    /\ \A g \in G : o[g] # None
    /\ \A g \in G, i \in Ids : m[g][i] # None => \A t \in m[g][i].tags \ GroupTags : o[t] # None

Fits(o, G, m) ==
    /\ o = [t \in Tags |-> o[t]]
    /\ G \subseteq GroupTags
    /\ m \in Table
    /\ Sound(o, G, m)

HasBase(o) == \A t \in Base : o[t] # None

\* Only an instance is updated, and compared.
ModeInv ==
    /\ mode = "update" /\ pc # "idle" => running
    /\ pc = "compare" => mode = "update"

\* Direct and block are there from the start of a core to its end: addBuiltinMember does
\* not have to create them.
BaseLive == running \/ pc \in {"stale", "group", "members", "removal"} => HasBase(out)

\* The types of what is not in the core.
SyncOK ==
    /\ running \in BOOLEAN
    /\ pc \in {"idle", "plan", "compare", "boot", "stale", "group", "members", "removal"}
    /\ mode \in {"update", "create"}
    /\ mapping \in Mappings
    /\ excluded \subseteq Nodes
    /\ at \in Nat
    /\ seen \subseteq Ids /\ leaving \subseteq Ids
    /\ PlanShape(plan)
    /\ pc \in {"members", "removal"} => at \in DOMAIN plan.groups
    /\ pc = "members" => todo \subseteq DOMAIN Current.members
    /\ unnoticed \subseteq Tags
    /\ result \in {"none", "applied", "failed", "fault", "unstarted"}

IInv == SyncOK /\ Fits(out, groups, member) /\ ModeInv /\ BaseLive

-----------------------------------------------------------------------------
(* What the invariant says *)

LEMMA FitsIsTagsLive ==
    Fits(out, groups, member) =>
        /\ out = [t \in Tags |-> out[t]] /\ groups \subseteq GroupTags /\ member \in Table
        /\ TagsLive
  <1> SUFFICES ASSUME Fits(out, groups, member) PROVE TagsLive
    BY DEF Fits
  <1>1. \A g \in groups : Live(g)
    BY DEF Fits, Sound, Live
  <1>2. ASSUME NEW x \in Members PROVE \A t \in Of(x).tags \ GroupTags : Live(t)
    BY <1>2 DEF Fits, Sound, Live, Members, Of
  <1> QED BY <1>1, <1>2 DEF TagsLive

LEMMA InvImplies == IInv => TypeOK /\ TagsLive
  BY FitsIsTagsLive DEF IInv, SyncOK, TypeOK, Table

-----------------------------------------------------------------------------
(* Adding and removing *)

\* What is removed is listed by no member that is left.
LEMMA RemovalFits ==
    ASSUME NEW o, NEW G, NEW m, NEW tags, Fits(o, G, m)
    PROVE  /\ Fits(RemoveUnused(o, tags, G, m), G, m)
           /\ HasBase(o) => HasBase(RemoveUnused(o, tags, G, m))
  <1> DEFINE r == RemoveUnused(o, tags, G, m)
  <1>1. r = [t \in Tags |-> IF t \in tags \ (Base \cup Referenced(G, m)) THEN None ELSE o[t]]
    BY DEF RemoveUnused
  <1>2. \A t \in Tags : t \in Base \cup Referenced(G, m) => r[t] = o[t]
    BY <1>1
  <1>3. G \subseteq Tags /\ Base \subseteq Tags
    BY TagsAreNamed DEF Fits
  <1>4. \A g \in G : r[g] # None
    BY <1>2, <1>3 DEF Fits, Sound, Referenced
  <1>5. ASSUME NEW g \in G, NEW i \in Ids, m[g][i] # None, NEW t \in m[g][i].tags \ GroupTags
        PROVE  r[t] # None
    <2>1. o[t] # None
      BY <1>5 DEF Fits, Sound
    <2>2. m[g][i] \in Record
      BY <1>5 DEF Fits, Table
    <2>3. t \in Tags
      BY <2>2 DEF Record
    <2>4. <<g, i>> \in {y \in G \X Ids : m[y[1]][y[2]] # None}
      BY <1>5
    <2>5. t \in Referenced(G, m)
      BY <2>4 DEF Referenced
    <2> QED BY <1>2, <2>1, <2>3, <2>5
  <1>6. r = [t \in Tags |-> r[t]]
    BY <1>1
  <1>7. HasBase(o) => HasBase(r)
    BY <1>2, <1>3 DEF HasBase
  <1>8. Sound(r, G, m)
    BY <1>4, <1>5 DEF Sound
  <1> QED BY <1>6, <1>7, <1>8 DEF Fits

LEMMA MinusFits ==
    ASSUME NEW o, NEW G, NEW m, NEW gone, Fits(o, G, m)
    PROVE  Fits(o, G, Minus(m, gone))
  <1>1. Minus(m, gone) \in Table
    BY DEF Fits, Table, Minus
  <1>2. \A g \in G, i \in Ids : Minus(m, gone)[g][i] \in {None, m[g][i]}
    BY DEF Fits, Minus
  <1> QED BY <1>1, <1>2 DEF Fits, Sound

\* A member that is changed lists what it listed, or tags whose outbounds are there.
LEMMA MemberFits ==
    ASSUME NEW o, NEW G, NEW m, NEW n, Fits(o, G, m), n \in Table,
           \A g \in G, i \in Ids :
               n[g][i] = None \/ (m[g][i] # None /\ n[g][i].tags = m[g][i].tags)
               \/ \A t \in n[g][i].tags \ GroupTags : o[t] # None
    PROVE  Fits(o, G, n)
  BY DEF Fits, Sound

LEMMA DepsOf ==
    ASSUME NEW x, MemberShape(x)
    PROVE  /\ Len(x.deps) \in Nat /\ DOMAIN x.deps = 1..Len(x.deps)
           /\ \A k \in DOMAIN x.deps : x.deps[k].tag \in Tags /\ x.deps[k].opt # None
  <1> DEFINE S == [tag : Tags, opt : {x.deps[k].opt : k \in DOMAIN x.deps} \ {None}]
  <1>1. x.deps \in Seq(S)
    BY DEF MemberShape
  <1>2. \A y \in S : y.tag \in Tags /\ y.opt # None
    OBVIOUS
  <1> HIDE DEF S
  <1>3. /\ Len(x.deps) \in Nat /\ DOMAIN x.deps = 1..Len(x.deps)
        /\ \A k \in 1..Len(x.deps) : x.deps[k] \in S
    BY <1>1
  <1> QED BY <1>2, <1>3

\* More outbounds do no harm.
LEMMA CreatedFits ==
    ASSUME NEW o, NEW G, NEW m, NEW x, NEW K, MemberShape(x), K \subseteq Positions(x),
           Fits(o, G, m)
    PROVE  /\ Fits(Created(o, x, K), G, m)
           /\ HasBase(o) => HasBase(Created(o, x, K))
           /\ \A k \in K : Created(o, x, K)[Part(x, k).tag] # None
  <1> DEFINE c == Created(o, x, K)
  <1>1. \A k \in Positions(x) : Part(x, k).tag \in Tags /\ Part(x, k).opt # None
    BY DepsOf DEF MemberShape, Positions, Part
  <1>2. c = [t \in Tags |-> IF o[t] = None /\ \E k \in K : Part(x, k).tag = t
                            THEN Part(x, CHOOSE k \in K : Part(x, k).tag = t).opt ELSE o[t]]
    BY DEF Created
  <1>3. ASSUME NEW t \in Tags, \E k \in K : Part(x, k).tag = t PROVE c[t] # None
    <2> DEFINE j == CHOOSE k \in K : Part(x, k).tag = t
    <2>1. j \in K
      BY <1>3
    <2>2. Part(x, j).opt # None
      BY <1>1, <2>1
    <2> QED BY <1>2, <1>3, <2>2
  <1>4. \A t \in Tags : o[t] # None => c[t] # None
    BY <1>2
  <1>5. c = [t \in Tags |-> c[t]]
    BY <1>2
  <1>6. G \subseteq Tags /\ Base \subseteq Tags
    BY TagsAreNamed DEF Fits
  <1>7. \A g \in G, i \in Ids : m[g][i] # None => m[g][i].tags \subseteq Tags
    BY DEF Fits, Table, Record
  <1>8. Sound(c, G, m)
    BY <1>4, <1>6, <1>7 DEF Fits, Sound
  <1>9. HasBase(o) => HasBase(c)
    BY <1>4, <1>6 DEF HasBase
  <1>10. \A k \in K : c[Part(x, k).tag] # None
    BY <1>1, <1>3
  <1> QED BY <1>5, <1>8, <1>9, <1>10 DEF Fits

LEMMA CloseFits ==
    ASSUME Close
    PROVE  Fits(out', groups', member') /\ running' = FALSE /\ unnoticed' = {}
  <1>1. NoMembers \in Table
    BY DEF NoMembers, Table
  <1>2. out' = [t \in Tags |-> out'[t]]
    BY DEF Close
  <1> QED BY <1>1, <1>2 DEF Close, Fits, Sound

LEMMA FailAsInv ==
    ASSUME IInv, NEW why \in {"failed", "fault", "unstarted"}, FailAs(why), PlanShape(plan')
    PROVE  IInv'
  <1>1. Fits(out', groups', member') /\ running' = FALSE /\ unnoticed' = {}
    BY CloseFits DEF FailAs
  <1>2. /\ pc' = "idle" /\ mode' = mode /\ excluded' = {} /\ mapping' = mapping
        /\ result' = why /\ at' = 1 /\ seen' = {} /\ leaving' = {}
    BY DEF FailAs, Goto, Leave
  <1>3. SyncOK'
    BY <1>1, <1>2 DEF IInv, SyncOK
  <1> QED BY <1>1, <1>2, <1>3 DEF IInv, ModeInv, BaseLive

LEMMA FailInv ==
    ASSUME IInv, Fail, PlanShape(plan')
    PROVE  IInv'
  BY FailAsInv DEF Fail

LEMMA ExcludeInv ==
    ASSUME IInv, NEW n \in Nodes, NEW o, Exclude(n, o), PlanShape(plan'),
           Fits(o, groups, member), running => HasBase(o), pc # "idle"
    PROVE  IInv'
  <1>1. CASE n \in excluded
    BY <1>1, FailInv DEF Exclude
  <1>2. CASE n \notin excluded
    <2>1. /\ excluded' = excluded \cup {n} /\ pc' = "plan" /\ mode' = mode
          /\ at' = 1 /\ seen' = {} /\ leaving' = {} /\ UNCHANGED <<mapping, result>>
          /\ IF mode = "create" THEN Close
             ELSE out' = o /\ UNCHANGED <<groups, member, bookVars>>
      BY <1>2 DEF Exclude, Goto, Leave
    <2>2. CASE mode = "create"
      <3>1. Fits(out', groups', member') /\ running' = FALSE /\ unnoticed' = {}
        BY <2>1, <2>2, CloseFits
      <3>2. SyncOK'
        BY <2>1, <3>1 DEF IInv, SyncOK
      <3> QED BY <2>1, <2>2, <3>1, <3>2 DEF IInv, ModeInv, BaseLive
    <2>3. CASE mode # "create"
      <3>1. out' = o /\ UNCHANGED <<groups, member, running, unnoticed>>
        BY <2>1, <2>3 DEF bookVars
      <3>2. SyncOK'
        BY <2>1, <3>1 DEF IInv, SyncOK
      <3>3. Fits(out', groups', member') /\ BaseLive'
        BY <2>1, <3>1 DEF BaseLive
      <3>4. ModeInv'
        BY <2>1, <3>1 DEF IInv, ModeInv
      <3> QED BY <3>2, <3>3, <3>4 DEF IInv
    <2> QED BY <2>2, <2>3
  <1> QED BY <1>1, <1>2

-----------------------------------------------------------------------------
(* The start of a sync *)

LEMMA NoPlanShape == PlanShape(NoPlan)
  <1>1. DOMAIN <<>> = {}
    OBVIOUS
  <1>2. NoPlan.out = <<>> /\ NoPlan.owner = <<>> /\ NoPlan.groups = <<>>
    BY DEF NoPlan
  <1> QED BY <1>1, <1>2 DEF PlanShape

LEMMA InitInv == Init => IInv
  <1> SUFFICES ASSUME Init PROVE IInv
    OBVIOUS
  <1>1. PlanShape(plan)
    BY NoPlanShape DEF Init
  <1>2. NoMembers \in Table
    BY DEF NoMembers, Table
  <1>3. out = [t \in Tags |-> out[t]]
    BY DEF Init
  <1>4. Fits(out, groups, member)
    BY <1>2, <1>3 DEF Init, Fits, Sound
  <1>5. SyncOK
    BY <1>1 DEF Init, SyncOK
  <1> QED BY <1>4, <1>5 DEF Init, IInv, ModeInv, BaseLive

LEMMA BeginInv ==
    ASSUME IInv, NEW m \in Mappings, NEW same \in BOOLEAN, Begin(m, same)
    PROVE  IInv'
  <1>1. PlanShape(plan')
    BY NoPlanShape DEF Begin
  <1>2. /\ pc' = "plan" /\ mapping' = m /\ excluded' = {} /\ result' = "none"
        /\ UNCHANGED <<at, seen, leaving>>
    BY DEF Begin, passVars
  <1>3. CASE running /\ same
    <2>1. mode' = "update" /\ UNCHANGED <<out, groups, member, running, unnoticed>>
      BY <1>3 DEF Begin, coreVars, bookVars
    <2>2. SyncOK'
      BY <1>1, <1>2, <2>1 DEF IInv, SyncOK
    <2> QED BY <1>2, <1>3, <2>1, <2>2 DEF IInv, ModeInv, BaseLive
  <1>4. CASE ~(running /\ same)
    <2>1. mode' = "create" /\ Close
      BY <1>4 DEF Begin
    <2>2. Fits(out', groups', member') /\ running' = FALSE /\ unnoticed' = {}
      BY <2>1, CloseFits
    <2>3. SyncOK'
      BY <1>1, <1>2, <2>1, <2>2 DEF IInv, SyncOK
    <2> QED BY <1>2, <2>1, <2>2, <2>3 DEF IInv, ModeInv, BaseLive
  <1> QED BY <1>3, <1>4

LEMMA StopInv ==
    ASSUME IInv, Stop
    PROVE  IInv'
  <1>1. Fits(out', groups', member') /\ running' = FALSE /\ unnoticed' = {}
    BY CloseFits DEF Stop
  <1>2. /\ pc = "idle" /\ result' = "none"
        /\ UNCHANGED <<at, seen, leaving, pc, mode, mapping, excluded, plan>>
    BY DEF Stop, passVars
  <1>3. SyncOK'
    BY <1>1, <1>2 DEF IInv, SyncOK
  <1> QED BY <1>1, <1>2, <1>3 DEF IInv, ModeInv, BaseLive

LEMMA BuildPlanInv ==
    ASSUME IInv, NEW p \in PlansNow, BuildPlan(p)
    PROVE  IInv'
  <1>1. PlanShape(p) /\ (p.err.what = "node" => p.err.node \in Nodes)
    BY PlansHaveShape DEF IInv, SyncOK, PlansNow
  <1>2. PlanShape(plan') /\ pc = "plan"
    BY <1>1 DEF BuildPlan
  <1>3. CASE p.err.what = "cycle"
    <2>1. Fail
      BY <1>3 DEF BuildPlan
    <2> QED BY <1>2, <2>1, FailInv
  <1>4. CASE p.err.what = "node"
    <2>1. Exclude(p.err.node, out)
      BY <1>4 DEF BuildPlan
    <2>2. Fits(out, groups, member) /\ (running => HasBase(out))
      BY DEF IInv, BaseLive
    <2> QED BY <1>1, <1>2, <1>4, <2>1, <2>2, ExcludeInv
  <1>5. CASE p.err.what \notin {"cycle", "node"}
    <2>1. /\ pc' = IF mode = "update" THEN "compare" ELSE "boot"
          /\ UNCHANGED <<mode, out, groups, member, running, unnoticed, at, seen, leaving,
                         mapping, excluded, result>>
      BY <1>5 DEF BuildPlan, Goto, coreVars, bookVars, passVars
    <2>2. SyncOK'
      BY <1>2, <2>1 DEF IInv, SyncOK
    <2>3. ModeInv' /\ BaseLive'
      BY <1>2, <2>1 DEF IInv, ModeInv, BaseLive, HasBase
    <2> QED BY <2>1, <2>2, <2>3 DEF IInv
  <1> QED BY <1>3, <1>4, <1>5

-----------------------------------------------------------------------------
(* A plan is applied *)

LEMMA CompareInv ==
    ASSUME IInv, Compare
    PROVE  IInv'
  <1>1. pc = "compare" /\ UNCHANGED <<at, seen, leaving, mapping, plan, result>>
    BY DEF Compare, passVars
  <1>2. CASE Changed # {}
    <2>1. Close /\ pc' = "plan" /\ mode' = "create" /\ excluded' = {}
      BY <1>2 DEF Compare
    <2>2. Fits(out', groups', member') /\ running' = FALSE /\ unnoticed' = {}
      BY <2>1, CloseFits
    <2>3. SyncOK'
      BY <1>1, <2>1, <2>2 DEF IInv, SyncOK
    <2> QED BY <2>1, <2>2, <2>3 DEF IInv, ModeInv, BaseLive
  <1>3. CASE Changed = {}
    <2>1. /\ pc' = "stale" /\ UNCHANGED <<mode, out, groups, member, running, excluded>>
          /\ unnoticed' = {t \in unnoticed \cup (DOMAIN plan.out \ DOMAIN inst) : out[t] # None}
      BY <1>3 DEF Compare, Goto, coreVars
    <2>2. unnoticed' \subseteq Tags
      BY <2>1 DEF IInv, SyncOK, PlanShape
    <2>3. SyncOK'
      BY <1>1, <2>1, <2>2 DEF IInv, SyncOK
    <2>4. ModeInv' /\ BaseLive'
      BY <1>1, <2>1 DEF IInv, ModeInv, BaseLive
    <2> QED BY <2>1, <2>3, <2>4 DEF IInv
  <1> QED BY <1>2, <1>3

LEMMA PlannedGroups == SyncOK => PlannedTags \subseteq GroupTags
  BY DEF SyncOK, PlanShape, PlannedTags, TagsOfPlan

LEMMA BootInv ==
    ASSUME IInv, Boot
    PROVE  IInv'
  <1>1. /\ pc = "boot" /\ pc' = "stale" /\ out' = Booted /\ groups' = PlannedTags
        /\ member' = NoMembers
        /\ UNCHANGED <<mode, running, unnoticed, at, seen, leaving, mapping, excluded, plan,
                       result>>
    BY DEF Boot, Goto, bookVars, passVars, syncVars
  <1>2. PlannedTags \subseteq GroupTags /\ PlannedTags \subseteq Tags /\ Base \subseteq Tags
    BY TagsAreNamed, PlannedGroups DEF IInv
  <1>3. out' = [t \in Tags |-> out'[t]]
    BY <1>1 DEF Booted
  <1>4. \A t \in DOMAIN plan.out : plan.out[t] # None
    BY DEF IInv, SyncOK, PlanShape
  <1>5. (\A t \in PlannedTags : out'[t] # None) /\ HasBase(out')
    BY <1>1, <1>2, <1>4, NoneIsNothing DEF Booted, HasBase
  <1>6. NoMembers \in Table /\ \A g \in GroupTags, i \in Ids : NoMembers[g][i] = None
    BY DEF NoMembers, Table
  <1>7. Fits(out', groups', member')
    BY <1>1, <1>2, <1>3, <1>5, <1>6 DEF Fits, Sound
  <1>8. SyncOK'
    BY <1>1 DEF IInv, SyncOK
  <1> QED BY <1>1, <1>5, <1>7, <1>8 DEF IInv, ModeInv, BaseLive

LEMMA BootRefusedInv ==
    ASSUME IInv, NEW t \in Tags, BootRefused(t)
    PROVE  IInv'
  <1>1. PlanShape(plan') /\ pc = "boot"
    BY DEF BootRefused, IInv, SyncOK
  <1>2. CASE t \in DOMAIN plan.owner
    <2>1. Exclude(plan.owner[t], out)
      BY <1>2 DEF BootRefused
    <2>2. plan.owner[t] \in Nodes
      BY <1>2 DEF IInv, SyncOK, PlanShape
    <2>3. Fits(out, groups, member) /\ (running => HasBase(out))
      BY DEF IInv, BaseLive
    <2> QED BY <1>1, <2>1, <2>2, <2>3, ExcludeInv
  <1>3. CASE t \notin DOMAIN plan.owner
    <2>1. Fail
      BY <1>3 DEF BootRefused
    <2> QED BY <1>1, <2>1, FailInv
  <1> QED BY <1>2, <1>3

\* A step of the pass over the groups that stays inside it.
LEMMA PassInv ==
    ASSUME IInv, UNCHANGED <<mode, running, unnoticed, mapping, excluded, plan, result>>,
           pc \in {"stale", "group", "members", "removal"},
           pc' \in {"stale", "group", "members", "removal"},
           at' \in Nat, seen' \subseteq Ids, leaving' \subseteq Ids,
           pc' \in {"members", "removal"} => at' \in DOMAIN plan.groups,
           pc' = "members" => todo' \subseteq DOMAIN plan.groups[at'].members,
           Fits(out', groups', member'), HasBase(out')
    PROVE  IInv'
  <1>1. SyncOK'
    BY DEF IInv, SyncOK, Current
  <1> QED BY <1>1 DEF IInv, ModeInv, BaseLive

LEMMA RemoveStaleInv ==
    ASSUME IInv, NEW g \in Tags, RemoveStale(g)
    PROVE  IInv'
  <1> DEFINE o == [out EXCEPT ![g] = None]
             tags == TagsOf({x \in {g} \X Ids : member[g][x[2]] # None})
  <1>1. /\ pc = "stale" /\ g \in groups /\ groups' = groups \ {g}
        /\ member' = [member EXCEPT ![g] = NoMembers[g]]
        /\ out' = RemoveUnused(o, tags, groups', member')
        /\ UNCHANGED <<mode, running, unnoticed, mapping, excluded, plan, result,
                       pc, at, seen, todo, leaving>>
    BY DEF RemoveStale, bookVars, passVars, syncVars
  <1>2. g \in GroupTags \ Base
    BY <1>1, TagsAreNamed DEF IInv, Fits
  <1>3. member' \in Table /\ \A h \in groups' : member'[h] = member[h]
    BY <1>1, <1>2 DEF IInv, Fits, Table, NoMembers
  <1>4. o = [t \in Tags |-> IF t = g THEN None ELSE out[t]]
    BY DEF IInv, Fits
  <1>5. \A t \in Tags \ {g} : o[t] = out[t]
    BY <1>4
  <1>6. Sound(o, groups', member')
    <2>1. ASSUME NEW h \in groups' PROVE o[h] # None
      BY <1>1, <1>5, <2>1, TagsAreNamed DEF IInv, Fits, Sound
    <2>2. ASSUME NEW h \in groups', NEW i \in Ids, member'[h][i] # None,
                 NEW t \in member'[h][i].tags \ GroupTags
          PROVE  o[t] # None
      <3>1. member[h][i] = member'[h][i] /\ h \in groups /\ h \in GroupTags
        BY <1>1, <1>3 DEF IInv, Fits
      <3>2. out[t] # None
        BY <2>2, <3>1 DEF IInv, Fits, Sound
      <3>3. t \in Tags
        BY <2>2, <3>1 DEF IInv, Fits, Table, Record
      <3> QED BY <1>2, <1>5, <3>2, <3>3
    <2> QED BY <2>1, <2>2 DEF Sound
  <1>7. Fits(o, groups', member')
    BY <1>1, <1>3, <1>4, <1>6 DEF IInv, Fits
  <1>8. HasBase(o)
    BY <1>1, <1>2, <1>5, TagsAreNamed DEF IInv, BaseLive, HasBase
  <1>9. Fits(out', groups', member') /\ HasBase(out')
    BY <1>1, <1>7, <1>8, RemovalFits
  <1> QED BY <1>1, <1>9, PassInv DEF IInv, SyncOK

\* Members are collected, from m on.
LEMMA CollectFits ==
    ASSUME NEW m, NEW gone, NEW tags, Fits(out, groups, m), HasBase(out)
    PROVE  LET n == Minus(m, gone)
               o == RemoveUnused(out, tags, groups, n)
           IN  Fits(o, groups, n) /\ HasBase(o)
  BY MinusFits, RemovalFits

LEMMA StaleDoneInv ==
    ASSUME IInv, NEW gone, StaleDone(gone)
    PROVE  IInv'
  <1>1. /\ pc = "stale" /\ pc' = "group" /\ groups' = groups
        /\ member' = Minus(member, gone)
        /\ out' = RemoveUnused(out, TagsOf(gone), groups, Minus(member, gone))
        /\ UNCHANGED <<mode, running, unnoticed, mapping, excluded, plan, result,
                       at, seen, todo, leaving>>
    BY DEF StaleDone, Collect, Goto, bookVars, passVars, syncVars
  <1>2. Fits(out', groups', member') /\ HasBase(out')
    BY <1>1, CollectFits DEF IInv, BaseLive
  <1> QED BY <1>1, <1>2, PassInv DEF IInv, SyncOK

LEMMA EnterGroupInv ==
    ASSUME IInv, EnterGroup
    PROVE  IInv'
  <1> DEFINE g == Current.tag
  <1>1. /\ pc = "group" /\ pc' = "members" /\ at \in DOMAIN plan.groups
        /\ groups' = groups \cup {g}
        /\ member' = IF g \in groups THEN member ELSE [member EXCEPT ![g] = NoMembers[g]]
        /\ out' = IF g \in groups /\ out[g] # None THEN out ELSE [out EXCEPT ![g] = DynamicOption]
        /\ UNCHANGED <<mode, running, unnoticed, mapping, excluded, plan, result, at>>
    BY DEF EnterGroup, Goto, bookVars, syncVars
  <1>2. g \in GroupTags /\ g \in Tags
    BY <1>1, TagsAreNamed DEF IInv, SyncOK, PlanShape, Current
  <1>3. seen' \subseteq Ids /\ leaving' \subseteq Ids
    BY DEF EnterGroup, Present, Unlisted
  <1>4. todo' \subseteq DOMAIN plan.groups[at'].members
    BY <1>1 DEF EnterGroup, Current
  <1>5. member' \in Table
    BY <1>1, <1>2 DEF IInv, Fits, Table, NoMembers
  <1>6. out' = [t \in Tags |-> IF t = g /\ ~(g \in groups /\ out[g] # None)
                               THEN DynamicOption ELSE out[t]]
    BY <1>1 DEF IInv, Fits
  <1>7. out'[g] # None /\ \A t \in Tags : out[t] # None => out'[t] # None
    BY <1>2, <1>6, NoneIsNothing
  <1>8. \A h \in groups', i \in Ids : member'[h][i] # None =>
            h \in groups /\ member'[h][i] = member[h][i]
    BY <1>1, <1>2 DEF IInv, Fits, Table, NoMembers
  <1>9. Sound(out', groups', member')
    <2>1. ASSUME NEW h \in groups' PROVE out'[h] # None
      BY <1>1, <1>2, <1>7, <2>1, TagsAreNamed DEF IInv, Fits, Sound
    <2>2. ASSUME NEW h \in groups', NEW i \in Ids, member'[h][i] # None,
                 NEW t \in member'[h][i].tags \ GroupTags
          PROVE  out'[t] # None
      <3>1. h \in groups /\ h \in GroupTags /\ member'[h][i] = member[h][i]
        BY <1>8, <2>2 DEF IInv, Fits
      <3>2. out[t] # None
        BY <2>2, <3>1 DEF IInv, Fits, Sound
      <3>3. t \in Tags
        BY <2>2, <3>1 DEF IInv, Fits, Table, Record
      <3> QED BY <1>7, <3>2, <3>3
    <2> QED BY <2>1, <2>2 DEF Sound
  <1>10. out' = [t \in Tags |-> out'[t]]
    BY <1>6
  <1>11. Fits(out', groups', member')
    BY <1>1, <1>2, <1>5, <1>9, <1>10 DEF IInv, Fits
  <1>12. HasBase(out')
    BY <1>1, <1>7, TagsAreNamed DEF IInv, BaseLive, HasBase
  <1> QED BY <1>1, <1>3, <1>4, <1>11, <1>12, PassInv DEF IInv, SyncOK

LEMMA CurrentShape ==
    ASSUME SyncOK, pc = "members", NEW k \in todo
    PROVE  MemberShape(Current.members[k])
  BY DEF SyncOK, PlanShape, Current

LEMMA AddMemberInv ==
    ASSUME IInv, AddMember
    PROVE  IInv'
  <1>1. /\ pc = "members"
        /\ UNCHANGED <<groups, at, seen, leaving, mode, running, unnoticed, mapping, excluded,
                       plan, result, pc>>
    BY DEF AddMember, bookVars, syncVars
  <1>2. PICK k \in todo :
            /\ out' = Created(out, Current.members[k], Positions(Current.members[k]))
            /\ member' = [member EXCEPT ![Current.tag][Current.members[k].id] =
                             [tag |-> Current.members[k].tag,
                              tags |-> TagsUsed(Current.members[k]), state |-> "up"]]
            /\ todo' = todo \ {k}
    BY DEF AddMember
  <1> DEFINE x == Current.members[k]
             g == Current.tag
             new == [tag |-> x.tag, tags |-> TagsUsed(x), state |-> "up"]
  <1>3. MemberShape(x)
    BY <1>1, CurrentShape DEF IInv
  <1>4. at \in DOMAIN plan.groups /\ g \in GroupTags
    BY <1>1 DEF IInv, SyncOK, PlanShape, Current
  <1>5. /\ Fits(out', groups, member) /\ (HasBase(out) => HasBase(out'))
        /\ \A j \in Positions(x) : out'[Part(x, j).tag] # None
    BY <1>2, <1>3, CreatedFits DEF IInv
  <1>6. TagsUsed(x) \subseteq Tags
    BY <1>3, DepsOf DEF MemberShape, TagsUsed
  <1>7. \A t \in TagsUsed(x) : out'[t] # None
    <2>1. Len(x.deps) \in Nat /\ DOMAIN x.deps = 1..Len(x.deps)
      BY <1>3, DepsOf
    <2>2. out'[x.tag] # None
      <3>1. Len(x.deps) + 1 \in Positions(x) /\ Len(x.deps) + 1 \notin DOMAIN x.deps
        BY <2>1 DEF Positions
      <3>2. Part(x, Len(x.deps) + 1).tag = x.tag
        BY <3>1 DEF Part
      <3> QED BY <1>5, <3>1, <3>2
    <2>3. ASSUME NEW j \in DOMAIN x.deps, x.deps[j].tag # x.tag PROVE out'[x.deps[j].tag] # None
      <3>1. j \in Positions(x) /\ Part(x, j) = x.deps[j]
        BY <2>3 DEF Positions, Part
      <3> QED BY <1>5, <3>1
    <2> QED BY <2>2, <2>3 DEF TagsUsed
  <1>8. new \in Record /\ x.id \in Ids
    BY <1>3, <1>6 DEF MemberShape, Record
  <1>9. member' \in Table
    BY <1>2, <1>4, <1>8 DEF IInv, Fits, Table
  <1>10. \A h \in groups, i \in Ids :
             member'[h][i] = member[h][i] \/ member'[h][i] = new
    BY <1>2, <1>4, <1>8 DEF IInv, Fits, Table
  <1>11. Fits(out', groups', member')
    <2>1. \A h \in groups, i \in Ids :
              \/ member'[h][i] = None
              \/ member[h][i] # None /\ member'[h][i].tags = member[h][i].tags
              \/ \A t \in member'[h][i].tags \ GroupTags : out'[t] # None
      BY <1>7, <1>10
    <2>2. Fits(out', groups, member')
      BY <1>5, <1>9, <2>1, MemberFits
    <2> QED BY <1>1, <2>2
  <1>12. HasBase(out')
    BY <1>1, <1>5 DEF IInv, BaseLive
  <1>13. todo' \subseteq DOMAIN plan.groups[at'].members
    BY <1>1, <1>2 DEF IInv, SyncOK, Current
  <1> QED BY <1>1, <1>4, <1>11, <1>12, <1>13, PassInv DEF IInv, SyncOK

LEMMA AddMemberFailsInv ==
    ASSUME IInv, AddMemberFails
    PROVE  IInv'
  <1>1. pc = "members" /\ PlanShape(plan')
    BY DEF AddMemberFails, IInv, SyncOK
  <1>2. PICK k \in todo : \E stuck \in Stuck(Current.members[k]) :
            \/ Fail
            \/ \E n \in Nodes :
                  Exclude(n, Created(out, Current.members[k],
                                     {j \in Positions(Current.members[k]) : j < stuck}))
    BY DEF AddMemberFails
  <1>3. CASE Fail
    BY <1>1, <1>3, FailInv
  <1>4. ASSUME NEW stuck, NEW n \in Nodes,
               Exclude(n, Created(out, Current.members[k],
                                  {j \in Positions(Current.members[k]) : j < stuck}))
        PROVE  IInv'
    <2> DEFINE K == {j \in Positions(Current.members[k]) : j < stuck}
               o == Created(out, Current.members[k], K)
    <2>1. MemberShape(Current.members[k]) /\ K \subseteq Positions(Current.members[k])
      BY <1>1, CurrentShape DEF IInv
    <2>2. Fits(o, groups, member) /\ (HasBase(out) => HasBase(o))
      BY <2>1, CreatedFits DEF IInv
    <2>3. HasBase(out)
      BY <1>1 DEF IInv, BaseLive
    <2> HIDE DEF o
    <2>4. Exclude(n, o)
      BY <1>4 DEF o
    <2> QED BY <1>1, <2>2, <2>3, <2>4, ExcludeInv
  <1> QED BY <1>2, <1>3, <1>4

LEMMA MembersAddedInv ==
    ASSUME IInv, MembersAdded
    PROVE  IInv'
  <1>1. /\ pc = "members" /\ pc' = "removal"
        /\ UNCHANGED <<out, groups, member, at, seen, leaving, todo, mode, running, unnoticed,
                       mapping, excluded, plan, result>>
    BY DEF MembersAdded, Goto, coreVars, bookVars, passVars, syncVars
  <1>2. Fits(out', groups', member') /\ HasBase(out')
    BY <1>1 DEF IInv, BaseLive, Fits, Sound, HasBase
  <1> QED BY <1>1, <1>2, PassInv DEF IInv, SyncOK

LEMMA RemoveMemberInv ==
    ASSUME IInv, NEW i \in leaving, NEW gone, RemoveMember(i, gone)
    PROVE  IInv'
  <1> DEFINE g == Current.tag
  <1>1. /\ pc = "removal" /\ leaving' = leaving \ {i}
        /\ UNCHANGED <<groups, at, seen, todo, mode, running, unnoticed, mapping, excluded,
                       plan, result, pc>>
    BY DEF RemoveMember, bookVars, syncVars, coreVars
  <1>2. g \in GroupTags /\ i \in Ids
    BY <1>1 DEF IInv, SyncOK, PlanShape, Current
  <1>3. Fits(out, groups, member) /\ HasBase(out)
    BY <1>1 DEF IInv, BaseLive
  \* A member that is marked lists what it listed.
  <1>4. ASSUME NEW s \in {"off", "tomb"}, member[g][i] # None
        PROVE  Fits(out, groups, [member EXCEPT ![g][i].state = s])
    <2> DEFINE n == [member EXCEPT ![g][i].state = s]
    <2>1. member[g][i] \in Record
      BY <1>2, <1>3, <1>4 DEF Fits, Table
    <2>2. [member[g][i] EXCEPT !.state = s]
              \in Record
          /\ [member[g][i] EXCEPT !.state = s].tags = member[g][i].tags
      BY <2>1 DEF Record
    <2>3. n = [member EXCEPT ![g] = [member[g] EXCEPT ![i] = [member[g][i] EXCEPT !.state = s]]]
      OBVIOUS
    <2>4. n \in Table
      BY <1>2, <1>3, <2>2, <2>3 DEF Fits, Table
    <2>5. \A h \in groups, j \in Ids :
              n[h][j] = member[h][j] \/ (h = g /\ j = i /\ n[h][j].tags = member[g][i].tags)
      BY <1>2, <1>3, <2>2, <2>3 DEF Fits, Table
    <2>6. \A h \in groups, j \in Ids :
              n[h][j] = None \/ (member[h][j] # None /\ n[h][j].tags = member[h][j].tags)
      BY <1>4, <2>5
    <2> HIDE DEF n
    <2>7. Fits(out, groups, n)
      BY <1>3, <2>4, <2>6, MemberFits
    <2> QED BY <2>7 DEF n
  <1>5. Fits(out', groups', member') /\ HasBase(out')
    <2>1. CASE UNCHANGED coreVars
      BY <1>3, <2>1 DEF coreVars, Fits, Sound, HasBase
    <2>2. CASE /\ member[g][i] # None /\ out' = out
               /\ member' = [member EXCEPT ![g][i].state = "off"]
      BY <1>1, <1>3, <1>4, <2>2
    <2>3. ASSUME member[g][i] # None,
                 member' = Minus([member EXCEPT ![g][i].state = "tomb"], gone),
                 out' = RemoveUnused(out, TagsOf(gone), groups, member')
          PROVE  Fits(out', groups', member') /\ HasBase(out')
      BY <1>1, <1>3, <1>4, <2>3, CollectFits
    <2> QED BY <2>1, <2>2, <2>3 DEF RemoveMember
  <1> QED BY <1>1, <1>5, PassInv DEF IInv, SyncOK

LEMMA GroupDoneInv ==
    ASSUME IInv, NEW gone, GroupDone(gone)
    PROVE  IInv'
  <1> DEFINE g == Current.tag
  <1>1. /\ pc = "removal" /\ pc' = "group" /\ at' = at + 1 /\ seen' = {}
        /\ member' = Minus(WithBuiltins, gone)
        /\ out' = RemoveUnused(out, TagsOf(gone), groups, member')
        /\ UNCHANGED <<groups, todo, leaving, mode, running, unnoticed, mapping, excluded,
                       plan, result>>
    BY DEF GroupDone, Goto, bookVars, syncVars
  <1>2. g \in GroupTags /\ at \in DOMAIN plan.groups
    BY <1>1 DEF IInv, SyncOK, PlanShape, Current
  <1>3. \A m \in Builtins : m.id \in Base
    BY <1>2 DEF IInv, SyncOK, PlanShape, MemberShape, Current, Builtins
  <1>4. Fits(out, groups, member) /\ HasBase(out)
    BY <1>1 DEF IInv, BaseLive
  <1>5. WithBuiltins =
            [member EXCEPT ![g] =
                [i \in Ids |-> IF \E m \in Builtins : m.id = i
                               THEN [tag |-> i, tags |-> {i}, state |-> "up"] ELSE member[g][i]]]
    BY DEF WithBuiltins
  <1>6. \A i \in Base : [tag |-> i, tags |-> {i}, state |-> "up"]
            \in Record
    BY TagsAreNamed DEF Record
  <1>7. WithBuiltins \in Table
    BY <1>2, <1>3, <1>4, <1>5, <1>6 DEF Fits, Table
  <1>8. \A h \in groups, i \in Ids :
            \/ WithBuiltins[h][i] = member[h][i]
            \/ i \in Base /\ WithBuiltins[h][i].tags = {i}
    BY <1>2, <1>3, <1>4, <1>5 DEF Fits, Table
  <1>9. \A h \in groups, i \in Ids :
            \/ WithBuiltins[h][i] = None
            \/ member[h][i] # None /\ WithBuiltins[h][i].tags = member[h][i].tags
            \/ \A t \in WithBuiltins[h][i].tags \ GroupTags : out[t] # None
    BY <1>4, <1>8 DEF HasBase
  <1>10. Fits(out, groups, WithBuiltins)
    BY <1>4, <1>7, <1>9, MemberFits
  <1>11. Fits(out', groups', member') /\ HasBase(out')
    BY <1>1, <1>4, <1>10, CollectFits
  <1>12. at' \in Nat
    BY <1>1 DEF IInv, SyncOK
  <1> QED BY <1>1, <1>11, <1>12, PassInv DEF IInv, SyncOK

LEMMA AppliedInv ==
    ASSUME IInv, Applied
    PROVE  IInv'
  <1>1. /\ pc = "group" /\ pc' = "idle" /\ running' = TRUE /\ result' = "applied"
        /\ excluded' = {} /\ at' = 1 /\ seen' = {} /\ leaving' = {}
        /\ UNCHANGED <<out, groups, member, unnoticed, mapping, plan, mode>>
    BY DEF Applied, Leave, Goto, coreVars
  <1>2. SyncOK'
    BY <1>1 DEF IInv, SyncOK
  <1>3. Fits(out', groups', member') /\ HasBase(out')
    BY <1>1 DEF IInv, BaseLive
  <1> QED BY <1>1, <1>2, <1>3 DEF IInv, ModeInv, BaseLive

LEMMA EndsInv ==
    ASSUME IInv, SelectFails \/ StartFails \/ Fault
    PROVE  IInv'
  <1>1. PICK why \in {"failed", "fault", "unstarted"} : FailAs(why) /\ plan' = plan
    BY DEF SelectFails, StartFails, Fault, QueryFails, BootFails, GroupFails, RemovalFails, Fail
  <1> QED BY <1>1, FailAsInv DEF IInv, SyncOK

-----------------------------------------------------------------------------
LEMMA StutterInv ==
    ASSUME IInv, UNCHANGED vars
    PROVE  IInv'
  <1>1. UNCHANGED <<out, groups, member, running, unnoticed, at, seen, todo, leaving, mapping,
                    excluded, plan, result, pc, mode>>
    BY DEF vars, coreVars, bookVars, passVars, syncVars
  <1>2. SyncOK'
    BY <1>1 DEF IInv, SyncOK, Current
  <1>3. Fits(out', groups', member')
    BY <1>1 DEF IInv
  <1> QED BY <1>1, <1>2, <1>3 DEF IInv, ModeInv, BaseLive, HasBase

LEMMA ApplyInv ==
    ASSUME IInv, Apply
    PROVE  IInv'
  BY CompareInv, BootInv, BootRefusedInv, RemoveStaleInv, StaleDoneInv, GroupDoneInv,
     EnterGroupInv, AddMemberInv, AddMemberFailsInv, MembersAddedInv, RemoveMemberInv,
     AppliedInv, EndsInv DEF Apply

LEMMA NextInv == IInv /\ [Next]_vars => IInv'
  <1> SUFFICES ASSUME IInv, [Next]_vars PROVE IInv'
    OBVIOUS
  <1>1. CASE Next
    BY <1>1, BeginInv, StopInv, BuildPlanInv, ApplyInv, EndsInv DEF Next
  <1>2. CASE UNCHANGED vars
    BY <1>2, StutterInv
  <1> QED BY <1>1, <1>2

LEMMA Invariance == Spec => []IInv
  <1> QED BY InitInv, NextInv, PTL DEF Spec

-----------------------------------------------------------------------------
(* What a sync leaves *)

Passing == pc \in {"stale", "group", "members", "removal"}

\* A pass begins with the first group.
AtInv ==
    /\ at # 0
    /\ pc \notin {"group", "members", "removal"} => at = 1

PlanInv == pc \in {"compare", "boot"} \/ Passing => PlanAgrees(plan)

\* A new core is not the instance before it has been started.
NewMode ==
    /\ mode = "create" /\ pc # "idle" => ~running
    /\ pc = "boot" => mode = "create"

\* Compare lets no plan pass that changes an outbound of the instance.
SameInv == mode = "update" /\ Passing => Changed = {}

\* The instance's outbounds are what it takes them for.
InstInv ==
    running =>
        /\ DOMAIN inst \subseteq Tags
        /\ \A t \in DOMAIN inst \ (GroupTags \cup unnoticed) : out[t] \in {inst[t], None}

OptInv ==
    Passing => \A t \in DOMAIN plan.out \ (GroupTags \cup unnoticed) :
                  out[t] \in {plan.out[t], None}

\* The groups before the current one are registered, and nothing but groups of the plan.
GroupsInv ==
    /\ pc \in {"group", "members", "removal"} => groups \subseteq PlannedTags
    /\ Passing => \A k \in DOMAIN plan.groups :
          k < at \/ (k = at /\ pc \in {"members", "removal"}) => plan.groups[k].tag \in groups

\* A new core has the outbounds of its plan before any member is added; its groups are
\* filled one after the other, and nothing is taken from them.
At(k) == member[plan.groups[k].tag]
Has(k, j) == At(k)[plan.groups[k].members[j].id] # None
Fresh ==
    /\ out = Booted /\ groups = PlannedTags
    /\ \A g \in groups, i \in Ids : member[g][i] # None => member[g][i].state = "up"
    /\ \A k \in DOMAIN plan.groups :
         /\ k < at => \A j \in DOMAIN plan.groups[k].members : Has(k, j)
         /\ k > at \/ (k = at /\ pc \in {"stale", "group"}) => \A i \in Ids : At(k)[i] = None
    /\ pc \in {"members", "removal"} =>
         /\ seen = {} /\ leaving = {}
         /\ pc = "removal" => todo = {}
         /\ \A j \in DOMAIN Current.members : Current.members[j].builtin \/ j \in todo \/ Has(at, j)
FreshInv == mode = "create" /\ Passing => Fresh

PInv ==
    /\ AtInv /\ PlanInv /\ NewMode /\ SameInv /\ InstInv /\ OptInv /\ GroupsInv /\ FreshInv
    /\ PlanApplied

\* The ends of a pass, and of a core.
LEMMA AwayPInv ==
    ASSUME pc' \in {"idle", "plan"}, at' = 1, running' = FALSE,
           pc' = "plan" \/ result' # "applied"
    PROVE  PInv'
  BY DEF PInv, AtInv, PlanInv, NewMode, SameInv, InstInv, OptInv, GroupsInv, FreshInv,
         PlanApplied, Done, Passing

\* A new plan is made for the same instance.
LEMMA AgainPInv ==
    ASSUME PInv, mode' = "update", pc' = "plan", at' = 1,
           UNCHANGED <<inst, unnoticed>>, running,
           \A t \in DOMAIN inst \ (GroupTags \cup unnoticed) : out'[t] \in {inst[t], None}
    PROVE  PInv'
  <1>1. InstInv'
    BY DEF PInv, InstInv
  <1> QED
    BY <1>1 DEF PInv, AtInv, PlanInv, NewMode, SameInv, OptInv, GroupsInv, FreshInv,
           PlanApplied, Done, Passing

\* The outbounds o are those of the core, some of them removed, some created as planned.
Grown(o) ==
    \A t \in Tags \ GroupTags :
        \/ o[t] \in {out[t], None}
        \/ /\ out[t] = None /\ t \in Known(plan)
           /\ t \in DOMAIN plan.out => o[t] = plan.out[t]

LEMMA GrownPlan ==
    ASSUME IInv, PInv, Passing, NEW o, Grown(o)
    PROVE  /\ \A t \in DOMAIN plan.out \ (GroupTags \cup unnoticed) : o[t] \in {plan.out[t], None}
           /\ running => \A t \in DOMAIN inst \ (GroupTags \cup unnoticed) : o[t] \in {inst[t], None}
  <1>1. PlanAgrees(plan) /\ DOMAIN plan.out \subseteq Tags
    BY DEF PInv, PlanInv, IInv, SyncOK, PlanShape, PlanAgrees
  <1>2. ASSUME NEW t \in DOMAIN plan.out \ (GroupTags \cup unnoticed)
        PROVE  o[t] \in {plan.out[t], None}
    BY <1>1, <1>2 DEF Grown, PInv, OptInv
  <1>3. ASSUME running, NEW t \in DOMAIN inst \ (GroupTags \cup unnoticed)
        PROVE  o[t] \in {inst[t], None}
    <2>1. t \in Tags \ GroupTags /\ out[t] \in {inst[t], None}
      BY <1>3 DEF PInv, InstInv
    <2>2. mode = "update"
      BY <1>3 DEF PInv, NewMode, Passing, IInv, SyncOK
    <2>3. t \in DOMAIN plan.out => plan.out[t] = inst[t]
      BY <1>3, <2>2 DEF PInv, SameInv, Changed
    <2>4. TagsOfPlan(plan) \subseteq GroupTags
      BY DEF IInv, SyncOK, PlanShape, TagsOfPlan
    <2>5. t \in Base => out[t] # None
      BY DEF IInv, BaseLive, Passing, HasBase
    <2> QED BY <2>1, <2>3, <2>4, <2>5 DEF Grown, Known
  <1> QED BY <1>2, <1>3

\* A step within the pass.
LEMMA PassPInv ==
    ASSUME IInv, PInv, Passing, Passing', Grown(out'),
           UNCHANGED <<mode, running, unnoticed, inst, plan>>, AtInv', GroupsInv', FreshInv'
    PROVE  PInv'
  <1>1. /\ \A t \in DOMAIN plan.out \ (GroupTags \cup unnoticed) : out'[t] \in {plan.out[t], None}
        /\ running => \A t \in DOMAIN inst \ (GroupTags \cup unnoticed) : out'[t] \in {inst[t], None}
    BY GrownPlan
  <1>2. InstInv' /\ OptInv'
    BY <1>1 DEF PInv, InstInv, OptInv
  <1>3. SameInv' /\ PlanInv'
    BY DEF PInv, SameInv, PlanInv, Changed
  <1>4. NewMode'
    BY DEF PInv, NewMode, Passing
  <1>5. PlanApplied'
    BY DEF PlanApplied, Done, Passing
  <1> QED BY <1>2, <1>3, <1>4, <1>5 DEF PInv

\* Removing outbounds is no harm to that.
LEMMA RemovedGrown ==
    ASSUME NEW o, NEW tags, NEW G, NEW m, Grown(o)
    PROVE  Grown(RemoveUnused(o, tags, G, m))
  <1>1. \A t \in Tags : RemoveUnused(o, tags, G, m)[t] \in {o[t], None}
    BY DEF RemoveUnused
  <1> QED BY <1>1 DEF Grown

LEMMA SameGrown == Grown(out)
  BY DEF Grown

LEMMA CreatedGrown ==
    ASSUME IInv, PInv, pc = "members", NEW k \in todo,
           NEW K, K \subseteq Positions(Current.members[k])
    PROVE  Grown(Created(out, Current.members[k], K))
  <1> DEFINE x == Current.members[k]
             c == Created(out, x, K)
  <1>1. PlanAgrees(plan) /\ at \in DOMAIN plan.groups /\ k \in DOMAIN plan.groups[at].members
    BY DEF PInv, PlanInv, Passing, IInv, SyncOK, Current
  <1>2. \A j \in Positions(x) :
            /\ Part(x, j).tag \in Known(plan)
            /\ Part(x, j).tag \in DOMAIN plan.out \ GroupTags
                  => Part(x, j).opt = plan.out[Part(x, j).tag]
    BY <1>1 DEF PlanAgrees, Current
  <1>3. \A t \in Tags : c[t] = IF out[t] = None /\ \E j \in K : Part(x, j).tag = t
                               THEN Part(x, CHOOSE j \in K : Part(x, j).tag = t).opt ELSE out[t]
    BY DEF Created
  <1>4. ASSUME NEW t \in Tags, \E j \in K : Part(x, j).tag = t, out[t] = None
        PROVE  t \in Known(plan) /\ (t \in DOMAIN plan.out \ GroupTags => c[t] = plan.out[t])
    <2> DEFINE j == CHOOSE j \in K : Part(x, j).tag = t
    <2>1. j \in K /\ Part(x, j).tag = t
      BY <1>4
    <2>2. c[t] = Part(x, j).opt
      BY <1>3, <1>4
    <2> HIDE DEF j, c
    <2> QED BY <1>2, <2>1, <2>2
  <1>5. \A t \in Tags : ~(out[t] = None /\ \E j \in K : Part(x, j).tag = t) => c[t] = out[t]
    BY <1>3
  <1> HIDE DEF c
  <1> SUFFICES Grown(c)
    BY DEF c
  <1> QED BY <1>4, <1>5 DEF Grown

-----------------------------------------------------------------------------
(* New cores *)

LEMMA KnownLive ==
    ASSUME IInv
    PROVE  \A t \in Known(plan) : t \in Tags /\ Booted[t] # None
  <1>1. /\ TagsOfPlan(plan) \subseteq Tags /\ DOMAIN plan.out \subseteq Tags /\ Base \subseteq Tags
        /\ \A t \in DOMAIN plan.out : plan.out[t] # None
    BY TagsAreNamed DEF IInv, SyncOK, PlanShape, TagsOfPlan
  <1> QED BY <1>1, NoneIsNothing DEF Known, Booted, PlannedTags

\* Booted, At and Has are about the plan and the members.
LEMMA FreshFrame ==
    ASSUME UNCHANGED <<plan, member>>
    PROVE  /\ Booted' = Booted /\ PlannedTags' = PlannedTags
           /\ \A k : At(k)' = At(k)
           /\ \A k, j : Has(k, j)' <=> Has(k, j)
  BY DEF Booted, PlannedTags, At, Has

\* There is nothing to collect in it.
LEMMA FreshNoTombs ==
    ASSUME Fresh, NEW G \in SUBSET groups, NEW gone \in Free(Tombs(G))
    PROVE  gone = {}
  <1>1. Tombs(G) = {}
    BY DEF Fresh, Tombs
  <1> QED BY <1>1 DEF Free

LEMMA NothingGone ==
    ASSUME NEW m \in Table, NEW G, out = [t \in Tags |-> out[t]]
    PROVE  Minus(m, {}) = m /\ RemoveUnused(out, TagsOf({}), G, m) = out
  <1>1. TagsOf({}) = {}
    BY DEF TagsOf
  <1>2. Minus(m, {}) = m
    BY DEF Minus, Table
  <1> QED BY <1>1, <1>2 DEF RemoveUnused

\* The identifiers and the tag of a member of the plan, and the tag of its group.
LEMMA PlannedIds ==
    ASSUME SyncOK, NEW k \in DOMAIN plan.groups
    PROVE  /\ plan.groups[k].tag \in GroupTags
           /\ \A j \in DOMAIN plan.groups[k].members : plan.groups[k].members[j].id \in Ids
  BY DEF SyncOK, PlanShape, MemberShape

LEMMA PlannedOnce ==
    ASSUME PInv, Passing, NEW k \in DOMAIN plan.groups, NEW j \in DOMAIN plan.groups, k # j
    PROVE  plan.groups[k].tag # plan.groups[j].tag
  BY DEF PInv, PlanInv, PlanAgrees

\* When every group has been filled, nothing is missing.
LEMMA FreshApplied ==
    ASSUME IInv, PlanAgrees(plan), Fresh, at \notin DOMAIN plan.groups, AtInv
    PROVE  /\ \A t \in Tags : Live(t) => \A u \in Refers(out[t]) : Live(u)
           /\ \A k \in DOMAIN plan.groups : \A j \in DOMAIN plan.groups[k].members :
                 LET m == plan.groups[k].members[j]
                 IN  member[plan.groups[k].tag][m.id] # None /\ Live(m.tag)
  <1>1. out = Booted /\ \A t \in Known(plan) : Live(t)
    BY KnownLive DEF Fresh, Live
  <1>2. ASSUME NEW t \in Tags, Live(t), NEW u \in Refers(out[t]) PROVE Live(u)
    <2>1. CASE t \in PlannedTags
      BY <1>1, <1>2, <2>1 DEF Booted, DynamicOption, Refers
    <2>2. CASE t \in DOMAIN plan.out \ PlannedTags
      <3>1. out[t] = plan.out[t]
        BY <1>1, <2>2 DEF Booted
      <3> QED BY <1>1, <1>2, <2>2, <3>1 DEF PlanAgrees
    <2>3. CASE t \notin DOMAIN plan.out \cup PlannedTags
      BY <1>1, <1>2, <2>3 DEF Booted, BaseOption, Refers, Live
    <2> QED BY <2>1, <2>2, <2>3
  <1>3. ASSUME NEW k \in DOMAIN plan.groups, NEW j \in DOMAIN plan.groups[k].members
        PROVE  /\ member[plan.groups[k].tag][plan.groups[k].members[j].id] # None
               /\ Live(plan.groups[k].members[j].tag)
    <2> DEFINE m == plan.groups[k].members[j]
    <2>1. k < at
      BY DEF IInv, SyncOK, PlanAgrees, AtInv
    <2>2. member[plan.groups[k].tag][m.id] # None
      BY <2>1 DEF Fresh, Has, At
    <2>3. MemberShape(m)
      BY DEF IInv, SyncOK, PlanShape
    <2>4. Len(m.deps) + 1 \in Positions(m) /\ Len(m.deps) + 1 \notin DOMAIN m.deps
      BY <2>3, DepsOf DEF Positions
    <2>5. Part(m, Len(m.deps) + 1).tag = m.tag
      BY <2>4 DEF Part
    <2>6. \A i \in Positions(m) : Part(m, i).tag \in Known(plan)
      BY DEF PlanAgrees
    <2> QED BY <1>1, <2>2, <2>4, <2>5, <2>6
  <1> QED BY <1>2, <1>3

-----------------------------------------------------------------------------
(* The steps *)

LEMMA InitPInv == Init => PInv
  BY DEF Init, PInv, AtInv, PlanInv, NewMode, SameInv, InstInv, OptInv, GroupsInv, FreshInv,
         PlanApplied, Done, Passing

LEMMA FailPInv ==
    ASSUME Fail
    PROVE  PInv'
  BY AwayPInv DEF Fail, FailAs, Close, Leave, Goto

LEMMA ExcludePInv ==
    ASSUME IInv, PInv, NEW n, NEW o, Exclude(n, o), pc # "idle",
           running => \A t \in DOMAIN inst \ (GroupTags \cup unnoticed) : o[t] \in {inst[t], None}
    PROVE  PInv'
  <1>1. CASE n \in excluded
    BY <1>1, FailPInv DEF Exclude
  <1>2. CASE n \notin excluded /\ mode = "create"
    BY <1>2, AwayPInv DEF Exclude, Close, Leave, Goto
  <1>3. CASE n \notin excluded /\ mode # "create"
    <2>1. running /\ mode = "update"
      BY <1>3 DEF IInv, SyncOK, ModeInv
    <2>2. /\ mode' = "update" /\ pc' = "plan" /\ at' = 1 /\ out' = o
          /\ UNCHANGED <<inst, unnoticed>>
      BY <1>3, <2>1 DEF Exclude, Leave, Goto, bookVars
    <2> QED BY <2>1, <2>2, AgainPInv
  <1> QED BY <1>1, <1>2, <1>3

LEMMA BeginPInv ==
    ASSUME IInv, PInv, NEW m, NEW same \in BOOLEAN, Begin(m, same)
    PROVE  PInv'
  <1>1. at' = 1 /\ pc' = "plan"
    BY DEF Begin, passVars, PInv, AtInv
  <1>2. CASE running /\ same
    <2>1. mode' = "update" /\ UNCHANGED <<inst, unnoticed, out>>
      BY <1>2 DEF Begin, coreVars, bookVars
    <2> QED BY <1>1, <1>2, <2>1, AgainPInv DEF PInv, InstInv
  <1>3. CASE ~(running /\ same)
    BY <1>1, <1>3, AwayPInv DEF Begin, Close
  <1> QED BY <1>2, <1>3

LEMMA StopPInv ==
    ASSUME PInv, Stop
    PROVE  PInv'
  <1>1. at' = 1 /\ pc' = "idle" /\ running' = FALSE /\ result' = "none"
    BY DEF Stop, passVars, PInv, AtInv, Close
  <1> QED BY <1>1, AwayPInv

LEMMA BuildPlanPInv ==
    ASSUME IInv, PInv, NEW p \in PlansNow, BuildPlan(p)
    PROVE  PInv'
  <1>1. p.err.what \in {"node", "cycle"} \/ PlanAgrees(p)
    BY PlansHaveShape DEF IInv, SyncOK, PlansNow
  <1>2. CASE p.err.what = "cycle"
    BY <1>2, FailPInv DEF BuildPlan
  <1>3. CASE p.err.what = "node"
    <2>1. Exclude(p.err.node, out) /\ pc = "plan"
      BY <1>3 DEF BuildPlan
    <2> QED BY <2>1, ExcludePInv DEF PInv, InstInv
  <1>4. CASE p.err.what \notin {"cycle", "node"}
    <2>1. /\ pc = "plan" /\ plan' = p
          /\ pc' = IF mode = "update" THEN "compare" ELSE "boot"
          /\ UNCHANGED <<mode, out, groups, member, inst, running, unnoticed, at>>
      BY <1>4 DEF BuildPlan, Goto, coreVars, bookVars, passVars
    <2>2. PlanAgrees(plan')
      BY <1>1, <1>4, <2>1
    <2>3. AtInv' /\ PlanInv' /\ NewMode' /\ InstInv'
      BY <2>1, <2>2 DEF IInv, SyncOK, PInv, AtInv, PlanInv, NewMode, InstInv
    <2>4. SameInv' /\ OptInv' /\ GroupsInv' /\ FreshInv' /\ PlanApplied'
      BY <2>1 DEF SameInv, OptInv, GroupsInv, FreshInv, PlanApplied, Done, Passing
    <2> QED BY <2>3, <2>4 DEF PInv
  <1> QED BY <1>2, <1>3, <1>4

LEMMA ComparePInv ==
    ASSUME IInv, PInv, Compare
    PROVE  PInv'
  <1>1. pc = "compare" /\ at = 1 /\ mode = "update" /\ running /\ PlanAgrees(plan)
        /\ UNCHANGED <<at, plan>>
    BY DEF Compare, passVars, PInv, AtInv, PlanInv, IInv, ModeInv
  <1>2. CASE Changed # {}
    BY <1>1, <1>2, AwayPInv DEF Compare, Close
  <1>3. CASE Changed = {}
    <2>1. /\ pc' = "stale" /\ UNCHANGED <<mode, out, groups, member, inst, running>>
          /\ unnoticed' = {t \in unnoticed \cup (DOMAIN plan.out \ DOMAIN inst) : out[t] # None}
      BY <1>3 DEF Compare, Goto, coreVars
    <2>2. InstInv'
      BY <1>1, <2>1 DEF PInv, InstInv
    <2>3. \A t \in DOMAIN plan.out \cap DOMAIN inst : plan.out[t] = inst[t]
      BY <1>3 DEF Changed
    <2>4. ASSUME NEW t \in DOMAIN plan.out \ (GroupTags \cup unnoticed')
          PROVE  out[t] \in {plan.out[t], None}
      BY <1>1, <2>1, <2>3, <2>4 DEF PInv, InstInv
    <2>5. OptInv'
      BY <1>1, <2>1, <2>4 DEF OptInv
    <2>6. SameInv' /\ PlanInv' /\ AtInv' /\ NewMode'
      BY <1>1, <1>3, <2>1 DEF SameInv, PlanInv, AtInv, NewMode, Changed
    <2>7. GroupsInv' /\ FreshInv' /\ PlanApplied'
      BY <1>1, <2>1 DEF GroupsInv, FreshInv, PlanApplied, Done, PlanAgrees
    <2> QED BY <2>2, <2>5, <2>6, <2>7 DEF PInv
  <1> QED BY <1>2, <1>3

LEMMA BootPInv ==
    ASSUME IInv, PInv, Boot
    PROVE  PInv'
  <1>1. /\ pc = "boot" /\ pc' = "stale" /\ out' = Booted /\ groups' = PlannedTags
        /\ member' = NoMembers /\ at = 1 /\ PlanAgrees(plan)
        /\ UNCHANGED <<mode, running, inst, unnoticed, at, plan>>
    BY DEF Boot, Goto, bookVars, passVars, syncVars, PInv, AtInv, PlanInv
  <1>2. mode = "create" /\ ~running
    BY <1>1 DEF PInv, NewMode
  <1>3. DOMAIN plan.out \subseteq Tags /\ PlannedTags \subseteq GroupTags
    BY <1>1, PlannedGroups DEF IInv, SyncOK, PlanShape
  <1>4. \A t \in DOMAIN plan.out \ GroupTags : out'[t] = plan.out[t]
    BY <1>1, <1>3 DEF Booted
  <1>5. OptInv'
    BY <1>1, <1>4 DEF OptInv
  <1>6. AtInv' /\ PlanInv' /\ NewMode' /\ SameInv' /\ InstInv'
    BY <1>1, <1>2 DEF AtInv, PlanInv, NewMode, SameInv, InstInv
  <1>7. PlanApplied' /\ GroupsInv'
    BY <1>1 DEF PlanApplied, Done, GroupsInv, PlanAgrees
  <1>8. Fresh'
    <2>1. out' = Booted' /\ groups' = PlannedTags'
      BY <1>1 DEF Booted, PlannedTags
    <2>2. \A g \in GroupTags, i \in Ids : member'[g][i] = None
      BY <1>1 DEF NoMembers
    <2>3. \A k \in DOMAIN plan.groups : plan.groups[k].tag \in GroupTags /\ ~(k < 1)
      BY <1>1 DEF IInv, SyncOK, PlanShape, PlanAgrees
    <2> QED BY <1>1, <1>3, <2>1, <2>2, <2>3 DEF Fresh, At
  <1> QED BY <1>5, <1>6, <1>7, <1>8 DEF PInv, FreshInv

LEMMA BootRefusedPInv ==
    ASSUME IInv, PInv, NEW t \in Tags, BootRefused(t)
    PROVE  PInv'
  <1>1. CASE t \in DOMAIN plan.owner
    <2>1. Exclude(plan.owner[t], out) /\ pc = "boot"
      BY <1>1 DEF BootRefused
    <2> QED BY <2>1, ExcludePInv DEF PInv, InstInv
  <1>2. CASE t \notin DOMAIN plan.owner
    BY <1>2, FailPInv DEF BootRefused
  <1> QED BY <1>1, <1>2

LEMMA RemoveStalePInv ==
    ASSUME IInv, PInv, NEW g \in Tags, RemoveStale(g)
    PROVE  PInv'
  <1> DEFINE o == [out EXCEPT ![g] = None]
  <1>1. /\ pc = "stale" /\ g \in groups \ PlannedTags /\ groups' = groups \ {g}
        /\ out' = RemoveUnused(o, TagsOf({x \in {g} \X Ids : member[g][x[2]] # None}),
                               groups', member')
        /\ UNCHANGED <<mode, running, inst, unnoticed, plan, pc, at, seen, todo, leaving>>
    BY DEF RemoveStale, bookVars, passVars, syncVars
  <1>2. \A t \in Tags : o[t] \in {out[t], None}
    BY DEF IInv, Fits
  <1>3. Grown(o)
    BY <1>2 DEF Grown
  <1>4. Grown(out')
    BY <1>1, <1>3, RemovedGrown
  <1>5. AtInv' /\ at = 1
    BY <1>1 DEF PInv, AtInv
  <1>6. GroupsInv'
    BY <1>1, <1>5 DEF PInv, GroupsInv, Passing, PlanInv, PlanAgrees
  <1>7. mode # "create"
    BY <1>1 DEF PInv, FreshInv, Fresh, Passing
  <1> QED BY <1>1, <1>4, <1>5, <1>6, <1>7, PassPInv DEF Passing, FreshInv

LEMMA StaleDonePInv ==
    ASSUME IInv, PInv, NEW gone, StaleDone(gone)
    PROVE  PInv'
  <1>1. /\ pc = "stale" /\ pc' = "group" /\ groups' = groups /\ groups \subseteq PlannedTags
        /\ member' = Minus(member, gone) /\ gone \in Free(Tombs(groups))
        /\ out' = RemoveUnused(out, TagsOf(gone), groups, Minus(member, gone))
        /\ UNCHANGED <<mode, running, inst, unnoticed, plan, at, seen, todo, leaving>>
    BY DEF StaleDone, Collect, Goto, bookVars, passVars, syncVars
  <1>2. Grown(out')
    BY <1>1, SameGrown, RemovedGrown
  <1>3. AtInv' /\ at = 1
    BY <1>1 DEF PInv, AtInv
  <1>4. GroupsInv'
    BY <1>1, <1>3 DEF PInv, GroupsInv, Passing, PlanInv, PlanAgrees, PlannedTags
  <1>5. FreshInv'
    <2> SUFFICES ASSUME mode = "create" PROVE Fresh'
      BY <1>1 DEF FreshInv
    <2>1. Fresh /\ gone = {}
      BY <1>1, FreshNoTombs DEF PInv, FreshInv, Passing
    <2>2. UNCHANGED <<out, member>>
      BY <1>1, <2>1, NothingGone DEF IInv, Fits
    <2> QED BY <1>1, <2>1, <2>2, FreshFrame DEF Fresh
  <1> QED BY <1>1, <1>2, <1>3, <1>4, <1>5, PassPInv DEF Passing

LEMMA EnterGroupPInv ==
    ASSUME IInv, PInv, EnterGroup
    PROVE  PInv'
  <1> DEFINE g == Current.tag
             ms == Current.members
             had == IF g \in groups THEN Present(g) ELSE {}
  <1>1. /\ pc = "group" /\ pc' = "members" /\ at \in DOMAIN plan.groups
        /\ groups' = groups \cup {g}
        /\ member' = IF g \in groups THEN member ELSE [member EXCEPT ![g] = NoMembers[g]]
        /\ out' = IF g \in groups /\ out[g] # None THEN out ELSE [out EXCEPT ![g] = DynamicOption]
        /\ seen' = had
        /\ todo' = {k \in DOMAIN ms : ~ms[k].builtin /\ ms[k].id \notin had}
        /\ leaving' = had \ {ms[k].id : k \in DOMAIN ms}
        /\ UNCHANGED <<mode, running, inst, unnoticed, plan, at>>
    BY DEF EnterGroup, Unlisted, Goto, bookVars, syncVars
  <1>2. g \in GroupTags /\ g \in PlannedTags
    BY <1>1 DEF IInv, SyncOK, PlanShape, Current, PlannedTags, TagsOfPlan
  <1>3. \A t \in Tags \ GroupTags : out'[t] = out[t]
    BY <1>1, <1>2 DEF IInv, Fits
  <1>4. Grown(out') /\ AtInv'
    BY <1>1, <1>3 DEF Grown, PInv, AtInv
  <1>5. GroupsInv'
    BY <1>1, <1>2 DEF PInv, GroupsInv, Passing, PlannedTags, Current
  <1>6. FreshInv'
    <2> SUFFICES ASSUME mode = "create" PROVE Fresh'
      BY <1>1 DEF FreshInv
    <2>1. Fresh
      BY <1>1 DEF PInv, FreshInv, Passing
    <2>2. g \in groups /\ out[g] # None /\ Present(g) = {}
      BY <1>1, <1>2, <2>1 DEF Fresh, IInv, Fits, Sound, Present, At, Current
    <2>3. UNCHANGED <<out, groups, member>> /\ had = {}
      BY <1>1, <2>2
    <2>4. seen' = {} /\ leaving' = {} /\ todo' = {k \in DOMAIN ms : ~ms[k].builtin}
      BY <1>1, <2>3
    <2>5. \A j \in DOMAIN Current.members : Current.members[j].builtin \/ j \in todo'
      BY <2>4
    <2> HIDE DEF had
    <2>6. \A j \in DOMAIN Current'.members : Current'.members[j].builtin \/ j \in todo'
      BY <1>1, <2>5 DEF Current
    <2> QED BY <1>1, <2>1, <2>3, <2>4, <2>6, FreshFrame DEF Fresh
  <1> QED BY <1>1, <1>4, <1>5, <1>6, PassPInv DEF Passing

LEMMA AddMemberPInv ==
    ASSUME IInv, PInv, AddMember
    PROVE  PInv'
  <1>1. /\ pc = "members"
        /\ UNCHANGED <<groups, at, seen, leaving, mode, running, inst, unnoticed, plan, pc>>
    BY DEF AddMember, bookVars, syncVars
  <1>2. PICK k \in todo :
            /\ out' = Created(out, Current.members[k], Positions(Current.members[k]))
            /\ member' = [member EXCEPT ![Current.tag][Current.members[k].id] =
                             [tag |-> Current.members[k].tag,
                              tags |-> TagsUsed(Current.members[k]), state |-> "up"]]
            /\ todo' = todo \ {k}
    BY DEF AddMember
  <1> DEFINE x == Current.members[k]
             g == Current.tag
             new == [tag |-> x.tag, tags |-> TagsUsed(x), state |-> "up"]
  <1>3. Grown(out') /\ AtInv' /\ GroupsInv'
    BY <1>1, <1>2, CreatedGrown DEF PInv, AtInv, GroupsInv, PlannedTags, Passing
  <1>4. FreshInv'
    <2> SUFFICES ASSUME mode = "create" PROVE Fresh'
      BY <1>1 DEF FreshInv
    <2>1. /\ Fresh /\ PlanAgrees(plan)
          /\ at \in DOMAIN plan.groups /\ k \in DOMAIN plan.groups[at].members
      BY <1>1 DEF PInv, PlanInv, FreshInv, Passing, IInv, SyncOK, Current
    <2>2. \A j \in Positions(x) : out[Part(x, j).tag] # None
      BY <2>1, KnownLive DEF PlanAgrees, Current, Fresh
    <2>3. out' = out
      BY <1>2, <2>2 DEF Created, IInv, Fits
    <2>4. g \in GroupTags /\ x.id \in Ids /\ new \in Record
      <3>1. MemberShape(x) /\ g \in GroupTags
        BY <1>1, <2>1, CurrentShape DEF IInv, SyncOK, PlanShape, Current
      <3>2. TagsUsed(x) \subseteq Tags
        BY <3>1, DepsOf DEF MemberShape, TagsUsed
      <3> QED BY <3>1, <3>2 DEF MemberShape, Record
    <2>5. new # None /\ new.state = "up"
      BY <2>4, NoneIsNothing
    <2> HIDE DEF new
    <2>6. \A h \in GroupTags, i \in Ids :
              member'[h][i] = IF h = g /\ i = x.id THEN new ELSE member[h][i]
      BY <1>2, <2>4 DEF IInv, Fits, Table, new
    <2>7. \A j \in DOMAIN plan.groups : j # at => plan.groups[j].tag # g
      BY <1>1, <2>1, PlannedOnce DEF Passing, Current
    <2>8. groups \subseteq GroupTags
      BY DEF IInv, Fits
    <2>9. out' = Booted' /\ groups' = PlannedTags'
      BY <1>1, <2>1, <2>3 DEF Fresh, Booted, PlannedTags
    <2>10. \A h \in groups', i \in Ids : member'[h][i] # None => member'[h][i].state = "up"
      BY <1>1, <2>1, <2>5, <2>6, <2>8 DEF Fresh
    <2>11. \A j \in DOMAIN plan.groups, i \in Ids : At(j)[i] # None => At(j)'[i] # None
      BY <1>1, <2>5, <2>6, PlannedIds DEF At, IInv
    <2>12. ASSUME NEW j \in DOMAIN plan.groups, NEW i \in Ids, j > at PROVE At(j)'[i] = None
      <3>1. plan.groups[j].tag # g
        BY <2>1, <2>7, <2>12 DEF PlanAgrees, IInv, SyncOK
      <3> QED BY <1>1, <2>1, <2>6, <2>12, <3>1, PlannedIds DEF Fresh, At, IInv
    <2>13. \A j \in DOMAIN plan.groups :
               j < at => \A l \in DOMAIN plan.groups[j].members : Has(j, l)'
      BY <1>1, <2>1, <2>11, PlannedIds DEF Fresh, Has, At, IInv
    <2>14. ASSUME NEW l \in DOMAIN Current.members
           PROVE  Current.members[l].builtin \/ l \in todo' \/ Has(at, l)'
      <3>1. CASE l = k
        <4>1. member'[g][x.id] # None
          BY <2>4, <2>5, <2>6
        <4> QED BY <1>1, <3>1, <4>1 DEF Has, At, Current
      <3>2. CASE l # k
        <4>1. Current.members[l].builtin \/ l \in todo \/ Has(at, l)
          BY <1>1, <2>1 DEF Fresh
        <4>2. plan.groups[at].members[l].id \in Ids /\ l \in DOMAIN plan.groups[at].members
          BY <2>1, PlannedIds DEF IInv, Current
        <4>3. Has(at, l) => Has(at, l)'
          BY <1>1, <2>1, <2>11, <4>2 DEF Has, At
        <4> QED BY <1>2, <3>2, <4>1, <4>3
      <3> QED BY <3>1, <3>2
    <2>15. seen' = {} /\ leaving' = {}
      BY <1>1, <2>1 DEF Fresh
    <2> QED BY <1>1, <2>9, <2>10, <2>12, <2>13, <2>14, <2>15 DEF Fresh, Current
  <1> QED BY <1>1, <1>3, <1>4, PassPInv DEF Passing

LEMMA AddMemberFailsPInv ==
    ASSUME IInv, PInv, AddMemberFails
    PROVE  PInv'
  <1>1. PICK k \in todo : \E stuck \in Stuck(Current.members[k]) :
            \/ Fail
            \/ \E n \in Nodes :
                  Exclude(n, Created(out, Current.members[k],
                                     {j \in Positions(Current.members[k]) : j < stuck}))
    BY DEF AddMemberFails
  <1>2. pc = "members"
    BY DEF AddMemberFails
  <1>3. CASE Fail
    BY <1>3, FailPInv
  <1>4. ASSUME NEW stuck, NEW n \in Nodes,
               Exclude(n, Created(out, Current.members[k],
                                  {j \in Positions(Current.members[k]) : j < stuck}))
        PROVE  PInv'
    <2> DEFINE o == Created(out, Current.members[k],
                            {j \in Positions(Current.members[k]) : j < stuck})
    <2>1. Grown(o)
      BY <1>2, CreatedGrown
    <2>2. Exclude(n, o)
      BY <1>4
    <2> HIDE DEF o
    <2>3. running => \A t \in DOMAIN inst \ (GroupTags \cup unnoticed) : o[t] \in {inst[t], None}
      BY <1>2, <2>1, GrownPlan DEF Passing
    <2> QED BY <1>2, <2>2, <2>3, ExcludePInv
  <1> QED BY <1>1, <1>3, <1>4

LEMMA MembersAddedPInv ==
    ASSUME IInv, PInv, MembersAdded
    PROVE  PInv'
  <1>1. /\ pc = "members" /\ pc' = "removal" /\ todo = {}
        /\ UNCHANGED <<out, groups, member, inst, at, seen, leaving, todo, mode, running,
                       unnoticed, plan>>
    BY DEF MembersAdded, Goto, coreVars, bookVars, passVars, syncVars
  <1>2. Grown(out') /\ AtInv' /\ GroupsInv'
    BY <1>1, SameGrown DEF PInv, AtInv, GroupsInv, PlannedTags, Passing
  <1>3. FreshInv'
    BY <1>1 DEF PInv, FreshInv, Fresh, Booted, PlannedTags, At, Has, Current, Passing
  <1> QED BY <1>1, <1>2, <1>3, PassPInv DEF Passing

LEMMA RemoveMemberPInv ==
    ASSUME IInv, PInv, NEW i \in leaving, NEW gone, RemoveMember(i, gone)
    PROVE  PInv'
  <1>1. /\ pc = "removal"
        /\ UNCHANGED <<groups, at, seen, todo, mode, running, inst, unnoticed, plan, pc>>
    BY DEF RemoveMember, bookVars, syncVars, coreVars
  <1>2. out' = out \/ \E m : out' = RemoveUnused(out, TagsOf(gone), groups, m)
    BY DEF RemoveMember, coreVars
  <1>3. Grown(out')
    BY <1>2, SameGrown, RemovedGrown
  <1>4. AtInv' /\ GroupsInv'
    BY <1>1 DEF PInv, AtInv, GroupsInv, PlannedTags, Passing
  <1>5. mode # "create"
    BY <1>1 DEF PInv, FreshInv, Fresh, Passing
  <1> QED BY <1>1, <1>3, <1>4, <1>5, PassPInv DEF Passing, FreshInv

LEMMA GroupDonePInv ==
    ASSUME IInv, PInv, NEW gone, GroupDone(gone)
    PROVE  PInv'
  <1> DEFINE g == Current.tag
  <1>1. /\ pc = "removal" /\ pc' = "group" /\ at' = at + 1 /\ seen' = {}
        /\ gone \in Free(Tombs(groups))
        /\ member' = Minus(WithBuiltins, gone)
        /\ out' = RemoveUnused(out, TagsOf(gone), groups, member')
        /\ UNCHANGED <<groups, todo, leaving, mode, running, inst, unnoticed, plan>>
    BY DEF GroupDone, Goto, bookVars, syncVars
  <1>2. at \in DOMAIN plan.groups /\ PlanAgrees(plan) /\ at \in Nat /\ g \in GroupTags
    BY <1>1 DEF PInv, PlanInv, Passing, IInv, SyncOK, PlanShape, Current
  <1>3. Grown(out') /\ AtInv'
    BY <1>1, <1>2, SameGrown, RemovedGrown DEF AtInv
  <1>4. GroupsInv'
    BY <1>1, <1>2 DEF PInv, GroupsInv, PlannedTags, Passing, PlanAgrees
  <1>5. FreshInv'
    <2> SUFFICES ASSUME mode = "create" PROVE Fresh'
      BY <1>1 DEF FreshInv
    <2>1. Fresh /\ gone = {}
      BY <1>1, FreshNoTombs DEF PInv, FreshInv, Passing
    <2>2. \A m \in Builtins : m.id \in Base
      BY <1>2 DEF IInv, SyncOK, PlanShape, MemberShape, Current, Builtins
    <2>3. \A b \in Base : [tag |-> b, tags |-> {b}, state |-> "up"] \in Record
      BY TagsAreNamed DEF Record
    <2>4. \A h \in GroupTags, b \in Ids : WithBuiltins[h][b] =
              IF h = g /\ \E m \in Builtins : m.id = b
              THEN [tag |-> b, tags |-> {b}, state |-> "up"] ELSE member[h][b]
      BY <1>2 DEF WithBuiltins, IInv, Fits, Table
    <2>5. WithBuiltins \in Table
      BY <1>2, <2>2, <2>3 DEF WithBuiltins, IInv, Fits, Table
    <2>6. member' = WithBuiltins /\ out' = out
      BY <1>1, <2>1, <2>5, NothingGone DEF IInv, Fits
    <2>7. \A h \in GroupTags, b \in Ids :
              \/ member'[h][b] = member[h][b]
              \/ h = g /\ member'[h][b].state = "up" /\ member'[h][b] # None
      <3> TAKE h \in GroupTags, b \in Ids
      <3>1. CASE h = g /\ \E m \in Builtins : m.id = b
        <4>1. member'[h][b] = [tag |-> b, tags |-> {b}, state |-> "up"] /\ b \in Base
          BY <2>2, <2>4, <2>6, <3>1
        <4>2. member'[h][b] \in Record
          BY <2>3, <4>1
        <4> QED BY <3>1, <4>1, <4>2, NoneIsNothing
      <3>2. CASE ~(h = g /\ \E m \in Builtins : m.id = b)
        BY <2>4, <2>6, <3>2
      <3> QED BY <3>1, <3>2
    <2>8. \A j \in DOMAIN plan.groups : j # at => plan.groups[j].tag # g
      BY <1>1, <1>2, PlannedOnce DEF Passing, Current
    <2>9. out' = Booted' /\ groups' = PlannedTags'
      BY <1>1, <2>1, <2>6 DEF Fresh, Booted, PlannedTags
    <2>10. \A h \in groups', b \in Ids : member'[h][b] # None => member'[h][b].state = "up"
      BY <1>1, <2>1, <2>7 DEF Fresh, IInv, Fits
    <2>11. ASSUME NEW j \in DOMAIN plan.groups, NEW b \in Ids, j > at PROVE At(j)'[b] = None
      <3>1. plan.groups[j].tag # g
        BY <1>2, <2>8, <2>11 DEF PlanAgrees
      <3> QED BY <1>1, <2>1, <2>7, <2>11, <3>1, PlannedIds DEF Fresh, At, IInv
    <2>12. ASSUME NEW j \in DOMAIN plan.groups, j <= at,
                  NEW l \in DOMAIN plan.groups[j].members
           PROVE  Has(j, l)'
      <3> DEFINE m == plan.groups[j].members[l]
      <3>1. m.id \in Ids /\ plan.groups[j].tag \in GroupTags
        BY PlannedIds DEF IInv
      <3>2. member[plan.groups[j].tag][m.id] # None => Has(j, l)'
        BY <1>1, <2>7, <3>1 DEF Has, At
      <3>3. CASE j < at
        BY <2>1, <3>2, <3>3 DEF Fresh, Has, At
      <3>4. CASE j = at /\ ~m.builtin
        BY <1>1, <2>1, <3>2, <3>4 DEF Fresh, Has, At, Current
      <3>5. CASE j = at /\ m.builtin
        <4>1. m \in Builtins
          BY <1>1, <2>1, <3>5 DEF Builtins, Fresh, Current
        <4>2. member'[g][m.id] = [tag |-> m.id, tags |-> {m.id}, state |-> "up"]
          BY <1>2, <2>4, <2>6, <3>1, <4>1
        <4>3. member'[g][m.id] # None
          BY <2>2, <2>3, <4>1, <4>2, NoneIsNothing
        <4> QED BY <1>1, <3>5, <4>3 DEF Has, At, Current
      <3> QED BY <1>2, <2>12, <3>3, <3>4, <3>5 DEF PlanAgrees
    <2>13. \A j \in DOMAIN plan.groups :
               /\ j < at + 1 => \A l \in DOMAIN plan.groups[j].members : Has(j, l)'
               /\ j >= at + 1 => \A b \in Ids : At(j)'[b] = None
      BY <1>2, <2>11, <2>12 DEF PlanAgrees
    <2> QED BY <1>1, <1>2, <2>9, <2>10, <2>13 DEF Fresh, PlanAgrees
  <1> QED BY <1>1, <1>3, <1>4, <1>5, PassPInv DEF Passing

LEMMA AppliedPInv ==
    ASSUME IInv, PInv, Applied
    PROVE  PInv'
  <1>1. /\ pc = "group" /\ pc' = "idle" /\ at' = 1 /\ at \notin DOMAIN plan.groups
        /\ inst' = plan.out /\ UNCHANGED <<out, groups, member, unnoticed, plan, mode>>
    BY DEF Applied, Leave, Goto, coreVars
  <1>2. PlanAgrees(plan) /\ Passing
    BY <1>1 DEF PInv, PlanInv, Passing
  <1>3. groups = PlannedTags
    <2>1. \A k \in DOMAIN plan.groups : k < at
      BY <1>1, <1>2 DEF IInv, SyncOK, PlanAgrees, PInv, AtInv
    <2> QED BY <1>1, <1>2, <2>1 DEF PInv, GroupsInv, PlannedTags, TagsOfPlan
  <1>4. \A t \in DOMAIN plan.out \ (GroupTags \cup unnoticed) : out[t] \in {plan.out[t], None}
    BY <1>2 DEF PInv, OptInv
  <1>5. InstInv'
    BY <1>1, <1>2, <1>4 DEF InstInv, IInv, SyncOK, PlanShape
  <1>6. PlanApplied'
    <2>1. mode = "create" =>
            /\ \A t \in Tags : Live(t) => \A u \in Refers(out[t]) : Live(u)
            /\ \A k \in DOMAIN plan.groups : \A j \in DOMAIN plan.groups[k].members :
                  LET m == plan.groups[k].members[j]
                  IN  member[plan.groups[k].tag][m.id] # None /\ Live(m.tag)
      BY <1>1, <1>2, FreshApplied DEF PInv, FreshInv
    <2> QED BY <1>1, <1>3, <1>4, <2>1 DEF PlanApplied, PlannedTags, Live
  <1>7. AtInv' /\ PlanInv' /\ NewMode' /\ SameInv' /\ OptInv' /\ GroupsInv' /\ FreshInv'
    BY <1>1 DEF AtInv, PlanInv, NewMode, SameInv, OptInv, GroupsInv, FreshInv, Passing
  <1> QED BY <1>5, <1>6, <1>7 DEF PInv

LEMMA EndsPInv ==
    ASSUME SelectFails \/ StartFails \/ Fault
    PROVE  PInv'
  <1>1. PICK why \in {"failed", "fault", "unstarted"} : FailAs(why)
    BY DEF SelectFails, StartFails, Fault, QueryFails, BootFails, GroupFails, RemovalFails, Fail
  <1> QED BY <1>1, AwayPInv DEF FailAs, Close, Leave, Goto

LEMMA StutterPInv ==
    ASSUME PInv, UNCHANGED vars
    PROVE  PInv'
  <1>1. UNCHANGED <<out, groups, member, inst, running, unnoticed, at, seen, todo, leaving,
                    plan, result, pc, mode>>
    BY DEF vars, coreVars, bookVars, passVars, syncVars
  <1>2. /\ AtInv' /\ PlanInv' /\ NewMode' /\ SameInv' /\ InstInv' /\ OptInv' /\ GroupsInv'
    BY <1>1 DEF PInv, AtInv, PlanInv, NewMode, SameInv, InstInv, OptInv, GroupsInv, Passing,
                Changed, PlannedTags
  <1>3. FreshInv'
    BY <1>1 DEF PInv, FreshInv, Fresh, Passing, Booted, PlannedTags, At, Has, Current
  <1>4. PlanApplied'
    BY <1>1 DEF PInv, PlanApplied, Done, PlannedTags, Live
  <1> QED BY <1>2, <1>3, <1>4 DEF PInv

LEMMA ApplyPInv ==
    ASSUME IInv, PInv, Apply
    PROVE  PInv'
  BY ComparePInv, BootPInv, BootRefusedPInv, RemoveStalePInv, StaleDonePInv, GroupDonePInv,
     EnterGroupPInv, AddMemberPInv, AddMemberFailsPInv, MembersAddedPInv, RemoveMemberPInv,
     AppliedPInv, EndsPInv DEF Apply

LEMMA NextPInv == IInv /\ PInv /\ [Next]_vars => PInv'
  <1> SUFFICES ASSUME IInv, PInv, [Next]_vars PROVE PInv'
    OBVIOUS
  <1>1. CASE Next
    BY <1>1, BeginPInv, StopPInv, BuildPlanPInv, ApplyPInv, EndsPInv DEF Next
  <1>2. CASE UNCHANGED vars
    BY <1>2, StutterPInv
  <1> QED BY <1>1, <1>2

-----------------------------------------------------------------------------
(* Who keeps serving *)

\* The members that a sync is about to remove are not those of its plan.
LeaveInv == pc \in {"members", "removal"} => \A i \in leaving : ~Listed(Current.tag, i)

LEMMA ListedIds ==
    ASSUME PlanAgrees(plan), at \in DOMAIN plan.groups, NEW i, Listed(Current.tag, i)
    PROVE  i \in {Current.members[j].id : j \in DOMAIN Current.members}
  <1>1. PICK k \in DOMAIN plan.groups :
            /\ plan.groups[k].tag = Current.tag
            /\ \E j \in DOMAIN plan.groups[k].members : plan.groups[k].members[j].id = i
    BY DEF Listed
  <1>2. k = at
    BY <1>1 DEF PlanAgrees, Current
  <1> QED BY <1>1, <1>2 DEF Current

\* The steps that leave the sync at the members of a group.
LEMMA NextInside ==
    ASSUME [Next]_vars, pc' \in {"members", "removal"}
    PROVE  \/ EnterGroup \/ AddMember \/ MembersAdded \/ UNCHANGED vars
           \/ \E i \in leaving :
                 \E gone \in SUBSET (Tombs({Current.tag}) \cup {<<Current.tag, i>>}) :
                    RemoveMember(i, gone)
  <1>1. ASSUME NEW n, NEW o, Exclude(n, o) PROVE pc' \in {"idle", "plan"}
    BY <1>1 DEF Exclude, Fail, FailAs, Goto
  <1>2. \/ \E m \in Mappings, same \in BOOLEAN : Begin(m, same)
        \/ Stop \/ (\E p \in PlansNow : BuildPlan(p)) \/ Compare \/ Boot
        \/ (\E t \in Tags : BootRefused(t) \/ RemoveStale(t))
        \/ (\E gone \in SUBSET Tombs(groups) : StaleDone(gone) \/ GroupDone(gone))
        \/ AddMemberFails \/ Applied \/ SelectFails \/ StartFails \/ Fault
        => pc' \notin {"members", "removal"}
    BY <1>1 DEF Begin, Stop, BuildPlan, Fail, FailAs, Compare, Boot, BootRefused, RemoveStale,
                StaleDone, GroupDone, AddMemberFails, Applied, SelectFails, StartFails, Fault,
                QueryFails, BootFails, GroupFails, RemovalFails, Goto
  <1> QED BY <1>2 DEF Next, Apply

LEMMA InitLeave == Init => LeaveInv
  BY DEF Init, LeaveInv

LEMMA NextLeave == IInv /\ PInv /\ LeaveInv /\ [Next]_vars => LeaveInv'
  <1> SUFFICES ASSUME IInv, PInv, LeaveInv, [Next]_vars, pc' \in {"members", "removal"}
               PROVE  \A i \in leaving' : ~Listed(Current.tag, i)'
    BY DEF LeaveInv
  <1>1. CASE EnterGroup
    <2>1. /\ pc = "group" /\ at \in DOMAIN plan.groups /\ UNCHANGED <<plan, at>>
          /\ leaving' \cap {Current.members[k].id : k \in DOMAIN Current.members} = {}
      BY <1>1 DEF EnterGroup, Unlisted, syncVars
    <2>2. PlanAgrees(plan)
      BY <2>1 DEF PInv, PlanInv, Passing
    <2>3. \A i \in leaving' : ~Listed(Current.tag, i)
      BY <2>1, <2>2, ListedIds
    <2> QED BY <2>1, <2>3 DEF Listed, Current
  <1>2. CASE pc \in {"members", "removal"} /\ leaving' \subseteq leaving /\ UNCHANGED <<plan, at>>
    BY <1>2 DEF LeaveInv, Listed, Current
  <1>3. CASE MembersAdded \/ AddMember
    BY <1>2, <1>3 DEF MembersAdded, AddMember, Goto, passVars, syncVars
  <1>4. CASE \E i \in leaving :
                \E gone \in SUBSET (Tombs({Current.tag}) \cup {<<Current.tag, i>>}) :
                   RemoveMember(i, gone)
    BY <1>2, <1>4 DEF RemoveMember, syncVars
  <1>5. CASE UNCHANGED vars
    BY <1>2, <1>5 DEF vars, passVars, syncVars
  <1> QED BY <1>1, <1>3, <1>4, <1>5, NextInside

\* The outbounds o are those of the core, some of them removed and others created; groups
\* have theirs created anew.
InPlace(o) == \A t \in Tags \ GroupTags : out[t] # None => o[t] \in {out[t], None}

\* Members that serve and are listed do so after the step.
Kept ==
    \A x \in Members : Of(x).state = "up" /\ Listed(x[1], x[2]) => x \in Members' /\ Of(x)'.state = "up"

LEMMA RemovedInPlace ==
    ASSUME NEW o, NEW tags, NEW G, NEW m, InPlace(o)
    PROVE  InPlace(RemoveUnused(o, tags, G, m))
  BY DEF InPlace, RemoveUnused

LEMMA CreatedInPlace ==
    ASSUME NEW m, NEW K
    PROVE  InPlace(Created(out, m, K))
  BY DEF InPlace, Created

LEMMA SameInPlace == InPlace(out)
  BY DEF InPlace

\* What is used before and after the step has not been removed, so it has been left alone.
LEMMA KeptUndisturbed ==
    ASSUME IInv, IInv', InPlace(out'), Kept
    PROVE  Undisturbed
  <1>1. Sound(out, groups, member) /\ Sound(out', groups', member')
    BY DEF IInv, Fits
  <1>2. ASSUME NEW x \in Members \cap Members',
               NEW t \in (Of(x).tags \cap Of(x)'.tags) \ GroupTags
        PROVE  out'[t] = out[t]
    <2>1. out[t] # None /\ out'[t] # None
      BY <1>1, <1>2 DEF Sound, Members, Of
    <2>2. x[1] \in GroupTags /\ x[2] \in Ids /\ Of(x) # None
      BY <1>2 DEF Members, Of, IInv, Fits
    <2>3. Of(x) \in Record
      BY <2>2 DEF Of, IInv, Fits, Table
    <2>4. t \in Tags
      BY <1>2, <2>3 DEF Record
    <2> QED BY <1>2, <2>1, <2>4 DEF InPlace
  <1> QED BY <1>2 DEF Undisturbed, Kept

LEMMA SameUndisturbed ==
    ASSUME UNCHANGED coreVars
    PROVE  Undisturbed
  BY DEF coreVars, Undisturbed, Members, Of

LEMMA ExcludeUndisturbed ==
    ASSUME IInv, IInv', NEW n, NEW o, Exclude(n, o), InPlace(o)
    PROVE  running' => Undisturbed
  <1>1. CASE n \in excluded \/ mode = "create"
    BY <1>1 DEF Exclude, Fail, FailAs, Close
  <1>2. CASE n \notin excluded /\ mode # "create"
    <2>1. out' = o /\ UNCHANGED <<groups, member>>
      BY <1>2 DEF Exclude
    <2>2. Kept
      BY <2>1 DEF Kept, Members, Of
    <2> QED BY <2>1, <2>2, KeptUndisturbed
  <1> QED BY <1>1, <1>2

\* A member that serves is no tombstone.
LEMMA MinusKept ==
    ASSUME IInv, NEW G, NEW gone \in Free(Tombs(G)), member' = Minus(member, gone), groups' = groups
    PROVE  Kept
  <1>1. gone \subseteq Tombs(G)
    BY DEF Free
  <1>2. ASSUME NEW x \in Members, Of(x).state = "up" PROVE x \in Members' /\ Of(x)'.state = "up"
    <2>1. x = <<x[1], x[2]>> /\ x[1] \in GroupTags /\ x[2] \in Ids
      BY <1>2 DEF Members, IInv, Fits
    <2>2. x \notin gone
      BY <1>1, <1>2 DEF Tombs, Of
    <2>3. member'[x[1]][x[2]] = member[x[1]][x[2]]
      BY <2>1, <2>2 DEF Minus
    <2> QED BY <1>2, <2>3 DEF Members, Of
  <1> QED BY <1>2 DEF Kept

LEMMA RemoveStaleUndisturbed ==
    ASSUME IInv, IInv', NEW g, RemoveStale(g)
    PROVE  Undisturbed
  <1>1. g \in groups /\ g \notin PlannedTags /\ g \in GroupTags
    BY DEF RemoveStale, IInv, Fits
  <1>2. /\ groups' = groups \ {g} /\ member' = [member EXCEPT ![g] = NoMembers[g]]
        /\ \E tags : out' = RemoveUnused([out EXCEPT ![g] = None], tags, groups', member')
    BY DEF RemoveStale
  <1>3. InPlace([out EXCEPT ![g] = None])
    BY <1>1 DEF InPlace, IInv, Fits
  <1>4. InPlace(out')
    BY <1>2, <1>3, RemovedInPlace
  <1>5. ASSUME NEW x \in Members, Listed(x[1], x[2])
        PROVE  x \in Members' /\ Of(x)' = Of(x)
    <2>1. x[1] \in PlannedTags
      BY <1>5 DEF Listed, PlannedTags, TagsOfPlan
    <2>2. x[1] \in groups' /\ member'[x[1]][x[2]] = member[x[1]][x[2]]
      BY <1>1, <1>2, <1>5, <2>1 DEF Members, IInv, Fits, Table
    <2> QED BY <1>5, <2>2 DEF Members, Of
  <1>6. Kept
    BY <1>5 DEF Kept
  <1> QED BY <1>4, <1>6, KeptUndisturbed

LEMMA StaleDoneUndisturbed ==
    ASSUME IInv, IInv', NEW gone, StaleDone(gone)
    PROVE  Undisturbed
  <1>1. /\ gone \in Free(Tombs(groups)) /\ member' = Minus(member, gone) /\ groups' = groups
        /\ out' = RemoveUnused(out, TagsOf(gone), groups, Minus(member, gone))
    BY DEF StaleDone, Collect
  <1>2. Kept
    BY <1>1, MinusKept
  <1>3. InPlace(out')
    BY <1>1, SameInPlace, RemovedInPlace
  <1> QED BY <1>2, <1>3, KeptUndisturbed

LEMMA EnterGroupUndisturbed ==
    ASSUME IInv, IInv', EnterGroup
    PROVE  Undisturbed
  <1> DEFINE g == Current.tag
  <1>1. /\ at \in DOMAIN plan.groups
        /\ groups' = groups \cup {g}
        /\ member' = IF g \in groups THEN member ELSE [member EXCEPT ![g] = NoMembers[g]]
        /\ out' = IF g \in groups /\ out[g] # None THEN out ELSE [out EXCEPT ![g] = DynamicOption]
    BY DEF EnterGroup
  <1>2. g \in GroupTags
    BY <1>1 DEF IInv, SyncOK, PlanShape, Current
  <1>3. InPlace(out')
    BY <1>1, <1>2 DEF InPlace, IInv, Fits
  <1>4. ASSUME NEW x \in Members PROVE x \in Members' /\ Of(x)' = Of(x)
    <2>1. x[1] \in groups' /\ member'[x[1]][x[2]] = member[x[1]][x[2]]
      BY <1>1, <1>2, <1>4 DEF Members, IInv, Fits, Table
    <2> QED BY <1>4, <2>1 DEF Members, Of
  <1>5. Kept
    BY <1>4 DEF Kept
  <1> QED BY <1>3, <1>5, KeptUndisturbed

LEMMA AddMemberUndisturbed ==
    ASSUME IInv, IInv', AddMember
    PROVE  Undisturbed
  <1>1. PICK k \in todo :
            /\ out' = Created(out, Current.members[k], Positions(Current.members[k]))
            /\ member' = [member EXCEPT ![Current.tag][Current.members[k].id] =
                             [tag |-> Current.members[k].tag, tags |-> TagsUsed(Current.members[k]),
                              state |-> "up"]]
            /\ groups' = groups
    BY DEF AddMember
  <1>2. InPlace(out')
    BY <1>1, CreatedInPlace
  <1>3. ASSUME NEW x \in Members, Of(x).state = "up"
        PROVE  x \in Members' /\ Of(x)'.state = "up"
    <2>1. x \in groups \X Ids /\ x[1] \in GroupTags /\ x[2] \in Ids
      BY <1>3 DEF Members, IInv, Fits
    <2>2. \/ member'[x[1]][x[2]] = member[x[1]][x[2]]
          \/ member'[x[1]][x[2]] = [tag |-> Current.members[k].tag,
                                    tags |-> TagsUsed(Current.members[k]), state |-> "up"]
      BY <1>1, <2>1 DEF IInv, Fits, Table
    <2>3. CASE member'[x[1]][x[2]] = member[x[1]][x[2]]
      BY <1>1, <1>3, <2>1, <2>3 DEF Members, Of
    <2>4. CASE member'[x[1]][x[2]] = [tag |-> Current.members[k].tag,
                                      tags |-> TagsUsed(Current.members[k]), state |-> "up"]
      <3>1. pc = "members" /\ MemberShape(Current.members[k])
        BY CurrentShape DEF AddMember, IInv
      <3>2. Current.members[k].tag \in Tags /\ TagsUsed(Current.members[k]) \subseteq Tags
        BY <3>1, DepsOf DEF MemberShape, TagsUsed
      <3>3. member'[x[1]][x[2]] \in Record
        BY <2>4, <3>2 DEF Record
      <3>4. member'[x[1]][x[2]] # None
        BY <3>3, NoneIsNothing
      <3> QED BY <1>1, <2>1, <2>4, <3>4 DEF Members, Of
    <2> QED BY <2>2, <2>3, <2>4
  <1>4. Kept
    BY <1>3 DEF Kept
  <1> QED BY <1>2, <1>4, KeptUndisturbed

LEMMA AddMemberFailsUndisturbed ==
    ASSUME IInv, IInv', AddMemberFails
    PROVE  running' => Undisturbed
  <1>1. PICK k \in todo : \E stuck \in Stuck(Current.members[k]) :
            \/ Fail
            \/ \E n \in Nodes : Exclude(n, Created(out, Current.members[k],
                                    {j \in Positions(Current.members[k]) : j < stuck}))
    BY DEF AddMemberFails
  <1>2. CASE Fail
    BY <1>2 DEF Fail, FailAs, Close
  <1> QED BY <1>1, <1>2, CreatedInPlace, ExcludeUndisturbed

LEMMA RemoveMemberUndisturbed ==
    ASSUME IInv, IInv', LeaveInv, NEW i \in leaving, NEW gone, RemoveMember(i, gone)
    PROVE  Undisturbed
  <1> DEFINE g == Current.tag
  <1>1. /\ pc = "removal" /\ ~Listed(g, i) /\ i \in Ids
        /\ g \in GroupTags /\ groups' = groups
    BY DEF RemoveMember, LeaveInv, IInv, SyncOK, PlanShape, Current, coreVars
  <1>2. out' = out \/ \E tags, G, m : out' = RemoveUnused(out, tags, G, m)
    BY DEF RemoveMember, coreVars
  <1>3. InPlace(out')
    BY <1>2, SameInPlace, RemovedInPlace
  <1>4. \/ member' = member
        \/ member' = [member EXCEPT ![g][i].state = "off"]
        \/ /\ gone \in Free(Tombs({g}) \cup {<<g, i>>})
           /\ member' = Minus([member EXCEPT ![g][i].state = "tomb"], gone)
    BY DEF RemoveMember, coreVars
  <1>5. ASSUME NEW x \in Members, Of(x).state = "up", Listed(x[1], x[2])
        PROVE  member'[x[1]][x[2]] = member[x[1]][x[2]]
    <2>1. x = <<x[1], x[2]>> /\ x[1] \in GroupTags /\ x[2] \in Ids
      BY <1>5 DEF Members, IInv, Fits
    <2>2. ~(x[1] = g /\ x[2] = i)
      BY <1>1, <1>5
    <2>3. x \notin Tombs({g}) \cup {<<g, i>>}
      BY <1>5, <2>1, <2>2 DEF Tombs, Of
    <2>4. /\ [member EXCEPT ![g][i].state = "off"][x[1]][x[2]] = member[x[1]][x[2]]
          /\ [member EXCEPT ![g][i].state = "tomb"][x[1]][x[2]] = member[x[1]][x[2]]
      BY <1>1, <2>1, <2>2 DEF IInv, Fits, Table
    <2>5. CASE /\ gone \in Free(Tombs({g}) \cup {<<g, i>>})
               /\ member' = Minus([member EXCEPT ![g][i].state = "tomb"], gone)
      <3> DEFINE marked == [member EXCEPT ![g][i].state = "tomb"]
      <3>1. x \notin gone
        BY <2>3, <2>5 DEF Free
      <3>2. marked[x[1]][x[2]] = member[x[1]][x[2]] /\ member' = Minus(marked, gone)
        BY <2>4, <2>5
      <3> HIDE DEF marked
      <3> QED BY <2>1, <3>1, <3>2 DEF Minus
    <2> QED BY <1>4, <2>4, <2>5
  <1>6. Kept
    BY <1>1, <1>5 DEF Kept, Members, Of
  <1> QED BY <1>3, <1>6, KeptUndisturbed

LEMMA GroupDoneUndisturbed ==
    ASSUME IInv, IInv', NEW gone, GroupDone(gone)
    PROVE  Undisturbed
  <1> DEFINE g == Current.tag
  <1>1. /\ pc = "removal" /\ gone \in Free(Tombs(groups)) /\ groups' = groups
        /\ member' = Minus(WithBuiltins, gone)
        /\ out' = RemoveUnused(out, TagsOf(gone), groups, member')
    BY DEF GroupDone
  <1>2. InPlace(out')
    BY <1>1, SameInPlace, RemovedInPlace
  <1>3. ASSUME NEW x \in Members, Of(x).state = "up"
        PROVE  x \in Members' /\ Of(x)'.state = "up"
    <2>1. x = <<x[1], x[2]>> /\ x \in groups \X Ids /\ x[1] \in GroupTags /\ x[2] \in Ids
      BY <1>3 DEF Members, IInv, Fits
    <2>2. x \notin gone
      BY <1>1, <1>3 DEF Free, Tombs, Of
    <2>3. member'[x[1]][x[2]] = WithBuiltins[x[1]][x[2]]
      BY <1>1, <2>1, <2>2 DEF Minus
    <2>4. CASE WithBuiltins[x[1]][x[2]] = member[x[1]][x[2]]
      BY <1>1, <1>3, <2>1, <2>3, <2>4 DEF Members, Of
    <2>5. CASE x[1] = g /\ \E m \in Builtins : m.id = x[2]
      <3>1. WithBuiltins[x[1]][x[2]] = [tag |-> x[2], tags |-> {x[2]}, state |-> "up"]
        BY <2>1, <2>5 DEF WithBuiltins, IInv, Fits, Table
      <3>2. x[2] \in Base
        BY <1>1, <2>5 DEF IInv, SyncOK, PlanShape, MemberShape, Current, Builtins
      <3>3. member'[x[1]][x[2]] \in Record
        BY <2>3, <3>1, <3>2, TagsAreNamed DEF Record
      <3>4. member'[x[1]][x[2]] # None
        BY <3>3, NoneIsNothing
      <3> QED BY <1>1, <2>1, <2>3, <3>1, <3>4 DEF Members, Of
    <2>6. CASE ~(x[1] = g /\ \E m \in Builtins : m.id = x[2])
      <3>1. WithBuiltins[x[1]][x[2]] = member[x[1]][x[2]]
        BY <2>1, <2>6 DEF WithBuiltins, IInv, Fits, Table
      <3> QED BY <2>4, <3>1
    <2> QED BY <2>5, <2>6
  <1>4. Kept
    BY <1>3 DEF Kept
  <1> QED BY <1>2, <1>4, KeptUndisturbed

LEMMA ApplyUndisturbed ==
    ASSUME IInv, IInv', PInv, LeaveInv, Apply, running, running'
    PROVE  Undisturbed
  <1>1. CASE Compare
    BY <1>1, SameUndisturbed DEF Compare, Close
  <1>2. CASE Boot
    BY <1>2 DEF Boot, PInv, NewMode
  <1>3. CASE \E t \in Tags : BootRefused(t)
    BY <1>3, ExcludeUndisturbed, SameInPlace DEF BootRefused, Fail, FailAs, Close
  <1>4. CASE MembersAdded \/ Applied
    BY <1>4, SameUndisturbed DEF MembersAdded, Applied
  <1>5. CASE SelectFails \/ StartFails
    BY <1>5 DEF SelectFails, StartFails, Fail, FailAs, Close
  <1> QED
    BY <1>1, <1>2, <1>3, <1>4, <1>5, RemoveStaleUndisturbed, StaleDoneUndisturbed,
       EnterGroupUndisturbed, AddMemberUndisturbed, AddMemberFailsUndisturbed,
       RemoveMemberUndisturbed, GroupDoneUndisturbed DEF Apply

LEMMA NextUndisturbed ==
    IInv /\ IInv' /\ PInv /\ LeaveInv /\ [Next]_vars => [running /\ running' => Undisturbed]_vars
  <1> SUFFICES ASSUME IInv, IInv', PInv, LeaveInv, Next, running, running' PROVE Undisturbed
    OBVIOUS
  <1>1. CASE (\E m \in Mappings, same \in BOOLEAN : Begin(m, same)) \/ Stop
    BY <1>1, SameUndisturbed DEF Begin, Stop, Close
  <1>2. CASE \E p \in PlansNow : BuildPlan(p)
    BY <1>2, SameUndisturbed, ExcludeUndisturbed, SameInPlace DEF BuildPlan, Fail, FailAs, Close
  <1>3. CASE Fault
    BY <1>3 DEF Fault, QueryFails, BootFails, GroupFails, RemovalFails, FailAs, Close
  <1> QED BY <1>1, <1>2, <1>3, ApplyUndisturbed DEF Next

-----------------------------------------------------------------------------
(* What is selected *)

\* What a group lists is listed in its snapshot, or a builtin, or still to be added, or it
\* has been added since and serves; none of it is about to be removed.
Served(m) == LET r == member[Current.tag][m.id] IN r # None /\ r.state = "up"
SelInv ==
    pc \in {"members", "removal"} =>
        /\ pc = "removal" => todo = {}
        /\ \A j \in DOMAIN Current.members :
              LET m == Current.members[j]
              IN  m.builtin \/ m.id \in seen \/ j \in todo \/ Served(m)

LEMMA InitSel == Init => SelInv
  BY DEF Init, SelInv

\* Nothing that serves is collected or removed.
LEMMA RemovalSel ==
    ASSUME IInv, PInv, LeaveInv, SelInv, NEW i \in leaving,
           NEW gone \in SUBSET (Tombs({Current.tag}) \cup {<<Current.tag, i>>}),
           RemoveMember(i, gone)
    PROVE  SelInv'
  <1> DEFINE g == Current.tag
  <1>1. /\ pc = "removal" /\ pc' = pc /\ UNCHANGED <<at, plan, seen, todo>>
        /\ at \in DOMAIN plan.groups /\ PlanAgrees(plan) /\ g \in GroupTags
    BY DEF RemoveMember, syncVars, IInv, SyncOK, PlanShape, PInv, PlanInv, Passing, Current
  <1>2. ASSUME NEW j \in DOMAIN Current.members, Served(Current.members[j])
        PROVE  Served(Current.members[j])'
    <2> DEFINE x == Current.members[j].id
               marked == [member EXCEPT ![g][i].state = "tomb"]
    <2>1. x # i /\ x \in Ids /\ i \in Ids
      <3>1. Listed(g, x)
        BY <1>1 DEF Listed, Current
      <3>2. \A j2 \in DOMAIN Current.members : Current.members[j2].id \in Ids
        BY <1>1, PlannedIds DEF IInv, Current
      <3> QED BY <1>1, <3>1, <3>2 DEF LeaveInv, IInv, SyncOK
    <2>2. member[g][x] # None /\ member[g][x].state = "up"
      BY <1>2 DEF Served
    <2>3. <<g, x>> \notin gone
      BY <2>1, <2>2 DEF Tombs
    <2>4. member'[g][x] = member[g][x]
      <3>1. CASE UNCHANGED coreVars
        BY <3>1 DEF coreVars
      <3>2. CASE member' = [member EXCEPT ![g][i].state = "off"]
        BY <1>1, <2>1, <3>2 DEF IInv, Fits, Table
      <3>3. CASE member' = Minus(marked, gone)
        <4>1. marked[g][x] = member[g][x]
          BY <1>1, <2>1 DEF IInv, Fits, Table
        <4> HIDE DEF marked
        <4> QED BY <1>1, <2>1, <2>3, <3>3, <4>1 DEF Minus
      <3> QED BY <3>1, <3>2, <3>3 DEF RemoveMember
    <2>5. Current' = Current
      BY <1>1 DEF Current
    <2> QED BY <2>2, <2>4, <2>5 DEF Served
  <1>3. Current' = Current
    BY <1>1 DEF Current
  <1>4. \A j \in DOMAIN Current.members :
            LET m == Current.members[j]
            IN  m.builtin \/ m.id \in seen \/ j \in todo \/ Served(m)'
    BY <1>1, <1>2 DEF SelInv
  <1> QED BY <1>1, <1>3, <1>4 DEF SelInv, Served

LEMMA AddedSel ==
    ASSUME IInv, PInv, SelInv, AddMember
    PROVE  SelInv'
  <1>1. /\ pc = "members" /\ pc' = pc /\ UNCHANGED <<at, plan, seen>>
        /\ at \in DOMAIN plan.groups /\ Current.tag \in GroupTags /\ Current' = Current
    BY DEF AddMember, syncVars, IInv, SyncOK, PlanShape, Current
  <1>2. PICK k \in todo :
            /\ member' = [member EXCEPT ![Current.tag][Current.members[k].id] =
                             [tag |-> Current.members[k].tag,
                              tags |-> TagsUsed(Current.members[k]), state |-> "up"]]
            /\ todo' = todo \ {k}
    BY DEF AddMember
  <1> DEFINE x == Current.members[k]
             g == Current.tag
             new == [tag |-> x.tag, tags |-> TagsUsed(x), state |-> "up"]
  <1>3. new # None /\ new.state = "up" /\ x.id \in Ids
    <2>1. k \in DOMAIN Current.members
      BY <1>1 DEF IInv, SyncOK
    <2>2. MemberShape(x)
      BY <1>1, <2>1 DEF IInv, SyncOK, PlanShape, Current
    <2>3. TagsUsed(x) \subseteq Tags
      BY <2>2, DepsOf DEF MemberShape, TagsUsed
    <2>4. new \in Record
      BY <2>2, <2>3 DEF MemberShape, Record
    <2> QED BY <2>2, <2>4, NoneIsNothing DEF MemberShape
  <1>4. \A b \in Ids : member'[g][b] = IF b = x.id THEN new ELSE member[g][b]
    BY <1>1, <1>2, <1>3 DEF IInv, Fits, Table
  <1> HIDE DEF new
  <1>5. ASSUME NEW j \in DOMAIN Current.members
        PROVE  LET m == Current.members[j]
               IN  m.builtin \/ m.id \in seen \/ j \in todo' \/ Served(m)'
    <2> DEFINE m == Current.members[j]
    <2>1. m.id \in Ids
      BY <1>1, PlannedIds DEF IInv, Current
    <2>2. member'[g][m.id] = IF m.id = x.id THEN new ELSE member[g][m.id]
      BY <1>4, <2>1
    <2>3. Served(m)' <=> member'[g][m.id] # None /\ member'[g][m.id].state = "up"
      BY <1>1 DEF Served
    <2>4. Served(m) => Served(m)'
      BY <1>3, <2>2, <2>3 DEF Served
    <2>5. j = k => Served(m)'
      BY <1>3, <2>2, <2>3
    <2> QED BY <1>1, <1>2, <2>4, <2>5 DEF SelInv
  <1> QED BY <1>1, <1>5 DEF SelInv, Served

LEMMA NextSel == IInv /\ PInv /\ LeaveInv /\ SelInv /\ [Next]_vars => SelInv'
  <1> SUFFICES ASSUME IInv, PInv, LeaveInv, SelInv, [Next]_vars,
                      pc' \in {"members", "removal"}
               PROVE  SelInv'
    BY DEF SelInv
  <1>1. CASE EnterGroup
    <2>1. /\ pc' = "members" /\ Current' = Current
          /\ todo' = {k \in DOMAIN Current.members :
                         ~Current.members[k].builtin /\ Current.members[k].id \notin seen'}
      BY <1>1 DEF EnterGroup, Goto, syncVars, Current
    <2> QED BY <2>1 DEF SelInv
  <1>2. CASE MembersAdded
    BY <1>2 DEF MembersAdded, coreVars, passVars, syncVars, SelInv, Served, Current
  <1>3. CASE UNCHANGED vars
    BY <1>3 DEF vars, coreVars, passVars, syncVars, SelInv, Served, Current
  <1> QED BY <1>1, <1>2, <1>3, NextInside, RemovalSel, AddedSel

\* What cannot be selected was there at the snapshot.
LEMMA LostSelection ==
    ASSUME IInv, PInv, SelInv, SelectFails
    PROVE  SelectionLost
  <1> DEFINE g == Current.tag
             s == Current.selected
  <1>1. /\ pc = "removal" /\ at \in DOMAIN plan.groups /\ PlanAgrees(plan) /\ g \in GroupTags
        /\ s # None /\ WithBuiltins[g][s] = None
    BY DEF SelectFails, Selectable, IInv, SyncOK, PlanShape, PInv, PlanInv, Passing, Current
  <1>2. PICK j \in DOMAIN Current.members : s = Current.members[j].id
    BY <1>1 DEF PlanAgrees, Current
  <1>3. s \in Ids
    BY <1>1, <1>2, PlannedIds DEF IInv, Current
  <1>4. WithBuiltins[g][s] = IF \E m \in Builtins : m.id = s
                             THEN [tag |-> s, tags |-> {s}, state |-> "up"] ELSE member[g][s]
    BY <1>1, <1>3 DEF WithBuiltins, IInv, Fits, Table
  <1>5. \A m \in Builtins : m.id # s
    <2> SUFFICES ASSUME NEW m \in Builtins, m.id = s PROVE FALSE
      OBVIOUS
    <2>1. s \in Base
      BY <1>1 DEF IInv, SyncOK, PlanShape, MemberShape, Current, Builtins
    <2>2. [tag |-> s, tags |-> {s}, state |-> "up"] \in Record
      BY <2>1, TagsAreNamed DEF Record
    <2> QED BY <1>1, <1>4, <2>2, NoneIsNothing
  <1>6. member[g][s] = None
    BY <1>1, <1>4, <1>5
  <1>7. ~Served(Current.members[j])
    BY <1>2, <1>6 DEF Served
  <1>8. s \in seen
    BY <1>1, <1>2, <1>5, <1>7 DEF SelInv, Builtins
  <1> QED BY <1>1, <1>6, <1>8 DEF SelectionLost

-----------------------------------------------------------------------------
(* Who is blamed *)

BInv ==
    /\ pc \in {"compare", "boot"} \/ Passing => PlanBlames(plan, excluded)
    /\ pc # "idle" => result = "none"

\* A step that is accounted for: the mapping does not fail, or for one of the reasons.
Reason == NestedLater \/ \E t \in DOMAIN plan.out \cap HopTags : Refused(plan.out[t])
Blamed == pc # "idle" /\ result' = "failed" => plan'.err.what = "cycle" \/ Reason' \/ SelectionLost
BStep  == BInv' /\ Blamed

LEMMA OtherBStep ==
    ASSUME pc' \in {"idle", "plan"}, pc' = "plan" => result' = "none",
           pc = "idle" \/ result' # "failed"
    PROVE  BStep
  BY DEF BStep, Blamed, BInv, Passing

\* Excluding a node that was not excluded before is no failure.
LEMMA ExcludeBStep ==
    ASSUME BInv, pc # "idle", NEW n, NEW o, Exclude(n, o), n \notin excluded
    PROVE  BStep
  BY OtherBStep DEF Exclude, Goto, BInv

\* A failure that has its reason in the plan, or in a selection.
LEMMA FailBStep ==
    ASSUME Fail, plan'.err.what = "cycle" \/ Reason' \/ SelectionLost
    PROVE  BStep
  BY DEF Fail, FailAs, Goto, BStep, Blamed, BInv, Passing

LEMMA ReasonFrame ==
    ASSUME Reason, plan' = plan
    PROVE  Reason'
  BY DEF Reason, NestedLater

LEMMA BuildPlanBStep ==
    ASSUME IInv, BInv, NEW p \in PlansNow, BuildPlan(p)
    PROVE  BStep
  <1>1. /\ p.err.what = "node" => p.err.node \notin excluded
        /\ p.err.what \in {"node", "cycle"} \/ PlanBlames(p, excluded)
    BY PlansHaveShape DEF IInv, SyncOK, PlansNow
  <1>2. pc = "plan" /\ plan' = p /\ result = "none"
    BY DEF BuildPlan, BInv
  <1>3. CASE p.err.what = "cycle"
    <2>1. Fail
      BY <1>3 DEF BuildPlan
    <2> QED BY <1>2, <1>3, <2>1, FailBStep
  <1>4. CASE p.err.what = "node"
    <2>1. Exclude(p.err.node, out)
      BY <1>4 DEF BuildPlan
    <2> QED BY <1>1, <1>2, <1>4, <2>1, ExcludeBStep
  <1>5. CASE p.err.what \notin {"cycle", "node"}
    <2>1. plan' = p /\ UNCHANGED <<excluded, result>> /\ pc' \in {"compare", "boot"}
      BY <1>5 DEF BuildPlan, Goto
    <2> QED BY <1>1, <1>2, <1>5, <2>1 DEF BStep, Blamed, BInv
  <1> QED BY <1>3, <1>4, <1>5

LEMMA BootRefusedBStep ==
    ASSUME BInv, NEW t \in Tags, BootRefused(t)
    PROVE  BStep
  <1>1. /\ pc = "boot" /\ t \in DOMAIN plan.out /\ Refused(plan.out[t]) /\ plan' = plan
        /\ IF t \in DOMAIN plan.owner THEN Exclude(plan.owner[t], out) ELSE Fail
    BY DEF BootRefused
  <1>2. CASE t \in HopTags
    <2>1. Reason'
      BY <1>1, <1>2, ReasonFrame DEF Reason
    <2>2. CASE Fail
      BY <2>1, <2>2, FailBStep
    <2>3. CASE ~Fail
      BY <1>1, <2>3, ExcludeBStep DEF Exclude
    <2> QED BY <2>2, <2>3
  <1>3. CASE t \notin HopTags
    <2>1. t \in DOMAIN plan.owner /\ plan.owner[t] \notin excluded
      BY <1>1, <1>3 DEF BInv, PlanBlames
    <2> QED BY <1>1, <2>1, ExcludeBStep
  <1> QED BY <1>2, <1>3

\* A group that is not registered yet comes after the current one.
LEMMA StuckReason ==
    ASSUME IInv, PInv, BInv, pc = "members", NEW k \in todo,
           NEW i \in Stuck(Current.members[k])
    PROVE  \/ Reason
           \/ LET m == Current.members[k]
              IN  m.tag \in DOMAIN plan.owner /\ plan.owner[m.tag] \notin excluded
  <1> DEFINE m == Current.members[k]
             u == Part(m, i).tag
             opt == Part(m, i).opt
  <1>1. /\ at \in DOMAIN plan.groups /\ k \in DOMAIN plan.groups[at].members
        /\ PlanAgrees(plan) /\ PlanBlames(plan, excluded)
    BY DEF PInv, PlanInv, BInv, Passing, IInv, SyncOK, Current
  <1>2. i \in Positions(m) /\ out[u] = None /\ Uncreatable(opt)
    BY DEF Stuck
  <1>3. /\ u \in DOMAIN plan.out \ GroupTags => opt = plan.out[u]
        /\ Refused(opt) => u \in HopTags \cup {m.tag} /\ u \in DOMAIN plan.out \ GroupTags
        /\ opt = DynamicOption =>
              m.tag \in TagsOfPlan(plan) /\ m.opt = DynamicOption /\ u = m.tag
    <2>1. \A q \in Positions(m) :
              Part(m, q).tag \in DOMAIN plan.out \ GroupTags
                  => Part(m, q).opt = plan.out[Part(m, q).tag]
      BY <1>1 DEF PlanAgrees, Current
    <2>2. \A q \in Positions(m) :
              /\ Refused(Part(m, q).opt) => /\ Part(m, q).tag \in HopTags \cup {m.tag}
                                            /\ Part(m, q).tag \in DOMAIN plan.out \ GroupTags
              /\ Part(m, q).opt = DynamicOption =>
                    m.tag \in TagsOfPlan(plan) /\ m.opt = DynamicOption /\ Part(m, q).tag = m.tag
      BY <1>1 DEF PlanBlames, Current
    <2> HIDE DEF m
    <2> QED BY <1>2, <2>1, <2>2
  <1>4. CASE opt = DynamicOption
    <2>1. PICK j \in DOMAIN plan.groups : m.tag = plan.groups[j].tag
      BY <1>3, <1>4 DEF TagsOfPlan
    <2>2. m.tag \notin groups
      BY <1>2, <1>3, <1>4 DEF IInv, Fits, Sound
    <2>3. ~(j <= at)
      BY <1>1, <2>1, <2>2 DEF PInv, GroupsInv, Passing, PlanAgrees
    <2>4. at < j
      BY <1>1, <2>3 DEF PlanAgrees
    <2>5. NestedLater
      BY <1>1, <1>3, <1>4, <2>1, <2>4 DEF NestedLater, Current
    <2> QED BY <2>5 DEF Reason
  <1>5. CASE Refused(opt)
    <2>1. u \in DOMAIN plan.out /\ Refused(plan.out[u])
      BY <1>3, <1>5
    <2>2. CASE u \in HopTags
      BY <2>1, <2>2 DEF Reason
    <2>3. CASE u \notin HopTags
      BY <1>1, <1>3, <1>5, <2>1, <2>3 DEF PlanBlames
    <2> QED BY <2>2, <2>3
  <1> QED BY <1>2, <1>4, <1>5 DEF Uncreatable

LEMMA AddMemberFailsBStep ==
    ASSUME IInv, PInv, BInv, AddMemberFails
    PROVE  BStep
  <1>1. pc = "members" /\ plan' = plan
    BY DEF AddMemberFails
  <1>2. PICK k \in todo : \E stuck \in Stuck(Current.members[k]) :
            \/ (\A n \in Nodes : ~Suspect(Current.members[k], n)) /\ Fail
            \/ \E n \in Nodes :
                  /\ Suspect(Current.members[k], n)
                  /\ Exclude(n, Created(out, Current.members[k],
                                        {j \in Positions(Current.members[k]) : j < stuck}))
    BY DEF AddMemberFails
  <1> DEFINE m == Current.members[k]
  <1>3. CASE Reason
    <2>1. CASE Fail
      BY <1>1, <1>3, <2>1, ReasonFrame, FailBStep
    <2>2. CASE ~Fail
      BY <1>1, <1>2, <2>2, ExcludeBStep DEF Exclude
    <2> QED BY <2>1, <2>2
  <1>4. CASE m.tag \in DOMAIN plan.owner /\ plan.owner[m.tag] \notin excluded
    <2>1. plan.owner[m.tag] \in Nodes /\ \A n : Suspect(m, n) <=> n = plan.owner[m.tag]
      BY <1>4 DEF Suspect, IInv, SyncOK, PlanShape
    <2> QED BY <1>1, <1>2, <1>4, <2>1, ExcludeBStep
  <1> QED BY <1>1, <1>2, <1>3, <1>4, StuckReason

LEMMA PassBStep ==
    ASSUME BInv, Passing, UNCHANGED <<plan, excluded, result>>
    PROVE  BStep
  BY DEF BStep, Blamed, BInv, Passing

LEMMA ApplyBStep ==
    ASSUME IInv, PInv, BInv, SelInv, Apply
    PROVE  BStep
  <1>1. CASE Compare
    <2>1. /\ pc = "compare" /\ UNCHANGED <<plan, result>>
          /\ pc' = "plan" \/ (pc' = "stale" /\ UNCHANGED excluded)
      BY <1>1 DEF Compare, Goto
    <2> QED BY <2>1 DEF BStep, Blamed, BInv, Passing
  <1>2. CASE Boot
    BY <1>2 DEF Boot, Goto, syncVars, BStep, Blamed, BInv, Passing
  <1>3. CASE \E t \in Tags : RemoveStale(t)
    BY <1>3, PassBStep DEF RemoveStale, syncVars, Passing
  <1>4. CASE \E gone \in SUBSET Tombs(groups) : StaleDone(gone) \/ GroupDone(gone)
    BY <1>4, PassBStep DEF StaleDone, GroupDone, syncVars, Passing
  <1>5. CASE EnterGroup \/ MembersAdded
    BY <1>5, PassBStep DEF EnterGroup, MembersAdded, syncVars, Passing
  <1>6. CASE AddMember
    BY <1>6, PassBStep DEF AddMember, syncVars, Passing
  <1>7. CASE \E i \in leaving :
                \E gone \in SUBSET (Tombs({Current.tag}) \cup {<<Current.tag, i>>}) :
                   RemoveMember(i, gone)
    BY <1>7, PassBStep DEF RemoveMember, syncVars, Passing
  <1>8. CASE Applied
    BY <1>8, OtherBStep DEF Applied, Goto
  <1>9. CASE StartFails
    BY <1>9, OtherBStep DEF StartFails, FailAs, Goto
  <1>10. CASE \E t \in Tags : BootRefused(t)
    BY <1>10, BootRefusedBStep
  <1>11. CASE AddMemberFails
    BY <1>11, AddMemberFailsBStep
  <1>12. CASE SelectFails
    BY <1>12, LostSelection, FailBStep DEF SelectFails
  <1> QED
    BY <1>1, <1>2, <1>3, <1>4, <1>5, <1>6, <1>7, <1>8, <1>9, <1>10, <1>11, <1>12 DEF Apply

LEMMA NextBStep == IInv /\ PInv /\ BInv /\ SelInv /\ [Next]_vars => BStep
  <1> SUFFICES ASSUME IInv, PInv, BInv, SelInv, [Next]_vars PROVE BStep
    OBVIOUS
  <1>1. CASE \E m \in Mappings, same \in BOOLEAN : Begin(m, same)
    BY <1>1, OtherBStep DEF Begin
  <1>2. CASE Stop
    BY <1>2, OtherBStep DEF Stop
  <1>3. CASE \E p \in PlansNow : BuildPlan(p)
    BY <1>3, BuildPlanBStep
  <1>4. CASE Apply
    BY <1>4, ApplyBStep
  <1>5. CASE Fault
    BY <1>5, OtherBStep DEF Fault, QueryFails, BootFails, GroupFails, RemovalFails, FailAs, Goto
  <1>6. CASE UNCHANGED vars
    <2>1. UNCHANGED <<plan, excluded, pc, result>>
      BY <1>6 DEF vars, syncVars
    <2> QED BY <2>1 DEF BStep, Blamed, BInv, Passing
  <1> QED BY <1>1, <1>2, <1>3, <1>4, <1>5, <1>6 DEF Next

LEMMA NextBlamed ==
    IInv /\ PInv /\ BInv /\ SelInv /\ [Next]_vars =>
        [pc # "idle" /\ result' = "failed" =>
            \/ plan'.err.what = "cycle" \/ NestedLater' \/ SelectionLost
            \/ \E t \in DOMAIN plan'.out \cap HopTags : Refused(plan'.out[t])]_vars
  BY NextBStep DEF BStep, Blamed, Reason

-----------------------------------------------------------------------------
\* Every variable of the core and of its syncs keeps its type: in particular, the member a
\* sync is working on is one of the group of its plan.
THEOREM TypeCorrect == Spec => []TypeOK
  <1> QED BY Invariance, InvImplies, PTL

\* No outbound is removed while a member of a group lists its tag, whatever is planned,
\* refused, excluded, removed and collected.
THEOREM OutboundsInUseStay == Spec => []TagsLive
  <1> QED BY Invariance, InvImplies, PTL

\* A sync that succeeds has applied its plan, on a new core and on one that has been
\* brought through any sequence of plans before.
THEOREM SyncsApplyThePlan == Spec => []PlanApplied
  <1>1. PInv => PlanApplied
    BY DEF PInv
  <1> QED BY <1>1, Invariance, InitPInv, NextInv, NextPInv, PTL DEF Spec

\* When the database answers and sing-box does what it is asked to, a mapping fails because
\* its groups contain each other, because a group comes to contain one that is not there
\* yet, because of a hop that sing-box refuses, or because what a group was to select is
\* collected while the group is synced; a node that is refused under its own tag only
\* costs itself.
THEOREM BadNodesAreExcluded == Spec => OneBadNodeIsExcluded
  <1>1. Init => BInv
    BY DEF Init, BInv, Passing
  <1>2. BStep => BInv'
    BY DEF BStep
  <1> QED
    BY <1>1, <1>2, Invariance, InitPInv, NextPInv, InitLeave, NextLeave, InitSel, NextSel,
       NextBStep, NextBlamed, PTL DEF Spec, OneBadNodeIsExcluded

\* A member that the plan keeps serves throughout every update of a running core, and no
\* outbound is removed or replaced under a member that uses it, whatever is planned.
THEOREM UpdatesInterruptNobody == Spec => UpdatesKeepServing
  <1> QED
    BY Invariance, InitPInv, NextPInv, InitLeave, NextLeave, NextUndisturbed, PTL
       DEF Spec, UpdatesKeepServing
=============================================================================
