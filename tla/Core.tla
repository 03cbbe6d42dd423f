-------------------------------- MODULE Core --------------------------------
(***************************************************************************)
(* The core of one mapping while its plans are applied: the outbounds of   *)
(* sing-box, the registered dynamic groups and their members               *)
(* (core/singboxcore/core.go), and the sync that brings them in line with  *)
(* the database (service/proxy/runtime_plan.go, runtime_lifecycle.go).     *)
(*                                                                         *)
(* An outbound exists once and is used by many: by the members that list   *)
(* its tag, and through detours and selectors.  It is removed when the     *)
(* last member that lists its tag is collected.  A node whose outbound     *)
(* sing-box refuses is excluded and the plan made again without it.        *)
(*                                                                         *)
(* Syncs of a mapping run one at a time (RuntimeManager).  The rows and    *)
(* the blacklist change at any time, so every plan is made from any of     *)
(* them; a member that was removed is collected once its connections are   *)
(* closed, which may be at any later time (DynamicGroup).                  *)
(***************************************************************************)
EXTENDS Naturals, Sequences

CONSTANTS
    Mappings, Rows, Nodes,  \* mapping rows, contents of the other tables, nodes
    Blacklists,             \* nodes that may be blacklisted together
    Tags,                   \* tags of outbounds
    GroupTags, HopTags,     \* those of dynamic groups, and of the hops of chains
    Base,                   \* direct and block
    Ids,                    \* identifiers of members
    Busy,                   \* members that connections may outlive: pairs of tag and identifier
    Plan(_, _, _, _),       \* the plan of a mapping (PlanBuilder)
    None

\* What the plans are made of: the members of their groups, the outbounds with their
\* options, the nodes that own them.
MemberShape(m) ==
    /\ m.id \in Ids /\ m.tag \in Tags /\ m.opt # None
    /\ m.builtin => m.id \in Base
    /\ m.deps \in Seq([tag : Tags, opt : {m.deps[k].opt : k \in DOMAIN m.deps} \ {None}])

\* The outbounds of a member in the order of their creation: those it depends on, then
\* its own.
Part(m, k)   == IF k \in DOMAIN m.deps THEN m.deps[k] ELSE [tag |-> m.tag, opt |-> m.opt]
Positions(m) == {k \in DOMAIN m.deps : m.deps[k].tag # m.tag} \cup {Len(m.deps) + 1}

\* What a plan's outbound dials through or chooses from.
Refers(opt) == CASE opt.kind = "proxy" -> {opt.detour} \ {None}
                 [] opt.kind = "selector" -> {opt.tags[k] : k \in DOMAIN opt.tags}
                 [] OTHER -> {}

PlanShape(p) ==
    /\ DOMAIN p.out \subseteq Tags
    /\ \A t \in DOMAIN p.out : p.out[t] # None
    /\ \A t \in DOMAIN p.owner : p.owner[t] \in Nodes
    /\ \A k \in DOMAIN p.groups :
         /\ p.groups[k].tag \in GroupTags
         /\ \A j \in DOMAIN p.groups[k].members : MemberShape(p.groups[k].members[j])
         /\ p.groups[k].selected \in Ids \cup {None}

\* A plan that could be made: its groups are listed once and select one of their members,
\* it has every outbound that is referred to, and its members have the options that it
\* lists.  The tag of a chain's group may be among the outbounds too, as a selector; its
\* dynamic group takes the selector's place.
TagsOfPlan(p) == {p.groups[k].tag : k \in DOMAIN p.groups}
Known(p)      == DOMAIN p.out \cup TagsOfPlan(p) \cup Base
PlanAgrees(p) ==
    /\ DOMAIN p.groups = 1..Len(p.groups) /\ Len(p.groups) \in Nat
    /\ \A k, j \in DOMAIN p.groups : p.groups[k].tag = p.groups[j].tag => k = j
    /\ \A t \in DOMAIN p.out : Refers(p.out[t]) \subseteq Known(p)
    /\ \A k \in DOMAIN p.groups :
         p.groups[k].selected \in
             {None} \cup {p.groups[k].members[j].id : j \in DOMAIN p.groups[k].members}
    /\ \A k \in DOMAIN p.groups : \A j \in DOMAIN p.groups[k].members :
         LET m == p.groups[k].members[j]
         IN  \A i \in Positions(m) :
                /\ Part(m, i).tag \in Known(p)
                /\ Part(m, i).tag \in DOMAIN p.out \ GroupTags
                      => Part(m, i).opt = p.out[Part(m, i).tag]

DynamicOption == [kind |-> "dynamic"]
\* sing-box does not accept the options, or there is no group behind them.
Refused(opt)     == opt.kind = "proxy" /\ opt.refused
Uncreatable(opt) == opt = DynamicOption \/ Refused(opt)

\* The builder knows whom to blame for an outbound that cannot be created, and has not
\* used a node that was blamed before under its own tag.
PlanBlames(p, X) ==
    /\ \A t \in DOMAIN p.out \ HopTags :
          Refused(p.out[t]) => t \in DOMAIN p.owner /\ p.owner[t] \notin X
    /\ \A k \in DOMAIN p.groups : \A j \in DOMAIN p.groups[k].members :
         LET m == p.groups[k].members[j]
         IN  \A i \in Positions(m) :
                /\ Refused(Part(m, i).opt) => /\ Part(m, i).tag \in HopTags \cup {m.tag}
                                             /\ Part(m, i).tag \in DOMAIN p.out \ GroupTags
                /\ Part(m, i).opt = DynamicOption =>
                      m.tag \in TagsOfPlan(p) /\ m.opt = DynamicOption /\ Part(m, i).tag = m.tag

ASSUME TagsAreNamed == Base \subseteq Tags \cap Ids /\ GroupTags \subseteq Tags \ Base
ASSUME PlansHaveShape ==
    \A m \in Mappings, r \in Rows, B \in Blacklists, X \in SUBSET Nodes :
        LET p == Plan(m, r, B, X)
        IN  /\ PlanShape(p)
            /\ p.err.what = "node" => p.err.node \in Nodes \ X
            /\ p.err.what \in {"node", "cycle"} \/ (PlanAgrees(p) /\ PlanBlames(p, X))

VARIABLES
    out,        \* the outbounds of the core: their options, or None
    groups,     \* Core.groups: the tags that are registered
    member,     \* the members of each group: the tags they use and their state
    inst,       \* instance.outbounds: the outbounds of the plan applied last
    running,    \* there is an instance
    pc,         \* where the sync is
    mode,       \* it updates the instance, or creates one
    mapping,    \* the row it works for
    excluded,   \* excludedNodeIDs
    plan,       \* the plan being applied
    at,         \* the group of the plan being synced
    seen,       \* its members at the snapshot
    todo,       \* indices of the members still to be added
    leaving,    \* identifiers of the members still to be removed
    unnoticed,  \* outbounds that the core had when they were not in inst
    result      \* how the latest sync ended

coreVars == <<out, groups, member>>
bookVars == <<inst, running, unnoticed>>
passVars == <<at, seen, todo, leaving>>
syncVars == <<mapping, excluded, plan, result>>
vars == <<coreVars, bookVars, passVars, syncVars, pc, mode>>

BaseOption    == [kind |-> "builtin"]
NoMembers     == [g \in GroupTags |-> [i \in Ids |-> None]]
NoPlan        == [err |-> [what |-> ""], out |-> <<>>, owner |-> <<>>, groups |-> <<>>]

Record == [tag : Tags, tags : SUBSET Tags, state : {"up", "off", "tomb"}]
ASSUME NoneIsNothing == None \notin {DynamicOption, BaseOption} /\ None \notin Record

PlannedTags == TagsOfPlan(plan)
Current     == plan.groups[at]

\* The members that may be gone when the collector looks.
Tombs(G) == {x \in G \X Ids : /\ member[x[1]][x[2]] # None
                              /\ member[x[1]][x[2]].state = "tomb"}
\* What the collector may take: those that have no connections left.
Free(X) == {X \ kept : kept \in SUBSET {x \in X : x \in Busy}}
Minus(m, gone) == [g \in GroupTags |-> [i \in Ids |-> IF <<g, i>> \in gone THEN None ELSE m[g][i]]]

\* referencedOutboundTags, given the groups and their members.
Referenced(G, m) ==
    G \cup UNION {m[x[1]][x[2]].tags : x \in {y \in G \X Ids : m[y[1]][y[2]] # None}}

\* Mutant: whatever the other groups use.
RemoveUnused_shared(o, tags, G, m) == [t \in Tags |-> IF t \in tags \ (Base \cup G) THEN None ELSE o[t]]
\* removeOutboundTagsIfUnused.
RemoveUnused(o, tags, G, m) ==
    [t \in Tags |-> IF t \in tags \ (Base \cup Referenced(G, m)) THEN None ELSE o[t]]

TagsOf(X) == UNION {member[x[1]][x[2]].tags : x \in X}

\* DynamicGroup.GC for the members in gone.
Collect(gone) ==
    /\ member' = Minus(member, gone)
    /\ out' = RemoveUnused(out, TagsOf(gone), groups, Minus(member, gone))

-----------------------------------------------------------------------------
Goto(step) == pc' = step /\ UNCHANGED mode

\* The variables of the pass over the groups are forgotten.
Leave == at' = 1 /\ seen' = {} /\ todo' = {} /\ leaving' = {}

\* The core is closed and forgotten.
Close ==
    /\ out' = [t \in Tags |-> None]
    /\ groups' = {}
    /\ member' = NoMembers
    /\ inst' = <<>> /\ unnoticed' = {}
    /\ running' = FALSE

\* runtimeSyncMapping, RuntimeReload: an instance is updated unless its inbound changed.
Begin(m, same) ==
    /\ pc = "idle"
    /\ mapping' = m /\ excluded' = {} /\ result' = "none"
    /\ plan' = NoPlan
    /\ pc' = "plan"
    /\ IF running /\ same
       THEN mode' = "update" /\ UNCHANGED <<coreVars, bookVars>>
       ELSE mode' = "create" /\ Close
    /\ UNCHANGED passVars

\* runtimeRemoveMapping, RuntimeStop.
Stop ==
    /\ pc = "idle" /\ running
    /\ Close
    /\ result' = "none"
    /\ UNCHANGED <<passVars, pc, mode, mapping, excluded, plan>>

\* The mapping fails; its core is closed.
FailAs(why) ==
    /\ Close
    /\ result' = why
    /\ excluded' = {}
    /\ Leave
    /\ Goto("idle")
    /\ UNCHANGED mapping
Fail == FailAs("failed")

\* What the plan has no part in: a query of the builder fails.
QueryFails == pc = "plan" /\ FailAs("fault") /\ UNCHANGED plan

\* Mutant: a node that was excluded before is tried again.
Exclude_again(n, o) ==
    /\ excluded' = excluded \cup {n}
    /\ Goto("plan")
    /\ IF mode = "create" THEN Close ELSE out' = o /\ UNCHANGED <<groups, member, bookVars>>
    /\ Leave
    /\ UNCHANGED <<mapping, result>>
\* excludeRuntimeNode: the plan is made again without n, unless that was tried before.
\* A core that was to be created is thrown away; one that was being updated goes on
\* with the outbounds o.
Exclude(n, o) ==
    IF n \in excluded THEN Fail
    ELSE /\ excluded' = excluded \cup {n}
         /\ Goto("plan")
         /\ IF mode = "create" THEN Close ELSE out' = o /\ UNCHANGED <<groups, member, bookVars>>
         /\ Leave
         /\ UNCHANGED <<mapping, result>>

PlansNow == {Plan(mapping, r, black, excluded) : r \in Rows, black \in Blacklists}

\* The rows and the blacklist are read; black contains what Exclude wrote unless it was
\* released since.
BuildPlan(p) ==
    /\ pc = "plan"
    /\ plan' = p
    /\ CASE p.err.what = "cycle" -> Fail
         [] p.err.what = "node" -> Exclude(p.err.node, out)
         [] OTHER ->
              /\ Goto(IF mode = "update" THEN "compare" ELSE "boot")
              /\ UNCHANGED <<coreVars, bookVars, passVars, mapping, excluded, result>>

\* Mutant: the options are not compared.
Changed_never == {}
\* Outbounds cannot be changed in place: other options need a new instance.
Changed == {t \in DOMAIN plan.out \cap DOMAIN inst : plan.out[t] # inst[t]}
Compare ==
    /\ pc = "compare"
    /\ IF Changed # {}
       THEN /\ Close
            /\ pc' = "plan" /\ mode' = "create" /\ excluded' = {}
       ELSE /\ Goto("stale")
            /\ unnoticed' = {t \in unnoticed \cup (DOMAIN plan.out \ DOMAIN inst) : out[t] # None}
            /\ UNCHANGED <<coreVars, inst, running, excluded>>
    /\ UNCHANGED <<passVars, mapping, plan, result>>

\* box.New with the outbounds of the plan; which of several bad ones it names depends on
\* their tags.  Then all groups are registered.
Booted == [t \in Tags |-> IF t \in PlannedTags THEN DynamicOption
                          ELSE IF t \in DOMAIN plan.out THEN plan.out[t]
                          ELSE IF t \in Base THEN BaseOption ELSE None]
Boot ==
    /\ pc = "boot"
    /\ out' = Booted
    /\ groups' = PlannedTags
    /\ member' = NoMembers
    /\ \A t \in DOMAIN plan.out : ~Refused(plan.out[t])
    /\ Goto("stale")
    /\ UNCHANGED <<bookVars, passVars, syncVars>>

\* Mutant: the mapping fails, whatever node is to blame.
BootRefused_fails(t) ==
    /\ pc = "boot"
    /\ t \in DOMAIN plan.out /\ Refused(plan.out[t])
    /\ Fail
    /\ UNCHANGED plan
BootRefused(t) ==
    /\ pc = "boot"
    /\ t \in DOMAIN plan.out /\ Refused(plan.out[t])
    /\ IF t \in DOMAIN plan.owner THEN Exclude(plan.owner[t], out) ELSE Fail
    /\ UNCHANGED plan

\* box.New fails for another reason, or the outbound of a group cannot be created.
BootFails == pc = "boot" /\ FailAs("fault") /\ UNCHANGED plan

\* removeStaleDynamicGroups: Core.RemoveGroup for each, then Core.GC.
RemoveStale(g) ==
    /\ pc = "stale"
    /\ g \in groups \ PlannedTags
    /\ groups' = groups \ {g}
    /\ member' = [member EXCEPT ![g] = NoMembers[g]]
    /\ out' = RemoveUnused([out EXCEPT ![g] = None],
                           TagsOf({x \in {g} \X Ids : member[g][x[2]] # None}), groups', member')
    /\ UNCHANGED <<bookVars, passVars, syncVars, pc, mode>>

StaleDone(gone) ==
    /\ pc = "stale"
    /\ groups \subseteq PlannedTags
    /\ gone \in Free(Tombs(groups))
    /\ Collect(gone)
    /\ Goto("group")
    /\ UNCHANGED <<groups, bookVars, passVars, syncVars>>

\* Core.UpsertGroup and the snapshot.
Present(g) == {i \in Ids : member[g][i] # None}
\* Mutant: members are looked up by their tags.
Unlisted_tags(had, ms) == had \ {ms[k].tag : k \in DOMAIN ms}
Unlisted(had, ms) == had \ {ms[k].id : k \in DOMAIN ms}
EnterGroup ==
    /\ pc = "group" /\ at \in DOMAIN plan.groups
    /\ LET g == Current.tag
           had == IF g \in groups THEN Present(g) ELSE {}
           ms == Current.members
       IN  /\ groups' = groups \cup {g}
           /\ member' = IF g \in groups THEN member ELSE [member EXCEPT ![g] = NoMembers[g]]
           /\ out' = IF g \in groups /\ out[g] # None THEN out ELSE [out EXCEPT ![g] = DynamicOption]
           /\ seen' = had
           /\ todo' = {k \in DOMAIN ms : ~ms[k].builtin /\ ms[k].id \notin had}
           /\ leaving' = Unlisted(had, ms)
    /\ Goto("members")
    /\ UNCHANGED <<at, bookVars, syncVars>>

\* Core.UpsertGroup has an outbound to create, and cannot.
GroupFails ==
    /\ pc = "group" /\ at \in DOMAIN plan.groups
    /\ Current.tag \notin groups \/ out[Current.tag] = None
    /\ FailAs("fault") /\ UNCHANGED plan

TagsUsed(m)  == {m.tag} \cup {m.deps[k].tag : k \in DOMAIN m.deps}

\* CreateOutbound: one that exists is left as it is.
Created(o, m, K) ==
    [t \in Tags |-> IF o[t] = None /\ \E k \in K : Part(m, k).tag = t
                    THEN Part(m, CHOOSE k \in K : Part(m, k).tag = t).opt ELSE o[t]]
Stuck(m) == {k \in Positions(m) : out[Part(m, k).tag] = None /\ Uncreatable(Part(m, k).opt)}

First(k, K) == k \in K /\ \A j \in K : k <= j

\* The next member in the order of the plan gets its outbounds and is added.
AddMember ==
    /\ pc = "members"
    /\ \E next \in todo :
         LET m == Current.members[next]
         IN  /\ First(next, todo)
             /\ Stuck(m) = {}
             /\ out' = Created(out, m, Positions(m))
             /\ member' = [member EXCEPT ![Current.tag][m.id] =
                              [tag |-> m.tag, tags |-> TagsUsed(m), state |-> "up"]]
             /\ todo' = todo \ {next}
    /\ UNCHANGED <<groups, at, seen, leaving, bookVars, syncVars, pc, mode>>

\* nodeFromDynamicMember: the node of the member's outbound, or of the first it depends
\* on that has one.
Owned(m) == {k \in DOMAIN m.deps : m.deps[k].tag \in DOMAIN plan.owner}
Suspect(m, n) ==
    IF m.tag \in DOMAIN plan.owner THEN n = plan.owner[m.tag]
    ELSE \E k \in Owned(m) : First(k, Owned(m)) /\ n = plan.owner[m.deps[k].tag]

\* It cannot get them all: those before the first that is refused stay.
AddMemberFails ==
    /\ pc = "members"
    /\ \E next \in todo :
         LET m == Current.members[next]
         IN  /\ First(next, todo)
             /\ \E stuck \in Stuck(m) :
                  /\ First(stuck, Stuck(m))
                  /\ \/ /\ \A n \in Nodes : ~Suspect(m, n)
                        /\ Fail
                     \/ \E n \in Nodes :
                          /\ Suspect(m, n)
                          /\ Exclude(n, Created(out, m, {k \in Positions(m) : k < stuck}))
    /\ UNCHANGED plan

MembersAdded ==
    /\ pc = "members" /\ todo = {}
    /\ Goto("removal")
    /\ UNCHANGED <<coreVars, bookVars, passVars, syncVars>>

\* Core.RemoveNode, which also collects what it can in the group, or DisableNode.
RemoveMember(i, gone) ==
    /\ pc = "removal" /\ i \in leaving
    /\ leaving' = leaving \ {i}
    /\ LET g == Current.tag
           tombs == Tombs({g}) \cup {<<g, i>>}
       IN  \/ /\ member[g][i] = None /\ gone = {}
              /\ UNCHANGED coreVars
           \/ /\ member[g][i] # None /\ member[g][i].tag \in Base /\ gone = {}
              /\ member' = [member EXCEPT ![g][i].state = "off"]
              /\ UNCHANGED <<out, groups>>
           \/ /\ member[g][i] # None /\ member[g][i].tag \notin Base /\ gone \in Free(tombs)
              /\ LET marked == [member EXCEPT ![g][i].state = "tomb"]
                 IN  /\ member' = Minus(marked, gone)
                     /\ out' = RemoveUnused(out, TagsOf(gone), groups, member')
              /\ UNCHANGED groups
    /\ UNCHANGED <<at, seen, todo, bookVars, syncVars, pc, mode>>

\* sing-box does not remove an outbound that it was asked to remove: the errors of
\* Core.RemoveGroup, Core.RemoveNode and Core.GC end the sync.
RemovalFails ==
    /\ \/ pc = "stale" /\ (groups \ PlannedTags # {} \/ Tombs(groups) # {})
       \/ pc = "removal" /\ (leaving # {} \/ Tombs(groups) # {})
    /\ FailAs("fault") /\ UNCHANGED plan

\* addBuiltinMember for the builtins that are not listed yet, Core.SelectNode for the
\* member that the plan selects (ErrNoAvailableNode is not counted), Core.GC.
Builtins == {m \in {Current.members[k] : k \in DOMAIN Current.members} : m.builtin /\ m.id \notin seen}
WithBuiltins ==
    [member EXCEPT ![Current.tag] =
        [i \in Ids |-> IF \E m \in Builtins : m.id = i
                       THEN [tag |-> i, tags |-> {i}, state |-> "up"] ELSE @[i]]]
Selectable == Current.selected # None => WithBuiltins[Current.tag][Current.selected] # None
GroupDone(gone) ==
    /\ pc = "removal" /\ leaving = {}
    /\ Selectable
    /\ gone \in Free(Tombs(groups))
    /\ member' = Minus(WithBuiltins, gone)
    /\ out' = RemoveUnused(out, TagsOf(gone), groups, member')
    /\ at' = at + 1
    /\ Goto("group")
    /\ seen' = {}
    /\ UNCHANGED <<groups, todo, leaving, bookVars, syncVars>>

\* ErrNodeNotFound: what was to be selected has been collected since the snapshot.
SelectFails ==
    /\ pc = "removal" /\ leaving = {}
    /\ ~Selectable
    /\ Fail
    /\ UNCHANGED plan

\* The plan is applied; a new core is started.
Applied ==
    /\ pc = "group" /\ at \notin DOMAIN plan.groups
    /\ inst' = plan.out
    /\ running' = TRUE
    /\ result' = "applied"
    /\ excluded' = {}
    /\ Leave
    /\ Goto("idle")
    /\ UNCHANGED <<coreVars, unnoticed, mapping, plan>>

\* Core.Start fails: the port is taken.
StartFails ==
    /\ pc = "group" /\ at \notin DOMAIN plan.groups /\ mode = "create"
    /\ FailAs("unstarted")
    /\ UNCHANGED plan

Init ==
    /\ out = [t \in Tags |-> None]
    /\ groups = {}
    /\ member = NoMembers
    /\ inst = <<>>
    /\ running = FALSE
    /\ pc = "idle" /\ mode = "create"
    /\ mapping \in Mappings
    /\ excluded = {}
    /\ plan = NoPlan
    /\ at = 1 /\ seen = {} /\ todo = {} /\ leaving = {}
    /\ unnoticed = {}
    /\ result = "none"

\* A step of the sync once there is a plan.
Apply ==
    \/ Compare \/ Boot
    \/ \E t \in Tags : BootRefused(t) \/ RemoveStale(t)
    \/ \E gone \in SUBSET Tombs(groups) : StaleDone(gone) \/ GroupDone(gone)
    \/ EnterGroup \/ AddMember \/ AddMemberFails \/ MembersAdded
    \/ \E i \in leaving :
          \E gone \in SUBSET (Tombs({Current.tag}) \cup {<<Current.tag, i>>}) : RemoveMember(i, gone)
    \/ SelectFails
    \/ Applied \/ StartFails

\* What is outside goes wrong: the database, or sing-box for another reason than its options.
Fault == QueryFails \/ BootFails \/ GroupFails \/ RemovalFails

Next ==
    \/ \E m \in Mappings, same \in BOOLEAN : Begin(m, same)
    \/ Stop
    \/ \E p \in PlansNow : BuildPlan(p)
    \/ Apply
    \/ Fault

Spec == Init /\ [][Next]_vars

\* A sync runs in a goroutine of its own, which is not held up for ever.  The second
\* conjunct is weak fairness of the steps from "plan", one of which is always possible:
\* the plan is made, or its making fails.
FairSpec ==
    /\ Spec
    /\ WF_vars(Apply)
    /\ <>[](pc = "plan") => []<><<pc = "plan">>_vars

-----------------------------------------------------------------------------
TypeOK ==
    /\ out = [t \in Tags |-> out[t]]
    /\ groups \subseteq GroupTags
    /\ member \in [GroupTags -> [Ids -> {None} \cup Record]]
    /\ running \in BOOLEAN
    /\ pc \in {"idle", "plan", "compare", "boot", "stale", "group", "members", "removal"}
    /\ mode \in {"update", "create"}
    /\ mapping \in Mappings
    /\ excluded \subseteq Nodes
    /\ at \in Nat
    /\ seen \subseteq Ids /\ leaving \subseteq Ids
    /\ PlanShape(plan)
    /\ pc \in {"members", "removal"} => at \in DOMAIN plan.groups
    /\ pc = "members" => todo \subseteq DOMAIN Current.members
    /\ unnoticed \subseteq Tags
    /\ result \in {"none", "applied", "failed", "fault", "unstarted"}

Live(t) == out[t] # None
Members == {x \in groups \X Ids : member[x[1]][x[2]] # None}
Of(x)   == member[x[1]][x[2]]

\* No outbound is removed while a member lists its tag, whichever member created it and
\* however many collections run in between, even if the member was removed and is only
\* waiting for its connections to close.  The tags of dynamic groups are not counted:
\* those of a registered group are there.
TagsLive ==
    /\ \A g \in groups : Live(g)
    /\ \A x \in Members : \A t \in Of(x).tags \ GroupTags : Live(t)

Done == pc = "idle" /\ result = "applied"

\* A sync that succeeds leaves the groups of its plan and no others; no outbound it
\* planned has old options, unless the core had it without the instance knowing; and a
\* new core lacks nothing that its outbounds refer to.  The tags of groups are not
\* counted: a group's outbound takes the place of a selector that the plan has under
\* its tag.
PlanApplied ==
    Done => /\ groups = PlannedTags
            /\ \A t \in DOMAIN plan.out \ (GroupTags \cup unnoticed) : out[t] \in {plan.out[t], None}
            /\ mode = "create" =>
                 /\ \A t \in Tags : Live(t) => \A u \in Refers(out[t]) : Live(u)
                 /\ \A k \in DOMAIN plan.groups : \A j \in DOMAIN plan.groups[k].members :
                       LET m == plan.groups[k].members[j]
                       IN  member[plan.groups[k].tag][m.id] # None /\ Live(m.tag)

\* A group of the plan is synced before one that it contains.
NestedLater == \E k, j \in DOMAIN plan.groups :
    k < j /\ \E i \in DOMAIN plan.groups[k].members :
                LET m == plan.groups[k].members[i] IN m.tag = plan.groups[j].tag /\ m.opt = DynamicOption

\* What a group was to select was there at its snapshot and is not there any more.
SelectionLost ==
    /\ pc = "removal"
    /\ Current.selected \in seen
    /\ member[Current.tag][Current.selected] = None

\* When the database answers and sing-box does what it is asked to, a mapping fails only
\* because of its groups, of a hop of a chain, or of a selection that is collected while
\* the group is synced: a node that is refused under its own tag is excluded, and the
\* others go on serving.
OneBadNodeIsExcluded ==
    [][pc # "idle" /\ result' = "failed" =>
           \/ plan'.err.what = "cycle" \/ NestedLater' \/ SelectionLost
           \/ \E t \in DOMAIN plan'.out \cap HopTags : Refused(plan'.out[t])]_vars

\* The plan being applied lists member i in group g.
Listed(g, i) ==
    \E k \in DOMAIN plan.groups :
        /\ plan.groups[k].tag = g
        /\ \E j \in DOMAIN plan.groups[k].members : plan.groups[k].members[j].id = i

\* Applying plans to a running core interrupts nobody: a member that serves and that the
\* plan lists goes on serving, through every step of the sync; and no outbound is removed
\* or replaced under a member that uses it before and after the step, even if it is only
\* waiting for its connections to close.
Undisturbed ==
    /\ \A x \in Members : Of(x).state = "up" /\ Listed(x[1], x[2])
                            => x \in Members' /\ Of(x)'.state = "up"
    /\ \A x \in Members \cap Members' :
          \A t \in (Of(x).tags \cap Of(x)'.tags) \ GroupTags : out'[t] = out[t]
UpdatesKeepServing == [][running /\ running' => Undisturbed]_vars

\* A sync ends, however many nodes have to be excluded.
SyncEnds == pc # "idle" ~> pc = "idle"
=============================================================================
