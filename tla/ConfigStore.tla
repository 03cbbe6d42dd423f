----------------------------- MODULE ConfigStore -----------------------------
(***************************************************************************)
(* The configuration rows of proxy-hub: nodes and chains, groups, port     *)
(* mappings and subscriptions (service.go, group_service.go,               *)
(* subscription_service.go), and the question runtime_reconcile.go answers *)
(* about them: which mappings does a change reach?                         *)
(*                                                                         *)
(* A request is one action, that is, requests are served one at a time.    *)
(* Lists are sets: where the code takes the first element of a list, the   *)
(* model takes any. Names, addresses, ports and strategies other than      *)
(* "manual or not" are left out.                                           *)
(***************************************************************************)
EXTENDS Naturals, FiniteSets, Functions

CONSTANTS
    Nodes, Groups, Mappings, Subs,  \* row identifiers
    None,                           \* the empty identifier
    MaxList,                        \* bound on the nodes, and on the groups, a request lists
    MaxTargets                      \* bound on the targets of a mapping

ASSUME GroupsFinite == IsFiniteSet(Groups)
ASSUME NoneAssumption == None \notin Nodes \cup Groups \cup Mappings \cup Subs

VARIABLES
    node,     \* [Nodes -> NodeRow], kind "none" for a row that is not there
    group,    \* [Groups -> GroupRow]
    mapping,  \* [Mappings -> MappingRow]
    sub       \* [Subs -> SubRow]

vars == <<node, group, mapping, sub>>

NodeRow == [kind: {"none", "plain", "chain"}, nodes: SUBSET Nodes, groups: SUBSET Groups,
            primary: Groups \cup {None}, sub: Subs \cup {None}]
GroupRow == [kind: {"none", "manual", "subscription"}, nodes: SUBSET Nodes,
             groups: SUBSET Groups, sub: Subs \cup {None}]
MappingRow == [here: BOOLEAN, manual: BOOLEAN, nodes: SUBSET Nodes, groups: SUBSET Groups,
               activeNode: Nodes \cup {None}, activeGroup: Groups \cup {None}]
SubRow == [here: BOOLEAN, root: Groups \cup {None}]

NoNode == [kind |-> "none", nodes |-> {}, groups |-> {}, primary |-> None, sub |-> None]
NoGroup == [kind |-> "none", nodes |-> {}, groups |-> {}, sub |-> None]
NoMapping == [here |-> FALSE, manual |-> FALSE, nodes |-> {}, groups |-> {},
              activeNode |-> None, activeGroup |-> None]
NoSub == [here |-> FALSE, root |-> None]

NodesHere(ns) == {n \in Nodes : ns[n].kind # "none"}
Chains(ns) == {n \in Nodes : ns[n].kind = "chain"}
GroupsHere(gs) == {g \in Groups : gs[g].kind # "none"}
SubGroups(gs, s) == {g \in Groups : gs[g].kind = "subscription" /\ gs[g].sub = s}
SubNodes(ns, s) == {n \in NodesHere(ns) : ns[n].sub = s}

\* Identifiers are never used twice: a new row gets one that no row mentions.
NewNodes ==
    {n \in Nodes \ NodesHere(node) :
        /\ \A c \in Nodes : n \notin node[c].nodes
        /\ \A g \in Groups : n \notin group[g].nodes
        /\ \A m \in Mappings : n \notin mapping[m].nodes}
NewGroups ==
    {g \in Groups \ GroupsHere(group) :
        /\ \A n \in Nodes : g \notin node[n].groups /\ g # node[n].primary
        /\ \A h \in Groups : g \notin group[h].groups
        /\ \A m \in Mappings : g \notin mapping[m].groups
        /\ \A s \in Subs : g # sub[s].root}

\* The first element of a list held as a set: any, or None for the empty list.
First(S) == IF S = {} THEN {None} ELSE S

\* The first i elements of a set listed in this order.
Prefix(order, i) == {order[j] : j \in {j \in DOMAIN order : j <= i}}

\* Sets small enough to be a list of one request.
Small(S) == {T \in SUBSET S : Cardinality(T) <= MaxList}

-----------------------------------------------------------------------------
(* Chains and the groups they go through *)

\* chainMemberGroupClosure: the groups that are there among seeds and, again
\* and again, their child groups.
Closure(gs, seeds) ==
    LET children == {<<g, gs[g].groups>> : g \in Groups}
    IN  IF seeds = {} THEN {}
        ELSE {g \in GroupsHere(gs) :
                \A S \in SUBSET Groups :
                    (seeds \subseteq S /\ \A c \in children : c[1] \in S => c[2] \subseteq S) => g \in S}

\* expandAffectedGroups: the groups that have one of seeds in their closure.
Ancestors(gs, seeds) ==
    seeds \cup {g \in GroupsHere(gs) : Closure(gs, gs[g].groups) \cap seeds # {}}

\* hasChainGroupCycle
HasCycle(gs, seeds) == \E g \in Closure(gs, seeds) : g \in Closure(gs, gs[g].groups)

\* chainMemberGroupsContainChainNode: by a group's list or by a node's group_id.
ContainsChain(gs, ns, seeds) ==
    \E n \in Chains(ns), g \in Closure(gs, seeds) : n \in gs[g].nodes \/ ns[n].primary = g

\* The negation of chainMemberGroupsInvalid.
ChainGroupsValid(gs, ns) ==
    \A n \in Chains(ns) :
        ns[n].groups # {} =>
            ~HasCycle(gs, ns[n].groups) /\ ~ContainsChain(gs, ns, ns[n].groups)

\* ensureGroupMembersKeepChainMemberGroupsValid: group g replaced by one with
\* these members, whatever children the stored row has.
MembersValid(gs, ns, g, members, children) ==
    ChainGroupsValid([gs EXCEPT ![g].nodes = members, ![g].groups = children \ {g}], ns)

\* ensureNodeNotReferencedByChains, ensureNodesNotReferencedByActiveChains
NodesUnreferenced(ns, S) == \A n \in Nodes \ S : ns[n].nodes \cap S = {}

\* ensureGroupNotReferencedByChains
GroupsUnreferenced(gs, ns, S) ==
    \A n \in Chains(ns) : ns[n].groups \cap Ancestors(gs, S) = {}

-----------------------------------------------------------------------------
(* Nodes *)

\* groupIDsForNodeFromGroups
GroupsOf(n) ==
    {g \in Groups : n \in group[g].nodes} \cup ({node[n].primary} \ {None})

\* addNodesToGroupMembership and removeNodesFromGroupMembership: node n in the
\* lists of the groups in S, and out of them.
Adding(gs, n, S) == [g \in Groups |-> IF g \in S THEN [gs[g] EXCEPT !.nodes = @ \cup {n}] ELSE gs[g]]
Removing(gs, n, S) == [g \in Groups |-> IF g \in S THEN [gs[g] EXCEPT !.nodes = @ \ {n}] ELSE gs[g]]

\* The groups after node n is a member of exactly the groups in S.
Membership(gs, n, S) == Adding(Removing(gs, n, Groups \ S), n, S)

\* syncNodeGroupMembership: n leaves the groups outside S and is added to new
\* ones in the order of the request, each after a check against the stored node
\* rows ns. The first refusal ends the request: what was done remains. The set of
\* outcomes, one per order.
Joined(ns, n, S) ==
    LET new == S \ GroupsOf(n)
        k == Cardinality(new)
        left == Removing(group, n, Groups \ S)
        accepted(o, i) == MembersValid(Adding(left, n, Prefix(o, i - 1)), ns, o[i],
                                       left[o[i]].nodes \cup {n}, {})
        \* an order and how far the additions come
        ends == {e \in Bijection(1..k, new) \X (0..k) :
                    /\ \A j \in 1..e[2] : accepted(e[1], j)
                    /\ e[2] < k => ~accepted(e[1], e[2] + 1)}
    IN  {[groups |-> Adding(left, n, Prefix(e[1], e[2])), ok |-> e[2] = k] : e \in ends}

\* normalizeNodeRequest and normalizeNodeChainIDs: a chain has two members or
\* more that are there, none of them itself or a chain.
ChainRequestOK(n, members, through) ==
    /\ Cardinality(members) + Cardinality(through) >= 2
    /\ members \subseteq NodesHere(node) \ {n}
    /\ members \cap Chains(node) = {}
    /\ through \subseteq GroupsHere(group)
    /\ ~HasCycle(group, through)

\* ensurePendingNodeKeepsChainMemberGroupsValid
PendingOK(n, row, S) == ChainGroupsValid(Membership(group, n, S), [node EXCEPT ![n] = row])

\* The row a request for node n writes, one per choice of the primary group.
RequestedRows(n, chain, members, through, S) ==
    {[kind |-> IF chain THEN "chain" ELSE "plain", nodes |-> members, groups |-> through,
      primary |-> p, sub |-> node[n].sub] : p \in First(S)}

\* What a request may ask of node n: to be a plain node or a chain, in groups S.
NodeRequests(n) ==
    {[chain |-> FALSE, nodes |-> {}, groups |-> {}, into |-> S] : S \in SUBSET GroupsHere(group)}
    \cup
    {r \in [chain: {TRUE}, nodes: Small(Nodes), groups: Small(Groups), into: SUBSET GroupsHere(group)] :
        ChainRequestOK(n, r.nodes, r.groups)}

\* The row is created first and then joins its groups. A plain node is not
\* checked before: it has no identifier yet.
NodeCreate(n) ==
    /\ n \in NewNodes
    /\ \E r \in NodeRequests(n) :
       \E row \in RequestedRows(n, r.chain, r.nodes, r.groups, r.into) :
          /\ r.chain => PendingOK(n, row, r.into)
          /\ node' = [node EXCEPT ![n] = row]
          /\ \E o \in Joined(node', n, r.into) : group' = o.groups
    /\ UNCHANGED <<mapping, sub>>

\* The groups are changed first, checked against the row as it was; the row is
\* written only when every group has been joined.
NodeUpdate(n) ==
    /\ node[n].kind # "none"
    /\ \E r \in NodeRequests(n) :
       \E row \in RequestedRows(n, r.chain, r.nodes, r.groups, r.into) :
          /\ PendingOK(n, row, r.into)
          /\ \E o \in Joined(node, n, r.into) :
                /\ group' = o.groups
                /\ node' = IF o.ok THEN [node EXCEPT ![n] = row] ELSE node
    /\ UNCHANGED <<mapping, sub>>

\* Mutant: the active node stays although it has left the list.
MappingsWithoutNodesKeepActive(ms, S, pick) == [m \in Mappings |-> [ms[m] EXCEPT !.nodes = @ \ S]]

\* Mutant: the choice is given up whenever nodes are deleted.
MappingsWithoutNodesNoChoice(ms, S, pick) ==
    [m \in Mappings |-> [ms[m] EXCEPT !.nodes = @ \ S, !.activeNode = None]]

\* cleanupNodeReferences: the nodes in S leave every list. A manual mapping whose
\* active node is among them goes over to the first one left.
PickNode(ms, S) == {p \in [Mappings -> Nodes \cup {None}] : \A m \in Mappings : p[m] \in First(ms[m].nodes \ S)}
MappingsWithoutNodes(ms, S, pick) ==
    [m \in Mappings |-> [ms[m] EXCEPT !.nodes = @ \ S,
                                      !.activeNode = IF ~ms[m].manual THEN None
                                                     ELSE IF @ \in S THEN pick[m] ELSE @]]
GroupsWithoutNodes(gs, S) == [g \in Groups |-> [gs[g] EXCEPT !.nodes = @ \ S]]

NodeDelete(n) ==
    /\ node[n].kind # "none"
    /\ NodesUnreferenced(node, {n})
    /\ \E pick \in PickNode(mapping, {n}) : mapping' = MappingsWithoutNodes(mapping, {n}, pick)
    /\ group' = GroupsWithoutNodes(group, {n})
    /\ node' = [node EXCEPT ![n] = NoNode]
    /\ UNCHANGED sub

-----------------------------------------------------------------------------
(* Groups *)

\* addNodesToGroup, after the group's list has been written: unless the check
\* refuses, nodes without a primary group get this one.
Adopted(ns, gs, g, members) ==
    IF members = {} \/ ~MembersValid(gs, ns, g, members, {}) THEN ns
    ELSE [n \in Nodes |-> IF n \in members /\ ns[n].primary = None
                          THEN [ns[n] EXCEPT !.primary = g] ELSE ns[n]]

GroupCreate(g) ==
    /\ g \in NewGroups
    /\ \E members \in Small(NodesHere(node)) :
          /\ group' = [group EXCEPT ![g] = [NoGroup EXCEPT !.kind = "manual", !.nodes = members]]
          /\ node' = Adopted(node, group', g, members)
    /\ UNCHANGED <<mapping, sub>>

\* The child groups a subscription gave the group are dropped; nodes that leave
\* (clearNodeGroup) and had it as their primary group have none.
GroupUpdate(g) ==
    /\ group[g].kind = "manual"
    /\ \E members \in Small(NodesHere(node)) :
          LET gone == group[g].nodes \ members
              cleared == [n \in Nodes |-> IF n \in gone /\ node[n].primary = g
                                          THEN [node[n] EXCEPT !.primary = None] ELSE node[n]]
          IN  /\ MembersValid(group, node, g, members, {})
              /\ group' = [group EXCEPT ![g].nodes = members, ![g].groups = {}]
              /\ node' = Adopted(cleared, group', g, members)
    /\ UNCHANGED <<mapping, sub>>

\* cleanupGroupReferences
PickGroup(ms, S) == {p \in [Mappings -> Groups \cup {None}] : \A m \in Mappings : p[m] \in First(ms[m].groups \ S)}
MappingsWithoutGroups(ms, S, pick) ==
    [m \in Mappings |-> [ms[m] EXCEPT !.groups = @ \ S,
                                      !.activeGroup = IF ~ms[m].manual THEN None
                                                      ELSE IF @ \in S THEN pick[m] ELSE @]]
\* Mutant: groups keep a deleted group among their children.
GroupsWithoutKeepChild(gs, S) == [g \in Groups |-> IF g \in S THEN NoGroup ELSE gs[g]]
GroupsWithout(gs, S) ==
    [g \in Groups |-> IF g \in S THEN NoGroup ELSE [gs[g] EXCEPT !.groups = @ \ S]]

GroupDelete(g) ==
    /\ group[g].kind = "manual"
    /\ GroupsUnreferenced(group, node, {g})
    /\ \E pick \in PickGroup(mapping, {g}) : mapping' = MappingsWithoutGroups(mapping, {g}, pick)
    /\ group' = GroupsWithout(group, {g})
    /\ node' = [n \in Nodes |-> IF node[n].primary = g THEN [node[n] EXCEPT !.primary = None] ELSE node[n]]
    /\ sub' = [s \in Subs |-> IF sub[s].root = g THEN [sub[s] EXCEPT !.root = None] ELSE sub[s]]

-----------------------------------------------------------------------------
(* Import of a document with proxies and proxy groups, without a subscription *)

\* The child groups a document's groups D may have. (The code drops a group from
\* its own children, so naming it there is the same as not naming it.)
Children(D) == {f \in [D -> Small(D)] : \A g \in D : g \notin f[g]}

\* The groups once the groups in done, of a document's, have been given their
\* members and children.
Filled(gs, member, child, done) ==
    [g \in Groups |-> IF g \in done
                      THEN [gs[g] EXCEPT !.nodes = member[g], !.groups = child[g]]
                      ELSE gs[g]]
\* Mutant: the check forgets the children.
FillAcceptedFlat(gs, ns, member, child, done, g) ==
    MembersValid(Filled(gs, member, child, done), ns, g, member[g], {})
\* The check of group g when those in done have been filled.
FillAccepted(gs, ns, member, child, done, g) ==
    MembersValid(Filled(gs, member, child, done), ns, g, member[g], child[g])

\* upsertManualImportNode for a node that exists: it becomes a plain node of
\* target. It leaves its primary group before target is checked, against the row
\* as it was, and a refusal skips the rest.
ImportNode(n, target) ==
    LET was == node[n].primary
        row == [node[n] EXCEPT !.kind = "plain", !.nodes = {}, !.groups = {}, !.primary = target]
        left == Removing(group, n, {was} \ {target})
        joined == Adding(left, n, {target})
        ok == target = None \/ MembersValid(left, node, target, joined[target].nodes, {})
    IN  /\ node[n].kind # "none" /\ node[n].sub = None
        /\ target \in GroupsHere(group) \cup {None}
        /\ ChainGroupsValid(joined, [node EXCEPT ![n] = row])
        /\ group' = IF ok THEN joined ELSE left
        /\ node' = IF ok THEN [node EXCEPT ![n] = row] ELSE node
        /\ UNCHANGED <<mapping, sub>>

\* upsertManualImportGroupShell, for every group of a document.
ImportShells(D) ==
    [g \in Groups |-> IF g \in D THEN [group[g] EXCEPT !.kind = "manual"] ELSE group[g]]

\* appendManualImportToGroup: the target gets what was imported, unless refused.
Appended(gs, target, D, P) ==
    LET N == gs[target].nodes \cup P
        G == gs[target].groups \cup (D \ {target})
    IN  IF target # None /\ MembersValid(gs, node, target, N, G)
        THEN [gs EXCEPT ![target] = [@ EXCEPT !.nodes = N, !.groups = G]]
        ELSE gs

\* importManualClashRaw once its nodes P are in place: groups D that are new are
\* created, all are filled in order until one is refused, and the target gets what
\* was imported. The outcomes, one per document and order.
Imported(target, D, P) ==
    LET k == Cardinality(D)
        shells == ImportShells(D)
        accepted(x, i) == FillAccepted(shells, node, x.member, x.child, Prefix(x.order, i - 1), x.order[i])
        filled(x) == Filled(shells, x.member, x.child, Prefix(x.order, x.end))
        documents == {x \in [member: [D -> SUBSET P], child: Children(D), order: Bijection(1..k, D), end: 0..k] :
                         /\ \A i \in 1..x.end : accepted(x, i)
                         /\ x.end < k => ~accepted(x, x.end + 1)}
    IN  {IF x.end = k THEN Appended(filled(x), target, D, P) ELSE filled(x) : x \in documents}

\* The import of a document whose nodes are as ImportNode and NodeCreate, which
\* import them one by one, leave them.
ImportGroups(target) ==
    LET groups == SUBSET {g \in Groups : group[g].kind = "manual" \/ g \in NewGroups} \ {{}}
        nodes == Small({n \in Nodes : /\ node[n].kind = "plain" /\ node[n].sub = None
                                      /\ node[n].primary = target
                                      /\ target = None \/ n \in group[target].nodes})
    IN  /\ target \in GroupsHere(group) \cup {None}
        /\ group' \in UNION {Imported(target, d[1], d[2]) : d \in groups \X nodes}
        /\ UNCHANGED <<node, mapping, sub>>

-----------------------------------------------------------------------------
(* Mappings *)

\* normalizeMappingRequest: the pairs of active node and active group that requests
\* for lists N and G end with: a listed group that is asked for, else a listed node
\* that is asked for, else the first group, else the first node.
Actives(manual, N, G) ==
    IF ~manual \/ N \cup G = {} THEN {<<None, None>>}
    ELSE (N \X {None}) \cup ({None} \X G)

\* MappingCreate and MappingUpdate
MappingUpsert(m) ==
    /\ \E manual \in BOOLEAN, N \in SUBSET NodesHere(node), G \in SUBSET GroupsHere(group) :
          /\ Cardinality(N) + Cardinality(G) <= MaxTargets
          /\ \E a \in Actives(manual, N, G) :
                mapping' = [mapping EXCEPT ![m] =
                               [here |-> TRUE, manual |-> manual, nodes |-> N, groups |-> G,
                                activeNode |-> a[1], activeGroup |-> a[2]]]
    /\ UNCHANGED <<node, group, sub>>

MappingSwitch(m) ==
    /\ mapping[m].here /\ mapping[m].manual
    /\ \/ \E n \in mapping[m].nodes :
             mapping' = [mapping EXCEPT ![m].activeNode = n, ![m].activeGroup = None]
       \/ \E g \in mapping[m].groups :
             mapping' = [mapping EXCEPT ![m].activeNode = None, ![m].activeGroup = g]
    /\ UNCHANGED <<node, group, sub>>

MappingDelete(m) ==
    /\ mapping[m].here
    /\ mapping' = [mapping EXCEPT ![m] = NoMapping]
    /\ UNCHANGED <<node, group, sub>>

-----------------------------------------------------------------------------
(* Subscriptions *)

\* ensureSubscriptionRootGroup: the manual group asked for, or a new one.
RootGroups(want) ==
    IF want = None THEN NewGroups ELSE {g \in {want} : group[g].kind = "manual"}

\* The groups with the root group of a subscription, created if it is new.
WithRoot(root) ==
    IF root \in GroupsHere(group) THEN group
    ELSE [group EXCEPT ![root] = [NoGroup EXCEPT !.kind = "manual"]]

\* SubscriptionCreate and SubscriptionUpdate
SubscriptionUpsert(s) ==
    /\ \E want \in Groups \cup {None} : \E root \in RootGroups(want) :
          /\ sub' = [sub EXCEPT ![s] = [here |-> TRUE, root |-> root]]
          /\ group' = WithRoot(root)
    /\ UNCHANGED <<node, mapping>>

\* The subscription's groups and then its nodes; its root group stays, and so do
\* the primary groups of other nodes.
SubscriptionDelete(s) ==
    LET gone == SubGroups(group, s)
        goneNodes == SubNodes(node, s)
    IN  /\ sub[s].here
        /\ GroupsUnreferenced(group, node, gone)
        /\ NodesUnreferenced(node, goneNodes)
        /\ \E pickG \in PickGroup(mapping, gone), pickN \in PickNode(mapping, goneNodes) :
              mapping' = MappingsWithoutNodes(MappingsWithoutGroups(mapping, gone, pickG), goneNodes, pickN)
        /\ group' = GroupsWithoutNodes(GroupsWithout(group, gone), goneNodes)
        /\ node' = [n \in Nodes |-> IF n \in goneNodes THEN NoNode ELSE node[n]]
        /\ sub' = [sub EXCEPT ![s] = NoSub]

\* What a fetched subscription can say of the rows of subscription s: which nodes
\* it still has (rows), which of its entries fail to parse (bad: such a row is
\* left alone), the groups and their members, listed in some order.
Documents(s) ==
    {d \in [rows: SUBSET (SubNodes(node, s) \cup NewNodes),
            bad: SUBSET SubNodes(node, s),
            groups: SUBSET (SubGroups(group, s) \cup NewGroups)] :
        d.rows \cap d.bad = {}}

\* A row that had another primary group leaves that group's list, and a row that
\* goes leaves every list.
Moved(gs, d, root, gone) ==
    [g \in Groups |-> [gs[g] EXCEPT
        !.nodes = @ \ ({n \in d.rows : g # root /\ node[n].primary = g} \cup gone)]]

\* The row of a node of subscription s.
SubscribedRow(root, s) == [NoNode EXCEPT !.kind = "plain", !.primary = root, !.sub = s]

\* The groups of the document are there, and the root group lists nodes N and groups G.
Shelled(gs, D, s) ==
    [g \in Groups |-> IF g \notin D THEN gs[g] ELSE [gs[g] EXCEPT !.kind = "subscription", !.sub = s]]
Rooted(gs, root, N, G) == [gs EXCEPT ![root].nodes = N, ![root].groups = G]

\* syncSubscriptionRaw, one transaction: any refusal leaves everything as it was.
SubscriptionSync(s, d) ==
    /\ sub[s].here
    /\ \E root \in IF sub[s].root = None THEN RootGroups(None) ELSE {sub[s].root} :
       LET gone == SubNodes(node, s) \ (d.rows \cup d.bad)
           goneGroups == SubGroups(group, s) \ d.groups
           rows == [n \in Nodes |-> IF n \in d.rows THEN SubscribedRow(root, s) ELSE node[n]]
           left == [n \in Nodes |-> IF n \in gone THEN NoNode ELSE rows[n]]
           shells == Shelled(Moved(WithRoot(root), d, root, gone), d.groups, s)
           k == Cardinality(d.groups)
       IN  /\ root \notin d.groups
           /\ NodesUnreferenced(rows, gone)
           /\ \E f \in {f \in [member: [d.groups -> Small(d.rows)], child: Children(d.groups)] :
                           \E order \in Bijection(1..k, d.groups) : \A i \in 1..k :
                              FillAccepted(shells, left, f.member, f.child, Prefix(order, i - 1), order[i])} :
              LET filled == Filled(shells, f.member, f.child, d.groups)
                  kept == GroupsWithout(filled, goneGroups)
              IN  /\ GroupsUnreferenced(filled, left, goneGroups)
                  /\ MembersValid(kept, left, root, d.rows, d.groups)
                  /\ group' = Rooted(kept, root, d.rows, d.groups)
           /\ node' = left
           /\ sub' = [sub EXCEPT ![s].root = root]
           /\ \E pickN \in PickNode(mapping, gone), pickG \in PickGroup(mapping, goneGroups) :
                 mapping' = MappingsWithoutGroups(MappingsWithoutNodes(mapping, gone, pickN), goneGroups, pickG)

-----------------------------------------------------------------------------
Init ==
    /\ node = [n \in Nodes |-> NoNode]
    /\ group = [g \in Groups |-> NoGroup]
    /\ mapping = [m \in Mappings |-> NoMapping]
    /\ sub = [s \in Subs |-> NoSub]

Next ==
    \/ \E n \in Nodes : NodeCreate(n) \/ NodeUpdate(n) \/ NodeDelete(n)
    \/ \E g \in Groups : GroupCreate(g) \/ GroupUpdate(g) \/ GroupDelete(g)
    \/ \E target \in Groups \cup {None} : \E n \in Nodes : ImportNode(n, target)
    \/ \E target \in Groups \cup {None} : ImportGroups(target)
    \/ \E m \in Mappings : MappingUpsert(m) \/ MappingSwitch(m) \/ MappingDelete(m)
    \/ \E s \in Subs : SubscriptionUpsert(s) \/ SubscriptionDelete(s)
    \/ \E s \in Subs : \E d \in Documents(s) : SubscriptionSync(s, d)

Spec == Init /\ [][Next]_vars

-----------------------------------------------------------------------------
(* What a mapping's plan is built from, and what runtime_reconcile.go finds *)

\* findNodesByGroupOrIDs: a group's nodes are those of its list and those that
\* have it as their primary group.
MembersOf(G) == {n \in NodesHere(node) : node[n].primary \in G \/ \E g \in G : n \in group[g].nodes}
ListedIn(G) == UNION {group[g].nodes : g \in G}

\* The targets of mapping m, and the groups and nodes below the chains among N.
TargetGroups(m) == Closure(group, mapping[m].groups)
HopGroups(N) == Closure(group, UNION {node[c].groups : c \in N \cap Chains(node)})
HopNodes(N) == UNION {node[c].nodes : c \in N \cap Chains(node)}

\* The first loop of runtimeAffectedMappingIDsByNodes: S and the chains over S.
ChainsOver(S) ==
    {n \in Nodes : \A T \in SUBSET Nodes :
        (S \subseteq T /\ \A c \in Chains(node) : node[c].nodes \cap T # {} => c \in T) => n \in T}

\* Mutant: parents of groups are not followed.
ClosedUpwardsFlat(N, G) ==
    /\ \A g \in Groups : group[g].nodes \cap N # {} => g \in G
    /\ \A c \in Chains(node) : node[c].groups \cap G # {} => c \in N

\* Its second loop: groups with such nodes, the groups above them, and the
\* chains through those groups.
ClosedUpwards(N, G) ==
    /\ \A g \in Groups : (group[g].nodes \cap N # {} \/ group[g].groups \cap G # {}) => g \in G
    /\ \A c \in Chains(node) : node[c].groups \cap G # {} => c \in N
UpwardsOf(S) ==
    LET C == ChainsOver(S)
    IN  {p \in (SUBSET Nodes) \X (SUBSET Groups) : C \subseteq p[1] /\ ClosedUpwards(p[1], p[2])}

\* runtimeAffectedMappingIDsByNodes
AffectedByNodes(S) ==
    LET U == UpwardsOf(S)
        N == {n \in Nodes : \A p \in U : n \in p[1]}
        G == {g \in Groups : \A p \in U : g \in p[2]}
    IN  {m \in Mappings : mapping[m].nodes \cap N # {} \/ mapping[m].groups \cap G # {}}

\* runtimeAffectedMappingIDsByGroups
AffectedByGroups(S) ==
    LET above == Ancestors(group, S)
        through == {c \in Chains(node) : node[c].groups \cap above # {}}
    IN  {m \in Mappings : mapping[m].groups \cap above # {}} \cup AffectedByNodes(through)

\* RuntimeAffectedMappingIDsBySubscription
AffectedBySubscription(s) ==
    AffectedByGroups(({sub[s].root} \ {None}) \cup SubGroups(group, s))

-----------------------------------------------------------------------------
(* Properties *)

\* Every column holds a value of its type, and only a chain has members.
TypeOK ==
    /\ node \in [Nodes -> NodeRow]
    /\ \A n \in Nodes : node[n].kind # "chain" => node[n].nodes = {} /\ node[n].groups = {}
    /\ group \in [Groups -> GroupRow]
    /\ mapping \in [Mappings -> MappingRow]
    /\ sub \in [Subs -> SubRow]

\* Deletions, syncs and refused updates leave no reference to a row that is gone:
\* lists of mappings, lists and children of groups, members of chains, roots of
\* subscriptions. (node.group_id is not among them, see the README.)
RefsExist ==
    /\ \A m \in Mappings : mapping[m].nodes \subseteq NodesHere(node) /\ mapping[m].groups \subseteq GroupsHere(group)
    /\ \A g \in Groups : group[g].nodes \subseteq NodesHere(node) /\ group[g].groups \subseteq GroupsHere(group)
    /\ \A n \in Nodes : node[n].nodes \subseteq NodesHere(node) /\ node[n].groups \subseteq GroupsHere(group)
    /\ \A s \in Subs : sub[s].root # None => group[sub[s].root].kind = "manual"

\* A mapping's active target is one of its targets, there is one at most, and only
\* a manual mapping has one, through every edit of what it lists.
ActiveListed ==
    \A m \in Mappings :
        /\ mapping[m].activeNode \in mapping[m].nodes \cup {None}
        /\ mapping[m].activeGroup \in mapping[m].groups \cup {None}
        /\ mapping[m].activeNode = None \/ mapping[m].activeGroup = None
        /\ ~mapping[m].manual => mapping[m].activeNode = None /\ mapping[m].activeGroup = None

\* The choice a mapping has made is kept: it lists what it listed and is still there,
\* and it goes over to another target only if the active one is gone, then to one of
\* the same kind if any is left.
ChoiceKept(m) ==
    LET was == mapping[m]
        is  == mapping'[m]
    IN  /\ is.here = was.here /\ is.manual = was.manual
        /\ is.nodes = was.nodes \cap NodesHere(node')
        /\ is.groups = was.groups \cap GroupsHere(group')
        /\ IF was.activeNode \in is.nodes \cup {None} THEN is.activeNode = was.activeNode
           ELSE is.activeNode \in First(is.nodes)
        /\ IF was.activeGroup \in is.groups \cup {None} THEN is.activeGroup = was.activeGroup
           ELSE is.activeGroup \in First(is.groups)

\* No edit, deletion, import or sync of nodes, groups and subscriptions moves the
\* traffic of a mapping to another target while the one it was switched to is there,
\* or takes from it a target that is there.
EditsKeepChoice ==
    [][<<node, group, sub>>' # <<node, group, sub>> => \A m \in Mappings : ChoiceKept(m)]_vars

\* However nodes, groups and subscriptions are edited, the groups a chain goes
\* through hold no chain, by list or by group_id, and no cycle, although most edits
\* check a group without its children or before the node's row is written.
ChainGroupsSound ==
    \A c \in Chains(node) :
        LET G == Closure(group, node[c].groups)
        IN  /\ MembersOf(G) \cap Chains(node) = {}
            /\ \A g \in G : g \notin Closure(group, group[g].groups)

\* runtime_reconcile.go finds, from the bottom up, every mapping whose plan,
\* built from the top down, goes through a node that a list names or a group.
AffectedListed ==
    \A m \in Mappings :
        LET G == TargetGroups(m)
            N == mapping[m].nodes \cup ListedIn(G)
            H == HopGroups(N)
        IN  /\ \A n \in N \cup HopNodes(N) \cup ListedIn(H) : m \in AffectedByNodes({n})
            /\ \A g \in G \cup H : m \in AffectedByGroups({g})

\* A chain that was accepted can be built: none of its members is a chain, which
\* normalizeNodeChainIDs asks of a chain's members and buildChainMemberRuntimeOutbounds
\* of the rows it finds.
ChainsBuildable == \A c \in Chains(node) : node[c].nodes \cap Chains(node) = {}

\* subscriptionDeleteHandler syncs every running mapping whose targets the
\* deletion changes.
DeletionReachesMappings ==
    [][\A s \in Subs, m \in Mappings :
          (sub[s].here /\ ~sub'[s].here /\ mapping'[m] # mapping[m]) => m \in AffectedBySubscription(s)]_vars

=============================================================================
