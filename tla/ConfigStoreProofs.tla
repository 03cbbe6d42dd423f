-------------------------- MODULE ConfigStoreProofs --------------------------
(***************************************************************************)
(* Proofs about ConfigStore: types, the active targets of mappings, the    *)
(* references between rows, the search for the mappings a change reaches,  *)
(* and the groups chains go through, for any number of rows.               *)
(***************************************************************************)
EXTENDS ConfigStore, FiniteSetTheorems, TLAPS

-----------------------------------------------------------------------------
(* The helpers keep types *)

NodeTable == [Nodes -> NodeRow]
GroupTable == [Groups -> GroupRow]
MappingTable == [Mappings -> MappingRow]

\* A row with one column replaced by a value of the column's type is a row.
LEMMA RowUpdate ==
    /\ \A r \in NodeRow, p \in Groups \cup {None} : [r EXCEPT !.primary = p] \in NodeRow
    /\ \A r \in GroupRow, S \in SUBSET Nodes : [r EXCEPT !.nodes = S] \in GroupRow
    /\ \A r \in GroupRow, S \in SUBSET Groups : [r EXCEPT !.groups = S] \in GroupRow
    /\ \A r \in GroupRow, S \in SUBSET Nodes, T \in SUBSET Groups :
          [r EXCEPT !.nodes = S, !.groups = T] \in GroupRow
    /\ NoNode \in NodeRow /\ NoGroup \in GroupRow /\ NoMapping \in MappingRow /\ NoSub \in SubRow
  BY DEF NodeRow, GroupRow, MappingRow, SubRow, NoNode, NoGroup, NoMapping, NoSub

\* The fields of the rows of a table.
LEMMA GroupFields ==
    ASSUME NEW gs \in GroupTable, NEW g \in Groups
    PROVE  /\ gs[g] \in GroupRow /\ gs[g].nodes \in SUBSET Nodes /\ gs[g].groups \in SUBSET Groups
  BY DEF GroupTable, GroupRow

\* A request lists rows, and a plain node's request lists none.
LEMMA RequestFields ==
    ASSUME TypeOK, NEW n \in Nodes, NEW r \in NodeRequests(n),
           NEW row \in RequestedRows(n, r.chain, r.nodes, r.groups, r.into)
    PROVE  /\ row \in NodeRow /\ row.kind \in {"plain", "chain"}
           /\ row.kind # "chain" => row.nodes = {} /\ row.groups = {}
           /\ row.nodes \subseteq NodesHere(node) /\ row.groups \subseteq GroupsHere(group)
           /\ r.into \subseteq GroupsHere(group)
  <1>1. /\ r.nodes \subseteq NodesHere(node) /\ r.groups \subseteq GroupsHere(group)
        /\ r.into \subseteq GroupsHere(group)
        /\ r.chain \in BOOLEAN /\ (~r.chain => r.nodes = {} /\ r.groups = {})
    <2>1. CASE \E S \in SUBSET GroupsHere(group) : r = [chain |-> FALSE, nodes |-> {}, groups |-> {}, into |-> S]
      BY <2>1
    <2>2. CASE /\ r \in [chain: {TRUE}, nodes: Small(Nodes), groups: Small(Groups), into: SUBSET GroupsHere(group)]
               /\ ChainRequestOK(n, r.nodes, r.groups)
      BY <2>2 DEF ChainRequestOK
    <2> QED  BY <2>1, <2>2, Zenon DEF NodeRequests
  <1>2. PICK p \in First(r.into) : row = [kind |-> IF r.chain THEN "chain" ELSE "plain", nodes |-> r.nodes,
                                         groups |-> r.groups, primary |-> p, sub |-> node[n].sub]
    BY DEF RequestedRows
  <1>3. p \in Groups \cup {None}
    BY <1>1 DEF First, GroupsHere
  <1>4. node[n].sub \in Subs \cup {None}
    BY DEF TypeOK, NodeRow
  <1>5. NodesHere(node) \subseteq Nodes /\ GroupsHere(group) \subseteq Groups
    BY DEF NodesHere, GroupsHere
  <1> QED  BY <1>1, <1>2, <1>3, <1>4, <1>5 DEF NodeRow

\* What cleanupNodeReferences does to a mapping.
LEMMA CleanedOfNodes ==
    ASSUME NEW ms \in MappingTable, NEW S \in SUBSET Nodes, NEW pick \in PickNode(ms, S), NEW m \in Mappings,
           NEW r, r = MappingsWithoutNodes(ms, S, pick)[m]
    PROVE  /\ r \in MappingRow
           /\ r.nodes = ms[m].nodes \ S /\ r.groups = ms[m].groups /\ r.manual = ms[m].manual
           /\ r.activeGroup = ms[m].activeGroup
           /\ r.activeNode = IF ~ms[m].manual THEN None
                             ELSE IF ms[m].activeNode \in S THEN pick[m] ELSE ms[m].activeNode
           /\ pick[m] \in (ms[m].nodes \ S) \cup {None}
  <1>1. ms[m] \in MappingRow
    BY DEF MappingTable
  <1>2. pick[m] \in (ms[m].nodes \ S) \cup {None}
    BY DEF PickNode, First
  <1>3. r = [ms[m] EXCEPT !.nodes = @ \ S,
                          !.activeNode = IF ~ms[m].manual THEN None ELSE IF @ \in S THEN pick[m] ELSE @]
    BY DEF MappingsWithoutNodes
  <1> QED  BY <1>1, <1>2, <1>3 DEF MappingRow

\* What cleanupGroupReferences does to a mapping.
LEMMA CleanedOfGroups ==
    ASSUME NEW ms \in MappingTable, NEW S \in SUBSET Groups, NEW pick \in PickGroup(ms, S), NEW m \in Mappings,
           NEW r, r = MappingsWithoutGroups(ms, S, pick)[m]
    PROVE  /\ r \in MappingRow
           /\ r.groups = ms[m].groups \ S /\ r.nodes = ms[m].nodes /\ r.manual = ms[m].manual
           /\ r.activeNode = ms[m].activeNode
           /\ r.activeGroup = IF ~ms[m].manual THEN None
                              ELSE IF ms[m].activeGroup \in S THEN pick[m] ELSE ms[m].activeGroup
           /\ pick[m] \in (ms[m].groups \ S) \cup {None}
  <1>1. ms[m] \in MappingRow
    BY DEF MappingTable
  <1>2. pick[m] \in (ms[m].groups \ S) \cup {None}
    BY DEF PickGroup, First
  <1>3. r = [ms[m] EXCEPT !.groups = @ \ S,
                          !.activeGroup = IF ~ms[m].manual THEN None ELSE IF @ \in S THEN pick[m] ELSE @]
    BY DEF MappingsWithoutGroups
  <1> QED  BY <1>1, <1>2, <1>3 DEF MappingRow

\* ActiveListed, of one row.
ActiveOK(r) ==
    /\ r.activeNode \in r.nodes \cup {None}
    /\ r.activeGroup \in r.groups \cup {None}
    /\ r.activeNode = None \/ r.activeGroup = None
    /\ ~r.manual => r.activeNode = None /\ r.activeGroup = None

\* Taking nodes out of the lists of mappings keeps the active targets listed: the
\* empty identifier is never among the rows that go.
LEMMA CleanedMappings ==
    ASSUME NEW ms \in MappingTable, \A m \in Mappings : ActiveOK(ms[m]),
           NEW S \in SUBSET Nodes, NEW pick \in PickNode(ms, S), NEW new, new = MappingsWithoutNodes(ms, S, pick)
    PROVE  /\ new \in MappingTable /\ \A m \in Mappings : ActiveOK(new[m])
           /\ \A m \in Mappings : new[m].nodes = ms[m].nodes \ S /\ new[m].groups = ms[m].groups
  <1>1. ASSUME NEW m \in Mappings
        PROVE  /\ new[m] \in MappingRow /\ ActiveOK(new[m])
               /\ new[m].nodes = ms[m].nodes \ S /\ new[m].groups = ms[m].groups
    BY CleanedOfNodes, NoneAssumption DEF ActiveOK
  <1>2. new = [m \in Mappings |-> new[m]]
    BY DEF MappingsWithoutNodes
  <1> QED  BY <1>1, <1>2 DEF MappingTable

\* The same for groups.
LEMMA RegroupedMappings ==
    ASSUME NEW ms \in MappingTable, \A m \in Mappings : ActiveOK(ms[m]),
           NEW S \in SUBSET Groups, NEW pick \in PickGroup(ms, S), NEW new, new = MappingsWithoutGroups(ms, S, pick)
    PROVE  /\ new \in MappingTable /\ \A m \in Mappings : ActiveOK(new[m])
           /\ \A m \in Mappings : new[m].groups = ms[m].groups \ S /\ new[m].nodes = ms[m].nodes
  <1>1. ASSUME NEW m \in Mappings
        PROVE  /\ new[m] \in MappingRow /\ ActiveOK(new[m])
               /\ new[m].groups = ms[m].groups \ S /\ new[m].nodes = ms[m].nodes
    BY CleanedOfGroups, NoneAssumption DEF ActiveOK
  <1>2. new = [m \in Mappings |-> new[m]]
    BY DEF MappingsWithoutGroups
  <1> QED  BY <1>1, <1>2 DEF MappingTable

\* What the operations on lists of groups do to the rows of a table.
LEMMA GroupTables ==
    ASSUME NEW gs \in GroupTable
    PROVE  /\ \A n \in Nodes : \A S :
                 LET new == Adding(gs, n, S)
                 IN  new \in GroupTable /\ \A g \in Groups : /\ new[g].kind = gs[g].kind /\ new[g].groups = gs[g].groups
                                                             /\ new[g].nodes \subseteq gs[g].nodes \cup {n}
           /\ \A n \in Nodes : \A S :
                 LET new == Removing(gs, n, S)
                 IN  new \in GroupTable /\ \A g \in Groups : /\ new[g].kind = gs[g].kind /\ new[g].groups = gs[g].groups
                                                             /\ new[g].nodes \subseteq gs[g].nodes
           /\ \A S \in SUBSET Nodes :
                 LET new == GroupsWithoutNodes(gs, S)
                 IN  new \in GroupTable /\ \A g \in Groups : /\ new[g].kind = gs[g].kind /\ new[g].groups = gs[g].groups
                                                             /\ new[g].nodes = gs[g].nodes \ S
           /\ \A S \in SUBSET Groups :
                 LET new == GroupsWithout(gs, S)
                 IN  new \in GroupTable /\ \A g \in Groups :
                        /\ new[g].kind = IF g \in S THEN "none" ELSE gs[g].kind
                        /\ new[g].groups \subseteq gs[g].groups \ S /\ new[g].nodes \subseteq gs[g].nodes
  <1>1. \A g \in Groups : gs[g] \in GroupRow
    BY DEF GroupTable
  <1>2. ASSUME NEW n \in Nodes, NEW S, NEW new, new = Adding(gs, n, S)
        PROVE  new \in GroupTable /\ \A g \in Groups : /\ new[g].kind = gs[g].kind /\ new[g].groups = gs[g].groups
                                                       /\ new[g].nodes \subseteq gs[g].nodes \cup {n}
    BY <1>1, <1>2 DEF Adding, GroupTable, GroupRow
  <1>3. ASSUME NEW n \in Nodes, NEW S, NEW new, new = Removing(gs, n, S)
        PROVE  new \in GroupTable /\ \A g \in Groups : /\ new[g].kind = gs[g].kind /\ new[g].groups = gs[g].groups
                                                       /\ new[g].nodes \subseteq gs[g].nodes
    BY <1>1, <1>3 DEF Removing, GroupTable, GroupRow
  <1>4. ASSUME NEW S \in SUBSET Nodes, NEW new, new = GroupsWithoutNodes(gs, S)
        PROVE  new \in GroupTable /\ \A g \in Groups : /\ new[g].kind = gs[g].kind /\ new[g].groups = gs[g].groups
                                                       /\ new[g].nodes = gs[g].nodes \ S
    <2>1. ASSUME NEW g \in Groups
          PROVE  /\ new[g] \in GroupRow /\ new[g].kind = gs[g].kind /\ new[g].groups = gs[g].groups
                 /\ new[g].nodes = gs[g].nodes \ S
      <3>1. new[g] = [gs[g] EXCEPT !.nodes = @ \ S]
        BY <1>4 DEF GroupsWithoutNodes
      <3> QED  BY <1>1, <3>1 DEF GroupRow
    <2>2. new = [g \in Groups |-> new[g]]
      BY <1>4 DEF GroupsWithoutNodes
    <2> QED  BY <2>1, <2>2 DEF GroupTable
  <1>5. ASSUME NEW S \in SUBSET Groups, NEW new, new = GroupsWithout(gs, S)
        PROVE  new \in GroupTable /\ \A g \in Groups :
                  /\ new[g].kind = IF g \in S THEN "none" ELSE gs[g].kind
                  /\ new[g].groups \subseteq gs[g].groups \ S /\ new[g].nodes \subseteq gs[g].nodes
    BY <1>1, <1>5 DEF GroupsWithout, NoGroup, GroupTable, GroupRow
  <1> QED  BY <1>2, <1>3, <1>4, <1>5

\* What filling the groups of a document does to the rows of a table.
LEMMA FilledRows ==
    ASSUME NEW gs \in GroupTable, NEW D \in SUBSET Groups, NEW member \in [D -> SUBSET Nodes],
           NEW child \in [D -> SUBSET Groups], NEW done \in SUBSET D, NEW new, new = Filled(gs, member, child, done)
    PROVE  /\ new \in GroupTable
           /\ \A g \in Groups : /\ new[g].kind = gs[g].kind
                                /\ new[g].nodes = IF g \in done THEN member[g] ELSE gs[g].nodes
                                /\ new[g].groups = IF g \in done THEN child[g] ELSE gs[g].groups
  <1>1. ASSUME NEW g \in Groups
        PROVE  /\ new[g] \in GroupRow /\ new[g].kind = gs[g].kind
               /\ new[g].nodes = IF g \in done THEN member[g] ELSE gs[g].nodes
               /\ new[g].groups = IF g \in done THEN child[g] ELSE gs[g].groups
    <2>1. new[g] = IF g \in done THEN [gs[g] EXCEPT !.nodes = member[g], !.groups = child[g]] ELSE gs[g]
      BY DEF Filled
    <2>2. gs[g] \in GroupRow
      BY DEF GroupTable
    <2>3. CASE g \in done
      <3>1. member[g] \in SUBSET Nodes /\ child[g] \in SUBSET Groups
        BY <2>3
      <3> QED  BY <2>1, <2>2, <2>3, <3>1 DEF GroupRow
    <2>4. CASE g \notin done
      BY <2>1, <2>2, <2>4
    <2> QED  BY <2>3, <2>4
  <1>2. new = [g \in Groups |-> new[g]]
    BY DEF Filled
  <1> QED  BY <1>1, <1>2 DEF GroupTable

\* addNodesToGroup changes nothing of a node but its primary group.
LEMMA AdoptedRows ==
    ASSUME NEW ns \in NodeTable, NEW gs, NEW g \in Groups, NEW members
    PROVE  /\ Adopted(ns, gs, g, members) \in NodeTable
           /\ \A n \in Nodes : LET r == Adopted(ns, gs, g, members)[n]
                               IN  r.kind = ns[n].kind /\ r.nodes = ns[n].nodes /\ r.groups = ns[n].groups
  BY DEF Adopted, NodeTable, NodeRow

-----------------------------------------------------------------------------
(* The inductive invariant *)

\* References and active targets rest on each other only through the types.
IInv == TypeOK /\ ActiveListed /\ RefsExist

\* The invariant after a step, part by part.
LEMMA IInvNext ==
    ASSUME node' \in NodeTable, group' \in GroupTable, mapping' \in MappingTable, sub' \in [Subs -> SubRow],
           \A n \in Nodes : /\ node'[n].kind # "chain" => node'[n].nodes = {} /\ node'[n].groups = {}
                            /\ node'[n].nodes \subseteq NodesHere(node') /\ node'[n].groups \subseteq GroupsHere(group'),
           \A g \in Groups : group'[g].nodes \subseteq NodesHere(node') /\ group'[g].groups \subseteq GroupsHere(group'),
           \A m \in Mappings : /\ ActiveOK(mapping'[m])
                               /\ mapping'[m].nodes \subseteq NodesHere(node') /\ mapping'[m].groups \subseteq GroupsHere(group'),
           \A s \in Subs : sub'[s].root # None => group'[sub'[s].root].kind = "manual"
    PROVE  IInv'
  BY DEF IInv, TypeOK, ActiveListed, RefsExist, ActiveOK, NodeTable, GroupTable, MappingTable, NodesHere, GroupsHere

\* The invariant, part by part.
LEMMA IInvParts ==
    ASSUME IInv
    PROVE  /\ node \in NodeTable /\ group \in GroupTable /\ mapping \in MappingTable /\ sub \in [Subs -> SubRow]
           /\ \A n \in Nodes : /\ node[n].kind # "chain" => node[n].nodes = {} /\ node[n].groups = {}
                               /\ node[n].nodes \subseteq NodesHere(node) /\ node[n].groups \subseteq GroupsHere(group)
           /\ \A g \in Groups : group[g].nodes \subseteq NodesHere(node) /\ group[g].groups \subseteq GroupsHere(group)
           /\ \A m \in Mappings : /\ ActiveOK(mapping[m])
                                  /\ mapping[m].nodes \subseteq NodesHere(node) /\ mapping[m].groups \subseteq GroupsHere(group)
           /\ \A s \in Subs : sub[s].root # None => group[sub[s].root].kind = "manual"
           /\ \A s \in Subs : sub[s].root \in Groups \cup {None}
  BY DEF IInv, TypeOK, ActiveListed, RefsExist, ActiveOK, NodeTable, GroupTable, MappingTable, SubRow

-----------------------------------------------------------------------------
(* The steps *)

\* A step that writes the row of one node, or leaves the nodes as they are, and
\* adds that node to groups or takes it from groups.
LEMMA NodeWritten ==
    ASSUME IInv, NEW n \in Nodes, NEW row \in NodeRow,
           row.kind \in {"plain", "chain"}, row.kind # "chain" => row.nodes = {} /\ row.groups = {},
           row.nodes \subseteq NodesHere(node), row.groups \subseteq GroupsHere(group),
           \/ node' = [node EXCEPT ![n] = row]
           \/ node' = node /\ n \in NodesHere(node),
           group' \in GroupTable,
           \A g \in Groups : /\ group'[g].kind = group[g].kind /\ group'[g].groups = group[g].groups
                             /\ group'[g].nodes \subseteq group[g].nodes \cup {n},
           UNCHANGED <<mapping, sub>>
    PROVE  IInv'
  <1>1. node' \in NodeTable
    BY IInvParts DEF NodeTable
  <1>2. NodesHere(node) \cup {n} \subseteq NodesHere(node')
    BY IInvParts DEF NodesHere, NodeTable
  <1>3. GroupsHere(group) = GroupsHere(group')
    BY DEF GroupsHere
  <1>4. \A k \in Nodes : /\ node'[k].kind # "chain" => node'[k].nodes = {} /\ node'[k].groups = {}
                         /\ node'[k].nodes \subseteq NodesHere(node) /\ node'[k].groups \subseteq GroupsHere(group)
    BY IInvParts DEF NodeTable
  <1> QED  BY <1>1, <1>2, <1>3, <1>4, IInvParts, IInvNext

\* syncNodeGroupMembership touches only lists of nodes, and there only n.
LEMMA JoinedRows ==
    ASSUME TypeOK, NEW ns, NEW n \in Nodes, NEW S, NEW o \in Joined(ns, n, S)
    PROVE  /\ o.groups \in GroupTable
           /\ \A g \in Groups : /\ o.groups[g].kind = group[g].kind /\ o.groups[g].groups = group[g].groups
                                /\ o.groups[g].nodes \subseteq group[g].nodes \cup {n}
  <1> DEFINE left == Removing(group, n, Groups \ S)
  <1>1. PICK e : o = [groups |-> Adding(left, n, Prefix(e[1], e[2])), ok |-> e[2] = Cardinality(S \ GroupsOf(n))]
    BY ZenonT(30) DEF Joined
  <1>2. group \in GroupTable
    BY DEF TypeOK, GroupTable
  <1>3. /\ left \in GroupTable
        /\ \A g \in Groups : /\ left[g].kind = group[g].kind /\ left[g].groups = group[g].groups
                             /\ left[g].nodes \subseteq group[g].nodes
    BY <1>2, GroupTables
  <1> HIDE DEF left
  <1>4. o.groups = Adding(left, n, Prefix(e[1], e[2]))
    BY <1>1
  <1> QED  BY <1>3, <1>4, GroupTables

\* A node is created and joins its groups.
LEMMA NodeCreateStep ==
    ASSUME IInv, NEW n \in Nodes, NodeCreate(n)
    PROVE  IInv'
  <1>1. PICK r \in NodeRequests(n) : \E row \in RequestedRows(n, r.chain, r.nodes, r.groups, r.into) :
           /\ node' = [node EXCEPT ![n] = row]
           /\ \E o \in Joined(node', n, r.into) : group' = o.groups
    BY DEF NodeCreate
  <1>2. PICK row \in RequestedRows(n, r.chain, r.nodes, r.groups, r.into) :
           /\ node' = [node EXCEPT ![n] = row]
           /\ \E o \in Joined(node', n, r.into) : group' = o.groups
    BY <1>1
  <1>3. UNCHANGED <<mapping, sub>>
    BY DEF NodeCreate
  <1>4. PICK ns : \E o \in Joined(ns, n, r.into) : group' = o.groups
    BY <1>2
  <1>5. /\ group' \in GroupTable
        /\ \A g \in Groups : /\ group'[g].kind = group[g].kind /\ group'[g].groups = group[g].groups
                             /\ group'[g].nodes \subseteq group[g].nodes \cup {n}
    BY <1>4, JoinedRows DEF IInv
  <1>6. /\ row \in NodeRow /\ row.kind \in {"plain", "chain"}
        /\ row.kind # "chain" => row.nodes = {} /\ row.groups = {}
        /\ row.nodes \subseteq NodesHere(node) /\ row.groups \subseteq GroupsHere(group)
    BY RequestFields DEF IInv
  <1> QED  BY <1>2, <1>3, <1>5, <1>6, NodeWritten

\* A node is updated, or has joined some of its groups when one refuses it.
LEMMA NodeUpdateStep ==
    ASSUME IInv, NEW n \in Nodes, NodeUpdate(n)
    PROVE  IInv'
  <1>1. PICK r \in NodeRequests(n) : \E row \in RequestedRows(n, r.chain, r.nodes, r.groups, r.into) :
           \E o \in Joined(node, n, r.into) :
              group' = o.groups /\ node' = IF o.ok THEN [node EXCEPT ![n] = row] ELSE node
    BY DEF NodeUpdate
  <1>2. PICK row \in RequestedRows(n, r.chain, r.nodes, r.groups, r.into) :
           \E o \in Joined(node, n, r.into) :
              group' = o.groups /\ node' = IF o.ok THEN [node EXCEPT ![n] = row] ELSE node
    BY <1>1
  <1>3. UNCHANGED <<mapping, sub>> /\ n \in NodesHere(node)
    BY DEF NodeUpdate, NodesHere
  <1> QED  BY <1>2, <1>3, RequestFields, JoinedRows, NodeWritten DEF IInv

\* A node that exists is imported again.
LEMMA ImportNodeStep ==
    ASSUME IInv, NEW n \in Nodes, NEW target \in Groups \cup {None}, ImportNode(n, target)
    PROVE  IInv'
  <1> DEFINE row == [node[n] EXCEPT !.kind = "plain", !.nodes = {}, !.groups = {}, !.primary = target]
             left == Removing(group, n, {node[n].primary} \ {target})
  <1>1. /\ n \in NodesHere(node) /\ UNCHANGED <<mapping, sub>>
        /\ \/ node' = [node EXCEPT ![n] = row] /\ group' = Adding(left, n, {target})
           \/ node' = node /\ group' = left
    BY DEF ImportNode, NodesHere
  <1>2. row \in NodeRow /\ row.kind = "plain" /\ row.nodes = {} /\ row.groups = {}
    <2>1. node[n] \in NodeRow
      BY IInvParts DEF NodeTable
    <2> QED  BY <2>1 DEF NodeRow
  <1>3. /\ left \in GroupTable
        /\ \A g \in Groups : /\ left[g].kind = group[g].kind /\ left[g].groups = group[g].groups
                             /\ left[g].nodes \subseteq group[g].nodes
    BY IInvParts, GroupTables
  <1> HIDE DEF left, row
  <1>4. /\ group' \in GroupTable
        /\ \A g \in Groups : /\ group'[g].kind = group[g].kind /\ group'[g].groups = group[g].groups
                             /\ group'[g].nodes \subseteq group[g].nodes \cup {n}
    BY <1>1, <1>3, GroupTables
  <1> QED  BY <1>1, <1>2, <1>4, NodeWritten

\* A node that no chain has as a member is deleted.
LEMMA NodeDeleteStep ==
    ASSUME IInv, NEW n \in Nodes, NodeDelete(n)
    PROVE  IInv'
  <1>1. /\ NodesUnreferenced(node, {n}) /\ node' = [node EXCEPT ![n] = NoNode]
        /\ group' = GroupsWithoutNodes(group, {n}) /\ UNCHANGED sub
    BY DEF NodeDelete
  <1>2. /\ mapping' \in MappingTable /\ \A m \in Mappings : ActiveOK(mapping'[m])
        /\ \A m \in Mappings : mapping'[m].nodes = mapping[m].nodes \ {n} /\ mapping'[m].groups = mapping[m].groups
    <2>1. PICK S \in SUBSET Nodes : S = {n}
      OBVIOUS
    <2>2. PICK pick \in PickNode(mapping, S) : mapping' = MappingsWithoutNodes(mapping, S, pick)
      BY <2>1 DEF NodeDelete
    <2>3. ASSUME NEW new, new = MappingsWithoutNodes(mapping, S, pick)
          PROVE  /\ new \in MappingTable /\ \A m \in Mappings : ActiveOK(new[m])
                 /\ \A m \in Mappings : new[m].nodes = mapping[m].nodes \ S /\ new[m].groups = mapping[m].groups
      BY <2>3, IInvParts, CleanedMappings
    <2> QED  BY <2>1, <2>2, <2>3
  <1>3. /\ group' \in GroupTable
        /\ \A g \in Groups : /\ group'[g].kind = group[g].kind /\ group'[g].groups = group[g].groups
                             /\ group'[g].nodes = group[g].nodes \ {n}
    BY <1>1, IInvParts, GroupTables
  <1>4. node' \in NodeTable
    BY <1>1, IInvParts, RowUpdate DEF NodeTable
  <1>5. NodesHere(node') = NodesHere(node) \ {n} /\ GroupsHere(group') = GroupsHere(group)
    BY <1>1, <1>3, IInvParts DEF NodesHere, GroupsHere, NodeTable, NoNode
  <1>6. \A k \in Nodes : /\ node'[k].kind # "chain" => node'[k].nodes = {} /\ node'[k].groups = {}
                         /\ node'[k].nodes \subseteq NodesHere(node') /\ node'[k].groups \subseteq GroupsHere(group)
    BY <1>1, <1>5, IInvParts DEF NodeTable, NodesUnreferenced, NoNode
  <1>7. /\ \A g \in Groups : group'[g].nodes \subseteq NodesHere(node') /\ group'[g].groups \subseteq GroupsHere(group')
        /\ \A m \in Mappings : mapping'[m].nodes \subseteq NodesHere(node') /\ mapping'[m].groups \subseteq GroupsHere(group')
    BY <1>2, <1>3, <1>5, IInvParts
  <1>8. \A s \in Subs : sub'[s].root # None => group'[sub'[s].root].kind = "manual"
    BY <1>1, <1>3, IInvParts
  <1> QED  BY <1>1, <1>2, <1>3, <1>4, <1>5, <1>6, <1>7, <1>8, IInvParts, IInvNext

\* A step that writes one manual group, with nodes that are there and no child,
\* and changes nothing of the nodes but their primary groups.
LEMMA GroupWritten ==
    ASSUME IInv, NEW g \in Groups, NEW members \in SUBSET NodesHere(node),
           group' \in GroupTable, group'[g].kind = "manual", group'[g].nodes = members, group'[g].groups = {},
           \A h \in Groups \ {g} : group'[h] = group[h],
           node' \in NodeTable,
           \A n \in Nodes : /\ node'[n].kind = node[n].kind /\ node'[n].nodes = node[n].nodes
                            /\ node'[n].groups = node[n].groups,
           UNCHANGED <<mapping, sub>>
    PROVE  IInv'
  <1>1. NodesHere(node') = NodesHere(node) /\ GroupsHere(group) \subseteq GroupsHere(group')
    BY DEF NodesHere, GroupsHere
  <1>2. \A h \in Groups : group'[h].nodes \subseteq NodesHere(node) /\ group'[h].groups \subseteq GroupsHere(group)
    BY IInvParts
  <1>3. \A s \in Subs : sub'[s].root # None => group'[sub'[s].root].kind = "manual"
    BY IInvParts
  <1> QED  BY <1>1, <1>2, <1>3, IInvParts, IInvNext

\* A group is created.
LEMMA GroupCreateStep ==
    ASSUME IInv, NEW g \in Groups, GroupCreate(g)
    PROVE  IInv'
  <1>1. PICK members \in SUBSET NodesHere(node) :
           /\ group' = [group EXCEPT ![g] = [NoGroup EXCEPT !.kind = "manual", !.nodes = members]]
           /\ node' = Adopted(node, group', g, members)
    BY DEF GroupCreate, Small
  <1>2. UNCHANGED <<mapping, sub>>
    BY DEF GroupCreate
  <1>3. members \subseteq Nodes
    BY DEF NodesHere
  <1>4. /\ group' \in GroupTable /\ group'[g].kind = "manual" /\ group'[g].nodes = members /\ group'[g].groups = {}
        /\ \A h \in Groups \ {g} : group'[h] = group[h]
    BY <1>1, <1>3, IInvParts DEF GroupTable, GroupRow, NoGroup
  <1>5. PICK gs : node' = Adopted(node, gs, g, members)
    BY <1>1
  <1>6. /\ node' \in NodeTable
        /\ \A n \in Nodes : /\ node'[n].kind = node[n].kind /\ node'[n].nodes = node[n].nodes
                            /\ node'[n].groups = node[n].groups
    BY <1>5, IInvParts, AdoptedRows
  <1> QED  BY <1>2, <1>4, <1>6, GroupWritten

\* A group is edited.
LEMMA GroupUpdateStep ==
    ASSUME IInv, NEW g \in Groups, GroupUpdate(g)
    PROVE  IInv'
  <1> DEFINE cleared(members) ==
                [n \in Nodes |-> IF n \in group[g].nodes \ members /\ node[n].primary = g
                                 THEN [node[n] EXCEPT !.primary = None] ELSE node[n]]
  <1>1. PICK members \in SUBSET NodesHere(node) :
           /\ group' = [group EXCEPT ![g].nodes = members, ![g].groups = {}]
           /\ node' = Adopted(cleared(members), group', g, members)
    BY DEF GroupUpdate, Small
  <1>2. UNCHANGED <<mapping, sub>> /\ group[g].kind = "manual"
    BY DEF GroupUpdate
  <1>3. members \subseteq Nodes
    BY DEF NodesHere
  <1>4. /\ group' \in GroupTable /\ group'[g].kind = "manual" /\ group'[g].nodes = members /\ group'[g].groups = {}
        /\ \A h \in Groups \ {g} : group'[h] = group[h]
    BY <1>1, <1>2, <1>3, IInvParts DEF GroupTable, GroupRow
  <1>5. /\ cleared(members) \in NodeTable
        /\ \A n \in Nodes : /\ cleared(members)[n].kind = node[n].kind /\ cleared(members)[n].nodes = node[n].nodes
                            /\ cleared(members)[n].groups = node[n].groups
    BY IInvParts DEF NodeTable, NodeRow
  <1>6. PICK gs, ns : /\ node' = Adopted(ns, gs, g, members) /\ ns \in NodeTable
                      /\ \A n \in Nodes : /\ ns[n].kind = node[n].kind /\ ns[n].nodes = node[n].nodes
                                          /\ ns[n].groups = node[n].groups
    <2> HIDE DEF cleared
    <2> QED
      BY <1>1, <1>5
  <1>7. /\ node' \in NodeTable
        /\ \A n \in Nodes : /\ node'[n].kind = node[n].kind /\ node'[n].nodes = node[n].nodes
                            /\ node'[n].groups = node[n].groups
    BY <1>6, AdoptedRows
  <1> QED  BY <1>2, <1>4, <1>7, GroupWritten

\* Groups that no chain goes through, and that are not above such, are in no
\* chain's list.
LEMMA NotListed ==
    ASSUME NEW gs, NEW ns, NEW S, GroupsUnreferenced(gs, ns, S), NEW n \in Nodes, ns[n].kind = "chain"
    PROVE  ns[n].groups \cap S = {}
  BY DEF GroupsUnreferenced, Ancestors, Chains

\* A group that no chain goes through is deleted.
LEMMA GroupDeleteStep ==
    ASSUME IInv, NEW g \in Groups, GroupDelete(g)
    PROVE  IInv'
  <1>1. /\ GroupsUnreferenced(group, node, {g}) /\ group' = GroupsWithout(group, {g})
        /\ node' = [n \in Nodes |-> IF node[n].primary = g THEN [node[n] EXCEPT !.primary = None] ELSE node[n]]
        /\ sub' = [s \in Subs |-> IF sub[s].root = g THEN [sub[s] EXCEPT !.root = None] ELSE sub[s]]
    BY DEF GroupDelete
  <1>2. /\ mapping' \in MappingTable /\ \A m \in Mappings : ActiveOK(mapping'[m])
        /\ \A m \in Mappings : mapping'[m].groups = mapping[m].groups \ {g} /\ mapping'[m].nodes = mapping[m].nodes
    <2>1. PICK S \in SUBSET Groups : S = {g}
      OBVIOUS
    <2>2. PICK pick \in PickGroup(mapping, S) : mapping' = MappingsWithoutGroups(mapping, S, pick)
      BY <2>1 DEF GroupDelete
    <2>3. ASSUME NEW new, new = MappingsWithoutGroups(mapping, S, pick)
          PROVE  /\ new \in MappingTable /\ \A m \in Mappings : ActiveOK(new[m])
                 /\ \A m \in Mappings : new[m].groups = mapping[m].groups \ S /\ new[m].nodes = mapping[m].nodes
      BY <2>3, IInvParts, RegroupedMappings
    <2> QED  BY <2>1, <2>2, <2>3
  <1>3. /\ group' \in GroupTable
        /\ \A h \in Groups : /\ group'[h].kind = IF h \in {g} THEN "none" ELSE group[h].kind
                             /\ group'[h].groups \subseteq group[h].groups \ {g} /\ group'[h].nodes \subseteq group[h].nodes
    BY <1>1, IInvParts, GroupTables
  <1>4. /\ node' \in NodeTable
        /\ \A n \in Nodes : /\ node'[n].kind = node[n].kind /\ node'[n].nodes = node[n].nodes
                            /\ node'[n].groups = node[n].groups
    BY <1>1, IInvParts DEF NodeTable, NodeRow
  <1>5. NodesHere(node') = NodesHere(node) /\ GroupsHere(group') = GroupsHere(group) \ {g}
    BY <1>3, <1>4 DEF NodesHere, GroupsHere
  <1>6. \A n \in Nodes : node[n].groups \subseteq GroupsHere(group) \ {g}
    BY <1>1, IInvParts, NotListed
  <1>7. /\ sub' \in [Subs -> SubRow]
        /\ \A s \in Subs : sub'[s].root # None => sub'[s].root = sub[s].root /\ sub[s].root # g
    BY <1>1, IInvParts DEF SubRow
  <1>8. \A s \in Subs : sub'[s].root # None => group'[sub'[s].root].kind = "manual"
    BY <1>3, <1>7, IInvParts
  <1> QED  BY <1>2, <1>3, <1>4, <1>5, <1>6, <1>7, <1>8, IInvParts, IInvNext

\* A step that writes the row of one mapping, with targets that are there and an
\* active one among them.
LEMMA MappingWritten ==
    ASSUME IInv, NEW m \in Mappings, NEW row \in MappingRow, ActiveOK(row),
           row.nodes \subseteq NodesHere(node), row.groups \subseteq GroupsHere(group),
           mapping' = [mapping EXCEPT ![m] = row], UNCHANGED <<node, group, sub>>
    PROVE  IInv'
  <1>1. mapping' \in MappingTable
    BY IInvParts DEF MappingTable
  <1>2. \A k \in Mappings : /\ ActiveOK(mapping'[k])
                            /\ mapping'[k].nodes \subseteq NodesHere(node) /\ mapping'[k].groups \subseteq GroupsHere(group)
    BY IInvParts DEF MappingTable
  <1>3. NodesHere(node') = NodesHere(node) /\ GroupsHere(group') = GroupsHere(group)
    OBVIOUS
  <1> QED  BY <1>1, <1>2, <1>3, IInvParts, IInvNext

\* A mapping is created, or edited, by a request.
LEMMA MappingUpsertStep ==
    ASSUME IInv, NEW m \in Mappings, MappingUpsert(m)
    PROVE  IInv'
  <1>1. PICK manual \in BOOLEAN, N \in SUBSET NodesHere(node), G \in SUBSET GroupsHere(group) :
           \E a \in Actives(manual, N, G) :
              mapping' = [mapping EXCEPT ![m] =
                             [here |-> TRUE, manual |-> manual, nodes |-> N, groups |-> G,
                              activeNode |-> a[1], activeGroup |-> a[2]]]
    BY DEF MappingUpsert
  <1>2. PICK a \in Actives(manual, N, G) :
           mapping' = [mapping EXCEPT ![m] =
                          [here |-> TRUE, manual |-> manual, nodes |-> N, groups |-> G,
                           activeNode |-> a[1], activeGroup |-> a[2]]]
    BY <1>1
  <1>3. /\ a[1] \in N \cup {None} /\ a[2] \in G \cup {None} /\ (a[1] = None \/ a[2] = None)
        /\ ~manual => a[1] = None /\ a[2] = None
    BY DEF Actives
  <1>4. PICK row : row = [here |-> TRUE, manual |-> manual, nodes |-> N, groups |-> G,
                          activeNode |-> a[1], activeGroup |-> a[2]]
    OBVIOUS
  <1>5. N \subseteq Nodes /\ G \subseteq Groups
    BY DEF NodesHere, GroupsHere
  <1>6. row \in MappingRow /\ row.nodes = N /\ row.groups = G
    BY <1>3, <1>4, <1>5 DEF MappingRow
  <1>7. ActiveOK(row)
    BY <1>3, <1>4 DEF ActiveOK
  <1>8. UNCHANGED <<node, group, sub>>
    BY DEF MappingUpsert
  <1> QED  BY <1>2, <1>4, <1>6, <1>7, <1>8, MappingWritten

\* A manual mapping is switched to another of its targets.
LEMMA MappingSwitchStep ==
    ASSUME IInv, NEW m \in Mappings, MappingSwitch(m)
    PROVE  IInv'
  <1>1. mapping[m] \in MappingRow /\ mapping[m].manual /\ UNCHANGED <<node, group, sub>>
    BY IInvParts DEF MappingTable, MappingSwitch
  <1>2. mapping[m].nodes \subseteq NodesHere(node) /\ mapping[m].groups \subseteq GroupsHere(group)
    BY IInvParts
  <1>3. ASSUME NEW n \in mapping[m].nodes,
               mapping' = [mapping EXCEPT ![m].activeNode = n, ![m].activeGroup = None]
        PROVE  IInv'
    <2>1. PICK row : row = [mapping[m] EXCEPT !.activeNode = n, !.activeGroup = None]
      OBVIOUS
    <2>2. mapping' = [mapping EXCEPT ![m] = row]
      BY <1>3, <2>1, IInvParts DEF MappingTable
    <2>3. row \in MappingRow /\ row.nodes = mapping[m].nodes /\ row.groups = mapping[m].groups
      BY <1>1, <2>1 DEF MappingRow
    <2>4. ActiveOK(row)
      BY <1>1, <2>1 DEF MappingRow, ActiveOK
    <2> QED  BY <1>1, <1>2, <2>2, <2>3, <2>4, MappingWritten
  <1>4. ASSUME NEW g \in mapping[m].groups,
               mapping' = [mapping EXCEPT ![m].activeNode = None, ![m].activeGroup = g]
        PROVE  IInv'
    <2>1. PICK row : row = [mapping[m] EXCEPT !.activeNode = None, !.activeGroup = g]
      OBVIOUS
    <2>2. mapping' = [mapping EXCEPT ![m] = row]
      BY <1>4, <2>1, IInvParts DEF MappingTable
    <2>3. row \in MappingRow /\ row.nodes = mapping[m].nodes /\ row.groups = mapping[m].groups
      BY <1>1, <2>1 DEF MappingRow
    <2>4. ActiveOK(row)
      BY <1>1, <2>1 DEF MappingRow, ActiveOK
    <2> QED  BY <1>1, <1>2, <2>2, <2>3, <2>4, MappingWritten
  <1> QED  BY <1>3, <1>4 DEF MappingSwitch

\* A mapping is deleted.
LEMMA MappingDeleteStep ==
    ASSUME IInv, NEW m \in Mappings, MappingDelete(m)
    PROVE  IInv'
  <1>1. NoMapping \in MappingRow
    BY RowUpdate
  <1>2. ActiveOK(NoMapping) /\ NoMapping.nodes = {} /\ NoMapping.groups = {}
    BY DEF NoMapping, ActiveOK
  <1>3. PICK row : row = NoMapping
    OBVIOUS
  <1> QED  BY <1>1, <1>2, <1>3, MappingWritten DEF MappingDelete

\* The groups once the root group of a subscription is there.
LEMMA RootRows ==
    ASSUME group \in GroupTable, NEW root \in Groups, root \in GroupsHere(group) => group[root].kind = "manual",
           NEW gs, gs = WithRoot(root)
    PROVE  /\ gs \in GroupTable /\ gs[root].kind = "manual"
           /\ \A g \in Groups : /\ g # root => gs[g].kind = group[g].kind
                                /\ gs[g].nodes \subseteq group[g].nodes /\ gs[g].groups \subseteq group[g].groups
  <1>1. CASE root \in GroupsHere(group)
    BY <1>1 DEF WithRoot
  <1>2. CASE root \notin GroupsHere(group)
    <2>1. gs = [group EXCEPT ![root] = [NoGroup EXCEPT !.kind = "manual"]]
      BY <1>2 DEF WithRoot
    <2>2. [NoGroup EXCEPT !.kind = "manual"] \in GroupRow
      BY DEF NoGroup, GroupRow
    <2> QED  BY <2>1, <2>2 DEF GroupTable, NoGroup
  <1> QED  BY <1>1, <1>2

\* A subscription is created, or given another root group.
LEMMA SubscriptionUpsertStep ==
    ASSUME IInv, NEW s \in Subs, SubscriptionUpsert(s)
    PROVE  IInv'
  <1>1. PICK want \in Groups \cup {None} : \E root \in RootGroups(want) :
           sub' = [sub EXCEPT ![s] = [here |-> TRUE, root |-> root]] /\ group' = WithRoot(root)
    BY DEF SubscriptionUpsert
  <1>2. PICK root \in RootGroups(want) :
           sub' = [sub EXCEPT ![s] = [here |-> TRUE, root |-> root]] /\ group' = WithRoot(root)
    BY <1>1
  <1>3. root \in Groups /\ (root \in GroupsHere(group) => group[root].kind = "manual")
    BY DEF RootGroups, NewGroups
  <1>4. UNCHANGED <<node, mapping>>
    BY DEF SubscriptionUpsert
  <1>5. /\ group' \in GroupTable /\ group'[root].kind = "manual"
        /\ \A g \in Groups : /\ g # root => group'[g].kind = group[g].kind
                             /\ group'[g].nodes \subseteq group[g].nodes /\ group'[g].groups \subseteq group[g].groups
    <2>1. group \in GroupTable
      BY IInvParts
    <2>2. ASSUME NEW gs, gs = WithRoot(root)
          PROVE  /\ gs \in GroupTable /\ gs[root].kind = "manual"
                 /\ \A g \in Groups : /\ g # root => gs[g].kind = group[g].kind
                                      /\ gs[g].nodes \subseteq group[g].nodes /\ gs[g].groups \subseteq group[g].groups
      BY <1>3, <2>1, <2>2, RootRows
    <2> QED  BY <1>2, <2>2
  <1>6. GroupsHere(group) \subseteq GroupsHere(group') /\ NodesHere(node') = NodesHere(node)
    BY <1>4, <1>5 DEF GroupsHere
  <1>7. sub' \in [Subs -> SubRow]
    BY <1>2, <1>3, IInvParts DEF SubRow
  <1>8. \A t \in Subs : sub'[t].root # None => group'[sub'[t].root].kind = "manual"
    BY <1>2, <1>3, <1>5, IInvParts
  <1>9. \A g \in Groups : group'[g].nodes \subseteq NodesHere(node) /\ group'[g].groups \subseteq GroupsHere(group)
    BY <1>5, IInvParts
  <1> QED  BY <1>4, <1>5, <1>6, <1>7, <1>8, <1>9, IInvParts, IInvNext

\* The rows the import of a document's groups leaves.
LEMMA ImportedRows ==
    ASSUME group \in GroupTable, NEW target \in Groups \cup {None}, NEW D \in SUBSET Groups,
           NEW P \in SUBSET Nodes, NEW gs \in Imported(target, D, P)
    PROVE  /\ gs \in GroupTable
           /\ \A g \in Groups : /\ gs[g].kind = IF g \in D THEN "manual" ELSE group[g].kind
                                /\ gs[g].nodes \subseteq group[g].nodes \cup P
                                /\ gs[g].groups \subseteq group[g].groups \cup D
  <1> DEFINE shells == ImportShells(D)
  <1>1. PICK x \in [member: [D -> SUBSET P], child: Children(D),
                    order: Bijection(1..Cardinality(D), D), end: 0..Cardinality(D)] :
           LET filled == Filled(shells, x.member, x.child, Prefix(x.order, x.end))
           IN  gs = Appended(filled, target, D, P) \/ gs = filled
    BY ZenonT(60) DEF Imported
  <1>2. /\ shells \in GroupTable
        /\ \A g \in Groups : /\ shells[g].kind = IF g \in D THEN "manual" ELSE group[g].kind
                             /\ shells[g].nodes = group[g].nodes /\ shells[g].groups = group[g].groups
    BY DEF ImportShells, GroupTable, GroupRow
  <1> HIDE DEF shells
  <1>3. PICK member, child, done, filled :
           /\ member \in [D -> SUBSET P] /\ child \in Children(D) /\ done \in SUBSET D
           /\ filled = Filled(shells, member, child, done)
           /\ gs = Appended(filled, target, D, P) \/ gs = filled
    <2>1. x.order \in [1..Cardinality(D) -> D] /\ x.member \in [D -> SUBSET P] /\ x.child \in Children(D)
      BY DEF Bijection, Injection
    <2>2. Prefix(x.order, x.end) \subseteq D
      BY <2>1 DEF Prefix
    <2> QED  BY <1>1, <2>1, <2>2
  <1>4. member \in [D -> SUBSET Nodes] /\ child \in [D -> SUBSET Groups] /\ child \in [D -> SUBSET D]
    BY <1>3 DEF Children, Small
  <1>5. /\ filled \in GroupTable
        /\ \A g \in Groups : /\ filled[g].kind = shells[g].kind
                             /\ filled[g].nodes = IF g \in done THEN member[g] ELSE shells[g].nodes
                             /\ filled[g].groups = IF g \in done THEN child[g] ELSE shells[g].groups
    <2>1. shells \in GroupTable
      BY <1>2
    <2>2. member \in [D -> SUBSET Nodes] /\ child \in [D -> SUBSET Groups]
      BY <1>4
    <2>3. done \in SUBSET D /\ filled = Filled(shells, member, child, done)
      BY <1>3
    <2> QED  BY <2>1, <2>2, <2>3, FilledRows
  <1>6. \A g \in Groups : /\ filled[g].kind = IF g \in D THEN "manual" ELSE group[g].kind
                          /\ filled[g].nodes \subseteq group[g].nodes \cup P
                          /\ filled[g].groups \subseteq group[g].groups \cup D
    BY <1>2, <1>3, <1>4, <1>5
  <1>7. CASE gs = filled
    BY <1>5, <1>6, <1>7
  <1>8. CASE gs = Appended(filled, target, D, P) /\ gs # filled
    <2>1. target \in Groups
      BY <1>8 DEF Appended
    <2>2. PICK N, G : N = filled[target].nodes \cup P /\ G = filled[target].groups \cup (D \ {target})
      OBVIOUS
    <2>3. PICK row : row = [filled[target] EXCEPT !.nodes = N, !.groups = G]
      OBVIOUS
    <2>4. gs = [filled EXCEPT ![target] = row]
      BY <1>8, <2>2, <2>3 DEF Appended
    <2>5. filled[target] \in GroupRow
      BY <1>5, <2>1 DEF GroupTable
    <2>6. row \in GroupRow /\ row.kind = filled[target].kind /\ row.nodes = N /\ row.groups = G
      BY <2>2, <2>3, <2>5 DEF GroupRow
    <2> QED  BY <1>5, <1>6, <2>1, <2>2, <2>4, <2>6 DEF GroupTable
  <1> QED  BY <1>3, <1>7, <1>8

\* A document's groups are imported, and the target gets them.
LEMMA ImportGroupsStep ==
    ASSUME IInv, NEW target \in Groups \cup {None}, ImportGroups(target)
    PROVE  IInv'
  <1>1. UNCHANGED <<node, mapping, sub>>
    BY DEF ImportGroups
  <1>2. PICK D \in SUBSET Groups, P \in SUBSET NodesHere(node) :
           /\ \A g \in D : group[g].kind \in {"none", "manual"}
           /\ group' \in Imported(target, D, P)
    <2>1. PICK d \in (SUBSET {g \in Groups : group[g].kind = "manual" \/ g \in NewGroups} \ {{}})
                     \X Small({n \in Nodes : /\ node[n].kind = "plain" /\ node[n].sub = None
                                             /\ node[n].primary = target
                                             /\ target = None \/ n \in group[target].nodes}) :
             group' \in Imported(target, d[1], d[2])
      BY DEF ImportGroups
    <2>2. d[2] \in SUBSET NodesHere(node)
      BY DEF Small, NodesHere
    <2>3. d[1] \in SUBSET Groups /\ \A g \in d[1] : group[g].kind \in {"none", "manual"}
      BY DEF NewGroups, GroupsHere
    <2> QED  BY <2>1, <2>2, <2>3
  <1>3. P \in SUBSET Nodes
    BY DEF NodesHere
  <1>4. ASSUME NEW gs \in Imported(target, D, P)
        PROVE  /\ gs \in GroupTable
               /\ \A g \in Groups : /\ gs[g].kind = IF g \in D THEN "manual" ELSE group[g].kind
                                    /\ gs[g].nodes \subseteq group[g].nodes \cup P
                                    /\ gs[g].groups \subseteq group[g].groups \cup D
    <2>1. group \in GroupTable
      BY IInvParts
    <2> QED  BY <1>3, <2>1, ImportedRows, Zenon
  <1>5. /\ group' \in GroupTable
        /\ \A g \in Groups : /\ group'[g].kind = IF g \in D THEN "manual" ELSE group[g].kind
                             /\ group'[g].nodes \subseteq group[g].nodes \cup P
                             /\ group'[g].groups \subseteq group[g].groups \cup D
    BY <1>2, <1>4
  <1>6. GroupsHere(group') = GroupsHere(group) \cup D /\ NodesHere(node') = NodesHere(node)
    BY <1>1, <1>5 DEF GroupsHere
  <1>7. \A g \in Groups : group'[g].nodes \subseteq NodesHere(node') /\ group'[g].groups \subseteq GroupsHere(group')
    BY <1>5, <1>6, IInvParts
  <1>8. \A s \in Subs : sub'[s].root # None => group'[sub'[s].root].kind = "manual"
    BY <1>1, <1>5, IInvParts
  <1> QED  BY <1>1, <1>5, <1>6, <1>7, <1>8, IInvParts, IInvNext

\* A subscription is deleted with its groups and nodes.
LEMMA SubscriptionDeleteStep ==
    ASSUME IInv, NEW s \in Subs, SubscriptionDelete(s)
    PROVE  IInv'
  <1>1. PICK gone \in SUBSET Groups, goneNodes \in SUBSET Nodes :
           gone = SubGroups(group, s) /\ goneNodes = SubNodes(node, s)
    BY DEF SubGroups, SubNodes, NodesHere
  <1>2. /\ GroupsUnreferenced(group, node, gone) /\ NodesUnreferenced(node, goneNodes)
        /\ \E pickG \in PickGroup(mapping, gone), pickN \in PickNode(mapping, goneNodes) :
              mapping' = MappingsWithoutNodes(MappingsWithoutGroups(mapping, gone, pickG), goneNodes, pickN)
        /\ group' = GroupsWithoutNodes(GroupsWithout(group, gone), goneNodes)
        /\ node' = [n \in Nodes |-> IF n \in goneNodes THEN NoNode ELSE node[n]]
        /\ sub' = [sub EXCEPT ![s] = NoSub]
    BY <1>1 DEF SubscriptionDelete
  <1>3. /\ mapping' \in MappingTable /\ \A m \in Mappings : ActiveOK(mapping'[m])
        /\ \A m \in Mappings : /\ mapping'[m].groups = mapping[m].groups \ gone
                               /\ mapping'[m].nodes = mapping[m].nodes \ goneNodes
    <2>1. PICK pickG \in PickGroup(mapping, gone), pickN \in PickNode(mapping, goneNodes) :
             mapping' = MappingsWithoutNodes(MappingsWithoutGroups(mapping, gone, pickG), goneNodes, pickN)
      BY <1>2
    <2>2. PICK ms : ms = MappingsWithoutGroups(mapping, gone, pickG)
      OBVIOUS
    <2>3. /\ ms \in MappingTable /\ \A m \in Mappings : ActiveOK(ms[m])
          /\ \A m \in Mappings : ms[m].groups = mapping[m].groups \ gone /\ ms[m].nodes = mapping[m].nodes
      BY <2>2, IInvParts, RegroupedMappings
    <2>4. pickN \in PickNode(ms, goneNodes)
      BY <2>3 DEF PickNode
    <2>5. ASSUME NEW new, new = MappingsWithoutNodes(ms, goneNodes, pickN)
          PROVE  /\ new \in MappingTable /\ \A m \in Mappings : ActiveOK(new[m])
                 /\ \A m \in Mappings : new[m].nodes = ms[m].nodes \ goneNodes /\ new[m].groups = ms[m].groups
      BY <2>3, <2>4, <2>5, CleanedMappings
    <2>6. mapping' = MappingsWithoutNodes(ms, goneNodes, pickN)
      BY <2>1, <2>2
    <2> QED  BY <2>3, <2>5, <2>6
  <1>4. /\ group' \in GroupTable
        /\ \A g \in Groups : /\ group'[g].kind = IF g \in gone THEN "none" ELSE group[g].kind
                             /\ group'[g].groups \subseteq group[g].groups \ gone
                             /\ group'[g].nodes \subseteq group[g].nodes \ goneNodes
    <2>1. PICK gs : gs = GroupsWithout(group, gone)
      OBVIOUS
    <2>2. /\ gs \in GroupTable
          /\ \A g \in Groups : /\ gs[g].kind = IF g \in gone THEN "none" ELSE group[g].kind
                               /\ gs[g].groups \subseteq group[g].groups \ gone /\ gs[g].nodes \subseteq group[g].nodes
      BY <2>1, IInvParts, GroupTables
    <2>3. group' = GroupsWithoutNodes(gs, goneNodes)
      BY <1>2, <2>1
    <2> QED  BY <2>2, <2>3, GroupTables
  <1>5. node' \in NodeTable
    BY <1>2, IInvParts, RowUpdate DEF NodeTable
  <1>6. NodesHere(node') = NodesHere(node) \ goneNodes /\ GroupsHere(group') = GroupsHere(group) \ gone
    BY <1>2, <1>4 DEF NodesHere, GroupsHere, NoNode
  <1>7. ASSUME NEW n \in Nodes
        PROVE  /\ node'[n].kind # "chain" => node'[n].nodes = {} /\ node'[n].groups = {}
               /\ node'[n].nodes \subseteq NodesHere(node') /\ node'[n].groups \subseteq GroupsHere(group')
    <2>1. CASE n \in goneNodes
      BY <1>2, <2>1 DEF NoNode
    <2>2. CASE n \notin goneNodes
      <3>1. node'[n] = node[n] /\ node[n].nodes \cap goneNodes = {}
        BY <1>2, <2>2 DEF NodesUnreferenced
      <3>2. node[n].groups \cap gone = {}
        BY <1>2, IInvParts, NotListed
      <3> QED  BY <1>6, <3>1, <3>2, IInvParts
    <2> QED  BY <2>1, <2>2
  <1>8. /\ \A g \in Groups : group'[g].nodes \subseteq NodesHere(node') /\ group'[g].groups \subseteq GroupsHere(group')
        /\ \A m \in Mappings : mapping'[m].nodes \subseteq NodesHere(node') /\ mapping'[m].groups \subseteq GroupsHere(group')
    BY <1>3, <1>4, <1>6, IInvParts
  <1>9. sub' \in [Subs -> SubRow] /\ \A t \in Subs : sub'[t].root # None => sub'[t].root = sub[t].root
    BY <1>2, IInvParts, RowUpdate DEF NoSub
  <1>10. \A t \in Subs : sub'[t].root # None => group'[sub'[t].root].kind = "manual"
    BY <1>1, <1>4, <1>9, IInvParts DEF SubGroups
  <1> QED  BY <1>3, <1>4, <1>5, <1>7, <1>8, <1>9, <1>10, IInvNext

\* ensureSubscriptionGroupShell changes no list.
LEMMA ShellRows ==
    ASSUME NEW gs \in GroupTable, NEW D \in SUBSET Groups, NEW s \in Subs, NEW new, new = Shelled(gs, D, s)
    PROVE  /\ new \in GroupTable
           /\ \A g \in Groups : /\ new[g].kind = IF g \in D THEN "subscription" ELSE gs[g].kind
                                /\ new[g].nodes = gs[g].nodes /\ new[g].groups = gs[g].groups
  <1>1. ASSUME NEW g \in Groups
        PROVE  /\ new[g] \in GroupRow
               /\ new[g].kind = IF g \in D THEN "subscription" ELSE gs[g].kind
               /\ new[g].nodes = gs[g].nodes /\ new[g].groups = gs[g].groups
    <2>1. gs[g] \in GroupRow
      BY DEF GroupTable
    <2> QED  BY <2>1 DEF Shelled, GroupRow
  <1>2. new = [g \in Groups |-> new[g]]
    BY DEF Shelled
  <1> QED  BY <1>1, <1>2 DEF GroupTable

\* updateRootGroupReferences writes the two lists of one group.
LEMMA RootWritten ==
    ASSUME NEW gs \in GroupTable, NEW root \in Groups, NEW N \in SUBSET Nodes, NEW G \in SUBSET Groups,
           NEW new, new = Rooted(gs, root, N, G)
    PROVE  /\ new \in GroupTable
           /\ \A g \in Groups : /\ new[g].kind = gs[g].kind
                                /\ new[g].nodes = IF g = root THEN N ELSE gs[g].nodes
                                /\ new[g].groups = IF g = root THEN G ELSE gs[g].groups
  <1>1. gs[root] \in GroupRow
    BY DEF GroupTable
  <1>2. PICK row : row = [gs[root] EXCEPT !.nodes = N, !.groups = G]
    OBVIOUS
  <1>3. row \in GroupRow /\ row.kind = gs[root].kind /\ row.nodes = N /\ row.groups = G
    BY <1>1, <1>2 DEF GroupRow
  <1>4. new = [gs EXCEPT ![root] = row]
    BY <1>2 DEF Rooted, GroupTable
  <1> QED  BY <1>3, <1>4 DEF GroupTable

\* The row of a node of a subscription is that of a plain node.
LEMMA SubscribedRows ==
    ASSUME NEW root \in Groups, NEW s \in Subs, NEW row, row = SubscribedRow(root, s)
    PROVE  row \in NodeRow /\ row.kind = "plain" /\ row.nodes = {} /\ row.groups = {}
  BY DEF SubscribedRow, NoNode, NodeRow

\* Such lists only lose nodes.
LEMMA MovedRows ==
    ASSUME NEW gs \in GroupTable, NEW d, NEW root, NEW gone, NEW new, new = Moved(gs, d, root, gone)
    PROVE  /\ new \in GroupTable
           /\ \A g \in Groups : /\ new[g].kind = gs[g].kind /\ new[g].groups = gs[g].groups
                                /\ new[g].nodes \subseteq gs[g].nodes \ gone
  <1>1. ASSUME NEW g \in Groups
        PROVE  /\ new[g] \in GroupRow /\ new[g].kind = gs[g].kind /\ new[g].groups = gs[g].groups
               /\ new[g].nodes \subseteq gs[g].nodes \ gone
    <2>1. PICK N : N = gs[g].nodes \ ({n \in d.rows : g # root /\ node[n].primary = g} \cup gone)
      OBVIOUS
    <2>2. new[g] = [gs[g] EXCEPT !.nodes = N]
      BY <2>1 DEF Moved
    <2>3. gs[g] \in GroupRow /\ N \in SUBSET Nodes /\ N \subseteq gs[g].nodes \ gone
      BY <2>1, GroupFields
    <2> QED  BY <2>2, <2>3 DEF GroupRow
  <1>2. new = [g \in Groups |-> new[g]]
    BY DEF Moved
  <1> QED  BY <1>1, <1>2 DEF GroupTable

\* A sync, with the rows that go and the tables it goes through named.
Synced(s, d, root, gone, goneGroups, rows, left, shells, filled, kept) ==
    /\ root \in GroupsHere(group) => group[root].kind = "manual"
    /\ gone = SubNodes(node, s) \ (d.rows \cup d.bad) /\ goneGroups = SubGroups(group, s) \ d.groups
    /\ rows = [n \in Nodes |-> IF n \in d.rows
                  THEN SubscribedRow(root, s) ELSE node[n]]
    /\ left = [n \in Nodes |-> IF n \in gone THEN NoNode ELSE rows[n]]
    /\ shells = Shelled(Moved(WithRoot(root), d, root, gone), d.groups, s)
    /\ root \notin d.groups /\ NodesUnreferenced(rows, gone)
    /\ \E member \in [d.groups -> Small(d.rows)], child \in Children(d.groups) :
          filled = Filled(shells, member, child, d.groups)
    /\ kept = GroupsWithout(filled, goneGroups)
    /\ GroupsUnreferenced(filled, left, goneGroups)
    /\ MembersValid(kept, left, root, d.rows, d.groups)
    /\ group' = Rooted(kept, root, d.rows, d.groups)
    /\ node' = left /\ sub' = [sub EXCEPT ![s].root = root]
    /\ \E pickN \in PickNode(mapping, gone), pickG \in PickGroup(mapping, goneGroups) :
          mapping' = MappingsWithoutGroups(MappingsWithoutNodes(mapping, gone, pickN), goneGroups, pickG)

\* Every sync is of that form.
LEMMA SyncParts ==
    ASSUME IInv, NEW s \in Subs, NEW d \in Documents(s), SubscriptionSync(s, d)
    PROVE  \E root \in Groups, gone \in SUBSET Nodes, goneGroups \in SUBSET Groups : \E rows, left, shells, filled, kept :
              Synced(s, d, root, gone, goneGroups, rows, left, shells, filled, kept)
  <1> DEFINE gone == SubNodes(node, s) \ (d.rows \cup d.bad)
             goneGroups == SubGroups(group, s) \ d.groups
             rows(root) == [n \in Nodes |-> IF n \in d.rows
                               THEN SubscribedRow(root, s) ELSE node[n]]
             left(root) == [n \in Nodes |-> IF n \in gone THEN NoNode ELSE rows(root)[n]]
             shells(root) == Shelled(Moved(WithRoot(root), d, root, gone), d.groups, s)
             filled(root, f) == Filled(shells(root), f.member, f.child, d.groups)
             kept(root, f) == GroupsWithout(filled(root, f), goneGroups)
  <1>1. PICK root \in IF sub[s].root = None THEN RootGroups(None) ELSE {sub[s].root} :
           /\ root \notin d.groups /\ NodesUnreferenced(rows(root), gone)
           /\ \E f \in [member: [d.groups -> Small(d.rows)], child: Children(d.groups)] :
                 /\ GroupsUnreferenced(filled(root, f), left(root), goneGroups)
                 /\ MembersValid(kept(root, f), left(root), root, d.rows, d.groups)
                 /\ group' = Rooted(kept(root, f), root, d.rows, d.groups)
           /\ node' = left(root) /\ sub' = [sub EXCEPT ![s].root = root]
           /\ \E pickN \in PickNode(mapping, gone), pickG \in PickGroup(mapping, goneGroups) :
                 mapping' = MappingsWithoutGroups(MappingsWithoutNodes(mapping, gone, pickN), goneGroups, pickG)
    BY ZenonT(60) DEF SubscriptionSync
  <1>2. root \in Groups /\ (root \in GroupsHere(group) => group[root].kind = "manual")
    BY IInvParts DEF RootGroups, NewGroups
  <1>3. gone \in SUBSET Nodes /\ goneGroups \in SUBSET Groups
    BY DEF SubNodes, SubGroups, NodesHere
  <1>4. PICK f \in [member: [d.groups -> Small(d.rows)], child: Children(d.groups)] :
           /\ GroupsUnreferenced(filled(root, f), left(root), goneGroups)
           /\ MembersValid(kept(root, f), left(root), root, d.rows, d.groups)
           /\ group' = Rooted(kept(root, f), root, d.rows, d.groups)
    BY <1>1
  <1>5. f.member \in [d.groups -> Small(d.rows)] /\ f.child \in Children(d.groups)
    OBVIOUS
  <1>6. \E member \in [d.groups -> Small(d.rows)], child \in Children(d.groups) :
           filled(root, f) = Filled(shells(root), member, child, d.groups)
    BY <1>5
  <1> HIDE DEF filled
  <1> USE <1>2, <1>3
  <1> WITNESS root \in Groups, gone \in SUBSET Nodes, goneGroups \in SUBSET Groups
  <1> WITNESS rows(root), left(root), shells(root), filled(root, f), kept(root, f)
  <1> QED  BY <1>1, <1>2, <1>4, <1>6, Zenon DEF Synced

\* A subscription is synced with a document.
LEMMA SubscriptionSyncStep ==
    ASSUME IInv, NEW s \in Subs, NEW d \in Documents(s), SubscriptionSync(s, d)
    PROVE  IInv'
  <1>1. PICK root \in Groups, gone \in SUBSET Nodes, goneGroups \in SUBSET Groups : \E rows, left, shells, filled, kept :
           Synced(s, d, root, gone, goneGroups, rows, left, shells, filled, kept)
    BY SyncParts
  <1>2. PICK rows, left, shells, filled, kept : Synced(s, d, root, gone, goneGroups, rows, left, shells, filled, kept)
    BY <1>1
  <1> USE DEF Synced
  <1>3. PICK plain : plain = SubscribedRow(root, s)
    OBVIOUS
  <1>4. PICK D \in SUBSET Groups, R \in SUBSET Nodes : D = d.groups /\ R = d.rows
    BY DEF Documents, SubGroups, NewGroups, SubNodes, NodesHere, NewNodes
  <1>5. /\ \A g \in D : g \in SubGroups(group, s) \/ g \in NewGroups
        /\ gone \subseteq NodesHere(node) \ R
        /\ goneGroups \subseteq SubGroups(group, s) \ D
    BY <1>2, <1>4 DEF Documents, SubNodes
  <1>6. root \notin D /\ root \notin goneGroups
    BY <1>2, <1>4, <1>5 DEF SubGroups, GroupsHere
  <1>7. /\ group' \in GroupTable /\ group'[root].kind = "manual"
        /\ \A g \in Groups : /\ g # root => group'[g].kind = IF g \in goneGroups THEN "none"
                                                            ELSE IF g \in D THEN "subscription" ELSE group[g].kind
                             /\ group'[g].nodes \subseteq (group[g].nodes \ gone) \cup R
                             /\ group'[g].groups \subseteq (group[g].groups \ goneGroups) \cup D
    <2>1. group \in GroupTable
      BY IInvParts
    <2>2. PICK base : base = WithRoot(root)
      OBVIOUS
    <2>3. /\ base \in GroupTable /\ base[root].kind = "manual"
          /\ \A g \in Groups : /\ g # root => base[g].kind = group[g].kind
                               /\ base[g].nodes \subseteq group[g].nodes /\ base[g].groups \subseteq group[g].groups
      BY <1>2, <2>1, <2>2, RootRows
    <2>4. PICK moved : moved = Moved(base, d, root, gone)
      OBVIOUS
    <2>5. /\ moved \in GroupTable
          /\ \A g \in Groups : /\ moved[g].kind = base[g].kind /\ moved[g].groups = base[g].groups
                               /\ moved[g].nodes \subseteq base[g].nodes \ gone
      BY <2>3, <2>4, MovedRows
    <2>6. /\ shells \in GroupTable
          /\ \A g \in Groups : /\ shells[g].kind = IF g \in D THEN "subscription" ELSE moved[g].kind
                               /\ shells[g].nodes = moved[g].nodes /\ shells[g].groups = moved[g].groups
      <3>1. shells = Shelled(moved, D, s)
        BY <1>2, <1>4, <2>2, <2>4
      <3>2. moved \in GroupTable
        BY <2>5
      <3>3. /\ shells \in GroupTable
            /\ \A g \in Groups : /\ shells[g].kind = IF g \in D THEN "subscription" ELSE moved[g].kind
                                 /\ shells[g].nodes = moved[g].nodes /\ shells[g].groups = moved[g].groups
        <4>1. D \in SUBSET Groups /\ s \in Subs
          OBVIOUS
        <4> QED  BY ONLY <3>1, <3>2, <4>1, ShellRows
      <3> QED  BY <3>3
    <2>7. PICK member \in [D -> Small(R)], child \in Children(D) : filled = Filled(shells, member, child, D)
      BY <1>2, <1>4
    <2>8. /\ member \in [D -> SUBSET Nodes] /\ child \in [D -> SUBSET Groups] /\ D \in SUBSET D
          /\ \A g \in D : member[g] \subseteq R /\ child[g] \subseteq D
      BY DEF Children, Small
    <2>9. /\ filled \in GroupTable
          /\ \A g \in Groups : /\ filled[g].kind = shells[g].kind
                               /\ filled[g].nodes = IF g \in D THEN member[g] ELSE shells[g].nodes
                               /\ filled[g].groups = IF g \in D THEN child[g] ELSE shells[g].groups
      <3>1. shells \in GroupTable
        BY <2>6
      <3>2. member \in [D -> SUBSET Nodes] /\ child \in [D -> SUBSET Groups] /\ D \in SUBSET D
        BY <2>8
      <3> QED  BY <2>7, <3>1, <3>2, FilledRows
    <2>10. /\ kept \in GroupTable
           /\ \A g \in Groups : /\ kept[g].kind = IF g \in goneGroups THEN "none" ELSE filled[g].kind
                                /\ kept[g].groups \subseteq filled[g].groups \ goneGroups
                                /\ kept[g].nodes \subseteq filled[g].nodes
      <3>1. filled \in GroupTable
        BY <2>9
      <3>2. kept = GroupsWithout(filled, goneGroups)
        BY <1>2
      <3> QED  BY <3>1, <3>2, GroupTables
    <2>11. ASSUME NEW new, new = Rooted(kept, root, R, D)
           PROVE  /\ new \in GroupTable
                  /\ \A g \in Groups : /\ new[g].kind = kept[g].kind
                                       /\ new[g].nodes = IF g = root THEN R ELSE kept[g].nodes
                                       /\ new[g].groups = IF g = root THEN D ELSE kept[g].groups
      <3>1. kept \in GroupTable
        BY <2>10
      <3>2. root \in Groups /\ R \in SUBSET Nodes /\ D \in SUBSET Groups
        OBVIOUS
      <3> QED  BY ONLY <2>11, <3>1, <3>2, RootWritten
    <2>12. group' = Rooted(kept, root, R, D)
      BY <1>2, <1>4
    <2>13. \A g \in Groups : /\ kept[g].nodes \subseteq (group[g].nodes \ gone) \cup R
                             /\ kept[g].groups \subseteq (group[g].groups \ goneGroups) \cup D
      BY <2>3, <2>5, <2>6, <2>8, <2>9, <2>10
    <2>14. \A g \in Groups : kept[g].kind = IF g \in goneGroups THEN "none"
                                            ELSE IF g \in D THEN "subscription" ELSE base[g].kind
      BY <2>5, <2>6, <2>9, <2>10
    <2> QED  BY <1>6, <2>3, <2>10, <2>11, <2>12, <2>13, <2>14
  <1>8. /\ (GroupsHere(group) \ goneGroups) \cup D \subseteq GroupsHere(group')
    BY <1>5, <1>6, <1>7 DEF GroupsHere, SubGroups
  <1>9. \A n \in Nodes : node'[n] = IF n \in gone THEN NoNode
                                    ELSE IF n \in R THEN plain
                                    ELSE node[n]
    BY <1>2, <1>4, <1>3
  <1>10. node' \in NodeTable
    <2>1. NoNode \in NodeRow /\ plain \in NodeRow
      BY <1>3, RowUpdate, SubscribedRows
    <2>2. node' = [n \in Nodes |-> node'[n]]
      BY <1>2
    <2> QED  BY <1>9, <2>1, <2>2, IInvParts DEF NodeTable
  <1>11. NodesHere(node') = (NodesHere(node) \cup R) \ gone /\ R \cap gone = {}
    BY <1>3, <1>5, <1>9, SubscribedRows DEF NodesHere, NoNode
  <1>12. ASSUME NEW n \in Nodes
         PROVE  /\ node'[n].kind # "chain" => node'[n].nodes = {} /\ node'[n].groups = {}
                /\ node'[n].nodes \subseteq NodesHere(node') /\ node'[n].groups \subseteq GroupsHere(group')
    <2>1. CASE n \in gone \cup R
      BY <1>3, <1>9, <2>1, SubscribedRows DEF NoNode
    <2>2. CASE n \notin gone \cup R
      <3>1. node'[n] = node[n] /\ rows[n] = node[n] /\ left[n] = node[n]
        BY <1>2, <1>4, <2>2
      <3>2. node[n].nodes \cap gone = {}
        BY <1>2, <2>2, <3>1 DEF NodesUnreferenced
      <3>3. node[n].groups \cap goneGroups = {}
        BY <1>2, <3>1, IInvParts, NotListed
      <3> QED  BY <1>8, <1>11, <3>1, <3>2, <3>3, IInvParts
    <2> QED  BY <2>1, <2>2
  <1>13. /\ mapping' \in MappingTable /\ \A m \in Mappings : ActiveOK(mapping'[m])
         /\ \A m \in Mappings : /\ mapping'[m].groups = mapping[m].groups \ goneGroups
                                /\ mapping'[m].nodes = mapping[m].nodes \ gone
    <2>1. PICK pickN \in PickNode(mapping, gone), pickG \in PickGroup(mapping, goneGroups) :
             mapping' = MappingsWithoutGroups(MappingsWithoutNodes(mapping, gone, pickN), goneGroups, pickG)
      BY <1>2
    <2>2. PICK ms : ms = MappingsWithoutNodes(mapping, gone, pickN)
      OBVIOUS
    <2>3. /\ ms \in MappingTable /\ \A m \in Mappings : ActiveOK(ms[m])
          /\ \A m \in Mappings : ms[m].nodes = mapping[m].nodes \ gone /\ ms[m].groups = mapping[m].groups
      BY <2>2, IInvParts, CleanedMappings
    <2>4. pickG \in PickGroup(ms, goneGroups)
      BY <2>3 DEF PickGroup
    <2>5. ASSUME NEW new, new = MappingsWithoutGroups(ms, goneGroups, pickG)
          PROVE  /\ new \in MappingTable /\ \A m \in Mappings : ActiveOK(new[m])
                 /\ \A m \in Mappings : new[m].groups = ms[m].groups \ goneGroups /\ new[m].nodes = ms[m].nodes
      BY <2>3, <2>4, <2>5, RegroupedMappings
    <2>6. mapping' = MappingsWithoutGroups(ms, goneGroups, pickG)
      BY <2>1, <2>2
    <2> QED  BY <2>3, <2>5, <2>6
  <1>14. /\ \A g \in Groups : group'[g].nodes \subseteq NodesHere(node') /\ group'[g].groups \subseteq GroupsHere(group')
         /\ \A m \in Mappings : mapping'[m].nodes \subseteq NodesHere(node') /\ mapping'[m].groups \subseteq GroupsHere(group')
    BY <1>7, <1>8, <1>11, <1>13, IInvParts
  <1>15. /\ sub' \in [Subs -> SubRow]
         /\ \A t \in Subs : sub'[t].root # None => sub'[t].root = root \/ sub'[t].root = sub[t].root
    BY <1>2, IInvParts DEF SubRow
  <1>16. ASSUME NEW t \in Subs, sub'[t].root # None
         PROVE  group'[sub'[t].root].kind = "manual"
    <2>1. CASE sub'[t].root = root
      BY <1>7, <2>1
    <2>2. CASE sub'[t].root = sub[t].root /\ sub[t].root # root
      <3>1. sub[t].root \in Groups /\ group[sub[t].root].kind = "manual"
        BY <1>16, <2>2, IInvParts
      <3>2. sub[t].root \notin goneGroups /\ sub[t].root \notin D
        BY <1>5, <3>1 DEF SubGroups, NewGroups, GroupsHere
      <3> QED  BY <1>7, <2>2, <3>1, <3>2
    <2> QED  BY <1>15, <1>16, <2>1, <2>2
  <1> QED  BY <1>7, <1>10, <1>12, <1>13, <1>14, <1>15, <1>16, IInvNext

-----------------------------------------------------------------------------
(* Upwards and downwards *)

\* What a closure reaches inside a set of groups that is closed towards parents, its
\* seeds reach: the complement of such a set is closed towards children.
LEMMA ClosureMeets ==
    ASSUME TypeOK, RefsExist, NEW seeds \in SUBSET GroupsHere(group), NEW G,
           \A h \in GroupsHere(group) : group[h].groups \cap G # {} => h \in G,
           Closure(group, seeds) \cap G # {}
    PROVE  seeds \cap G # {}
  <1> DEFINE below == GroupsHere(group) \ G
             children == {<<h, group[h].groups>> : h \in Groups}
  <1>1. SUFFICES ASSUME seeds \cap G = {}
                 PROVE  FALSE
    OBVIOUS
  <1>2. PICK g \in Closure(group, seeds) : g \in G
    OBVIOUS
  <1>3. below \in SUBSET Groups /\ seeds \subseteq below
    BY <1>1 DEF GroupsHere
  <1>4. ASSUME NEW c \in children, c[1] \in below
        PROVE  c[2] \subseteq below
    <2>1. PICK h \in Groups : c = <<h, group[h].groups>>
      OBVIOUS
    <2>2. h \in GroupsHere(group) /\ h \notin G
      BY <1>4, <2>1
    <2>3. group[h].groups \subseteq GroupsHere(group) /\ group[h].groups \cap G = {}
      BY <2>2 DEF RefsExist
    <2> QED  BY <2>1, <2>3
  <1>5. seeds # {}
    BY <1>2 DEF Closure
  <1>6. g \in below
    BY <1>2, <1>3, <1>4, <1>5 DEF Closure
  <1> QED  BY <1>2, <1>6

\* A closure holds the closures of what it holds.
LEMMA ClosureNested ==
    ASSUME TypeOK, NEW seeds \in SUBSET Groups, NEW h \in seeds,
           NEW g \in Closure(group, group[h].groups)
    PROVE  g \in Closure(group, seeds)
  <1> DEFINE children == {<<x, group[x].groups>> : x \in Groups}
  <1>1. g \in GroupsHere(group)
    BY DEF Closure
  <1>2. ASSUME NEW S \in SUBSET Groups, seeds \subseteq S, \A c \in children : c[1] \in S => c[2] \subseteq S
        PROVE  g \in S
    <2>1. <<h, group[h].groups>> \in children
      OBVIOUS
    <2>2. group[h].groups \subseteq S
      BY <1>2, <2>1
    <2> QED  BY <1>2, <2>2 DEF Closure
  <1> QED  BY <1>1, <1>2 DEF Closure

\* expandAffectedGroups: the ancestors of a group that is there are closed towards parents.
LEMMA AncestorsClosed ==
    ASSUME TypeOK, NEW g \in GroupsHere(group), NEW h \in GroupsHere(group),
           group[h].groups \cap Ancestors(group, {g}) # {}
    PROVE  h \in Ancestors(group, {g})
  <1> DEFINE below == group[h].groups
             children == {<<x, group[x].groups>> : x \in Groups}
  <1>1. below \in SUBSET Groups
    BY DEF TypeOK, GroupRow, GroupsHere
  <1>2. PICK x \in below : x \in Ancestors(group, {g})
    OBVIOUS
  <1>3. g \in Closure(group, below)
    <2>1. CASE x = g
      BY <1>2, <2>1 DEF Closure
    <2>2. CASE g \in Closure(group, group[x].groups)
      BY <1>1, <1>2, <2>2, ClosureNested
    <2> QED  BY <1>2, <2>1, <2>2 DEF Ancestors
  <1> QED  BY <1>3 DEF Ancestors

\* The two loops of runtimeAffectedMappingIDsByNodes end with sets of nodes and of
\* groups that are closed upwards, and those are what mappings are looked up by.
LEMMA NodesUpwards ==
    ASSUME NEW S \in SUBSET Nodes
    PROVE  \E N \in SUBSET Nodes, G \in SUBSET Groups :
              /\ S \subseteq N /\ \A c \in Chains(node) : node[c].nodes \cap S # {} => c \in N
              /\ ClosedUpwards(N, G)
              /\ \A m \in Mappings : (mapping[m].nodes \cap N # {} \/ mapping[m].groups \cap G # {}) => m \in AffectedByNodes(S)
  <1> DEFINE U == UpwardsOf(S)
             N == {n \in Nodes : \A p \in U : n \in p[1]}
             G == {g \in Groups : \A p \in U : g \in p[2]}
  <1>1. \A p \in U : ChainsOver(S) \subseteq p[1] /\ ClosedUpwards(p[1], p[2])
    BY DEF UpwardsOf
  <1>2. S \subseteq ChainsOver(S) /\ \A c \in Chains(node) : node[c].nodes \cap S # {} => c \in ChainsOver(S)
    BY DEF ChainsOver, Chains
  <1>3. ChainsOver(S) \subseteq N
    BY <1>1 DEF ChainsOver
  <1>4. ASSUME NEW g \in Groups, group[g].nodes \cap N # {} \/ group[g].groups \cap G # {}
        PROVE  g \in G
    <2>1. ASSUME NEW p \in U
          PROVE  g \in p[2]
      <3>1. group[g].nodes \cap p[1] # {} \/ group[g].groups \cap p[2] # {}
        BY <1>4
      <3> QED  BY <1>1, <3>1 DEF ClosedUpwards
    <2> QED  BY <2>1
  <1>5. ASSUME NEW c \in Chains(node), node[c].groups \cap G # {}
        PROVE  c \in N
    <2>1. ASSUME NEW p \in U
          PROVE  c \in p[1]
      <3>1. node[c].groups \cap p[2] # {}
        BY <1>5
      <3> QED  BY <1>1, <3>1 DEF ClosedUpwards
    <2> QED  BY <2>1 DEF Chains
  <1>6. ClosedUpwards(N, G)
    BY <1>4, <1>5 DEF ClosedUpwards
  <1>7. \A m \in Mappings : (mapping[m].nodes \cap N # {} \/ mapping[m].groups \cap G # {}) => m \in AffectedByNodes(S)
    BY DEF AffectedByNodes
  <1>8. N \in SUBSET Nodes /\ G \in SUBSET Groups
    OBVIOUS
  <1> HIDE DEF N, G
  <1> QED  BY <1>2, <1>3, <1>6, <1>7, <1>8

\* A mapping that lists one of the nodes found, or reaches a group that lists one, is found.
LEMMA ListedIsFound ==
    ASSUME TypeOK, RefsExist, NEW m \in Mappings, NEW N \in SUBSET Nodes, NEW G \in SUBSET Groups,
           ClosedUpwards(N, G), (mapping[m].nodes \cup ListedIn(TargetGroups(m))) \cap N # {}
    PROVE  mapping[m].nodes \cap N # {} \/ mapping[m].groups \cap G # {}
  <1>1. SUFFICES ASSUME NEW g \in TargetGroups(m), group[g].nodes \cap N # {}
                 PROVE  mapping[m].groups \cap G # {}
    BY DEF ListedIn
  <1>2. g \in Groups
    BY DEF TargetGroups, Closure, GroupsHere
  <1>3. g \in G
    BY <1>1, <1>2 DEF ClosedUpwards
  <1>4. mapping[m].groups \in SUBSET GroupsHere(group)
    BY DEF RefsExist
  <1>5. \A h \in GroupsHere(group) : group[h].groups \cap G # {} => h \in G
    BY DEF ClosedUpwards, GroupsHere
  <1>6. Closure(group, mapping[m].groups) \cap G # {}
    BY <1>1, <1>3 DEF TargetGroups
  <1> QED  BY <1>4, <1>5, <1>6, ClosureMeets

\* The groups the chains among N go through are there; a set closed towards parents
\* that their closure meets is met by the groups of one of the chains.
LEMMA HopMeets ==
    ASSUME TypeOK, RefsExist, NEW N, NEW G, HopGroups(N) \cap G # {},
           \A h \in GroupsHere(group) : group[h].groups \cap G # {} => h \in G
    PROVE  \E c \in N \cap Chains(node) : node[c].groups \cap G # {}
  <1> DEFINE seeds == UNION {node[c].groups : c \in N \cap Chains(node)}
  <1>1. seeds \in SUBSET GroupsHere(group)
    BY DEF RefsExist, Chains
  <1>2. Closure(group, seeds) \cap G # {}
    BY DEF HopGroups
  <1> HIDE DEF seeds
  <1>3. seeds \cap G # {}
    BY <1>1, <1>2, ClosureMeets
  <1> QED  BY <1>3 DEF seeds

\* What findNodesByGroupOrIDs and the chains lead to from a mapping, the search from
\* the bottom comes back from.
LEMMA SearchIsComplete ==
    ASSUME TypeOK, RefsExist
    PROVE  AffectedListed
  <1>1. SUFFICES ASSUME NEW m \in Mappings
                 PROVE  LET G == TargetGroups(m)
                            N == mapping[m].nodes \cup ListedIn(G)
                            H == HopGroups(N)
                        IN  /\ \A n \in N \cup HopNodes(N) \cup ListedIn(H) : m \in AffectedByNodes({n})
                            /\ \A g \in G \cup H : m \in AffectedByGroups({g})
    BY DEF AffectedListed
  <1> DEFINE T == TargetGroups(m)
             L == mapping[m].nodes \cup ListedIn(T)
             H == HopGroups(L)
  <1>2. /\ mapping[m].groups \in SUBSET GroupsHere(group)
        /\ T \subseteq GroupsHere(group) /\ H \subseteq GroupsHere(group)
    BY DEF RefsExist, TargetGroups, HopGroups, Closure
  <1>3. L \subseteq Nodes /\ HopNodes(L) \subseteq Nodes /\ ListedIn(H) \subseteq Nodes
    <2>1. mapping[m].nodes \subseteq Nodes /\ \A g \in GroupsHere(group) : group[g].nodes \subseteq Nodes
      BY DEF RefsExist, NodesHere, GroupsHere
    <2>2. \A c \in Chains(node) : node[c].nodes \subseteq Nodes
      BY DEF RefsExist, NodesHere, Chains
    <2> QED  BY <1>2, <2>1, <2>2 DEF ListedIn, HopNodes
  <1>4. ASSUME NEW n \in L \cup HopNodes(L) \cup ListedIn(H)
        PROVE  m \in AffectedByNodes({n})
    <2>1. {n} \in SUBSET Nodes
      BY <1>3
    <2>2. PICK N \in SUBSET Nodes, G \in SUBSET Groups :
              /\ {n} \subseteq N /\ \A c \in Chains(node) : node[c].nodes \cap {n} # {} => c \in N
              /\ ClosedUpwards(N, G)
              /\ \A k \in Mappings : (mapping[k].nodes \cap N # {} \/ mapping[k].groups \cap G # {}) => k \in AffectedByNodes({n})
      BY <2>1, NodesUpwards
    <2>3. L \cap N # {}
      <3>1. CASE n \in L
        BY <2>2, <3>1
      <3>2. CASE n \in HopNodes(L)
        <4>1. PICK c \in L \cap Chains(node) : n \in node[c].nodes
          BY <3>2 DEF HopNodes
        <4> QED  BY <2>2, <4>1
      <3>3. CASE n \in ListedIn(H)
        <4>1. PICK h \in H : n \in group[h].nodes
          BY <3>3 DEF ListedIn
        <4>2. h \in G
          BY <1>2, <2>2, <4>1 DEF ClosedUpwards, GroupsHere
        <4>3. \A x \in GroupsHere(group) : group[x].groups \cap G # {} => x \in G
          BY <2>2 DEF ClosedUpwards, GroupsHere
        <4>4. PICK c \in L \cap Chains(node) : node[c].groups \cap G # {}
          BY <4>1, <4>2, <4>3, HopMeets
        <4> QED  BY <2>2, <4>4 DEF ClosedUpwards
      <3> QED  BY <1>4, <3>1, <3>2, <3>3
    <2> QED  BY <2>2, <2>3, ListedIsFound
  <1>5. ASSUME NEW g \in T \cup H
        PROVE  m \in AffectedByGroups({g})
    <2> DEFINE above == Ancestors(group, {g})
               through == {c \in Chains(node) : node[c].groups \cap above # {}}
    <2>1. g \in GroupsHere(group) /\ g \in above
      BY <1>2 DEF Ancestors
    <2>2. \A h \in GroupsHere(group) : group[h].groups \cap above # {} => h \in above
      BY <2>1, AncestorsClosed
    <2>3. CASE g \in T
      <3>1. Closure(group, mapping[m].groups) \cap above # {}
        BY <2>1, <2>3 DEF TargetGroups
      <3> HIDE DEF above
      <3>2. mapping[m].groups \cap above # {}
        BY <1>2, <2>2, <3>1, ClosureMeets
      <3> QED  BY <3>2 DEF AffectedByGroups, above
    <2>4. CASE g \in H
      <3> HIDE DEF above
      <3>1. PICK c \in L \cap Chains(node) : node[c].groups \cap above # {}
        BY <2>1, <2>2, <2>4, HopMeets
      <3>2. through \in SUBSET Nodes /\ c \in through
        BY <3>1 DEF Chains
      <3> HIDE DEF through
      <3>3. PICK N \in SUBSET Nodes, G \in SUBSET Groups :
                /\ through \subseteq N
                /\ ClosedUpwards(N, G)
                /\ \A k \in Mappings : (mapping[k].nodes \cap N # {} \/ mapping[k].groups \cap G # {}) => k \in AffectedByNodes(through)
        BY <3>2, NodesUpwards
      <3>4. L \cap N # {}
        BY <3>1, <3>2, <3>3
      <3>5. m \in AffectedByNodes(through)
        BY <3>3, <3>4, ListedIsFound
      <3> QED  BY <3>5 DEF AffectedByGroups, above, through
    <2> QED  BY <1>5, <2>3, <2>4
  <1> QED  BY <1>4, <1>5

-----------------------------------------------------------------------------
(* The groups that chains go through *)

\* chainMemberGroupClosure, without its list of children.
LEMMA InClosure ==
    ASSUME NEW gs, NEW seeds
    PROVE  \A g : g \in Closure(gs, seeds) <=>
                     /\ seeds # {} /\ g \in GroupsHere(gs)
                     /\ \A S \in SUBSET Groups :
                           (seeds \subseteq S /\ \A h \in Groups : h \in S => gs[h].groups \subseteq S) => g \in S
  <1> DEFINE children == {<<g, gs[g].groups>> : g \in Groups}
  <1>1. ASSUME NEW S
        PROVE  (\A c \in children : c[1] \in S => c[2] \subseteq S)
                  <=> \A h \in Groups : h \in S => gs[h].groups \subseteq S
    <2>1. ASSUME \A c \in children : c[1] \in S => c[2] \subseteq S, NEW h \in Groups, h \in S
          PROVE  gs[h].groups \subseteq S
      <3>1. <<h, gs[h].groups>> \in children
        OBVIOUS
      <3> QED  BY <2>1, <3>1
    <2>2. ASSUME \A h \in Groups : h \in S => gs[h].groups \subseteq S, NEW c \in children, c[1] \in S
          PROVE  c[2] \subseteq S
      BY <2>2
    <2> QED  BY <2>1, <2>2
  <1>2. Closure(gs, seeds) =
           IF seeds = {} THEN {}
           ELSE {g \in GroupsHere(gs) :
                   \A S \in SUBSET Groups :
                      (seeds \subseteq S /\ \A c \in children : c[1] \in S => c[2] \subseteq S) => g \in S}
    BY DEF Closure
  <1> HIDE DEF children
  <1> QED  BY <1>1, <1>2

\* A table whose groups have fewer children has smaller closures. New groups U that
\* nothing names do not count.
LEMMA ClosureShrinks ==
    ASSUME NEW gs \in GroupTable, NEW gs2 \in GroupTable, NEW U \in SUBSET Groups,
           GroupsHere(gs2) \subseteq GroupsHere(gs) \cup U,
           \A h \in Groups : gs2[h].groups \cap U = {} /\ (h \notin U => gs2[h].groups \subseteq gs[h].groups),
           NEW seeds \in SUBSET Groups, NEW seeds2 \in SUBSET seeds, seeds2 \cap U = {},
           NEW g \in Closure(gs2, seeds2)
    PROVE  g \in Closure(gs, seeds) \ U
  <1>1. /\ seeds2 # {} /\ g \in GroupsHere(gs2)
        /\ \A S \in SUBSET Groups :
              (seeds2 \subseteq S /\ \A h \in Groups : h \in S => gs2[h].groups \subseteq S) => g \in S
    BY InClosure
  <1>2. g \notin U
    <2>1. PICK S \in SUBSET Groups : S = Groups \ U
      OBVIOUS
    <2>2. \A h \in Groups : gs2[h].groups \subseteq S
      BY <2>1, GroupFields
    <2> QED  BY <1>1, <2>1, <2>2
  <1>3. ASSUME NEW S \in SUBSET Groups, seeds \subseteq S, \A h \in Groups : h \in S => gs[h].groups \subseteq S
        PROVE  g \in S
    <2>1. PICK T \in SUBSET Groups : T = S \ U
      OBVIOUS
    <2>2. seeds2 \subseteq T /\ \A h \in Groups : h \in T => gs2[h].groups \subseteq T
      BY <1>3, <2>1
    <2> QED  BY <1>1, <2>1, <2>2
  <1>4. seeds # {} /\ g \in GroupsHere(gs)
    BY <1>1, <1>2
  <1> QED  BY <1>2, <1>3, <1>4, InClosure

\* A group is found whatever its own children are.
LEMMA ClosureReaches ==
    ASSUME NEW gs \in GroupTable, NEW gs2 \in GroupTable, NEW g \in Groups, NEW seeds \in SUBSET Groups,
           GroupsHere(gs) \subseteq GroupsHere(gs2),
           \A h \in Groups \ {g} : gs[h].groups \subseteq gs2[h].groups,
           g \in Closure(gs, seeds)
    PROVE  g \in Closure(gs2, seeds)
  <1>1. /\ seeds # {} /\ g \in GroupsHere(gs)
        /\ \A S \in SUBSET Groups :
              (seeds \subseteq S /\ \A h \in Groups : h \in S => gs[h].groups \subseteq S) => g \in S
    BY InClosure
  <1>2. ASSUME NEW S \in SUBSET Groups, seeds \subseteq S, \A h \in Groups : h \in S => gs2[h].groups \subseteq S,
               g \notin S
        PROVE  FALSE
    <2>1. \A h \in Groups : h \in S => gs[h].groups \subseteq S
      BY <1>2
    <2> QED  BY <1>1, <1>2, <2>1
  <1> QED  BY <1>1, <1>2, InClosure

\* Chains stay valid when groups lose children, chains lose groups, and no group
\* that a chain goes through gets a chain for a node.
LEMMA ValidShrinks ==
    ASSUME NEW gs \in GroupTable, NEW gs2 \in GroupTable, NEW ns \in NodeTable, NEW ns2 \in NodeTable,
           NEW U \in SUBSET Groups,
           GroupsHere(gs2) \subseteq GroupsHere(gs) \cup U,
           \A h \in Groups : gs2[h].groups \cap U = {} /\ (h \notin U => gs2[h].groups \subseteq gs[h].groups),
           \A c \in Chains(ns2) : c \in Chains(ns) /\ ns2[c].groups \subseteq ns[c].groups \ U,
           \A c, d \in Chains(ns2) : \A g \in Closure(gs, ns[d].groups) \ U :
              (c \in gs2[g].nodes \/ ns2[c].primary = g) => (c \in gs[g].nodes \/ ns[c].primary = g),
           ChainGroupsValid(gs, ns)
    PROVE  ChainGroupsValid(gs2, ns2)
  <1>1. SUFFICES ASSUME NEW d \in Nodes, d \in Chains(ns2), ns2[d].groups # {}
                 PROVE  ~HasCycle(gs2, ns2[d].groups) /\ ~ContainsChain(gs2, ns2, ns2[d].groups)
    BY DEF ChainGroupsValid, Chains
  <1>2. d \in Chains(ns) /\ ns[d].groups # {} /\ ns2[d].groups \in SUBSET ns[d].groups /\ ns2[d].groups \cap U = {}
    BY <1>1
  <1>3. ns[d].groups \in SUBSET Groups
    BY DEF NodeTable, NodeRow
  <1>4. ~HasCycle(gs, ns[d].groups) /\ ~ContainsChain(gs, ns, ns[d].groups)
    BY <1>2 DEF ChainGroupsValid
  <1>5. \A g \in Closure(gs2, ns2[d].groups) : g \in Closure(gs, ns[d].groups) /\ g \notin U
    BY <1>2, <1>3, ClosureShrinks, SMTT(30)
  <1>6. ASSUME NEW g \in Closure(gs2, ns2[d].groups), g \in Closure(gs2, gs2[g].groups)
        PROVE  FALSE
    <2>1. g \in Groups /\ g \notin U /\ g \in Closure(gs, ns[d].groups)
      BY <1>5 DEF Closure, GroupsHere
    <2>2. gs[g].groups \in SUBSET Groups /\ gs2[g].groups \in SUBSET gs[g].groups /\ gs2[g].groups \cap U = {}
      BY <2>1, GroupFields
    <2>3. g \in Closure(gs, gs[g].groups)
      BY <1>6, <2>2, ClosureShrinks
    <2> QED  BY <1>4, <2>1, <2>3 DEF HasCycle
  <1>7. ASSUME NEW c \in Chains(ns2), NEW g \in Closure(gs2, ns2[d].groups), c \in gs2[g].nodes \/ ns2[c].primary = g
        PROVE  FALSE
    <2>1. c \in gs[g].nodes \/ ns[c].primary = g
      BY <1>1, <1>5, <1>7
    <2> QED  BY <1>4, <1>5, <2>1 DEF ContainsChain
  <1> QED  BY <1>6, <1>7 DEF HasCycle, ContainsChain

\* No group is its own child.
NoSelf(gs) == \A g \in Groups : g \notin gs[g].groups

\* ChainGroupsSound says what the code's check says.
LEMMA SoundIsValid == TypeOK => (ChainGroupsSound <=> ChainGroupsValid(group, node))
  <1> SUFFICES ASSUME TypeOK
               PROVE  ChainGroupsSound <=> ChainGroupsValid(group, node)
    OBVIOUS
  <1>1. ASSUME NEW c \in Chains(node)
        PROVE  /\ HasCycle(group, node[c].groups)
                     <=> \E g \in Closure(group, node[c].groups) : g \in Closure(group, group[g].groups)
               /\ ContainsChain(group, node, node[c].groups)
                     <=> MembersOf(Closure(group, node[c].groups)) \cap Chains(node) # {}
               /\ node[c].groups = {} => Closure(group, node[c].groups) = {}
    <2>1. Chains(node) \subseteq NodesHere(node)
      BY DEF Chains, NodesHere
    <2>2. node[c].groups = {} => Closure(group, node[c].groups) = {}
      BY DEF Closure
    <2>3. ContainsChain(group, node, node[c].groups)
             => MembersOf(Closure(group, node[c].groups)) \cap Chains(node) # {}
      <3>1. SUFFICES ASSUME NEW n \in Chains(node), NEW g \in Closure(group, node[c].groups),
                            n \in group[g].nodes \/ node[n].primary = g
                     PROVE  n \in MembersOf(Closure(group, node[c].groups))
        BY DEF ContainsChain
      <3> QED  BY <2>1, <3>1 DEF MembersOf
    <2>4. MembersOf(Closure(group, node[c].groups)) \cap Chains(node) # {}
             => ContainsChain(group, node, node[c].groups)
      BY DEF ContainsChain, MembersOf
    <2> QED  BY <2>2, <2>3, <2>4 DEF HasCycle
  <1> DEFINE sound(c) ==
                /\ MembersOf(Closure(group, node[c].groups)) \cap Chains(node) = {}
                /\ \A g \in Closure(group, node[c].groups) : g \notin Closure(group, group[g].groups)
             valid(c) ==
                node[c].groups # {} =>
                   ~HasCycle(group, node[c].groups) /\ ~ContainsChain(group, node, node[c].groups)
  <1>2. \A c \in Chains(node) : sound(c) <=> valid(c)
    <2>1. MembersOf({}) \cap Chains(node) = {}
      BY NoneAssumption DEF MembersOf
    <2>2. ASSUME NEW c \in Chains(node), node[c].groups = {}
          PROVE  sound(c)
      BY <1>1, <2>1, <2>2
    <2>3. ASSUME NEW c \in Chains(node), node[c].groups # {}
          PROVE  sound(c) <=> valid(c)
      BY <1>1, <2>3
    <2> QED  BY <2>2, <2>3
  <1>3. /\ ChainGroupsSound <=> \A c \in Chains(node) : sound(c)
        /\ ChainGroupsValid(group, node) <=> \A c \in Chains(node) : valid(c)
    BY DEF ChainGroupsSound, ChainGroupsValid
  <1> HIDE DEF sound, valid
  <1> QED  BY <1>2, <1>3

\* A group that has been checked with chain n among its members is in no chain.
LEMMA ChainRefused ==
    ASSUME NEW gs \in GroupTable, NEW gs2 \in GroupTable, NEW ns, NEW g \in Groups, NEW members \in SUBSET Nodes,
           \A h \in Groups : gs2[h].kind = gs[h].kind /\ gs2[h].groups = gs[h].groups,
           MembersValid(gs2, ns, g, members, {}),
           NEW n \in members, n \in Chains(ns), NEW c \in Chains(ns), ns[c].groups \in SUBSET Groups
    PROVE  g \notin Closure(gs, ns[c].groups)
  <1>1. PICK gs3 : gs3 = [gs2 EXCEPT ![g].nodes = members, ![g].groups = {} \ {g}]
    OBVIOUS
  <1>2. /\ gs3 \in GroupTable /\ gs3[g].nodes = members
        /\ \A h \in Groups : gs3[h].kind = gs2[h].kind /\ (h # g => gs3[h].groups = gs2[h].groups)
    <2>1. gs2[g] \in GroupRow
      BY DEF GroupTable
    <2>2. PICK row : row = [gs2[g] EXCEPT !.nodes = members, !.groups = {} \ {g}]
      OBVIOUS
    <2>3. row \in GroupRow /\ row.nodes = members /\ row.kind = gs2[g].kind
      BY <2>1, <2>2 DEF GroupRow
    <2>4. gs3 = [gs2 EXCEPT ![g] = row]
      BY <1>1, <2>2 DEF GroupTable
    <2> QED  BY <2>3, <2>4 DEF GroupTable
  <1>3. ChainGroupsValid(gs3, ns)
    BY <1>1 DEF MembersValid
  <1>4. GroupsHere(gs) \subseteq GroupsHere(gs3)
    BY <1>2 DEF GroupsHere
  <1>5. ASSUME g \in Closure(gs, ns[c].groups)
        PROVE  FALSE
    <2>1. g \in Closure(gs3, ns[c].groups)
      BY <1>2, <1>4, <1>5, ClosureReaches
    <2>2. ns[c].groups # {}
      BY <1>5 DEF Closure
    <2>3. ~ContainsChain(gs3, ns, ns[c].groups)
      BY <1>3, <2>2 DEF ChainGroupsValid
    <2> QED  BY <1>2, <2>1, <2>3 DEF ContainsChain
  <1> QED  BY <1>5

\* The groups that list node n after syncNodeGroupMembership are asked for, and
\* those that are new are in no chain if n is one.
LEMMA JoinedAccepted ==
    ASSUME TypeOK, NEW ns \in NodeTable, NEW n \in Nodes, NEW S \in SUBSET Groups, NEW o \in Joined(ns, n, S)
    PROVE  \A g \in Groups : n \in o.groups[g].nodes =>
              /\ g \in S
              /\ n \in group[g].nodes \/
                    (n \in Chains(ns) => \A c \in Chains(ns) : g \notin Closure(group, ns[c].groups))
  <1> DEFINE new == S \ GroupsOf(n)
             k == Cardinality(new)
             left == Removing(group, n, Groups \ S)
             table(e, j) == Adding(left, n, Prefix(e[1], j - 1))
  <1>1. PICK e \in Bijection(1..k, new) \X (0..k) :
           /\ \A j \in 1..e[2] : MembersValid(table(e, j), ns, e[1][j], left[e[1][j]].nodes \cup {n}, {})
           /\ o = [groups |-> Adding(left, n, Prefix(e[1], e[2])), ok |-> e[2] = k]
    BY ZenonT(30) DEF Joined
  <1>2. group \in GroupTable
    BY DEF TypeOK, GroupTable
  <1>3. /\ left \in GroupTable
        /\ \A g \in Groups : /\ left[g].kind = group[g].kind /\ left[g].groups = group[g].groups
                             /\ left[g].nodes \subseteq group[g].nodes /\ (g \notin S => n \notin left[g].nodes)
    BY <1>2 DEF Removing, GroupTable, GroupRow
  <1>4. \A j : /\ table(e, j) \in GroupTable
               /\ \A g \in Groups : table(e, j)[g].kind = group[g].kind /\ table(e, j)[g].groups = group[g].groups
    <2> HIDE DEF left
    <2> QED  BY <1>3, GroupTables
  <1>5. e[1] \in [1..k -> new] /\ e[2] \in 0..k
    BY DEF Bijection, Injection
  <1> HIDE DEF left, table
  <1>6. ASSUME NEW g \in Groups, n \in o.groups[g].nodes, n \notin left[g].nodes
        PROVE  \E j \in 1..e[2] : g = e[1][j] /\ g \in new
    <2>1. g \in Prefix(e[1], e[2])
      BY <1>1, <1>3, <1>6 DEF Adding, GroupTable
    <2>2. PICK j \in DOMAIN e[1] : j <= e[2] /\ g = e[1][j]
      BY <2>1 DEF Prefix
    <2>3. j \in 1..k /\ g \in new
      BY <1>5, <2>2
    <2> QED  BY <1>5, <2>2, <2>3
  <1>7. ASSUME NEW g \in Groups, n \in o.groups[g].nodes, n \notin left[g].nodes,
               n \in Chains(ns), NEW c \in Chains(ns)
        PROVE  g \notin Closure(group, ns[c].groups)
    <2>1. PICK j \in 1..e[2] : g = e[1][j]
      BY <1>6, <1>7
    <2>2. PICK gs2, members : gs2 = table(e, j) /\ members = left[g].nodes \cup {n}
      OBVIOUS
    <2>3. MembersValid(gs2, ns, g, members, {})
      BY <1>1, <2>1, <2>2
    <2>4. members \in SUBSET Nodes /\ n \in members
      BY <1>3, <2>2, GroupFields
    <2>5. ns[c].groups \in SUBSET Groups
      BY DEF Chains, NodeTable, NodeRow
    <2>6. /\ gs2 \in GroupTable
          /\ \A h \in Groups : gs2[h].kind = group[h].kind /\ gs2[h].groups = group[h].groups
      BY <1>4, <2>2
    <2> QED  BY <1>2, <1>7, <2>3, <2>4, <2>5, <2>6, ChainRefused
  <1>8. ASSUME NEW g \in Groups, n \in o.groups[g].nodes
        PROVE  g \in S
    BY <1>3, <1>6, <1>8
  <1> QED  BY <1>3, <1>7, <1>8

\* What keeps chains buildable from groups.
CInv == ChainGroupsValid(group, node) /\ NoSelf(group)

\* The lists of the groups once node n is in exactly those in S.
LEMMA MembershipRows ==
    ASSUME NEW gs \in GroupTable, NEW n \in Nodes, NEW S \in SUBSET Groups, NEW new, new = Membership(gs, n, S)
    PROVE  /\ new \in GroupTable
           /\ \A g \in Groups : /\ new[g].kind = gs[g].kind /\ new[g].groups = gs[g].groups
                                /\ gs[g].nodes \ {n} \subseteq new[g].nodes /\ (g \in S => n \in new[g].nodes)
  <1>1. PICK out : out = Removing(gs, n, Groups \ S)
    OBVIOUS
  <1>2. /\ out \in GroupTable
        /\ \A g \in Groups : /\ out[g].kind = gs[g].kind /\ out[g].groups = gs[g].groups
                             /\ out[g].nodes \subseteq gs[g].nodes /\ gs[g].nodes \ {n} \subseteq out[g].nodes
    BY <1>1 DEF Removing, GroupTable, GroupRow
  <1>3. new = Adding(out, n, S)
    BY <1>1 DEF Membership
  <1>4. /\ new \in GroupTable
        /\ \A g \in Groups : new[g].kind = out[g].kind /\ new[g].groups = out[g].groups
    BY <1>2, <1>3, GroupTables
  <1>5. \A g \in Groups : out[g].nodes \subseteq new[g].nodes /\ (g \in S => n \in new[g].nodes)
    BY <1>2, <1>3 DEF Adding, GroupTable, GroupRow
  <1> QED  BY <1>2, <1>4, <1>5

\* Chains stay valid when groups lose nodes, by list or by group_id.
LEMMA ValidWithFewer ==
    ASSUME NEW gs \in GroupTable, NEW gs2 \in GroupTable, NEW ns, NEW ns2,
           \A g \in Groups : gs2[g].kind = gs[g].kind /\ gs2[g].groups = gs[g].groups,
           \A n \in Nodes : ns2[n].kind = ns[n].kind /\ ns2[n].groups = ns[n].groups,
           \A n \in Nodes, g \in Groups :
              (n \in gs2[g].nodes \/ ns2[n].primary = g) => (n \in gs[g].nodes \/ ns[n].primary = g),
           ChainGroupsValid(gs, ns)
    PROVE  ChainGroupsValid(gs2, ns2)
  <1>1. GroupsHere(gs2) = GroupsHere(gs)
    BY DEF GroupsHere
  <1>2. ASSUME NEW seeds
        PROVE  Closure(gs2, seeds) = Closure(gs, seeds)
    <2>1. \A g : g \in Closure(gs2, seeds) <=> g \in Closure(gs, seeds)
      <3>1. ASSUME NEW S \in SUBSET Groups
            PROVE  (\A h \in Groups : h \in S => gs2[h].groups \subseteq S)
                      <=> (\A h \in Groups : h \in S => gs[h].groups \subseteq S)
        OBVIOUS
      <3> QED  BY <1>1, <3>1, InClosure
    <2> QED  BY <2>1 DEF Closure
  <1>3. \A seeds : Closure(gs, seeds) \subseteq Groups
    BY DEF Closure, GroupsHere
  <1>4. Chains(ns2) = Chains(ns) /\ Chains(ns) \subseteq Nodes
    BY DEF Chains
  <1>5. ASSUME NEW n \in Chains(ns), ns[n].groups # {}
        PROVE  ~HasCycle(gs2, ns2[n].groups) /\ ~ContainsChain(gs2, ns2, ns2[n].groups)
    <2>1. ~HasCycle(gs, ns[n].groups) /\ ~ContainsChain(gs, ns, ns[n].groups)
      BY <1>5 DEF ChainGroupsValid
    <2>2. ns2[n].groups = ns[n].groups
      BY <1>4
    <2>3. ~HasCycle(gs2, ns[n].groups)
      BY <1>2, <1>3, <2>1 DEF HasCycle
    <2>4. ~ContainsChain(gs2, ns2, ns[n].groups)
      BY <1>2, <1>3, <1>4, <2>1 DEF ContainsChain
    <2> QED  BY <2>2, <2>3, <2>4
  <1> QED  BY <1>4, <1>5 DEF ChainGroupsValid

\* A request that ensurePendingNodeKeepsChainMemberGroupsValid has accepted leaves
\* the chains valid if it is executed, and the joining may end early.
LEMMA PendingKept ==
    ASSUME IInv, NEW n \in Nodes, NEW S \in SUBSET Groups, NEW row \in NodeRow, PendingOK(n, row, S),
           NEW ns2, ns2 = [node EXCEPT ![n] = row], NEW ns \in NodeTable, NEW o \in Joined(ns, n, S),
           NEW gs2, gs2 = o.groups
    PROVE  ChainGroupsValid(gs2, ns2)
  <1>1. PICK gs : gs = Membership(group, n, S)
    OBVIOUS
  <1>2. /\ gs \in GroupTable
        /\ \A g \in Groups : /\ gs[g].kind = group[g].kind /\ gs[g].groups = group[g].groups
                             /\ group[g].nodes \ {n} \subseteq gs[g].nodes /\ (g \in S => n \in gs[g].nodes)
    BY <1>1, IInvParts, MembershipRows
  <1>3. /\ gs2 \in GroupTable
        /\ \A g \in Groups : /\ gs2[g].kind = group[g].kind /\ gs2[g].groups = group[g].groups
                             /\ gs2[g].nodes \subseteq group[g].nodes \cup {n}
    <2>1. TypeOK
      BY DEF IInv
    <2> QED  BY <2>1, JoinedRows
  <1>4. \A g \in Groups : n \in gs2[g].nodes => g \in S
    BY JoinedAccepted DEF IInv
  <1>5. \A g \in Groups : gs2[g].nodes \subseteq gs[g].nodes
    BY <1>2, <1>3, <1>4
  <1>6. ChainGroupsValid(gs, ns2)
    BY <1>1 DEF PendingOK
  <1>7. /\ \A g \in Groups : gs2[g].kind = gs[g].kind /\ gs2[g].groups = gs[g].groups
        /\ \A k \in Nodes, g \in Groups :
              (k \in gs2[g].nodes \/ ns2[k].primary = g) => (k \in gs[g].nodes \/ ns2[k].primary = g)
    BY <1>2, <1>3, <1>5
  <1>8. PICK ns3 : ns3 = ns2
    OBVIOUS
  <1>9. /\ ChainGroupsValid(gs, ns3)
        /\ \A k \in Nodes : ns2[k].kind = ns3[k].kind /\ ns2[k].groups = ns3[k].groups
        /\ \A k \in Nodes, g \in Groups :
              (k \in gs2[g].nodes \/ ns2[k].primary = g) => (k \in gs[g].nodes \/ ns3[k].primary = g)
    BY <1>6, <1>7, <1>8
  <1>10. gs \in GroupTable /\ gs2 \in GroupTable
    BY <1>2, <1>3
  <1> QED  BY ONLY <1>7, <1>9, <1>10, ValidWithFewer

\* Nothing new is in reach of a chain: the rows of groups lose children, and nodes
\* that are chains are in no more groups that chains go through.
LEMMA CInvShrinks ==
    ASSUME IInv, CInv, group' \in GroupTable, node' \in NodeTable, NEW U \in SUBSET NewGroups,
           \A h \in Groups : group'[h].groups \subseteq group[h].groups,
           GroupsHere(group') \subseteq GroupsHere(group) \cup U,
           \A c \in Chains(node') : c \in Chains(node) /\ node'[c].groups \subseteq node[c].groups,
           \A c, d \in Chains(node') : \A g \in Closure(group, node[d].groups) \ U :
              (c \in group'[g].nodes \/ node'[c].primary = g) => (c \in group[g].nodes \/ node[c].primary = g)
    PROVE  CInv'
  <1>1. group \in GroupTable /\ node \in NodeTable
    BY IInvParts
  <1>2. /\ U \in SUBSET Groups
        /\ \A h \in Groups : group[h].groups \cap U = {}
        /\ \A c \in Nodes : node[c].groups \cap U = {}
    BY DEF NewGroups
  <1>3. Chains(node') \subseteq Nodes
    BY DEF Chains
  <1>4. /\ \A h \in Groups : group'[h].groups \cap U = {} /\ (h \notin U => group'[h].groups \subseteq group[h].groups)
        /\ \A c \in Chains(node') : c \in Chains(node) /\ node'[c].groups \subseteq node[c].groups \ U
    BY <1>2, <1>3
  <1>5. ChainGroupsValid(group, node)
    BY DEF CInv
  <1>6. ChainGroupsValid(group', node')
    BY <1>1, <1>2, <1>4, <1>5, ValidShrinks, SMTT(30)
  <1>7. NoSelf(group')
    BY DEF CInv, NoSelf
  <1> QED  BY <1>6, <1>7 DEF CInv

\* The case without new groups.
LEMMA CInvKept ==
    ASSUME IInv, CInv, group' \in GroupTable, node' \in NodeTable,
           \A h \in Groups : /\ group'[h].groups \subseteq group[h].groups
                             /\ group'[h].kind # "none" => group[h].kind # "none",
           \A c \in Chains(node') : c \in Chains(node) /\ node'[c].groups \subseteq node[c].groups,
           \A c, d \in Chains(node') : \A g \in Closure(group, node[d].groups) :
              (c \in group'[g].nodes \/ node'[c].primary = g) => (c \in group[g].nodes \/ node[c].primary = g)
    PROVE  CInv'
  <1>1. PICK U \in SUBSET NewGroups : U = {}
    OBVIOUS
  <1>2. GroupsHere(group') \subseteq GroupsHere(group) \cup U
    BY DEF GroupsHere
  <1> QED  BY <1>1, <1>2, CInvShrinks

\* A node is created and joins groups.
LEMMA NodeCreateChains ==
    ASSUME IInv, CInv, NEW n \in Nodes, NodeCreate(n)
    PROVE  CInv'
  <1>1. PICK r \in NodeRequests(n) : \E row \in RequestedRows(n, r.chain, r.nodes, r.groups, r.into) :
           /\ r.chain => PendingOK(n, row, r.into)
           /\ node' = [node EXCEPT ![n] = row]
           /\ \E o \in Joined(node', n, r.into) : group' = o.groups
    BY DEF NodeCreate
  <1>2. PICK row \in RequestedRows(n, r.chain, r.nodes, r.groups, r.into) :
           /\ r.chain => PendingOK(n, row, r.into)
           /\ node' = [node EXCEPT ![n] = row]
           /\ \E o \in Joined(node', n, r.into) : group' = o.groups
    BY <1>1
  <1>3. PICK ns : ns = node' /\ \E o \in Joined(ns, n, r.into) : group' = o.groups
    BY <1>2
  <1>4. row \in NodeRow /\ r.into \in SUBSET Groups /\ (row.kind = "chain" => r.chain)
    <2>1. row \in NodeRow /\ r.into \subseteq GroupsHere(group)
      BY RequestFields DEF IInv
    <2>2. row.kind = IF r.chain THEN "chain" ELSE "plain"
      BY DEF RequestedRows
    <2> QED  BY <2>1, <2>2 DEF GroupsHere
  <1>5. ns \in NodeTable /\ node' \in NodeTable
    BY <1>2, <1>3, <1>4, IInvParts DEF NodeTable
  <1>6. /\ group' \in GroupTable
        /\ \A g \in Groups : /\ group'[g].kind = group[g].kind /\ group'[g].groups = group[g].groups
                             /\ group'[g].nodes \subseteq group[g].nodes \cup {n}
    <2>1. PICK o \in Joined(ns, n, r.into) : group' = o.groups
      BY <1>3
    <2>2. TypeOK
      BY DEF IInv
    <2> QED  BY <2>1, <2>2, JoinedRows
  <1>7. CASE r.chain
    <2>1. PICK o \in Joined(ns, n, r.into) : group' = o.groups
      BY <1>3
    <2>2. ChainGroupsValid(group', node')
      BY <1>2, <1>4, <1>5, <1>7, <2>1, PendingKept
    <2> QED  BY <1>6, <2>2 DEF CInv, NoSelf
  <1>8. CASE ~r.chain
    <2>1. \A c \in Chains(node') : c \in Chains(node) /\ c # n /\ node'[c] = node[c]
      BY <1>2, <1>4, <1>8, IInvParts DEF Chains, NodeTable
    <2>2. \A c, d \in Chains(node') : \A g \in Closure(group, node[d].groups) :
             (c \in group'[g].nodes \/ node'[c].primary = g) => (c \in group[g].nodes \/ node[c].primary = g)
      BY <1>6, <2>1 DEF Closure, GroupsHere
    <2> QED  BY <1>5, <1>6, <2>1, <2>2, CInvKept
  <1> QED  BY <1>7, <1>8

\* A node is updated. If a group refuses it, those before have accepted it as it was.
LEMMA NodeUpdateChains ==
    ASSUME IInv, CInv, NEW n \in Nodes, NodeUpdate(n)
    PROVE  CInv'
  <1>1. PICK r \in NodeRequests(n) : \E row \in RequestedRows(n, r.chain, r.nodes, r.groups, r.into) :
           /\ PendingOK(n, row, r.into)
           /\ \E o \in Joined(node, n, r.into) :
                 group' = o.groups /\ node' = IF o.ok THEN [node EXCEPT ![n] = row] ELSE node
    BY DEF NodeUpdate
  <1>2. PICK row \in RequestedRows(n, r.chain, r.nodes, r.groups, r.into), o \in Joined(node, n, r.into) :
           /\ PendingOK(n, row, r.into)
           /\ group' = o.groups /\ node' = IF o.ok THEN [node EXCEPT ![n] = row] ELSE node
    BY <1>1
  <1>3. row \in NodeRow /\ r.into \in SUBSET Groups
    BY RequestFields DEF IInv, GroupsHere
  <1>4. node \in NodeTable
    BY IInvParts
  <1>5. /\ group' \in GroupTable
        /\ \A g \in Groups : /\ group'[g].kind = group[g].kind /\ group'[g].groups = group[g].groups
                             /\ group'[g].nodes \subseteq group[g].nodes \cup {n}
    <2>1. TypeOK
      BY DEF IInv
    <2>2. group' = o.groups
      BY <1>2
    <2> QED  BY <2>1, <2>2, JoinedRows
  <1>6. CASE o.ok
    <2>1. node' = [node EXCEPT ![n] = row]
      BY <1>2, <1>6
    <2>2. ChainGroupsValid(group', node')
      BY <1>2, <1>3, <1>4, <2>1, PendingKept
    <2> QED  BY <1>5, <2>2 DEF CInv, NoSelf
  <1>7. CASE ~o.ok
    <2>1. node' = node
      BY <1>2, <1>7
    <2>2. ASSUME NEW c \in Chains(node), NEW d \in Chains(node), NEW g \in Closure(group, node[d].groups),
                 c \in group'[g].nodes
          PROVE  c \in group[g].nodes
      <3>1. g \in Groups
        BY DEF Closure, GroupsHere
      <3>2. CASE c = n
        BY <1>2, <1>3, <1>4, <2>2, <3>1, <3>2, JoinedAccepted DEF IInv
      <3>3. CASE c # n
        BY <1>5, <2>2, <3>1, <3>3
      <3> QED  BY <3>2, <3>3
    <2> QED  BY <1>4, <1>5, <2>1, <2>2, CInvKept
  <1> QED  BY <1>6, <1>7

\* A node that exists is imported again.
LEMMA ImportNodeChains ==
    ASSUME IInv, CInv, NEW n \in Nodes, NEW target \in Groups \cup {None}, ImportNode(n, target)
    PROVE  CInv'
  <1> DEFINE row == [node[n] EXCEPT !.kind = "plain", !.nodes = {}, !.groups = {}, !.primary = target]
             left == Removing(group, n, {node[n].primary} \ {target})
             joined == Adding(left, n, {target})
  <1>1. \/ /\ group' = joined /\ node' = [node EXCEPT ![n] = row]
           /\ ChainGroupsValid(joined, [node EXCEPT ![n] = row])
        \/ group' = left /\ node' = node
    BY DEF ImportNode
  <1>2. /\ left \in GroupTable
        /\ \A g \in Groups : /\ left[g].kind = group[g].kind /\ left[g].groups = group[g].groups
                             /\ left[g].nodes \subseteq group[g].nodes
    BY IInvParts, GroupTables
  <1> HIDE DEF left, row
  <1>3. \A g \in Groups : joined[g].groups = group[g].groups
    BY <1>2, GroupTables
  <1>4. CASE group' = joined /\ ChainGroupsValid(group', node')
    BY <1>3, <1>4 DEF CInv, NoSelf
  <1>5. CASE group' = left /\ node' = node
    <2>1. \A c, d \in Chains(node') : \A g \in Closure(group, node[d].groups) :
             (c \in group'[g].nodes \/ node'[c].primary = g) => (c \in group[g].nodes \/ node[c].primary = g)
      BY <1>2, <1>5 DEF Closure, GroupsHere
    <2> QED  BY <1>2, <1>5, <2>1, IInvParts, CInvKept
  <1> QED  BY <1>1, <1>4, <1>5

\* A node is deleted.
LEMMA NodeDeleteChains ==
    ASSUME IInv, CInv, NEW n \in Nodes, NodeDelete(n)
    PROVE  CInv'
  <1>1. node' = [node EXCEPT ![n] = NoNode] /\ group' = GroupsWithoutNodes(group, {n})
    BY DEF NodeDelete
  <1>2. /\ group' \in GroupTable
        /\ \A g \in Groups : /\ group'[g].kind = group[g].kind /\ group'[g].groups = group[g].groups
                             /\ group'[g].nodes = group[g].nodes \ {n}
    BY <1>1, IInvParts, GroupTables
  <1>3. node' \in NodeTable
    BY <1>1, IInvParts, RowUpdate DEF NodeTable
  <1>4. \A c \in Chains(node') : c \in Chains(node) /\ node'[c] = node[c]
    BY <1>1, IInvParts DEF Chains, NodeTable, NoNode
  <1>5. \A c, d \in Chains(node') : \A g \in Closure(group, node[d].groups) :
           (c \in group'[g].nodes \/ node'[c].primary = g) => (c \in group[g].nodes \/ node[c].primary = g)
    BY <1>2, <1>4 DEF Closure, GroupsHere
  <1> QED  BY <1>2, <1>3, <1>4, <1>5, CInvKept

\* The nodes that addNodesToGroup gives a primary group are those it adds.
LEMMA AdoptedPrimary ==
    ASSUME NEW ns \in NodeTable, NEW gs, NEW g \in Groups, NEW members, NEW n \in Nodes,
           Adopted(ns, gs, g, members)[n].primary # ns[n].primary
    PROVE  n \in members /\ Adopted(ns, gs, g, members)[n].primary = g
  <1>1. CASE members = {} \/ ~MembersValid(gs, ns, g, members, {})
    BY <1>1 DEF Adopted
  <1>2. CASE ~(members = {} \/ ~MembersValid(gs, ns, g, members, {}))
    <2>1. Adopted(ns, gs, g, members)[n] =
             IF n \in members /\ ns[n].primary = None THEN [ns[n] EXCEPT !.primary = g] ELSE ns[n]
      BY <1>2 DEF Adopted
    <2>2. ns[n] \in NodeRow
      BY DEF NodeTable
    <2> QED  BY <2>1, <2>2 DEF NodeRow
  <1> QED  BY <1>1, <1>2

\* A group is created: no chain goes through it yet.
LEMMA GroupCreateChains ==
    ASSUME IInv, CInv, NEW g \in Groups, GroupCreate(g)
    PROVE  CInv'
  <1>1. PICK members \in SUBSET NodesHere(node) :
           /\ group' = [group EXCEPT ![g] = [NoGroup EXCEPT !.kind = "manual", !.nodes = members]]
           /\ node' = Adopted(node, group', g, members)
    BY DEF GroupCreate, Small
  <1>2. PICK U \in SUBSET NewGroups : U = {g}
    BY DEF GroupCreate
  <1>3. members \subseteq Nodes
    BY DEF NodesHere
  <1>4. /\ group' \in GroupTable /\ group'[g].groups = {}
        /\ \A h \in Groups \ {g} : group'[h] = group[h]
    BY <1>1, <1>3, IInvParts DEF GroupTable, GroupRow, NoGroup
  <1>5. PICK gs : node' = Adopted(node, gs, g, members)
    BY <1>1
  <1>6. /\ node' \in NodeTable
        /\ \A n \in Nodes : /\ node'[n].kind = node[n].kind /\ node'[n].groups = node[n].groups
                            /\ node'[n].primary # node[n].primary => node'[n].primary = g
    BY <1>5, IInvParts, AdoptedRows, AdoptedPrimary
  <1>7. GroupsHere(group') \subseteq GroupsHere(group) \cup U
    BY <1>2, <1>4 DEF GroupsHere
  <1>8. \A c \in Chains(node') : c \in Chains(node) /\ node'[c].groups \subseteq node[c].groups
    BY <1>6 DEF Chains
  <1>9. ASSUME NEW c \in Chains(node'), NEW d \in Chains(node'), NEW h \in Closure(group, node[d].groups) \ U,
               c \in group'[h].nodes \/ node'[c].primary = h
        PROVE  c \in group[h].nodes \/ node[c].primary = h
    <2>1. h \in Groups \ {g} /\ c \in Nodes
      BY <1>2 DEF Closure, GroupsHere, Chains
    <2> QED  BY <1>4, <1>6, <1>9, <2>1
  <1>10. \A h \in Groups : group'[h].groups \subseteq group[h].groups
    BY <1>4
  <1> QED  BY <1>4, <1>6, <1>7, <1>8, <1>9, <1>10, CInvShrinks

\* A group is edited: what is written is what has been checked, and the primary
\* groups follow the list.
LEMMA GroupUpdateChains ==
    ASSUME IInv, CInv, NEW g \in Groups, GroupUpdate(g)
    PROVE  CInv'
  <1> DEFINE cleared(members) ==
                [n \in Nodes |-> IF n \in group[g].nodes \ members /\ node[n].primary = g
                                 THEN [node[n] EXCEPT !.primary = None] ELSE node[n]]
  <1>1. PICK members \in SUBSET NodesHere(node) :
           /\ MembersValid(group, node, g, members, {})
           /\ group' = [group EXCEPT ![g].nodes = members, ![g].groups = {}]
           /\ node' = Adopted(cleared(members), group', g, members)
    BY DEF GroupUpdate, Small
  <1>2. PICK gs2 : gs2 = [group EXCEPT ![g].nodes = members, ![g].groups = {}]
    OBVIOUS
  <1>3. members \subseteq Nodes /\ group \in GroupTable /\ node \in NodeTable
    BY IInvParts DEF NodesHere
  <1>4. /\ gs2 \in GroupTable /\ gs2[g].nodes = members /\ gs2[g].groups = {}
        /\ \A h \in Groups \ {g} : gs2[h] = group[h]
    <2>1. group[g] \in GroupRow
      BY <1>3 DEF GroupTable
    <2>2. PICK row : row = [group[g] EXCEPT !.nodes = members, !.groups = {}]
      OBVIOUS
    <2>3. row \in GroupRow /\ row.nodes = members /\ row.groups = {}
      BY <1>3, <2>1, <2>2 DEF GroupRow
    <2>4. gs2 = [group EXCEPT ![g] = row]
      BY <1>2, <1>3, <2>2 DEF GroupTable
    <2> QED  BY <1>3, <2>3, <2>4 DEF GroupTable
  <1>5. ChainGroupsValid(gs2, node)
    <2>1. [group EXCEPT ![g].nodes = members, ![g].groups = {} \ {g}] = gs2
      <3>1. {} \ {g} = {}
        OBVIOUS
      <3> QED  BY <1>2, <3>1
    <2> QED  BY <1>1, <2>1 DEF MembersValid
  <1>6. /\ cleared(members) \in NodeTable
        /\ \A n \in Nodes : /\ cleared(members)[n].kind = node[n].kind
                            /\ cleared(members)[n].groups = node[n].groups
                            /\ cleared(members)[n].primary \in {None, node[n].primary}
    BY <1>3 DEF NodeTable, NodeRow
  <1>7. PICK gs, ns : /\ node' = Adopted(ns, gs, g, members) /\ ns \in NodeTable
                      /\ \A n \in Nodes : /\ ns[n].kind = node[n].kind /\ ns[n].groups = node[n].groups
                                          /\ ns[n].primary \in {None, node[n].primary}
    <2> HIDE DEF cleared
    <2> QED  BY <1>1, <1>6
  <1>8. PICK ns2 : ns2 = node'
    OBVIOUS
  <1>9. /\ ns2 \in NodeTable
        /\ \A n \in Nodes : /\ ns2[n].kind = node[n].kind /\ ns2[n].groups = node[n].groups
                            /\ ns2[n].primary \in {None, node[n].primary} \/ (n \in members /\ ns2[n].primary = g)
    <2>1. ns2 = Adopted(ns, gs, g, members)
      BY <1>7, <1>8
    <2>2. ns2 \in NodeTable /\ \A n \in Nodes : ns2[n].kind = ns[n].kind /\ ns2[n].groups = ns[n].groups
      BY <1>7, <2>1, AdoptedRows
    <2>3. \A n \in Nodes : ns2[n].primary # ns[n].primary => n \in members /\ ns2[n].primary = g
      BY <1>7, <2>1, AdoptedPrimary
    <2> QED  BY <1>7, <2>2, <2>3
  <1>10. \A n \in Nodes, h \in Groups :
            (n \in gs2[h].nodes \/ ns2[n].primary = h) => (n \in gs2[h].nodes \/ node[n].primary = h)
    BY <1>4, <1>9, NoneAssumption
  <1>11. ChainGroupsValid(gs2, ns2)
    BY <1>4, <1>5, <1>9, <1>10, ValidWithFewer
  <1> QED  BY <1>1, <1>2, <1>4, <1>8, <1>11 DEF CInv, NoSelf

\* A group is deleted.
LEMMA GroupDeleteChains ==
    ASSUME IInv, CInv, NEW g \in Groups, GroupDelete(g)
    PROVE  CInv'
  <1>1. /\ group' = GroupsWithout(group, {g})
        /\ node' = [n \in Nodes |-> IF node[n].primary = g THEN [node[n] EXCEPT !.primary = None] ELSE node[n]]
    BY DEF GroupDelete
  <1>2. /\ group' \in GroupTable
        /\ \A h \in Groups : /\ group'[h].kind = IF h \in {g} THEN "none" ELSE group[h].kind
                             /\ group'[h].groups \subseteq group[h].groups \ {g} /\ group'[h].nodes \subseteq group[h].nodes
    BY <1>1, IInvParts, GroupTables
  <1>3. /\ node' \in NodeTable
        /\ \A n \in Nodes : /\ node'[n].kind = node[n].kind /\ node'[n].groups = node[n].groups
                            /\ node'[n].primary \in {None, node[n].primary}
    BY <1>1, IInvParts DEF NodeTable, NodeRow
  <1>4. \A c \in Chains(node') : c \in Chains(node) /\ node'[c].groups \subseteq node[c].groups
    BY <1>3 DEF Chains
  <1>5. \A c, d \in Chains(node') : \A h \in Closure(group, node[d].groups) :
           (c \in group'[h].nodes \/ node'[c].primary = h) => (c \in group[h].nodes \/ node[c].primary = h)
    BY <1>2, <1>3, NoneAssumption DEF Chains, Closure, GroupsHere
  <1> QED  BY <1>2, <1>3, <1>4, <1>5, CInvKept

\* Requests about mappings change no row a chain depends on.
LEMMA UnchangedChains == CInv /\ UNCHANGED <<node, group>> => CInv'
  BY DEF CInv, ChainGroupsValid, NoSelf, Chains, HasCycle, ContainsChain, Closure, GroupsHere

\* A subscription's root group is there, and if it is new no chain goes through it.
LEMMA SubscriptionUpsertChains ==
    ASSUME IInv, CInv, NEW s \in Subs, SubscriptionUpsert(s)
    PROVE  CInv'
  <1>1. PICK want \in Groups \cup {None} : \E root \in RootGroups(want) : group' = WithRoot(root)
    BY DEF SubscriptionUpsert
  <1>2. PICK root \in RootGroups(want) : group' = WithRoot(root)
    BY <1>1
  <1>3. UNCHANGED node
    BY DEF SubscriptionUpsert
  <1>4. CASE root \in GroupsHere(group)
    BY <1>2, <1>3, <1>4, UnchangedChains DEF WithRoot
  <1>5. CASE root \notin GroupsHere(group)
    <2>1. root \in NewGroups /\ root \in Groups
      BY <1>5 DEF RootGroups, NewGroups, GroupsHere
    <2>2. PICK U \in SUBSET NewGroups : U = {root}
      BY <2>1
    <2>3. group' = [group EXCEPT ![root] = [NoGroup EXCEPT !.kind = "manual"]]
      BY <1>2, <1>5 DEF WithRoot
    <2>4. /\ [NoGroup EXCEPT !.kind = "manual"] \in GroupRow
          /\ [NoGroup EXCEPT !.kind = "manual"].nodes = {} /\ [NoGroup EXCEPT !.kind = "manual"].groups = {}
      BY DEF NoGroup, GroupRow
    <2>5. /\ group' \in GroupTable
          /\ \A h \in Groups : /\ group'[h].groups \subseteq group[h].groups
                               /\ group'[h].nodes \subseteq group[h].nodes
                               /\ h # root => group'[h] = group[h]
      BY <2>1, <2>3, <2>4, IInvParts DEF GroupTable
    <2>6. GroupsHere(group') \subseteq GroupsHere(group) \cup U
      BY <2>2, <2>5 DEF GroupsHere
    <2>7. \A c, d \in Chains(node') : \A h \in Closure(group, node[d].groups) \ U :
             (c \in group'[h].nodes \/ node'[c].primary = h) => (c \in group[h].nodes \/ node[c].primary = h)
      BY <1>3, <2>5 DEF Closure, GroupsHere
    <2> QED  BY <1>3, <2>5, <2>6, <2>7, IInvParts, CInvShrinks
  <1> QED  BY <1>4, <1>5

\* A subscription is deleted.
LEMMA SubscriptionDeleteChains ==
    ASSUME IInv, CInv, NEW s \in Subs, SubscriptionDelete(s)
    PROVE  CInv'
  <1>1. PICK gone \in SUBSET Groups, goneNodes \in SUBSET Nodes :
           /\ group' = GroupsWithoutNodes(GroupsWithout(group, gone), goneNodes)
           /\ node' = [n \in Nodes |-> IF n \in goneNodes THEN NoNode ELSE node[n]]
    <2>1. SubGroups(group, s) \in SUBSET Groups /\ SubNodes(node, s) \in SUBSET Nodes
      BY DEF SubGroups, SubNodes, NodesHere
    <2> QED  BY <2>1 DEF SubscriptionDelete
  <1>2. PICK gs : gs = GroupsWithout(group, gone)
    OBVIOUS
  <1>3. /\ gs \in GroupTable
        /\ \A g \in Groups : /\ gs[g].kind = IF g \in gone THEN "none" ELSE group[g].kind
                             /\ gs[g].groups \subseteq group[g].groups \ gone /\ gs[g].nodes \subseteq group[g].nodes
    BY <1>2, IInvParts, GroupTables
  <1>4. /\ group' \in GroupTable
        /\ \A g \in Groups : /\ group'[g].kind = gs[g].kind /\ group'[g].groups = gs[g].groups
                             /\ group'[g].nodes = gs[g].nodes \ goneNodes
    BY <1>1, <1>2, <1>3, GroupTables
  <1>5. node' \in NodeTable
    BY <1>1, IInvParts, RowUpdate DEF NodeTable
  <1>6. \A c \in Chains(node') : c \in Chains(node) /\ node'[c] = node[c]
    BY <1>1 DEF Chains, NoNode
  <1>7. \A c, d \in Chains(node') : \A g \in Closure(group, node[d].groups) :
           (c \in group'[g].nodes \/ node'[c].primary = g) => (c \in group[g].nodes \/ node[c].primary = g)
    BY <1>3, <1>4, <1>6 DEF Closure, GroupsHere
  <1>8. \A h \in Groups : /\ group'[h].groups \subseteq group[h].groups
                          /\ group'[h].kind # "none" => group[h].kind # "none"
    BY <1>3, <1>4
  <1> QED  BY <1>4, <1>5, <1>6, <1>7, <1>8, CInvKept

\* A sync checks what it writes.
LEMMA SubscriptionSyncChains ==
    ASSUME IInv, CInv, NEW s \in Subs, NEW d \in Documents(s), SubscriptionSync(s, d)
    PROVE  CInv'
  <1>1. PICK root \in Groups, gone \in SUBSET Nodes, goneGroups \in SUBSET Groups : \E rows, left, shells, filled, kept :
           Synced(s, d, root, gone, goneGroups, rows, left, shells, filled, kept)
    BY SyncParts
  <1>2. PICK rows, left, shells, filled, kept : Synced(s, d, root, gone, goneGroups, rows, left, shells, filled, kept)
    BY <1>1
  <1>3. PICK D \in SUBSET Groups, R \in SUBSET Nodes : D = d.groups /\ R = d.rows
    BY DEF Documents, SubGroups, NewGroups, SubNodes, NodesHere, NewNodes
  <1>4. /\ MembersValid(kept, left, root, R, D) /\ root \notin D
        /\ group' = Rooted(kept, root, R, D) /\ node' = left
    BY <1>2, <1>3 DEF Synced
  <1>5. D \ {root} = D
    BY <1>4
  <1>6. ChainGroupsValid(group', node')
    BY <1>4, <1>5 DEF MembersValid, Rooted
  <1>7. NoSelf(group')
    <2>1. PICK base, moved : base = WithRoot(root) /\ moved = Moved(base, d, root, gone)
      OBVIOUS
    <2>2. /\ base \in GroupTable /\ \A g \in Groups : base[g].groups \subseteq group[g].groups
      BY <1>2, <2>1, IInvParts, RootRows DEF Synced
    <2>3. /\ moved \in GroupTable /\ \A g \in Groups : moved[g].groups = base[g].groups
      BY <2>1, <2>2, MovedRows
    <2>4. shells = Shelled(moved, D, s)
      BY <1>2, <1>3, <2>1 DEF Synced
    <2>5. /\ shells \in GroupTable /\ \A g \in Groups : shells[g].groups = moved[g].groups
      BY <2>3, <2>4, ShellRows
    <2>6. PICK member \in [D -> Small(R)], child \in Children(D) : filled = Filled(shells, member, child, D)
      BY <1>2, <1>3 DEF Synced
    <2>7. /\ member \in [D -> SUBSET Nodes] /\ child \in [D -> SUBSET Groups] /\ D \in SUBSET D
          /\ \A g \in D : g \notin child[g]
      BY DEF Children, Small
    <2>8. /\ filled \in GroupTable
          /\ \A g \in Groups : filled[g].groups = IF g \in D THEN child[g] ELSE shells[g].groups
      <3>1. /\ shells \in GroupTable /\ D \in SUBSET Groups /\ D \in SUBSET D
            /\ member \in [D -> SUBSET Nodes] /\ child \in [D -> SUBSET Groups]
        BY <2>5, <2>7
      <3>2. filled = Filled(shells, member, child, D)
        BY <2>6
      <3> QED  BY ONLY <3>1, <3>2, FilledRows
    <2>9. kept = GroupsWithout(filled, goneGroups)
      BY <1>2 DEF Synced
    <2>10. kept \in GroupTable /\ \A g \in Groups : kept[g].groups \subseteq filled[g].groups
      BY <2>8, <2>9, GroupTables
    <2>11. \A g \in Groups : group'[g].groups = IF g = root THEN D ELSE kept[g].groups
      BY <1>4, <2>10, RootWritten
    <2> QED  BY <1>4, <2>2, <2>3, <2>5, <2>7, <2>8, <2>10, <2>11 DEF CInv, NoSelf
  <1> QED  BY <1>6, <1>7 DEF CInv

\* The groups of a document, created where they are new: no chain goes through the
\* new ones yet.
LEMMA ShellsValid ==
    ASSUME IInv, CInv, NEW D \in SUBSET Groups, \A g \in D : g \in GroupsHere(group) \/ g \in NewGroups,
           NEW gs \in GroupTable,
           \A g \in Groups : /\ gs[g].kind = IF g \in D THEN "manual" ELSE group[g].kind
                             /\ gs[g].nodes = group[g].nodes /\ gs[g].groups = group[g].groups
    PROVE  ChainGroupsValid(gs, node)
  <1>1. group \in GroupTable /\ node \in NodeTable
    BY IInvParts
  <1>2. PICK U \in SUBSET Groups : U = D \ GroupsHere(group)
    OBVIOUS
  <1>3. /\ \A h \in Groups : group[h].groups \cap U = {}
        /\ \A n \in Nodes : node[n].groups \cap U = {}
    BY <1>2 DEF NewGroups
  <1>4. GroupsHere(gs) \subseteq GroupsHere(group) \cup U
    BY <1>2 DEF GroupsHere
  <1>5. PICK ns : ns = node
    OBVIOUS
  <1>6. /\ ns \in NodeTable
        /\ \A c \in Chains(ns) : c \in Chains(node) /\ ns[c].groups \subseteq node[c].groups \ U
    BY <1>1, <1>3, <1>5 DEF Chains
  <1>7. \A c, d \in Chains(ns) : \A g \in Closure(group, node[d].groups) \ U :
           (c \in gs[g].nodes \/ ns[c].primary = g) => (c \in group[g].nodes \/ node[c].primary = g)
    BY <1>5 DEF Closure, GroupsHere
  <1>8. \A h \in Groups : gs[h].groups \cap U = {} /\ (h \notin U => gs[h].groups \subseteq group[h].groups)
    BY <1>3
  <1>9. ChainGroupsValid(group, node)
    BY DEF CInv
  <1>10. U \in SUBSET Groups /\ gs \in GroupTable
    OBVIOUS
  <1>11. ChainGroupsValid(gs, ns)
    BY ONLY <1>1, <1>4, <1>6, <1>7, <1>8, <1>9, <1>10, ValidShrinks, SMTT(30)
  <1> QED  BY <1>5, <1>11

\* The check looks at the kinds, members and children of groups.
LEMMA SameRows ==
    ASSUME NEW gs \in GroupTable, NEW gs2 \in GroupTable, NEW ns,
           \A g \in Groups : gs2[g].kind = gs[g].kind /\ gs2[g].nodes = gs[g].nodes /\ gs2[g].groups = gs[g].groups,
           ChainGroupsValid(gs, ns)
    PROVE  ChainGroupsValid(gs2, ns)
  <1>1. PICK ns2 : ns2 = ns
    OBVIOUS
  <1>2. /\ \A g \in Groups : gs2[g].kind = gs[g].kind /\ gs2[g].groups = gs[g].groups
        /\ \A n \in Nodes : ns2[n].kind = ns[n].kind /\ ns2[n].groups = ns[n].groups
        /\ \A n \in Nodes, g \in Groups :
              (n \in gs2[g].nodes \/ ns2[n].primary = g) => (n \in gs[g].nodes \/ ns[n].primary = g)
    BY <1>1
  <1>3. ChainGroupsValid(gs2, ns2)
    BY <1>2, ValidWithFewer
  <1> QED  BY <1>1, <1>3

\* The check of the last group that is filled is one of the table that results.
LEMMA FillChecked ==
    ASSUME NEW gs \in GroupTable, NEW ns, NEW D \in SUBSET Groups, NEW member \in [D -> SUBSET Nodes],
           NEW child \in [D -> SUBSET Groups], NEW done \in SUBSET D, NEW g \in D, g \notin child[g],
           FillAccepted(gs, ns, member, child, done, g),
           NEW all \in SUBSET D, all = done \cup {g}, NEW new, new = Filled(gs, member, child, all)
    PROVE  ChainGroupsValid(new, ns)
  <1>1. PICK old : old = Filled(gs, member, child, done)
    OBVIOUS
  <1>2. /\ old \in GroupTable
        /\ \A h \in Groups : /\ old[h].kind = gs[h].kind
                             /\ old[h].nodes = IF h \in done THEN member[h] ELSE gs[h].nodes
                             /\ old[h].groups = IF h \in done THEN child[h] ELSE gs[h].groups
    BY <1>1, FilledRows
  <1>3. /\ new \in GroupTable
        /\ \A h \in Groups : /\ new[h].kind = gs[h].kind
                             /\ new[h].nodes = IF h \in all THEN member[h] ELSE gs[h].nodes
                             /\ new[h].groups = IF h \in all THEN child[h] ELSE gs[h].groups
    BY FilledRows
  <1>4. PICK N, G : N = member[g] /\ G = child[g]
    OBVIOUS
  <1>5. N \in SUBSET Nodes /\ G \in SUBSET Groups /\ G \ {g} = G
    BY <1>4
  <1>6. ChainGroupsValid([old EXCEPT ![g].nodes = N, ![g].groups = G], ns)
    BY <1>1, <1>4, <1>5 DEF FillAccepted, MembersValid
  <1>7. PICK gs2 : gs2 = Rooted(old, g, N, G)
    OBVIOUS
  <1>8. /\ gs2 \in GroupTable
        /\ \A h \in Groups : /\ gs2[h].kind = old[h].kind
                             /\ gs2[h].nodes = IF h = g THEN N ELSE old[h].nodes
                             /\ gs2[h].groups = IF h = g THEN G ELSE old[h].groups
    <2>1. gs2 \in GroupTable
      BY <1>2, <1>5, <1>7, RootWritten
    <2>2. \A h \in Groups : gs2[h].kind = old[h].kind
      BY <1>2, <1>5, <1>7, RootWritten
    <2>3. \A h \in Groups : gs2[h].nodes = IF h = g THEN N ELSE old[h].nodes
      BY <1>2, <1>5, <1>7, RootWritten
    <2>4. \A h \in Groups : gs2[h].groups = IF h = g THEN G ELSE old[h].groups
      BY <1>2, <1>5, <1>7, RootWritten
    <2> QED  BY <2>1, <2>2, <2>3, <2>4
  <1>9. ChainGroupsValid(gs2, ns)
    BY <1>6, <1>7 DEF Rooted
  <1>10. PICK ns2 : ns2 = ns
    OBVIOUS
  <1>11. \A h \in Groups : new[h].kind = gs2[h].kind /\ new[h].nodes = gs2[h].nodes /\ new[h].groups = gs2[h].groups
    <2>1. \A h \in Groups : new[h].kind = gs2[h].kind
      BY <1>2, <1>3, <1>8
    <2>2. \A h \in Groups : new[h].nodes = gs2[h].nodes
      BY <1>2, <1>3, <1>4, <1>8
    <2>3. \A h \in Groups : new[h].groups = gs2[h].groups
      BY <1>2, <1>3, <1>4, <1>8
    <2> QED  BY <2>1, <2>2, <2>3
  <1> QED  BY <1>3, <1>8, <1>9, <1>11, SameRows

\* What an import leaves, if the table before it joins the target is valid.
LEMMA AppendedValid ==
    ASSUME TypeOK, NEW gs \in GroupTable, NoSelf(gs), ChainGroupsValid(gs, node),
           NEW target \in Groups \cup {None}, NEW D \in SUBSET Groups, NEW P \in SUBSET Nodes,
           NEW new, new = Appended(gs, target, D, P)
    PROVE  ChainGroupsValid(new, node) /\ NoSelf(new)
  <1> DEFINE N == gs[target].nodes \cup P
             G == gs[target].groups \cup (D \ {target})
  <1>1. CASE target # None /\ MembersValid(gs, node, target, N, G)
    <2>1. target \in Groups
      BY <1>1
    <2>2. N \in SUBSET Nodes /\ G \in SUBSET Groups /\ G \ {target} = G /\ target \notin G
      BY <2>1, GroupFields DEF NoSelf
    <2>3. PICK M, H : M = N /\ H = G
      OBVIOUS
    <2>4. new = [gs EXCEPT ![target] = [gs[target] EXCEPT !.nodes = M, !.groups = H]]
      BY <1>1, <2>3 DEF Appended, GroupTable
    <2>5. ChainGroupsValid([gs EXCEPT ![target].nodes = M, ![target].groups = H], node)
      BY <1>1, <2>2, <2>3 DEF MembersValid
    <2> HIDE DEF N, G
    <2>6. new = Rooted(gs, target, M, H)
      BY <2>1, <2>4 DEF Rooted, GroupTable
    <2>7. ChainGroupsValid(new, node)
      BY <2>5, <2>6 DEF Rooted
    <2>8. \A g \in Groups : new[g].groups = IF g = target THEN H ELSE gs[g].groups
      BY <2>1, <2>2, <2>3, <2>6, RootWritten
    <2> QED  BY <2>2, <2>3, <2>7, <2>8 DEF NoSelf
  <1>2. CASE ~(target # None /\ MembersValid(gs, node, target, N, G))
    BY <1>2 DEF Appended
  <1> QED  BY <1>1, <1>2

\* The groups of a document are imported: the last one that was filled was checked
\* with all that were filled before.
LEMMA ImportGroupsChains ==
    ASSUME IInv, CInv, NEW target \in Groups \cup {None}, ImportGroups(target)
    PROVE  CInv'
  <1>1. UNCHANGED node
    BY DEF ImportGroups
  <1>2. PICK D \in SUBSET Groups, P \in SUBSET Nodes :
           /\ \A g \in D : g \in GroupsHere(group) \/ g \in NewGroups
           /\ group' \in Imported(target, D, P)
    <2> DEFINE groups == SUBSET {g \in Groups : group[g].kind = "manual" \/ g \in NewGroups} \ {{}}
               nodes == Small({n \in Nodes : /\ node[n].kind = "plain" /\ node[n].sub = None
                                             /\ node[n].primary = target
                                             /\ target = None \/ n \in group[target].nodes})
    <2>1. PICK d \in groups \X nodes : group' \in Imported(target, d[1], d[2])
      BY DEF ImportGroups
    <2>2. d[1] \in groups /\ d[2] \in nodes
      OBVIOUS
    <2>3. d[1] \in SUBSET Groups /\ \A g \in d[1] : g \in GroupsHere(group) \/ g \in NewGroups
      BY <2>2 DEF GroupsHere
    <2>4. d[2] \in SUBSET Nodes
      BY <2>2 DEF Small
    <2> QED  BY <2>1, <2>3, <2>4
  <1> DEFINE k == Cardinality(D)
             shells == ImportShells(D)
             filled(x) == Filled(shells, x.member, x.child, Prefix(x.order, x.end))
  <1>3. PICK x \in [member: [D -> SUBSET P], child: Children(D), order: Bijection(1..k, D), end: 0..k] :
           /\ \A i \in 1..x.end :
                 FillAccepted(shells, node, x.member, x.child, Prefix(x.order, i - 1), x.order[i])
           /\ group' = Appended(filled(x), target, D, P) \/ group' = filled(x)
    BY <1>2, ZenonT(60) DEF Imported
  <1>4. /\ shells \in GroupTable
        /\ \A g \in Groups : /\ shells[g].kind = IF g \in D THEN "manual" ELSE group[g].kind
                             /\ shells[g].nodes = group[g].nodes /\ shells[g].groups = group[g].groups
    BY IInvParts DEF ImportShells, GroupTable, GroupRow
  <1> k \in Nat
    BY GroupsFinite, FS_Subset, FS_CardinalityType
  <1> HIDE DEF shells, k
  <1>5. /\ x.member \in [D -> SUBSET Nodes] /\ x.child \in [D -> SUBSET Groups]
        /\ \A g \in D : g \notin x.child[g]
        /\ x.order \in [1..k -> D] /\ x.end \in 0..k
    BY DEF Children, Small, Bijection, Injection
  <1>6. PICK member, child, done, new :
           member = x.member /\ child = x.child /\ done = Prefix(x.order, x.end) /\ new = filled(x)
    OBVIOUS
  <1>7. done \in SUBSET D /\ new = Filled(shells, member, child, done)
    BY <1>5, <1>6 DEF Prefix
  <1>8. /\ member \in [D -> SUBSET Nodes] /\ child \in [D -> SUBSET Groups] /\ \A g \in D : g \notin child[g]
    BY <1>5, <1>6
  <1>9. /\ new \in GroupTable
        /\ \A g \in Groups : /\ new[g].kind = shells[g].kind
                             /\ new[g].nodes = IF g \in done THEN member[g] ELSE shells[g].nodes
                             /\ new[g].groups = IF g \in done THEN child[g] ELSE shells[g].groups
    <2>1. /\ shells \in GroupTable /\ D \in SUBSET Groups /\ done \in SUBSET D
          /\ member \in [D -> SUBSET Nodes] /\ child \in [D -> SUBSET Groups]
      BY <1>4, <1>7, <1>8
    <2>2. new = Filled(shells, member, child, done)
      BY <1>7
    <2>3. new \in GroupTable
      BY ONLY <2>1, <2>2, FilledRows
    <2>4. \A g \in Groups : new[g].kind = shells[g].kind
      BY ONLY <2>1, <2>2, FilledRows
    <2>5. \A g \in Groups : new[g].nodes = IF g \in done THEN member[g] ELSE shells[g].nodes
      BY ONLY <2>1, <2>2, FilledRows
    <2>6. \A g \in Groups : new[g].groups = IF g \in done THEN child[g] ELSE shells[g].groups
      BY ONLY <2>1, <2>2, FilledRows
    <2> QED  BY <2>3, <2>4, <2>5, <2>6
  <1>10. NoSelf(new)
    BY <1>4, <1>7, <1>8, <1>9 DEF NoSelf, CInv
  <1>11. ChainGroupsValid(new, node)
    <2>1. CASE x.end = 0
      <3>1. done = {}
        BY <1>5, <1>6, <2>1 DEF Prefix
      <3>2. \A g \in Groups : /\ new[g].kind = IF g \in D THEN "manual" ELSE group[g].kind
                              /\ new[g].nodes = group[g].nodes /\ new[g].groups = group[g].groups
        BY <1>4, <1>9, <3>1
      <3>3. D \in SUBSET Groups /\ \A g \in D : g \in GroupsHere(group) \/ g \in NewGroups
        BY <1>2
      <3>4. IInv /\ CInv
        OBVIOUS
      <3> QED  BY ONLY <1>9, <3>2, <3>3, <3>4, ShellsValid
    <2>2. CASE x.end # 0
      <3>1. x.end \in 1..k /\ x.end \in 1..x.end
        BY <1>5, <2>2
      <3>2. x.end - 1 \in Nat /\ \A i \in Nat : i <= x.end <=> i <= x.end - 1 \/ i = x.end
        BY <3>1
      <3>3. PICK g, before : g = x.order[x.end] /\ before = Prefix(x.order, x.end - 1)
        OBVIOUS
      <3>4. g \in D /\ before \in SUBSET D /\ done = before \cup {g}
        BY <1>5, <1>6, <3>1, <3>2, <3>3 DEF Prefix
      <3>5. FillAccepted(shells, node, member, child, before, g)
        BY <1>3, <1>6, <3>1, <3>3
      <3> QED  BY <1>4, <1>7, <1>8, <3>4, <3>5, FillChecked
    <2> QED  BY <2>1, <2>2
  <1>12. CASE group' = new
    BY <1>1, <1>10, <1>11, <1>12 DEF CInv
  <1>13. CASE group' = Appended(new, target, D, P)
    <2>1. PICK gs : gs = Appended(new, target, D, P)
      OBVIOUS
    <2>2. ChainGroupsValid(gs, node) /\ NoSelf(gs)
      BY <1>9, <1>10, <1>11, <2>1, AppendedValid DEF IInv
    <2> QED  BY <1>1, <1>13, <2>1, <2>2 DEF CInv
  <1> QED  BY <1>3, <1>6, <1>12, <1>13

\* No request leaves a chain that goes through a chain or around a cycle.
LEMMA ChainsStep ==
    ASSUME IInv, CInv, [Next]_vars
    PROVE  CInv'
  <1>1. CASE \E n \in Nodes : NodeCreate(n) \/ NodeUpdate(n) \/ NodeDelete(n)
    BY <1>1, NodeCreateChains, NodeUpdateChains, NodeDeleteChains
  <1>2. CASE \E g \in Groups : GroupCreate(g) \/ GroupUpdate(g) \/ GroupDelete(g)
    BY <1>2, GroupCreateChains, GroupUpdateChains, GroupDeleteChains
  <1>3. CASE \E target \in Groups \cup {None} : \E n \in Nodes : ImportNode(n, target)
    BY <1>3, ImportNodeChains
  <1>4. CASE \E target \in Groups \cup {None} : ImportGroups(target)
    BY <1>4, ImportGroupsChains
  <1>5. CASE \E m \in Mappings : MappingUpsert(m) \/ MappingSwitch(m) \/ MappingDelete(m)
    <2>1. UNCHANGED <<node, group>>
      BY <1>5 DEF MappingUpsert, MappingSwitch, MappingDelete
    <2> QED  BY <2>1, UnchangedChains
  <1>6. CASE \E s \in Subs : SubscriptionUpsert(s) \/ SubscriptionDelete(s)
    BY <1>6, SubscriptionUpsertChains, SubscriptionDeleteChains
  <1>7. CASE \E s \in Subs : \E d \in Documents(s) : SubscriptionSync(s, d)
    BY <1>7, SubscriptionSyncChains
  <1>8. CASE UNCHANGED vars
    BY <1>8, UnchangedChains DEF vars
  <1> QED  BY <1>1, <1>2, <1>3, <1>4, <1>5, <1>6, <1>7, <1>8 DEF Next

-----------------------------------------------------------------------------
(* The theorems *)

\* The invariant holds of the empty store and is kept by every request.
LEMMA Invariant == Spec => []IInv
  <1>1. Init => IInv
    <2> SUFFICES ASSUME Init
                 PROVE  IInv
      OBVIOUS
    <2>1. TypeOK
      BY RowUpdate DEF Init, TypeOK, NoNode
    <2>2. ActiveListed
      BY DEF Init, ActiveListed, NoMapping
    <2>3. RefsExist
      BY DEF Init, RefsExist, NoNode, NoGroup, NoMapping, NoSub
    <2> QED  BY <2>1, <2>2, <2>3 DEF IInv
  <1>2. IInv /\ [Next]_vars => IInv'
    <2> SUFFICES ASSUME IInv, [Next]_vars
                 PROVE  IInv'
      OBVIOUS
    <2>1. CASE \E n \in Nodes : NodeCreate(n) \/ NodeUpdate(n) \/ NodeDelete(n)
      BY <2>1, NodeCreateStep, NodeUpdateStep, NodeDeleteStep
    <2>2. CASE \E g \in Groups : GroupCreate(g) \/ GroupUpdate(g) \/ GroupDelete(g)
      BY <2>2, GroupCreateStep, GroupUpdateStep, GroupDeleteStep
    <2>3. CASE \E target \in Groups \cup {None} : \E n \in Nodes : ImportNode(n, target)
      BY <2>3, ImportNodeStep
    <2>4. CASE \E target \in Groups \cup {None} : ImportGroups(target)
      BY <2>4, ImportGroupsStep
    <2>5. CASE \E m \in Mappings : MappingUpsert(m) \/ MappingSwitch(m) \/ MappingDelete(m)
      BY <2>5, MappingUpsertStep, MappingSwitchStep, MappingDeleteStep
    <2>6. CASE \E s \in Subs : SubscriptionUpsert(s) \/ SubscriptionDelete(s)
      BY <2>6, SubscriptionUpsertStep, SubscriptionDeleteStep
    <2>7. CASE \E s \in Subs : \E d \in Documents(s) : SubscriptionSync(s, d)
      BY <2>7, SubscriptionSyncStep
    <2>8. CASE UNCHANGED vars
      BY <2>8 DEF vars, IInv, TypeOK, ActiveListed, RefsExist, NodesHere, GroupsHere
    <2> QED  BY <2>1, <2>2, <2>3, <2>4, <2>5, <2>6, <2>7, <2>8 DEF Next
  <1> QED  BY <1>1, <1>2, PTL DEF Spec

\* Every column always holds a value of its type, and only chains have members.
THEOREM TypeCorrect == Spec => []TypeOK
  BY Invariant, PTL DEF IInv

\* A mapping's active target is always one of the targets it lists, whatever
\* deletions, syncs and edits took from its lists.
THEOREM TargetsListed == Spec => []ActiveListed
  BY Invariant, PTL DEF IInv

\* No list of a mapping, a group or a chain, and no root of a subscription, ever
\* names a row that is gone.
THEOREM ReferencesExist == Spec => []RefsExist
  BY Invariant, PTL DEF IInv

\* In every state, the search of runtime_reconcile.go from a changed node or group
\* upwards finds every mapping whose plan goes through it from the top down.
THEOREM SearchFindsMappings == Spec => []AffectedListed
  <1>1. IInv => AffectedListed
    BY SearchIsComplete DEF IInv
  <1> QED  BY <1>1, Invariant, PTL

\* Whatever sequence of edits, imports, deletions and syncs is served, the groups a
\* chain goes through hold no chain, by list or by group_id, and no cycle.
THEOREM ChainsThroughSoundGroups == Spec => []ChainGroupsSound
  <1>1. Init => CInv
    <2> SUFFICES ASSUME Init
                 PROVE  CInv
      OBVIOUS
    <2>1. Chains(node) = {}
      BY DEF Init, Chains, NoNode
    <2>2. NoSelf(group)
      BY DEF Init, NoSelf, NoGroup
    <2> QED  BY <2>1, <2>2 DEF CInv, ChainGroupsValid
  <1>2. IInv /\ CInv /\ [Next]_vars => CInv'
    BY ChainsStep
  <1>3. IInv /\ CInv => ChainGroupsSound
    BY SoundIsValid DEF IInv, CInv
  <1> QED  BY <1>1, <1>2, <1>3, Invariant, PTL DEF Spec

-----------------------------------------------------------------------------
(* What an edit leaves of a mapping's choice                               *)

\* Row r of a mapping has become t when the nodes S and the groups T have gone.
Choice(r, t, S, T) ==
    /\ t.here = r.here /\ t.manual = r.manual
    /\ t.nodes = r.nodes \ S /\ t.groups = r.groups \ T
    /\ IF r.activeNode \in S THEN t.activeNode \in First(t.nodes) ELSE t.activeNode = r.activeNode
    /\ IF r.activeGroup \in T THEN t.activeGroup \in First(t.groups) ELSE t.activeGroup = r.activeGroup

LEMMA ChoiceOfNodes ==
    ASSUME NEW ms \in MappingTable, NEW S \in SUBSET Nodes, NEW pick \in PickNode(ms, S), NEW m \in Mappings,
           ActiveOK(ms[m]), NEW r, r = MappingsWithoutNodes(ms, S, pick)[m]
    PROVE  Choice(ms[m], r, S, {})
  <1>1. /\ r.nodes = ms[m].nodes \ S /\ r.groups = ms[m].groups /\ r.manual = ms[m].manual
        /\ r.activeGroup = ms[m].activeGroup
        /\ r.activeNode = IF ~ms[m].manual THEN None
                          ELSE IF ms[m].activeNode \in S THEN pick[m] ELSE ms[m].activeNode
    BY CleanedOfNodes
  <1>2. pick[m] \in First(ms[m].nodes \ S)
    BY DEF PickNode
  <1>3. r.here = ms[m].here
    BY DEF MappingsWithoutNodes, MappingTable, MappingRow
  <1>4. ~ms[m].manual => ms[m].activeNode = None /\ None \notin S
    BY NoneAssumption DEF ActiveOK
  <1> QED  BY <1>1, <1>2, <1>3, <1>4 DEF Choice

LEMMA ChoiceOfGroups ==
    ASSUME NEW ms \in MappingTable, NEW T \in SUBSET Groups, NEW pick \in PickGroup(ms, T), NEW m \in Mappings,
           ActiveOK(ms[m]), NEW r, r = MappingsWithoutGroups(ms, T, pick)[m]
    PROVE  Choice(ms[m], r, {}, T)
  <1>1. /\ r.groups = ms[m].groups \ T /\ r.nodes = ms[m].nodes /\ r.manual = ms[m].manual
        /\ r.activeNode = ms[m].activeNode
        /\ r.activeGroup = IF ~ms[m].manual THEN None
                           ELSE IF ms[m].activeGroup \in T THEN pick[m] ELSE ms[m].activeGroup
    BY CleanedOfGroups
  <1>2. pick[m] \in First(ms[m].groups \ T)
    BY DEF PickGroup
  <1>3. r.here = ms[m].here
    BY DEF MappingsWithoutGroups, MappingTable, MappingRow
  <1>4. ~ms[m].manual => ms[m].activeGroup = None /\ None \notin T
    BY NoneAssumption DEF ActiveOK
  <1> QED  BY <1>1, <1>2, <1>3, <1>4 DEF Choice

\* Nodes first, then groups, and the other way round.
LEMMA ChoiceOfBoth ==
    ASSUME NEW r, NEW q, NEW t, NEW S, NEW T,
           \/ Choice(r, q, S, {}) /\ Choice(q, t, {}, T)
           \/ Choice(r, q, {}, T) /\ Choice(q, t, S, {})
    PROVE  Choice(r, t, S, T)
  <1>1. t.here = r.here /\ t.manual = r.manual /\ t.nodes = r.nodes \ S /\ t.groups = r.groups \ T
    BY DEF Choice
  <1>2. IF r.activeNode \in S THEN t.activeNode \in First(t.nodes) ELSE t.activeNode = r.activeNode
    BY DEF Choice
  <1>3. IF r.activeGroup \in T THEN t.activeGroup \in First(t.groups) ELSE t.activeGroup = r.activeGroup
    BY DEF Choice
  <1> QED  BY <1>1, <1>2, <1>3 DEF Choice

\* When what has gone is not there any more, and the lists name what is there, the
\* choice is kept.
LEMMA KeptIfGone ==
    ASSUME IInv, IInv', NEW S, NEW T, NEW m \in Mappings, Choice(mapping[m], mapping'[m], S, T),
           S \subseteq Nodes, T \subseteq Groups,
           S \cap NodesHere(node') = {}, T \cap GroupsHere(group') = {}
    PROVE  ChoiceKept(m)
  <1> DEFINE r == mapping[m]
             t == mapping'[m]
  <1>1. /\ r.activeNode \in r.nodes \cup {None} /\ r.activeGroup \in r.groups \cup {None}
        /\ None \notin S /\ None \notin T
    BY NoneAssumption DEF IInv, ActiveListed
  <1>2. t.nodes \subseteq NodesHere(node') /\ t.groups \subseteq GroupsHere(group')
    BY DEF IInv, RefsExist
  <1>3. r.nodes \subseteq Nodes /\ r.groups \subseteq Groups
    BY DEF IInv, TypeOK, MappingRow
  <1> HIDE DEF r, t
  <1>4. Choice(r, t, S, T)
    BY DEF r, t
  <1>5. t.here = r.here /\ t.manual = r.manual
    BY <1>4 DEF Choice
  <1>6. t.nodes = r.nodes \cap NodesHere(node')
    BY <1>2, <1>4 DEF Choice
  <1>7. t.groups = r.groups \cap GroupsHere(group')
    BY <1>2, <1>4 DEF Choice
  <1>8. IF r.activeNode \in t.nodes \cup {None} THEN t.activeNode = r.activeNode
        ELSE t.activeNode \in First(t.nodes)
    BY <1>1, <1>4 DEF Choice
  <1>9. IF r.activeGroup \in t.groups \cup {None} THEN t.activeGroup = r.activeGroup
        ELSE t.activeGroup \in First(t.groups)
    BY <1>1, <1>4 DEF Choice
  <1> QED  BY <1>5, <1>6, <1>7, <1>8, <1>9 DEF ChoiceKept, r, t

LEMMA NodeDeleteKeeps ==
    ASSUME IInv, IInv', NEW n \in Nodes, NodeDelete(n), NEW m \in Mappings
    PROVE  ChoiceKept(m)
  <1>1. PICK S \in SUBSET Nodes : S = {n}
    OBVIOUS
  <1>2. PICK pick \in PickNode(mapping, S) : mapping' = MappingsWithoutNodes(mapping, S, pick)
    BY <1>1 DEF NodeDelete
  <1>3. Choice(mapping[m], mapping'[m], S, {})
    <2>1. PICK r : r = MappingsWithoutNodes(mapping, S, pick)[m]
      OBVIOUS
    <2>2. mapping \in MappingTable /\ ActiveOK(mapping[m])
      BY IInvParts
    <2>3. Choice(mapping[m], r, S, {})
      BY <2>1, <2>2, ChoiceOfNodes
    <2> QED  BY <1>2, <2>1, <2>3
  <1>4. S \cap NodesHere(node') = {}
    BY <1>1, IInvParts DEF NodeDelete, NodesHere, NodeTable, NoNode
  <1> QED  BY <1>3, <1>4, KeptIfGone

LEMMA GroupDeleteKeeps ==
    ASSUME IInv, IInv', NEW g \in Groups, GroupDelete(g), NEW m \in Mappings
    PROVE  ChoiceKept(m)
  <1>1. PICK T \in SUBSET Groups : T = {g}
    OBVIOUS
  <1>2. PICK pick \in PickGroup(mapping, T) : mapping' = MappingsWithoutGroups(mapping, T, pick)
    BY <1>1 DEF GroupDelete
  <1>3. Choice(mapping[m], mapping'[m], {}, T)
    <2>1. PICK r : r = MappingsWithoutGroups(mapping, T, pick)[m]
      OBVIOUS
    <2>2. mapping \in MappingTable /\ ActiveOK(mapping[m])
      BY IInvParts
    <2>3. Choice(mapping[m], r, {}, T)
      BY <2>1, <2>2, ChoiceOfGroups
    <2> QED  BY <1>2, <2>1, <2>3
  <1>4. T \cap GroupsHere(group') = {}
    BY <1>1 DEF GroupDelete, GroupsWithout, GroupsHere, NoGroup
  <1> QED  BY <1>3, <1>4, KeptIfGone

LEMMA SubscriptionDeleteKeeps ==
    ASSUME IInv, IInv', NEW s \in Subs, SubscriptionDelete(s), NEW m \in Mappings
    PROVE  ChoiceKept(m)
  <1>1. PICK T \in SUBSET Groups, S \in SUBSET Nodes : T = SubGroups(group, s) /\ S = SubNodes(node, s)
    BY DEF SubGroups, SubNodes, NodesHere
  <1>2. PICK pickG \in PickGroup(mapping, T), pickN \in PickNode(mapping, S) :
           mapping' = MappingsWithoutNodes(MappingsWithoutGroups(mapping, T, pickG), S, pickN)
    BY <1>1 DEF SubscriptionDelete
  <1>3. mapping \in MappingTable /\ \A k \in Mappings : ActiveOK(mapping[k])
    BY IInvParts
  <1>4. PICK ms : ms = MappingsWithoutGroups(mapping, T, pickG)
    OBVIOUS
  <1>5. /\ ms \in MappingTable /\ ActiveOK(ms[m])
        /\ \A k \in Mappings : ms[k].nodes = mapping[k].nodes
    BY <1>3, <1>4, RegroupedMappings
  <1>6. pickN \in PickNode(ms, S)
    BY <1>5 DEF PickNode
  <1>7. Choice(mapping[m], ms[m], {}, T)
    BY <1>3, <1>4, ChoiceOfGroups
  <1>8. Choice(ms[m], mapping'[m], S, {})
    <2>1. PICK r : r = MappingsWithoutNodes(ms, S, pickN)[m]
      OBVIOUS
    <2>2. Choice(ms[m], r, S, {})
      BY <1>5, <1>6, <2>1, ChoiceOfNodes
    <2> QED  BY <1>2, <1>4, <2>1, <2>2
  <1>9. Choice(mapping[m], mapping'[m], S, T)
    BY <1>7, <1>8, ChoiceOfBoth
  <1>10. S \cap NodesHere(node') = {}
    BY <1>1 DEF SubscriptionDelete, NodesHere, NoNode
  <1>11. T \cap GroupsHere(group') = {}
    BY <1>1 DEF SubscriptionDelete, GroupsWithoutNodes, GroupsWithout, GroupsHere, NoGroup
  <1> QED  BY <1>9, <1>10, <1>11, KeptIfGone

LEMMA SubscriptionSyncKeeps ==
    ASSUME IInv, IInv', NEW s \in Subs, NEW d \in Documents(s), SubscriptionSync(s, d), NEW m \in Mappings
    PROVE  ChoiceKept(m)
  <1>1. PICK root \in Groups, S \in SUBSET Nodes, T \in SUBSET Groups : \E rows, left, shells, filled, kept :
           Synced(s, d, root, S, T, rows, left, shells, filled, kept)
    BY SyncParts
  <1>2. PICK rows, left, shells, filled, kept : Synced(s, d, root, S, T, rows, left, shells, filled, kept)
    BY <1>1
  <1>3. PICK pickN \in PickNode(mapping, S), pickG \in PickGroup(mapping, T) :
           mapping' = MappingsWithoutGroups(MappingsWithoutNodes(mapping, S, pickN), T, pickG)
    BY <1>2 DEF Synced
  <1>4. mapping \in MappingTable /\ \A k \in Mappings : ActiveOK(mapping[k])
    BY IInvParts
  <1>5. PICK ms : ms = MappingsWithoutNodes(mapping, S, pickN)
    OBVIOUS
  <1>6. /\ ms \in MappingTable /\ ActiveOK(ms[m])
        /\ \A k \in Mappings : ms[k].groups = mapping[k].groups
    BY <1>4, <1>5, CleanedMappings
  <1>7. pickG \in PickGroup(ms, T)
    BY <1>6 DEF PickGroup
  <1>8. Choice(mapping[m], ms[m], S, {})
    BY <1>4, <1>5, ChoiceOfNodes
  <1>9. Choice(ms[m], mapping'[m], {}, T)
    <2>1. PICK r : r = MappingsWithoutGroups(ms, T, pickG)[m]
      OBVIOUS
    <2>2. Choice(ms[m], r, {}, T)
      BY <1>6, <1>7, <2>1, ChoiceOfGroups
    <2> QED  BY <1>3, <1>5, <2>1, <2>2
  <1>10. Choice(mapping[m], mapping'[m], S, T)
    BY <1>8, <1>9, ChoiceOfBoth
  <1>11. S \cap NodesHere(node') = {}
    BY <1>2 DEF Synced, NodesHere, NoNode
  <1>12. T \cap GroupsHere(group') = {}
    <2>1. \A g \in T : kept[g] = NoGroup
      BY <1>2 DEF Synced, GroupsWithout
    <2>2. group' = Rooted(kept, root, d.rows, d.groups)
      BY <1>2 DEF Synced
    <2>3. DOMAIN kept = Groups
      BY <1>2 DEF Synced, GroupsWithout
    <2>4. ASSUME NEW g \in T PROVE group'[g].kind = "none"
      <3>1. CASE g # root
        BY <2>1, <2>2, <2>3, <3>1 DEF Rooted, NoGroup
      <3>2. CASE g = root
        <4>1. PICK row : row = kept[g] /\ row.kind = "none"
          BY <2>1 DEF NoGroup
        <4>2. group'[g] = [row EXCEPT !.nodes = d.rows, !.groups = d.groups]
          BY <2>2, <2>3, <3>2, <4>1 DEF Rooted
        <4> QED  BY <4>1, <4>2
      <3> QED  BY <3>1, <3>2
    <2> QED  BY <2>4 DEF GroupsHere
  <1> QED  BY <1>10, <1>11, <1>12, KeptIfGone

\* A mapping keeps the target it was switched to through every edit of nodes, groups
\* and subscriptions that leaves that target there, and loses no other target either.
THEOREM ChoiceSurvivesEdits == Spec => EditsKeepChoice
  <1>1. ASSUME IInv, IInv', [Next]_vars, <<node, group, sub>>' # <<node, group, sub>>, NEW m \in Mappings
        PROVE  ChoiceKept(m)
    <2>1. CASE mapping' = mapping
      <3>1. Choice(mapping[m], mapping'[m], {}, {})
        BY <2>1 DEF Choice
      <3> QED  BY <1>1, <3>1, KeptIfGone
    <2>2. CASE mapping' # mapping
      <3>1. \A n \in Nodes : ~NodeCreate(n) /\ ~NodeUpdate(n)
        BY <2>2 DEF NodeCreate, NodeUpdate
      <3>2. \A g \in Groups : ~GroupCreate(g) /\ ~GroupUpdate(g)
        BY <2>2 DEF GroupCreate, GroupUpdate
      <3>3. \A target \in Groups \cup {None} : ~ImportGroups(target) /\ \A n \in Nodes : ~ImportNode(n, target)
        BY <2>2 DEF ImportGroups, ImportNode
      <3>4. \A k \in Mappings : ~MappingUpsert(k) /\ ~MappingSwitch(k) /\ ~MappingDelete(k)
        BY <1>1 DEF MappingUpsert, MappingSwitch, MappingDelete
      <3>5. \A s \in Subs : ~SubscriptionUpsert(s)
        BY <2>2 DEF SubscriptionUpsert
      <3>6. ~(UNCHANGED vars)
        BY <2>2 DEF vars
      <3>7. \/ \E n \in Nodes : NodeDelete(n)
            \/ \E g \in Groups : GroupDelete(g)
            \/ \E s \in Subs : SubscriptionDelete(s)
            \/ \E s \in Subs : \E d \in Documents(s) : SubscriptionSync(s, d)
        BY <1>1, <3>1, <3>2, <3>3, <3>4, <3>5, <3>6 DEF Next
      <3> QED  BY <1>1, <3>7, NodeDeleteKeeps, GroupDeleteKeeps, SubscriptionDeleteKeeps, SubscriptionSyncKeeps
    <2> QED  BY <2>1, <2>2
  <1>2. IInv /\ IInv' /\ [Next]_vars =>
           [<<node, group, sub>>' # <<node, group, sub>> => \A m \in Mappings : ChoiceKept(m)]_vars
    BY <1>1
  <1> QED  BY <1>2, Invariant, PTL DEF Spec, EditsKeepChoice
=============================================================================
