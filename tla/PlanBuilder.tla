---------------------------- MODULE PlanBuilder ----------------------------
(***************************************************************************)
(* How the service turns the rows of the database into the plan of one     *)
(* mapping: the outbounds of nodes and chains, and the dynamic groups with *)
(* their members (runtime_plan.go, runtime_chain.go).                      *)
(*                                                                         *)
(* A tag is a tuple that names the kind of outbound and what it is for.    *)
(* The options of an outbound are reduced to the node and version they     *)
(* were made from, the tag they dial through (detour) or the tags they     *)
(* choose from (selector).  Every step of the builder takes and returns    *)
(* the whole builder; once it has failed, the rest is not looked at.       *)
(***************************************************************************)
EXTENDS Naturals, FiniteSets, SequencesExt, TLC

CONSTANTS
    IdOrder,  \* the identifiers of nodes and groups in the order of their text
    None

NodeTag(n)            == <<"node", n>>
HopTag(c, i, n)       == <<"hop", c, i, n>>
HopGroupTag(c, i, g)  == <<"hopgroup", c, i, g>>
HopNodeTag(c, i, j, n) == <<"hopnode", c, i, j, n>>
FinalTag(c, i, j, n)  == <<"final", c, i, j, n>>
GroupTag(g)           == <<"group", g>>
OverrideTag(g)        == <<"override", g>>
MappingTag            == <<"mapping">>
Direct                == <<"direct">>
Block                 == <<"block">>

Selector(tags) == [kind |-> "selector", tags |-> tags]
Dynamic        == [kind |-> "dynamic"]

Member(id, tag, opt, deps) ==
    [id |-> id, tag |-> tag, opt |-> opt, deps |-> deps, builtin |-> FALSE]
BuiltinMember(tag) == [Member(tag, tag, [kind |-> "builtin"], <<>>) EXCEPT !.builtin = TRUE]

Without(f, x) == [y \in DOMAIN f \ {x} |-> f[y]]

-----------------------------------------------------------------------------
\* The outbounds of one node.  A chain is built hop by hop in a record s: have and
\* owner are outboundTags and outboundNodes, made the outbounds built so far, tag
\* and opt the latest result (opt is None if the outbound was there before, or is a
\* selector), err a failure, which fails the node.

\* buildNodeOutbound: "broken" stands for rows it cannot translate, "refused" for
\* options that sing-box does not accept.  A chain cannot be a hop.
Buildable(node) == node.kind \in {"plain", "refused"}
Proxy(node, n, detour) ==
    [kind |-> "proxy", node |-> n, ver |-> node.ver, refused |-> node.kind = "refused",
     detour |-> detour]

Made(s, tag, opt) ==
    [s EXCEPT !.have = @ \cup {tag}, !.made = Append(@, [tag |-> tag, opt |-> opt]),
              !.tag = tag, !.opt = opt]

Hop(rows, s, tag, n, detour) ==
    IF s.err \/ ~Buildable(rows.node[n]) THEN [s EXCEPT !.err = TRUE]
    ELSE IF tag \in s.have THEN [s EXCEPT !.tag = tag, !.opt = None]
    ELSE [Made(s, tag, Proxy(rows.node[n], n, detour)) EXCEPT !.owner = (tag :> n) @@ @]

\* buildProxyGroupOutbound, and a group that was built before.
GroupHop(s, tag, all) ==
    LET tags == IF all.tags = <<>> THEN <<Block>> ELSE all.tags
    IN  IF all.s.err THEN [s EXCEPT !.err = TRUE]
        ELSE [Made(all.s, tag, Selector(tags)) EXCEPT !.opt = None]
Again(s, tag) == [s EXCEPT !.tag = tag, !.opt = None]

\* A group in a chain, after the hop with tag detour: its nodes and its child groups.
RECURSIVE ChainGroup(_, _, _, _, _, _, _)
ChainGroup(rows, s, c, i, g, detour, above) ==
    LET row == rows.group[g]
        OfNode(a, j) ==
            LET t == Hop(rows, a.s, HopNodeTag(c, i, j, row.nodes[j]), row.nodes[j], detour)
            IN  [s |-> t, tags |-> Append(a.tags, t.tag)]
        OfGroup(a, k) ==
            LET t == ChainGroup(rows, a.s, c, i, row.groups[k], detour, above \cup {g})
            IN  [s |-> t, tags |-> Append(a.tags, t.tag)]
        nodes == FoldLeftDomain(OfNode, [s |-> s, tags |-> row.builtins], row.nodes)
    IN  IF s.err \/ g \in above THEN [s EXCEPT !.err = TRUE]
        ELSE IF HopGroupTag(c, i, g) \in s.have THEN Again(s, HopGroupTag(c, i, g))
        ELSE GroupHop(s, HopGroupTag(c, i, g), FoldLeftDomain(OfGroup, nodes, row.groups))

\* A group and a node at the end of a chain: the last node is built once for each node
\* of the group, so that each choice has its own way through.
EndsInGroup(rows, hops, i) ==
    /\ i = Len(hops) - 1 /\ hops[i].group /\ ~hops[i + 1].group
    /\ LET row == rows.group[hops[i].id]
       IN  row.groups = <<>> /\ row.builtins = <<>> /\ row.nodes # <<>>

TerminalGroup(rows, s, c, i, g, n, detour) ==
    LET row == rows.group[g]
        Pair(a, j) ==
            LET first == Hop(rows, a.s, HopNodeTag(c, i, j, row.nodes[j]), row.nodes[j], detour)
                last  == Hop(rows, first, FinalTag(c, i, j, n), n, first.tag)
            IN  [s |-> last, tags |-> Append(a.tags, last.tag)]
    IN  IF HopGroupTag(c, i, g) \in s.have THEN Again(s, HopGroupTag(c, i, g))
        ELSE GroupHop(s, HopGroupTag(c, i, g),
                      FoldLeftDomain(Pair, [s |-> s, tags |-> <<>>], row.nodes))

\* buildChainRuntimeOutbounds: each hop dials through the one before.
Chain(rows, s0, c) ==
    LET hops == rows.node[c].chain
        Step(a, i) ==
            IF a.ended THEN a
            ELSE IF EndsInGroup(rows, hops, i)
            THEN [s |-> TerminalGroup(rows, a.s, c, i, hops[i].id, hops[i + 1].id, a.s.tag),
                  ended |-> TRUE]
            ELSE IF hops[i].group
            THEN [a EXCEPT !.s = ChainGroup(rows, @, c, i, hops[i].id, @.tag, {})]
            ELSE [a EXCEPT !.s = Hop(rows, @, HopTag(c, i, hops[i].id), hops[i].id, @.tag)]
    IN  IF Len(hops) < 2 THEN [s0 EXCEPT !.err = TRUE]
        ELSE FoldLeftDomain(Step, [s |-> s0, ended |-> FALSE], hops).s

\* A chain is dialled under the tag of its node: a copy of its last hop, or a selector
\* of the group it ends with.
Alias(s) == IF s.opt = None THEN Selector(<<s.tag>>) ELSE s.opt

NodeOutbounds(rows, have, owner, n) ==
    LET s0 == [have |-> have, owner |-> owner, made |-> <<>>, err |-> FALSE,
               tag |-> None, opt |-> None]
        s  == Chain(rows, s0, n)
    IN  IF rows.node[n].kind # "chain" THEN Hop(rows, s0, NodeTag(n), n, None)
        ELSE IF s.err THEN s
        ELSE IF NodeTag(n) \in s.have THEN Again(s, NodeTag(n))
        ELSE [Made(s, NodeTag(n), Alias(s)) EXCEPT !.owner = (NodeTag(n) :> n) @@ @]

-----------------------------------------------------------------------------
\* The builder: out and owner are outbounds and outboundNodes, groups is groupPlans,
\* black and excluded the nodes not to be used, err "" or what failed.

Builder(rows, m, black, excluded) ==
    [rows |-> rows, mapping |-> m, black |-> black \cup excluded, excluded |-> excluded,
     out |-> <<>>, owner |-> <<>>, groups |-> <<>>, err |-> [what |-> ""]]

Failed(b) == b.err.what # ""

\* collectOutboundDependencies: what a selector chooses from, but not what a proxy
\* dials through.
RECURSIVE Dependencies(_, _)
Dependencies(out, t) ==
    IF t \notin DOMAIN out THEN <<>>
    ELSE Append(IF out[t].kind = "selector"
                THEN FoldLeft(LAMBDA a, u : a \o Dependencies(out, u), <<>>, out[t].tags)
                ELSE <<>>,
                [tag |-> t, opt |-> out[t]])

\* staticSelectorDynamicMembers: the members of a dynamic group in place of a selector.
\* A final hop goes under the identifier of the group's node it follows.
ChainMember(b, t) ==
    LET id == IF t[1] = "final"
              THEN b.rows.group[b.rows.node[t[2]].chain[t[3]].id].nodes[t[4]]
              ELSE IF t \in DOMAIN b.owner THEN b.owner[t] ELSE t
    IN  IF t \in {Direct, Block} THEN BuiltinMember(t)
        ELSE Member(id, t, IF t \in DOMAIN b.out THEN b.out[t] ELSE Dynamic,
                    Dependencies(b.out, t))

\* The first member is selected: selectedDynamicMemberID (the selectors' default is their
\* first tag), memberForGroupWithPolicy.
Grouped(tag, members) == [tag |-> tag, members |-> members, selected |-> members[1].id]

\* cacheDynamicChainGroup: the selectors of a chain's groups become dynamic groups, the
\* first time they are built.  A second list that has the chain builds them again, and
\* then they stay.
RECURSIVE CacheGroup(_, _, _, _, _)
CacheGroup(b, c, i, g, above) ==
    LET tag  == HopGroupTag(c, i, g)
        tags == b.out[tag].tags
        plan == Grouped(tag, [k \in DOMAIN tags |-> ChainMember(b, tags[k])])
        here == IF tag \in DOMAIN b.groups THEN b
                ELSE [b EXCEPT !.groups = (tag :> plan) @@ @, !.out = Without(@, tag)]
    IN  IF g \in above THEN b
        ELSE FoldLeft(LAMBDA a, h : CacheGroup(a, c, i, h, above \cup {g}), here,
                      b.rows.group[g].groups)

CacheGroups(b, n) ==
    LET row == b.rows.node[n]
    IN  IF row.kind # "chain" THEN b
        ELSE FoldLeftDomain(LAMBDA a, i : IF row.chain[i].group
                                          THEN CacheGroup(a, n, i, row.chain[i].id, {}) ELSE a,
                            b, row.chain)

Skipped(b, n, ignore) == n \in b.excluded \/ (n \in b.black /\ ~ignore)

Outbounds(made) == FoldLeft(LAMBDA f, o : (o.tag :> o.opt) @@ f, <<>>, made)

\* memberForNode and its caller: b with the outbounds of n, and n among the members.
AddNode(a, n, ignore) ==
    LET s == NodeOutbounds(a.b.rows, DOMAIN a.b.out \cup {Direct, Block}, a.b.owner, n)
        b == CacheGroups([a.b EXCEPT !.out = Outbounds(s.made) @@ @, !.owner = s.owner], n)
    IN  IF Failed(a.b) \/ Skipped(a.b, n, ignore) THEN a
        ELSE IF s.err THEN [a EXCEPT !.b.err = [what |-> "node", node |-> n]]
        ELSE [b |-> b, members |-> Append(a.members, Member(n, s.tag, b.out[s.tag], s.made))]

AddNodes(b, ns, ignore) ==
    FoldLeft(LAMBDA a, n : AddNode(a, n, ignore), [b |-> b, members |-> <<>>], ns)

\* reviveIfAllCandidatesBlacklisted.  Lists are no longer than DefaultBlacklistRevivalLimit
\* here, so all of them are revived; which ones otherwise, NodeHealth says.
Revived(b, ns) ==
    IF ns # <<>> /\ ToSet(ns) \subseteq b.black \ b.excluded
    THEN [b EXCEPT !.black = @ \ ToSet(ns)] ELSE b

AddNodesOrRevive(b, ns) ==
    LET a == AddNodes(b, ns, FALSE)
    IN  IF a.members = <<>> /\ ~Failed(a.b) THEN AddNodes(Revived(a.b, ns), ns, FALSE) ELSE a

OrBlock(members) == IF members = <<>> THEN <<BuiltinMember(Block)>> ELSE members

\* memberForGroupWithPolicy.  The policy itself does not change the membership.
RECURSIVE AddGroup(_, _, _, _)
AddGroup(a, g, tag, above) ==
    LET row   == a.b.rows.group[g]
        nodes == AddNodesOrRevive(a.b, row.nodes)
        start == [nodes EXCEPT !.members = [k \in DOMAIN row.builtins |-> BuiltinMember(row.builtins[k])] \o @]
        all   == FoldLeft(LAMBDA x, h : AddGroup(x, h, GroupTag(h), above \cup {g}), start, row.groups)
        done  == [all.b EXCEPT !.groups = (tag :> Grouped(tag, OrBlock(all.members))) @@ @]
        b     == IF tag \in DOMAIN a.b.groups THEN a.b ELSE done
    IN  IF Failed(a.b) THEN a
        ELSE IF tag \notin DOMAIN a.b.groups /\ g \in above
        THEN [a EXCEPT !.b.err = [what |-> "cycle"]]
        ELSE IF tag \notin DOMAIN a.b.groups /\ Failed(all.b) THEN [a EXCEPT !.b = all.b]
        ELSE [b |-> b, members |-> Append(a.members, Member(g, tag, Dynamic, <<>>))]

AddMappingGroup(a, g) ==
    AddGroup(a, g, IF g \in a.b.mapping.overrides THEN OverrideTag(g) ELSE GroupTag(g), {})

\* selectedMappingMember: a manual mapping whose target cannot be built serves nothing.
Forced(m, members) ==
    LET forced == IF m.active # None /\ \A k \in DOMAIN members : members[k].id # m.active
                  THEN <<BuiltinMember(Block)>> ELSE members
    IN  [tag |-> MappingTag, members |-> forced,
         selected |-> IF \E k \in DOMAIN forced : forced[k].id = m.active THEN m.active
                      ELSE forced[1].id]

-----------------------------------------------------------------------------
\* sortedGroupPlans: in the order of the tags' text.
Kinds == <<"group", "override", "mapping", "hopgroup">>
Rank(t) == CHOOSE k \in DOMAIN Kinds : Kinds[k] = t[1]
Position(x) == CHOOSE k \in DOMAIN IdOrder : IdOrder[k] = x
Before(t, u) ==
    \/ Rank(t) < Rank(u)
    \/ /\ Rank(t) = Rank(u) /\ t # u
       /\ \/ Position(t[2]) < Position(u[2])
          \/ t[2] = u[2] /\ (t[3] < u[3] \/ (t[3] = u[3] /\ Position(t[4]) < Position(u[4])))
InOrder(tags) ==
    [k \in 1..Cardinality(tags) |->
        CHOOSE t \in tags : Cardinality({u \in tags : Before(u, t)}) = k - 1]

\* buildDynamicRuntimePlanForMapping: the plan of mapping m, or why there is none.
PlanFor(rows, m, black, excluded) ==
    LET b0    == Builder(rows, m, black, excluded)
        nodes == IF m.manual THEN AddNodes(b0, m.nodes, TRUE) ELSE AddNodesOrRevive(b0, m.nodes)
        all   == FoldLeft(AddMappingGroup, nodes, m.groups)
        plan  == IF m.manual THEN Forced(m, OrBlock(all.members))
                 ELSE [tag |-> MappingTag, members |-> OrBlock(all.members), selected |-> None]
        gs    == (MappingTag :> plan) @@ all.b.groups
        tags  == InOrder(DOMAIN gs)
    IN  [err    |-> all.b.err,
         out    |-> all.b.out,
         owner  |-> all.b.owner,
         groups |-> [k \in DOMAIN tags |-> gs[tags[k]]]]
=============================================================================
