------------------------------- MODULE MCCore -------------------------------
\* Small instances of Core, with the plans of PlanBuilder, for TLC.
EXTENDS Core, FiniteSets, TLC

CONSTANTS n1, n2, n3, g1, g2

MCNodes == {n1, n2, n3}
PB == INSTANCE PlanBuilder WITH IdOrder <- <<n1, n2, n3, g1, g2>>

Hop(n)  == [group |-> FALSE, id |-> n]
Hops(k) == [group |-> TRUE, id |-> k]
Plain   == [kind |-> "plain", ver |-> 1, chain |-> <<>>]
Group(ns, gs) == [nodes |-> ns, groups |-> gs, builtins |-> <<>>]
Row(na, nb, chain, gg, hh) ==
    [node |-> (n1 :> na) @@ (n2 :> nb) @@ (n3 :> [Plain EXCEPT !.kind = "chain", !.chain = chain]),
     group |-> (g1 :> gg) @@ (g2 :> hh)]

\* The groups share a chain whose first hop was edited; g2 may dial directly.
Edited == Row([Plain EXCEPT !.ver = 2], Plain, <<Hop(n1), Hop(n2)>>, Group(<<n3, n2>>, <<>>),
              [Group(<<n3>>, <<>>) EXCEPT !.builtins = <<PB!Direct>>])
\* sing-box refuses node n2, which is also in the group that the chain goes through; two
\* lists have the chain.
BadHop == Row(Plain, [Plain EXCEPT !.kind = "refused"], <<Hops(g2), Hop(n1)>>, Group(<<n1, n2, n3>>, <<>>),
              Group(<<n2, n1>>, <<>>))
\* Node n1 cannot be translated, and the groups contain each other.
Broken == Row([Plain EXCEPT !.kind = "broken"], Plain, <<Hop(n1), Hop(n2)>>, Group(<<n3, n2>>, <<g2>>),
              Group(<<n2>>, <<g1>>))
\* The chain goes through a group of a group, and ends with a group and a node.
Through == Row(Plain, Plain, <<Hops(g1), Hops(g2), Hop(n1)>>, Group(<<n2>>, <<g2>>), Group(<<n1>>, <<>>))

RowOf == [edited |-> Edited, through |-> Through, badHop |-> BadHop, broken |-> Broken]
MCRows == DOMAIN RowOf
\* Connections outlive n3 in g1; every other member that is removed can be collected at once.
MCBusy == {<<PB!GroupTag(g1), n3>>}
MCBlacklists == {{}, {n2}}

\* One mapping follows its groups, g2 with a strategy of its own; one serves what was chosen by hand.
Mapping(ns, gs) == [nodes |-> ns, groups |-> gs, manual |-> FALSE, active |-> None, overrides |-> {}]
MappingOf == [both   |-> [Mapping(<<n3>>, <<g1, g2>>) EXCEPT !.overrides = {g2}],
              manual |-> [Mapping(<<n3>>, <<>>) EXCEPT !.manual = TRUE, !.active = n3]]
MCMappings == {"both", "manual"}

MCPlan(m, r, B, X) ==
    LET rows == RowOf[r] IN PB!PlanFor(rows, MappingOf[m], B, X)

MCBase == {PB!Direct, PB!Block}
MCHopTags ==
    {PB!HopTag(n3, i, n) : i \in 1..2, n \in {n1, n2}}
        \cup {PB!HopNodeTag(n3, 1, 1, n1), PB!HopNodeTag(n3, 1, 1, n2), PB!HopNodeTag(n3, 2, 1, n1),
               PB!FinalTag(n3, 2, 1, n1), PB!FinalTag(n3, 1, 1, n1),
               PB!HopNodeTag(n3, 1, 2, n1), PB!FinalTag(n3, 1, 2, n1)}
ChainGroupTags == {PB!HopGroupTag(n3, 1, g1), PB!HopGroupTag(n3, 1, g2), PB!HopGroupTag(n3, 2, g2)}
MCGroupTags ==
    {PB!MappingTag, PB!GroupTag(g1), PB!GroupTag(g2), PB!OverrideTag(g2)} \cup ChainGroupTags
MCTags == MCBase \cup MCHopTags \cup MCGroupTags \cup {PB!NodeTag(n) : n \in MCNodes}
MCIds == MCNodes \cup {g1, g2} \cup MCBase \cup ChainGroupTags
=============================================================================
