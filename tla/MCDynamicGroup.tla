--------------------------- MODULE MCDynamicGroup ---------------------------
\* Small instances of DynamicGroup for TLC.
EXTENDS DynamicGroup

CONSTANTS a, b, direct, d1

\* Plans with every set of members; without a manual mapping nothing is selected.
EveryPlan == {p \in [members: SUBSET Nodes \ {{}}, policy: Policies, selected: Nodes \cup {None}] :
                 Plannable(p) /\ (p.selected = None <=> p.policy # "force")}

\* The two members are always there and the strategy changes.
StrategyPlans == {p \in EveryPlan : p.members = Nodes}

\* Members come and go under one strategy.
BalancePlans == {p \in EveryPlan : p.policy = "balance"}

=============================================================================
