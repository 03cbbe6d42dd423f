SPECIFICATION Spec
CONSTANTS
    Nodes = {n1, n2}
    Groups = {g1, g2}
    Mappings = {m1}
    Subs = {s1}
    None = None
    MaxList = 1
    MaxTargets = 1
SYMMETRY Symmetry
INVARIANTS RefsExist ActiveListed ChainGroupsSound AffectedListed
PROPERTY EditsKeepChoice
