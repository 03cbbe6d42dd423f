SPECIFICATION Spec
CONSTANTS
    Nodes = {n1}
    Groups = {g1}
    Mappings = {m1}
    Subs = {s1}
    None = None
    MaxList = 1
    MaxTargets = 1
PROPERTY DeletionReachesMappings
