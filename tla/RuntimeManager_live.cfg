SPECIFICATION FairSpec
CONSTANTS
    Mappings = {m1}
    Ports = {p1, p2}
    Callers = {c1, c2}
    Cores = {k1, k2}
    None = None
    MaxWrites = 2
PROPERTY CallsReturn
