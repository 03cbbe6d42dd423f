SPECIFICATION Spec
CONSTANTS
    Mappings = {m1, m2}
    Ports = {p1, p2}
    Callers = {c1, c2, c3}
    Cores = {k1, k2}
    None = None
    MaxWrites = 2
SYMMETRY Symmetry
INVARIANT NoLeakedListener
INVARIANT OneCoreEach
INVARIANT StatusAgrees
INVARIANT UpToDate
