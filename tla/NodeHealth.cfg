SPECIFICATION Spec
CONSTANTS
    Nodes = {n1, n2}
    Actors = {a1, a2}
    Threshold = 2
    Duration = 1
    RevivalLimit = 1
    Durations = {1, 2}
    MaxTime = 2
    MaxCount = 3
    None = None
INVARIANTS TypeOK BlacklistReaches ReleaseReaches
