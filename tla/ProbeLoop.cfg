SPECIFICATION FairSpec
CONSTANTS
    Nodes = {n1}
    Callers = {c1, c2}
    Loops = {l1, l2}
    MaxOps = 5
    None = None
INVARIANT TypeOK
INVARIANT OneLoop
INVARIANT LoopPresent
INVARIANT WakeNotLost
PROPERTY LoopEnds
CHECK_DEADLOCK FALSE
