SPECIFICATION Spec
CONSTANTS
    Nodes = {n1, n2}
    Runs = {r1, r2}
    Detached = {d1}
    Callers = {c1}
    QueueSize = 2
    BatchSize = 3
    MaxConcurrency = 2
    MaxCalls = 2
    NoRun = NoRun
    NoNode = NoNode
CHECK_DEADLOCK FALSE
INVARIANTS StoppedIsQuiet CutIsNotFailure NoTwinProbe
PROPERTY NoneForgotten
SYMMETRY Symmetry
