SPECIFICATION FairSpec
CONSTANTS
    Nodes = {n1, n2}
    Runs = {r1}
    Detached = {}
    Callers = {c1}
    QueueSize = 2
    BatchSize = 2
    MaxConcurrency = 2
    MaxCalls = 2
    NoRun = NoRun
    NoNode = NoNode
PROPERTY StopReturns
PROPERTY AcceptedIsServed
CHECK_DEADLOCK FALSE
