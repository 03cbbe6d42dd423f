CONSTANTS
    a = a
    b = b
    direct = direct
    d1 = d1
    None = None
    Nodes = {a, direct}
    Builtin = {direct}
    Dials = {d1}
    Plans <- EveryPlan
    RevivalLimit = 1
    MaxSyncs = 2
SPECIFICATION Spec
INVARIANTS TypeOK SyncedMembers SelectedPresent NoStrayConnection
PROPERTY ImplementsGroup
CHECK_DEADLOCK FALSE
