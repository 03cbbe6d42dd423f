SPECIFICATION FairSpec
CONSTANTS
    Nodes = {n1, n2}
    Updates = {u1, u2}
    Recorders = {r1, r2}
    Runs = {g1, g2}
    Main = Main
    None = None
    Overlap = FALSE
PROPERTY DirtyIsFlushed
