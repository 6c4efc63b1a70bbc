\* A peer's get_rank or get_graph while the indexer links a new plot.
CONSTANTS
    zk = zk
    a = a
    b = b
    Keys <- MCKeys
    ZeroKey = zk
    InitLinks <- MCInitLinks
    Links <- MCLinks

SPECIFICATION Spec

INVARIANT NeverAborts
