CONSTANTS
    a = a
    b = b
    Keys <- MCKeys
    ZeroKey = ZeroKey
    MaxLen = 3
    MaxPlotTxs = 1
    TxPairs <- MCTxPairs
    Delivery = "drop"

SPECIFICATION Spec

INVARIANT TipChangesTrackChain
