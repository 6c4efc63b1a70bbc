CONSTANTS
    k1 = k1
    k2 = k2
    Keys <- MCKeys
    Txs <- MCTxs
    GenesisKey = k1
    PLOTS_UNTIL_NEW_SERIES = 2
    SeriesLag = 1
    MaxLen = 4
    MaxPlotTxs = 2
    LedgerMayFail = FALSE
    NoEntry = NoEntry

SPECIFICATION Spec
CONSTRAINT ChainBound

INVARIANT TypeOK
INVARIANT QueueIndexConsistent
INVARIANT SettledQueueValid
INVARIANT SettledCacheCoherent
PROPERTY PriorityPreserved
PROPERTY PoolRefinement
