CONSTANTS
    p0 = p0
    p1 = p1
    x1 = x1
    x2 = x2
    prev0 = prev0
    prev1 = prev1
    Plotroots <- MCPlotroots
    Txs <- MCTxs
    MAX_INTERACTIONS_PER_PLOT = 2
    MaxLen = 4
    Radix = 4
    IDLen = 3
    Times = {9, 10}
    Nonces = {7, 100}
    Tips <- MCTips
    PoolQueues <- MCPoolQueues
    Limits = {0, 1}
    Cap <- MCCap

SPECIFICATION Spec

INVARIANT TypeOK
INVARIANT HeaderDescribesInteractions
PROPERTY IDCommitsToInteractions
