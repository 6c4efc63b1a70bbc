CONSTANTS
    Radix = 4
    IDLen = 3
    Targets = {15, 31, 63}
    GenesisTarget = 15
    Ids <- MCIds
    MaxClock = 1
    MaxHeaders = 4

SPECIFICATION Spec

\* Once MaxHeaders are stored and the clock is at MaxClock nothing more can
\* happen; the bounds, not the code, end the behaviour.
CHECK_DEADLOCK FALSE

INVARIANT TypeOK
INVARIANT TipIsBest
INVARIANT CompareMatchesReference
