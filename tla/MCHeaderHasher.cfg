CONSTANTS
    r0 = r0
    r1 = r1
    p0 = p0
    t0 = t0
    w0 = w0
    Ids <- MCIds
    Times = {9, 10}
    Nonces = {7, 10, 100}
    Counts = {1, 9, 10}
    InitHeader <- MCInitHeader
    Cap <- MCCap

SPECIFICATION Spec

INVARIANT TypeOK
INVARIANT FastIDMatchesID
