\* A peer asks for the rankings while Rank runs again on a ranked graph.
CONSTANTS
    a = a
    b = b
    c = c
    Graphs <- MCGraphs
    Alpha <- MCAlpha
    Epsilon <- MCEpsilon

SPECIFICATION Spec

INVARIANT ServedIsDistribution
