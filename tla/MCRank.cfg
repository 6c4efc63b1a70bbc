CONSTANTS
    a = a
    b = b
    c = c
    Graphs <- MCGraphs
    Alpha <- MCAlpha
    Epsilon <- MCEpsilon

SPECIFICATION Spec


INVARIANT TypeOK
INVARIANT RankConserved
PROPERTY RankTerminates
