\* Rank(1.0, epsilon) on zero key -> a, a -> b, b -> a.
CONSTANTS
    a = a
    b = b
    c = c
    Graphs <- MCPeriodic
    Alpha <- MCAlpha
    Epsilon <- MCEpsilon

SPECIFICATION Spec


PROPERTY RankTerminates
