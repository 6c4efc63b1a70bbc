------------------------------- MODULE MCRank -------------------------------
(* Rank as the indexer calls it (alpha = 1) on small graphs built as      *)
(* Link builds them: weights summed per (source, target), outbound summed *)
(* per source.  Epsilon is 1/100 instead of 1e-6: the graphs that converge *)
(* do so geometrically, so a smaller bound only adds passes, and exact     *)
(* denominators would outgrow TLC's 32-bit integers.                       *)
EXTENDS Rank, TLC

CONSTANTS a, b, c

MCKeys == {a, b, c}

\* The graph with node set N after linking each (s, t) in DOMAIN w with
\* weight w[s, t].
G(N, w) ==
    [nodes    |-> N,
     edges    |-> [p \in MCKeys \X MCKeys |-> IF p \in DOMAIN w THEN w[p] ELSE 0],
     outbound |-> [k \in MCKeys |-> SumFunctionOnSet(w, {p \in DOMAIN w : p[1] = k})]]


\* A chain whose plotroots pay a (c stands for the zero key) and whose
\* only interactions are a -> b and b -> a: no node is dangling, c's rank
\* flows to a and is never replenished, and the rest swings between a and
\* b for ever.
Periodic  == G({a, b, c}, (<<c, a>> :> 1) @@ (<<a, b>> :> 1) @@ (<<b, a>> :> 1))

\* Every graph on two nodes with edge weights 0 or 1, and a chain on three.
Chain == G({a, b, c}, (<<a, b>> :> 1) @@ (<<b, c>> :> 1))
TwoNodeGraphs == {G({a, b}, w) : w \in [{a, b} \X {a, b} -> {0, 1}]}
MCGraphs    == TwoNodeGraphs \cup {Chain}
MCPeriodic  == {Periodic}
MCAlpha     == One
MCEpsilon   == Frac(1, 100)
=============================================================================
