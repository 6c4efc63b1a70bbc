-------------------------------- MODULE Rank --------------------------------
(***************************************************************************)
(* Graph.Rank(alpha, epsilon) (src/indexer.go): power-iteration PageRank  *)
(* with the rank of dangling nodes (outbound = 0) redistributed uniformly *)
(* as "leak".  The graph is the record the indexer builds (Indexer.tla):  *)
(* nodes, edge weights and outbound totals, all integers, possibly        *)
(* negative after a disconnect of a plot the graph never counted.         *)
(* Arithmetic is exact (Fraction.tla).                                    *)
(*                                                                         *)
(* Rank writes node.ranking in place, one node per loop iteration, and    *)
(* peer goroutines read the same fields through rankings() (the get_rank  *)
(* reply, spec 6.2) without a lock.  So each iteration of Rank's three    *)
(* loops is its own step, and a peer's read may fall between any two.     *)
(* The indexer calls Rank again after every batch of tip changes          *)
(* (rankGraph); here the graph is the same for every call.                *)
(***************************************************************************)
EXTENDS Integers, FiniteSets, Functions, TLC, Fraction

CONSTANTS
    Graphs,    \* the graphs Rank may be called on
    Alpha,     \* damping factor, a fraction (the indexer passes 1.0)
    Epsilon    \* convergence bound, a fraction (the indexer passes 1e-6)

VARIABLES
    graph,     \* the graph being ranked (Rank does not change it)
    ranking,   \* node -> its ranking field, shared with peer goroutines
    snapshot,  \* the local map "nodes": each node's ranking before the pass
    leak,      \* the local "leak"
    delta,     \* the local "delta"
    todo,      \* the nodes the current loop has still to visit
    pc,        \* "prologue", "loop", "snapshot", "spread", or "done"
    ranked,    \* history: some call of Rank has returned
    served     \* the last rankings() reply a peer sent, and whether it
               \* was taken after a call of Rank had returned

vars == <<graph, ranking, snapshot, leak, delta, todo, pc, ranked, served>>

\* Sum of a fraction-valued function over a set of its arguments.
QSum(f, S) == FoldFunctionOnSet(QAdd, Zero, f, S)

\* inverse := 1 / float64(len(graph.nodes))
UniformShare(g) == Frac(1, Cardinality(g.nodes))

\* normalizedWeights[s][t]: only sources with positive outbound have an
\* entry; a missing entry contributes nothing.
NormalizedWeight(g, s, t) ==
    IF g.outbound[s] > 0 THEN Frac(g.edges[<<s, t>>], g.outbound[s]) ELSE Zero

\* Mutant of Contribution: leak is not handed back to the source.
ContributionNoLeak(g, snap, lk, s, t) ==
    QAdd(QMul(QMul(Alpha, snap[s]), NormalizedWeight(g, s, t)),
         IF t = s THEN QMul(QSub(One, Alpha), UniformShare(g)) ELSE Zero)

\* What iteration s of the spreading loop adds to node t: alpha * nodes[s]
\* * normalizedWeights[s][t], and to s itself (1 - alpha)/N + leak/N.
Contribution(g, snap, lk, s, t) ==
    QAdd(QMul(QMul(Alpha, snap[s]), NormalizedWeight(g, s, t)),
         IF t = s THEN QMul(QAdd(QSub(One, Alpha), lk), UniformShare(g)) ELSE Zero)

\* delta = sum over nodes of |ranking - nodes[key]|.
Change(old, new) == QSum([n \in DOMAIN new |-> QAbs(QSub(new[n], old[n]))], DOMAIN new)

-----------------------------------------------------------------------------
(* Rank, in the indexer goroutine.                                        *)

\* The first call of Rank, after the catch-up walk: Link created every
\* node with ranking 0.
Init ==
    /\ graph \in Graphs
    /\ ranking = [n \in graph.nodes |-> Zero]
    /\ snapshot = ranking
    /\ leak = Zero
    /\ delta = One
    /\ todo = graph.nodes
    /\ pc = "prologue"
    /\ ranked = FALSE
    /\ served = [rankings |-> ranking, afterRank |-> FALSE]

\* One iteration of "for key := range graph.nodes { ranking = inverse }".
Prologue(n) ==
    /\ pc = "prologue"
    /\ n \in todo
    /\ ranking' = [ranking EXCEPT ![n] = UniformShare(graph)]
    /\ todo' = todo \ {n}
    /\ UNCHANGED <<graph, snapshot, leak, delta, pc, ranked, served>>

\* The prologue is done; delta was set to 1.0 before it.
EnterLoop ==
    /\ pc = "prologue"
    /\ todo = {}
    /\ delta' = One
    /\ pc' = "loop"
    /\ UNCHANGED <<graph, ranking, snapshot, leak, todo, ranked, served>>

\* for delta > epsilon: a pass starts with leak := 0 and nodes := {}.
BeginPass ==
    /\ pc = "loop"
    /\ QLess(Epsilon, delta)
    /\ leak' = Zero
    /\ todo' = graph.nodes
    /\ pc' = "snapshot"
    /\ UNCHANGED <<graph, ranking, snapshot, delta, ranked, served>>

\* Mutant of SnapshotNode: the map nodes is made afresh in each iteration.
SnapshotNodeFresh(n) ==
    /\ pc = "snapshot"
    /\ n \in todo
    /\ snapshot' = (n :> ranking[n])
    /\ leak' = IF graph.outbound[n] = 0 THEN QAdd(leak, ranking[n]) ELSE leak
    /\ ranking' = [ranking EXCEPT ![n] = Zero]
    /\ todo' = todo \ {n}
    /\ UNCHANGED <<graph, delta, pc, ranked, served>>

\* One iteration of the first loop of a pass: copy the node's ranking into
\* nodes, add it to leak if the node's outbound is 0, and zero it.
SnapshotNode(n) ==
    /\ pc = "snapshot"
    /\ n \in todo
    /\ snapshot' = [snapshot EXCEPT ![n] = ranking[n]]
    /\ leak' = IF graph.outbound[n] = 0 THEN QAdd(leak, ranking[n]) ELSE leak
    /\ ranking' = [ranking EXCEPT ![n] = Zero]
    /\ todo' = todo \ {n}
    /\ UNCHANGED <<graph, delta, pc, ranked, served>>

\* leak *= alpha, then the spreading loop starts.
ScaleLeak ==
    /\ pc = "snapshot"
    /\ todo = {}
    /\ leak' = QMul(Alpha, leak)
    /\ todo' = graph.nodes
    /\ pc' = "spread"
    /\ UNCHANGED <<graph, ranking, snapshot, delta, ranked, served>>

\* One iteration of the spreading loop, for source s: every target of s
\* gets its share of nodes[s], and s gets (1 - alpha)/N + leak/N.
SpreadFrom(s) ==
    /\ pc = "spread"
    /\ s \in todo
    /\ ranking' = [t \in graph.nodes |->
                      QAdd(ranking[t], Contribution(graph, snapshot, leak, s, t))]
    /\ todo' = todo \ {s}
    /\ UNCHANGED <<graph, snapshot, leak, delta, pc, ranked, served>>

\* Mutant of EndPass: delta is not reset to 0 before the sum.
EndPassNoReset ==
    /\ pc = "spread"
    /\ todo = {}
    /\ delta' = QAdd(delta, Change(snapshot, ranking))
    /\ pc' = "loop"
    /\ UNCHANGED <<graph, ranking, snapshot, leak, todo, ranked, served>>

\* delta = 0, then the sum of |ranking - nodes[key]|; back to the loop test.
EndPass ==
    /\ pc = "spread"
    /\ todo = {}
    /\ delta' = Change(snapshot, ranking)
    /\ pc' = "loop"
    /\ UNCHANGED <<graph, ranking, snapshot, leak, todo, ranked, served>>

\* The loop condition fails: Rank returns.
Return ==
    /\ pc = "loop"
    /\ ~QLess(Epsilon, delta)
    /\ pc' = "done"
    /\ ranked' = TRUE
    /\ UNCHANGED <<graph, ranking, snapshot, leak, delta, todo, served>>

\* rankGraph after the next batch of tip changes calls Rank again.
RankGraph ==
    /\ pc = "done"
    /\ pc' = "prologue"
    /\ todo' = graph.nodes
    /\ UNCHANGED <<graph, ranking, snapshot, leak, delta, ranked, served>>

RankStep ==
    \/ \E n \in graph.nodes : Prologue(n) \/ SnapshotNode(n) \/ SpreadFrom(n)
    \/ EnterLoop \/ BeginPass \/ ScaleLeak \/ EndPass \/ Return \/ RankGraph

-----------------------------------------------------------------------------
(* A peer goroutine answering get_rank with rankings(nil): every node's    *)
(* ranking field, read without the indexer's cooperation.                  *)

Rankings ==
    /\ served' = [rankings |-> ranking, afterRank |-> ranked]
    /\ UNCHANGED <<graph, ranking, snapshot, leak, delta, todo, pc, ranked>>

Next == RankStep \/ Rankings

\* Rank is a plain loop in the indexer goroutine: it keeps taking steps.
\* Peers are the environment and need never ask.
Spec == Init /\ [][Next]_vars /\ WF_vars(RankStep)

-----------------------------------------------------------------------------

TypeOK ==
    /\ graph \in Graphs
    /\ DOMAIN ranking = graph.nodes
    /\ DOMAIN snapshot = graph.nodes
    /\ todo \subseteq graph.nodes
    /\ pc \in {"prologue", "loop", "snapshot", "spread", "done"}

\* Spec property 8, conservation: at every test of "delta > epsilon" the
\* rankings sum to 1, so the leak of dangling nodes exactly replaces what
\* they do not pass on along edges.
RankConserved == pc = "loop" => QSum(ranking, graph.nodes) = One

\* Spec property 8, convergence: the first call of Rank returns after
\* finitely many passes for the alpha and epsilon it is called with.
RankTerminates == <>(pc = "done")

\* What a get_rank reply promises a peer: once the graph has been ranked,
\* the rankings it reports form a distribution (they sum to 1).
ServedIsDistribution ==
    served.afterRank => QSum(served.rankings, DOMAIN served.rankings) = One
=============================================================================
