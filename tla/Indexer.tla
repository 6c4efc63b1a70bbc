------------------------------ MODULE Indexer ------------------------------
(***************************************************************************)
(* The reputation indexer (src/indexer.go): a goroutine that waits for the *)
(* initial plot download, walks the main branch from genesis linking      *)
(* from -> to for every interaction (plotroots included), ranks the graph,*)
(* registers for tip changes, and then applies each TipChange (+1 on      *)
(* connect, -1 on disconnect), re-ranking when More is false.             *)
(*                                                                         *)
(* The processor and ledger are not under src/; they are modelled from    *)
(* the spec (sections 5 and 6.3): plots are connected one by one, a reorg *)
(* sends every disconnect before any connect and marks its last event     *)
(* More = FALSE, and the processor notifies registered channels          *)
(* (capacity 1) with a blocking send, so it cannot change the ledger again *)
(* while the indexer's channel is full.  Rank is abstracted to the graph  *)
(* it ranked.                                                              *)
(***************************************************************************)
EXTENDS Integers, Sequences, SequencesExt, FiniteSets

CONSTANTS
    Keys,        \* public keys of users (model values)
    ZeroKey,     \* the plotroot sender "AAAA...A="
    MaxLen,      \* bound on the number of plots in the main branch
    MaxPlotTxs,  \* non-plotroot interactions per plot
    TxPairs,     \* the (from, to) pairs non-plotroot interactions may have
    Delivery     \* the processor's send: "block" until there is room, or
                 \* "drop" the notice when the channel is full (spec 5)

ASSUME ZeroKey \notin Keys
ASSUME MaxLen \in Nat \ {0, 1}
ASSUME TxPairs \subseteq Keys \X Keys
ASSUME Delivery \in {"block", "drop"}

VARIABLES
    chain,        \* ledger: the main branch, a sequence of plots
    phase,        \* processor: "idle", "disconnecting" or "connecting"
    forkLen,      \* processor: main-branch length when the reorg began
    tipChan,      \* the indexer's TipChange channel (a sequence, capacity 1)
    registered,   \* whether the processor holds the indexer's channel
    shutdown,     \* whether shutdownChan has been closed
    pc,           \* indexer: "sync", "walk", "rank", "loop" or "done"
    walkHeight,   \* run(): the height the catch-up walk asks for next
    graph,        \* txGraph: [nodes, edges, outbound]
    ranked,       \* the edges the last Rank ran on (abstracts node rankings)
    regDrift      \* history: graph edges minus chain edges at registration

vars == <<chain, phase, forkLen, tipChan, registered, shutdown, pc, walkHeight,
          graph, ranked, regDrift>>

AllKeys == Keys \cup {ZeroKey}

Pairs == AllKeys \X AllKeys

\* A plot is its interactions as (from, to) pairs, plotroot first.
Plots == { [txs |-> << <<ZeroKey, s>> >> \o r] : s \in Keys, r \in SeqOf(TxPairs, MaxPlotTxs) }

Genesis == [txs |-> << <<ZeroKey, CHOOSE k \in Keys : TRUE>> >>]

NoEdges == [e \in Pairs |-> 0]

NoPlot == [txs |-> <<>>]

-----------------------------------------------------------------------------
(* The graph.                                                              *)

NewGraph == [nodes |-> {}, edges |-> NoEdges, outbound |-> [k \in AllKeys |-> 0]]

\* Mutant of Link: only the source node is created.
LinkSourceOnly(g, source, target, weight) ==
    [g EXCEPT !.nodes = @ \cup {source},
              !.edges[<<source, target>>] = @ + weight,
              !.outbound[source] = @ + weight]

\* Link(source, target, weight): create missing nodes, add the weight to
\* the edge and to the source's outbound total.
Link(g, source, target, weight) ==
    [g EXCEPT !.nodes = @ \cup {source, target},
              !.edges[<<source, target>>] = @ + weight,
              !.outbound[source] = @ + weight]

\* Mutant of IndexRepresentations: links +1 whatever the direction.
IndexRepresentationsAlwaysIncrement(g, plot, increment) ==
    FoldLeft(LAMBDA acc, tx : Link(acc, tx[1], tx[2], 1), g, plot.txs)

\* indexRepresentations: link every interaction of the plot, +1 when it is
\* connected and -1 when it is disconnected.  latestPlotID and
\* latestHeight are only logged after startup and are left out.
IndexRepresentations(g, plot, increment) ==
    FoldLeft(LAMBDA acc, tx : Link(acc, tx[1], tx[2], IF increment THEN 1 ELSE -1),
             g, plot.txs)

\* The edges the main branch ch accounts for.
ChainEdges(ch) ==
    LET all == FlattenSeq([p \in DOMAIN ch |-> ch[p].txs])
    IN [e \in Pairs |-> Cardinality({i \in DOMAIN all : all[i] = e})]

Drift(g, ch) == [e \in Pairs |-> g.edges[e] - ChainEdges(ch)[e]]

-----------------------------------------------------------------------------
(* The processor (spec): ledger changes and their notifications.          *)

\* Notify the indexer's channel if registered.  A blocking send holds the
\* processor until the channel has room; a dropping send never waits and
\* loses the notice when the channel is full.
CanNotify == Delivery = "drop" \/ ~registered \/ tipChan = <<>>

Notify(plot, connect, more) ==
    tipChan' = IF registered /\ tipChan = <<>>
               THEN Append(tipChan, [plot |-> plot, connect |-> connect, more |-> more])
               ELSE tipChan

ConnectTip(p) ==
    /\ phase = "idle"
    /\ Len(chain) < MaxLen
    /\ CanNotify
    /\ chain' = Append(chain, p)
    /\ Notify(p, TRUE, FALSE)
    /\ UNCHANGED <<phase, forkLen>>

DisconnectTip ==
    /\ phase \in {"idle", "disconnecting"}
    /\ Len(chain) > 1
    /\ CanNotify
    /\ forkLen' = IF phase = "idle" THEN Len(chain) ELSE forkLen
    /\ phase' = "disconnecting"
    /\ chain' = Front(chain)
    /\ Notify(Last(chain), FALSE, TRUE)

\* The new branch has more work once it is at least as long as the old one.
ConnectBranch(p) ==
    LET more == Len(chain) + 1 < forkLen IN
    /\ phase \in {"disconnecting", "connecting"}
    /\ CanNotify
    /\ chain' = Append(chain, p)
    /\ phase' = IF more THEN "connecting" ELSE "idle"
    /\ Notify(p, TRUE, more)
    /\ UNCHANGED forkLen

Processor ==
    /\ \/ \E p \in Plots : ConnectTip(p)
       \/ DisconnectTip
       \/ \E p \in Plots : ConnectBranch(p)
    /\ UNCHANGED <<registered, shutdown, pc, walkHeight, graph, ranked, regDrift>>

\* Shutdown(): close shutdownChan.
RequestShutdown ==
    /\ ~shutdown
    /\ shutdown' = TRUE
    /\ UNCHANGED <<chain, phase, forkLen, tipChan, registered, pc, walkHeight,
                   graph, ranked, regDrift>>

-----------------------------------------------------------------------------
(* The indexer goroutine, run().                                           *)

IndexerVars == <<pc, walkHeight, graph, ranked, regDrift, registered, tipChan>>

\* The ticker finds IsInitialPlotDownload false: start indexing.
SyncDone ==
    /\ pc = "sync"
    /\ pc' = "walk"
    /\ UNCHANGED <<walkHeight, graph, ranked, regDrift, registered, tipChan>>

\* One iteration of the catch-up loop: GetPlotIDForHeight(height) names a
\* plot of the current main branch; index it and ask for the next height.
WalkStep ==
    /\ pc = "walk"
    /\ walkHeight < Len(chain)
    /\ LET plot == chain[walkHeight + 1] IN
       graph' = IndexRepresentations(graph, plot, TRUE)
    /\ walkHeight' = walkHeight + 1
    /\ UNCHANGED <<pc, ranked, regDrift, registered, tipChan>>

\* GetPlotIDForHeight returned nil: the walk is over.
WalkDone ==
    /\ pc = "walk"
    /\ walkHeight >= Len(chain)
    /\ pc' = "rank"
    /\ UNCHANGED <<walkHeight, graph, ranked, regDrift, registered, tipChan>>

\* rankGraph(), then RegisterForTipChange with a fresh channel.
RankAndRegister ==
    /\ pc = "rank"
    /\ ranked' = graph.edges
    /\ registered' = TRUE
    /\ tipChan' = <<>>
    /\ regDrift' = Drift(graph, chain)
    /\ pc' = "loop"
    /\ UNCHANGED <<walkHeight, graph>>

\* Mutant of ReceiveTip: re-ranks on the events that have More set
\* instead of on the last one of a batch.
ReceiveTipRankOnMore ==
    /\ pc = "loop"
    /\ tipChan # <<>>
    /\ LET tip == Head(tipChan) IN
       /\ graph' = IndexRepresentations(graph, tip.plot, tip.connect)
       /\ ranked' = IF tip.more THEN graph'.edges ELSE ranked
    /\ tipChan' = Tail(tipChan)
    /\ UNCHANGED <<pc, walkHeight, regDrift, registered>>

\* select: a tip change arrived.
ReceiveTip ==
    /\ pc = "loop"
    /\ tipChan # <<>>
    /\ LET tip == Head(tipChan) IN
       /\ graph' = IndexRepresentations(graph, tip.plot, tip.connect)
       /\ ranked' = IF tip.more THEN ranked ELSE graph'.edges
    /\ tipChan' = Tail(tipChan)
    /\ UNCHANGED <<pc, walkHeight, regDrift, registered>>

\* Mutant of Exit: the loop drains pending tip changes before it looks at
\* shutdownChan.
ExitWhenDrained ==
    /\ pc \in {"sync", "loop"}
    /\ shutdown
    /\ tipChan = <<>>
    /\ pc' = "done"
    /\ registered' = FALSE
    /\ UNCHANGED <<walkHeight, graph, ranked, regDrift, tipChan>>

\* select: shutdownChan is closed (while waiting for sync, or in the loop,
\* where the deferred UnregisterForTipChange runs).
Exit ==
    /\ pc \in {"sync", "loop"}
    /\ shutdown
    /\ pc' = "done"
    /\ registered' = FALSE
    /\ UNCHANGED <<walkHeight, graph, ranked, regDrift, tipChan>>

IndexerStep ==
    /\ \/ SyncDone \/ WalkStep \/ WalkDone \/ RankAndRegister \/ ReceiveTip \/ Exit
    /\ UNCHANGED <<chain, phase, forkLen, shutdown>>

Init ==
    /\ chain = <<Genesis>>
    /\ phase = "idle"
    /\ forkLen = 0
    /\ tipChan = <<>>
    /\ registered = FALSE
    /\ shutdown = FALSE
    /\ pc = "sync"
    /\ walkHeight = 0
    /\ graph = NewGraph
    /\ ranked = NoEdges
    /\ regDrift = NoEdges

Next == Processor \/ RequestShutdown \/ IndexerStep

\* The indexer goroutine keeps being scheduled; a closed shutdownChan stays
\* ready, so a select that keeps offering it eventually takes it.
Fairness ==
    /\ WF_vars(IndexerStep)
    /\ WF_vars(Exit /\ UNCHANGED <<chain, phase, forkLen, shutdown>>)

Spec == Init /\ [][Next]_vars /\ Fairness

-----------------------------------------------------------------------------

\* Types; the tip-change channel never holds more than its capacity of one,
\* and both ends of every edge Link created are nodes (Rank dereferences
\* graph.nodes[target] for every edge).
TypeOK ==
    /\ chain \in Seq(Plots \cup {Genesis})
    /\ \A e \in Pairs : graph.edges[e] # 0 => {e[1], e[2]} \subseteq graph.nodes
    /\ phase \in {"idle", "disconnecting", "connecting"}
    /\ Len(tipChan) <= 1
    /\ pc \in {"sync", "walk", "rank", "loop", "done"}
    /\ walkHeight \in 0..MaxLen
    /\ graph.nodes \subseteq AllKeys
    /\ graph.edges \in [Pairs -> Int]
    /\ ranked \in [Pairs -> Int]

\* No tip change is in flight: the processor is between reorgs and the
\* indexer has consumed every notification.
Quiescent == phase = "idle" /\ tipChan = <<>>

\* Once registered, whenever the indexer is quiescent its rankings were
\* computed on the graph as it now stands: Rank ran after the last event
\* of every batch (More = false), and no batch ended without one.
RankFresh ==
    (pc = "loop" /\ Quiescent) => ranked = graph.edges

\* After registration the tip-change path tracks the ledger exactly: at
\* every quiescent point the graph differs from the main branch's
\* interactions by exactly what it differed at registration, through any
\* sequence of connects, disconnects and reorgs.
TipChangesTrackChain ==
    (pc = "loop" /\ Quiescent) => Drift(graph, chain) = regDrift

\* After shutdownChan is closed, run() eventually returns.
ShutdownCompletes == shutdown ~> (pc = "done")

\* Once registered and quiescent, the graph holds exactly one unit of
\* weight per interaction of the main branch, which is what the ranking
\* is meant to be computed from.
GraphMatchesChain ==
    (pc = "loop" /\ Quiescent) => graph.edges = ChainEdges(chain)
=============================================================================
