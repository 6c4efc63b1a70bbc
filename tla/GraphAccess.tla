----------------------------- MODULE GraphAccess -----------------------------
(***************************************************************************)
(* The reputation graph's three Go maps (src/indexer.go) as the indexer    *)
(* goroutine and a peer goroutine use them.  The indexer writes them in    *)
(* Link, one map assignment at a time; while an assignment is in progress *)
(* Go's runtime has set the map's hashWriting flag.  The peer answers      *)
(* get_rank with rankings() and get_graph with ToDOT(), which look up and  *)
(* range over the same maps with no lock.  A peer access to a map whose   *)
(* assignment is in progress is a data race: the runtime may see the flag *)
(* and abort the whole process ("concurrent map read and map write",      *)
(* "concurrent map iteration and map write"), or may not.  Rank writes    *)
(* only node fields and ranges over the maps in the indexer goroutine, so *)
(* it sets no flag (its torn values are Rank.tla's concern).  A range     *)
(* visits the keys present when it starts; Go may or may not also yield  *)
(* keys inserted during it.  ToDOT's output text is not modelled.          *)
(***************************************************************************)
EXTENDS Integers, Sequences, FiniteSets, SequencesExt

CONSTANTS
    Keys,        \* public keys, as the strings that label nodes
    ZeroKey,     \* "AAAA...=", the plotroot sender and ToDOT's fallback
    InitLinks,   \* <<source, target, weight>> calls already made
    Links        \* the calls the indexer makes next, in order

VARIABLES
    graph,    \* [index: key -> id, nodes: id -> node, edges: id -> (id -> weight)]
    todo,     \* the Link calls still to come
    ops,      \* the writes of the Link in progress, each with the graph after it
    writing,  \* the map whose assignment is in progress, None if none
    peer,     \* the request the peer is serving and where it is in it
    crashed   \* the process has aborted

vars == <<graph, todo, ops, writing, peer, crashed>>

\* Maps are named <<"index">>, <<"nodes">>, <<"edges">> and, for the inner
\* map graph.edges[id], <<"edge", id>>; <<"field">> marks a node field write.
None == <<>>
Field == <<"field">>

-----------------------------------------------------------------------------
(* Graph and Link.                                                         *)

\* NewGraph: three empty maps.
NewGraph == [index |-> [k \in {} |-> 0], nodes |-> [i \in {} |-> 0], edges |-> [i \in {} |-> 0]]

\* graph.index[key] = uint32(len(graph.index))
AddIndex(g, k) == [g EXCEPT !.index = @ @@ (k :> Cardinality(DOMAIN g.index))]

\* graph.nodes[index] = &node{ranking: 0, outbound: 0, label: key}
AddNode(g, k) ==
    [g EXCEPT !.nodes = @ @@ (g.index[k] :> [label |-> k, ranking |-> 0, outbound |-> 0])]

\* The two writes that make a node for a key not yet in the index.
KeyOps(g, k) ==
    IF k \in DOMAIN g.index THEN <<>>
    ELSE <<[map |-> <<"index">>, graph |-> AddIndex(g, k)],
           [map |-> <<"nodes">>, graph |-> AddNode(AddIndex(g, k), k)]>>

\* The graph after a list of writes.
After(g, os) == IF os = <<>> THEN g ELSE os[Len(os)].graph

\* Link(source, target, weight): the map writes it makes, in order.  The
\* conditions read only what the indexer itself writes, so they can be
\* evaluated as the call starts.
LinkOps(g, s, t, w) ==
    LET o1 == KeyOps(g, s)
        g1 == After(g, o1)
        o2 == KeyOps(g1, t)
        g2 == After(g1, o2)
        si == g2.index[s]
        ti == g2.index[t]
        o3 == IF si \in DOMAIN g2.edges THEN <<>>
              ELSE <<[map |-> <<"edges">>,
                      graph |-> [g2 EXCEPT !.edges = @ @@ (si :> [i \in {} |-> 0])]]>>
        g3 == After(g2, o3)
        g4 == [g3 EXCEPT !.nodes[si].outbound = @ + w]
        g5 == [g4 EXCEPT !.edges[si] = IF ti \in DOMAIN @ THEN [@ EXCEPT ![ti] = @ + w]
                                                          ELSE @ @@ (ti :> w)]
    IN o1 \o o2 \o o3 \o <<[map |-> Field, graph |-> g4], [map |-> <<"edge", si>>, graph |-> g5]>>

\* The graph after the links already made.
Linked(g, ls) == FoldLeft(LAMBDA h, l : After(h, LinkOps(h, l[1], l[2], l[3])), g, ls)

-----------------------------------------------------------------------------
(* The peer's request, and a peer access to a map.                         *)

Idle == [req |-> "idle", key |-> ZeroKey, pc |-> "idle", left |-> {}, from |-> 0,
         inner |-> {}, id |-> 0, pk |-> -1, included |-> {}]

\* A lookup or iteration step on map m: if the indexer's assignment to m
\* is in progress, the runtime may abort the process.
Access(m) == IF writing = m THEN crashed' \in BOOLEAN ELSE crashed' = FALSE

-----------------------------------------------------------------------------

Init ==
    /\ graph = Linked(NewGraph, InitLinks)
    /\ todo = Links
    /\ ops = <<>>
    /\ writing = None
    /\ peer = Idle
    /\ crashed = FALSE

(* The indexer goroutine: indexRepresentations calls Link for each        *)
(* interaction of a connected plot.                                        *)

StartLink ==
    /\ ops = <<>>
    /\ todo # <<>>
    /\ ops' = LinkOps(graph, Head(todo)[1], Head(todo)[2], Head(todo)[3])
    /\ todo' = Tail(todo)
    /\ UNCHANGED <<graph, writing, peer, crashed>>

\* mapassign sets the map's hashWriting flag ...
BeginWrite ==
    /\ ops # <<>>
    /\ writing = None
    /\ Head(ops).map # Field
    /\ writing' = Head(ops).map
    /\ UNCHANGED <<graph, todo, ops, peer, crashed>>

\* ... stores the entry and clears the flag.  A node field (outbound) is
\* written in one step and sets no flag.
EndWrite ==
    /\ ops # <<>>
    /\ writing = IF Head(ops).map = Field THEN None ELSE Head(ops).map
    /\ graph' = Head(ops).graph
    /\ ops' = Tail(ops)
    /\ writing' = None
    /\ UNCHANGED <<todo, peer, crashed>>

(* The peer goroutine.                                                     *)

\* A get_rank for every key (rankings(nil)), for one key, or a get_graph
\* (ToDOT) centred on one key.
Request ==
    /\ peer.req = "idle"
    /\ \/ peer' = [Idle EXCEPT !.req = "all", !.pc = "range", !.left = DOMAIN graph.index]
       \/ \E k \in Keys : peer' = [Idle EXCEPT !.req = "key", !.key = k, !.pc = "lookup"]
       \/ \E k \in Keys : peer' = [Idle EXCEPT !.req = "dot", !.key = k, !.pc = "lookup"]
    /\ UNCHANGED <<graph, todo, ops, writing, crashed>>

\* rankings(nil): "for key, id := range g.index", one key per step, then
\* g.nodes[id].ranking.
RangeIndex ==
    /\ peer.req = "all" /\ peer.pc = "range"
    /\ Access(<<"index">>)
    /\ IF peer.left = {} THEN peer' = Idle
       ELSE \E k \in peer.left :
              peer' = [peer EXCEPT !.left = @ \ {k}, !.id = graph.index[k], !.pc = "node"]
    /\ UNCHANGED <<graph, todo, ops, writing>>

\* rankings(keys): index := g.index[keyStr], 0 when the key is absent.
LookupKey ==
    /\ peer.req = "key" /\ peer.pc = "lookup"
    /\ Access(<<"index">>)
    /\ peer' = [peer EXCEPT !.pc = "node",
                            !.id = IF peer.key \in DOMAIN graph.index
                                   THEN graph.index[peer.key] ELSE 0]
    /\ UNCHANGED <<graph, todo, ops, writing>>

\* g.nodes[index].ranking: a missing node is a nil pointer dereference,
\* which panics.
LookupNode ==
    /\ peer.req \in {"all", "key"} /\ peer.pc = "node"
    /\ IF peer.id \in DOMAIN graph.nodes
       THEN /\ Access(<<"nodes">>)
            /\ peer' = IF peer.req = "all" THEN [peer EXCEPT !.pc = "range"] ELSE Idle
       ELSE /\ crashed' = TRUE
            /\ UNCHANGED peer
    /\ UNCHANGED <<graph, todo, ops, writing>>

\* ToDOT: pkInt from g.index[pubKey], else from the zero key's entry.
DotLookup ==
    /\ peer.req = "dot" /\ peer.pc = "lookup"
    /\ Access(<<"index">>)
    /\ LET pk == IF peer.key \in DOMAIN graph.index THEN graph.index[peer.key]
                 ELSE IF ZeroKey \in DOMAIN graph.index THEN graph.index[ZeroKey]
                 ELSE -1
       IN peer' = [peer EXCEPT !.pk = pk, !.included = IF pk = -1 THEN {} ELSE {pk},
                               !.pc = "outer", !.left = DOMAIN graph.edges]
    /\ UNCHANGED <<graph, todo, ops, writing>>

\* "for from, edge := range g.edges": one source per step.
DotOuter ==
    /\ peer.req = "dot" /\ peer.pc = "outer"
    /\ Access(<<"edges">>)
    /\ IF peer.left = {} THEN peer' = [peer EXCEPT !.pc = "nodes", !.left = peer.included]
       ELSE \E f \in peer.left :
              peer' = [peer EXCEPT !.left = @ \ {f}, !.from = f, !.pc = "inner",
                                   !.inner = DOMAIN graph.edges[f]]
    /\ UNCHANGED <<graph, todo, ops, writing>>

\* "for to, weight := range edge": an edge touching pkInt includes its
\* other end.
DotInner ==
    /\ peer.req = "dot" /\ peer.pc = "inner"
    /\ Access(<<"edge", peer.from>>)
    /\ IF peer.inner = {} THEN peer' = [peer EXCEPT !.pc = "outer"]
       ELSE \E t \in peer.inner :
              peer' = [peer EXCEPT !.inner = @ \ {t},
                         !.included = IF peer.pk # -1 /\ peer.from = peer.pk THEN @ \cup {t}
                                      ELSE IF peer.pk # -1 /\ t = peer.pk THEN @ \cup {peer.from}
                                      ELSE @]
    /\ UNCHANGED <<graph, todo, ops, writing>>

\* "for _, id := range includedNodes": g.nodes[id].label and .ranking.
DotNodes ==
    /\ peer.req = "dot" /\ peer.pc = "nodes"
    /\ Access(<<"nodes">>)
    /\ IF peer.left = {} THEN peer' = Idle
       ELSE \E i \in peer.left : peer' = [peer EXCEPT !.left = @ \ {i}]
    /\ UNCHANGED <<graph, todo, ops, writing>>

Next ==
    /\ ~crashed
    /\ \/ StartLink \/ BeginWrite \/ EndWrite
       \/ Request \/ RangeIndex \/ LookupKey \/ LookupNode
       \/ DotLookup \/ DotOuter \/ DotInner \/ DotNodes

Spec == Init /\ [][Next]_vars

-----------------------------------------------------------------------------

\* Spec section 5: the indexer owns the graph exclusively, and serving a
\* peer's get_rank or get_graph must not take the node down.  rankings()
\* and ToDOT() read graph.index, graph.nodes and graph.edges while Link,
\* in the indexer goroutine, inserts into them.
NeverAborts == ~crashed
=============================================================================
