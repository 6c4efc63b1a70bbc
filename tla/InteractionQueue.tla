--------------------------- MODULE InteractionQueue ---------------------------
(***************************************************************************)
(* InteractionQueueMemory (src/interaction_queue_memory.go): the FIFO pool *)
(* of unconfirmed interactions, its id index and its imbalance cache,      *)
(* driven by the processor that connects and disconnects plots of the      *)
(* main branch and by peers that add new interactions.                     *)
(*                                                                         *)
(* Every pool method runs under the pool's write lock, so each is one      *)
(* atomic action.  The processor, the ledger and the imbalance cache are   *)
(* not under src/; they are modelled from the spec (sections 4.5, 5, 6.3): *)
(* a reorg delivers all disconnects before any connect and marks the last  *)
(* connect with more = FALSE; peers may call Add between any two of those  *)
(* calls.                                                                  *)
(***************************************************************************)
EXTENDS Interaction, Integers, Sequences, SequencesExt, FiniteSets

CONSTANTS
    Txs,             \* the interactions peers may submit (non-plotroots)
    GenesisKey,      \* recipient of the genesis plotroot
    MaxLen,          \* bound on the number of plots in the main branch
    MaxPlotTxs,      \* non-plotroot interactions per plot (MAX_INTERACTIONS_PER_PLOT - 1, scaled)
    LedgerMayFail,   \* whether a ledger imbalance lookup may return an error
    NoEntry          \* marks a key absent from the imbalance cache

ASSUME Txs \subseteq InteractionRecords
ASSUME GenesisKey \in Keys
ASSUME MaxLen \in Nat \ {0, 1}
ASSUME LedgerMayFail \in BOOLEAN

VARIABLES
    queue,     \* txQueue: the interactions in priority order
    txMap,     \* DOMAIN txMap: the ids the index holds
    cache,     \* imbalanceCache: key -> cached imbalance, or NoEntry
    chain,     \* the main branch: a sequence of plots [root, txs]
    phase,     \* processor: "idle", "disconnecting" or "connecting"
    forkLen    \* length of the main branch when the current reorg began

vars == <<queue, txMap, cache, chain, phase, forkLen>>

Plots == [root: Keys, txs: SeqOf(Txs, MaxPlotTxs)]

-----------------------------------------------------------------------------
(* The ledger (spec 6.3): imbalances of the main branch.                   *)

Height == Len(chain) - 1

\* Net effect on k of applying the interactions of sequence s.
Net(s, k) == Cardinality({i \in DOMAIN s : s[i].to = k})
           - Cardinality({i \in DOMAIN s : s[i].from = k})

Confirmed(ch) == FlattenSeq([p \in DOMAIN ch |-> ch[p].txs])

LedgerImbalance(ch, k) ==
    Cardinality({p \in DOMAIN ch : ch[p].root = k}) + Net(Confirmed(ch), k)

\* Every interaction of s can be funded in order, starting from the
\* imbalances bal (a function of keys).
FundableFrom(bal, s) ==
    \A i \in DOMAIN s : bal[s[i].from] + Net(SubSeq(s, 1, i - 1), s[i].from) >= 1

\* A plot the processor accepts at height h on top of ch: its plotroot
\* is credited first, then its interactions must be scribable at h, not
\* yet confirmed, distinct, and fundable in order.
PlotValid(p, ch, h) ==
    LET bal == [k \in Keys |-> LedgerImbalance(ch, k) + (IF p.root = k THEN 1 ELSE 0)]
    IN /\ \A i \in DOMAIN p.txs : ScribableAt(p.txs[i], h)
       /\ Range(p.txs) \cap Range(Confirmed(ch)) = {}
       /\ Cardinality(Range(p.txs)) = Len(p.txs)
       /\ FundableFrom(bal, p.txs)

-----------------------------------------------------------------------------
(* The imbalance cache (spec 4.5), an overlay over the ledger.             *)

EmptyCache == [k \in Keys |-> NoEntry]

CachedImbalance(ch, c, k) == IF c[k] = NoEntry THEN LedgerImbalance(ch, k) ELSE c[k]

\* Apply's lookups go to the ledger only for keys not yet cached.
NeedsLedger(c, tx) == c[tx.from] = NoEntry \/ c[tx.to] = NoEntry

\* Apply returns ok = FALSE when the sender cannot fund the interaction.
CanApply(ch, c, tx) == CachedImbalance(ch, c, tx.from) >= 1

\* Apply: debit the sender, then credit the recipient.
ApplyToCache(ch, c, tx) ==
    LET debited == [c EXCEPT ![tx.from] = CachedImbalance(ch, c, tx.from) - 1]
    IN  [debited EXCEPT ![tx.to] = CachedImbalance(ch, debited, tx.to) + 1]

-----------------------------------------------------------------------------
(* The pool.                                                               *)

\* reprocessQueue's loop over a snapshot q of the queue at chain height h,
\* with ledger ch.
\* acc.queue collects the survivors, acc.dropped the ids deleted from
\* txMap, acc.cache the rebuilt cache.  An invalid interaction is removed;
\* a ledger error at position failAt returns at once, leaving the rest of
\* the queue in place; an unfundable interaction is removed.
RECURSIVE Revalidate(_, _, _, _, _, _)
Revalidate(ch, q, i, h, failAt, acc) ==
    IF i > Len(q) THEN acc
    ELSE LET tx == q[i] IN
         CASE ~ScribableAt(tx, h + 1) ->
                Revalidate(ch, q, i + 1, h, failAt, [acc EXCEPT !.dropped = @ \cup {tx}])
           [] i = failAt /\ NeedsLedger(acc.cache, tx) ->
                [acc EXCEPT !.queue = @ \o SubSeq(q, i, Len(q))]
           [] ~CanApply(ch, acc.cache, tx) ->
                Revalidate(ch, q, i + 1, h, failAt, [acc EXCEPT !.dropped = @ \cup {tx}])
           [] OTHER ->
                Revalidate(ch, q, i + 1, h, failAt,
                           [acc EXCEPT !.queue = Append(@, tx),
                                       !.cache = ApplyToCache(ch, @, tx)])

\* Mutant of ReprocessQueue: revalidates for the current height instead of
\* the next plot's height (height + 1).
ReprocessQueueSameHeight(ch, q, m, h) ==
    LET r == Revalidate(ch, q, 1, h - 1, 0,
                        [queue |-> <<>>, dropped |-> {}, cache |-> EmptyCache])
    IN /\ queue' = r.queue
       /\ txMap' = m \ r.dropped
       /\ cache' = r.cache

\* Mutant of ReprocessQueue: the imbalance cache is not reset first.
ReprocessQueueNoReset(ch, q, m, h) ==
    LET r == Revalidate(ch, q, 1, h, 0,
                        [queue |-> <<>>, dropped |-> {}, cache |-> cache])
    IN /\ queue' = r.queue
       /\ txMap' = m \ r.dropped
       /\ cache' = r.cache

\* reprocessQueue(h) run on queue q and index m: reset the cache, then
\* revalidate every entry.  failAt = 0 means no ledger error.
ReprocessQueue(ch, q, m, h) ==
    \E failAt \in (IF LedgerMayFail THEN 0..Len(q) ELSE {0}) :
        LET r == Revalidate(ch, q, 1, h, failAt,
                            [queue |-> <<>>, dropped |-> {}, cache |-> EmptyCache])
        IN /\ queue' = r.queue
           /\ txMap' = m \ r.dropped
           /\ cache' = r.cache

\* Mutant of Add: the insufficient-imbalance early return is dropped.
AddUnchecked(tx) ==
    /\ tx \notin txMap
    /\ cache' = ApplyToCache(chain, cache, tx)
    /\ queue' = Append(queue, tx)
    /\ txMap' = txMap \cup {tx}

\* Add(id, tx): a known id or an unfundable sender leaves the pool
\* unchanged (returns false / an error); otherwise the interaction is
\* applied to the cache and pushed to the back.
Add(tx) ==
    /\ tx \notin txMap
    /\ CanApply(chain, cache, tx)
    /\ cache' = ApplyToCache(chain, cache, tx)
    /\ queue' = Append(queue, tx)
    /\ txMap' = txMap \cup {tx}

\* Mutant of AddBatch: walks txs first to last, so the batch lands at the
\* front in reverse order.
AddBatchForward(txs) ==
    /\ queue' = Reverse(txs) \o SelectSeq(queue, LAMBDA t : t \notin Range(txs))
    /\ txMap' = txMap \cup Range(txs)
    /\ UNCHANGED cache

\* AddBatch(ids, txs, height): walking txs from last to first, remove each
\* from its current position if present and push it to the front.  No
\* revalidation and no cache update.
AddBatch(txs) ==
    /\ queue' = txs \o SelectSeq(queue, LAMBDA t : t \notin Range(txs))
    /\ txMap' = txMap \cup Range(txs)
    /\ UNCHANGED cache

\* Mutant of RemoveBatch: removes the listed interactions from the list but
\* forgets to delete them from txMap.
RemoveBatchKeepIndex(ch, ids, h, more) ==
    LET q == SelectSeq(queue, LAMBDA t : t \notin ids)
    IN \/ /\ more
          /\ queue' = q
          /\ UNCHANGED <<txMap, cache>>
       \/ /\ ~more
          /\ ReprocessQueue(ch, q, txMap, h)

\* Mutant of RemoveBatch: with more = TRUE the ids are left in place for
\* the final reprocessQueue to drop.
RemoveBatchDeferred(ch, ids, h, more) ==
    \/ /\ more
       /\ UNCHANGED <<queue, txMap, cache>>
    \/ /\ ~more
       /\ ReprocessQueue(ch, SelectSeq(queue, LAMBDA t : t \notin ids), txMap \ ids, h)

\* RemoveBatch(ids, height, more): remove the listed ids that are present;
\* unless more connections follow, reprocess the queue at height.
RemoveBatch(ch, ids, h, more) ==
    LET q == SelectSeq(queue, LAMBDA t : t \notin ids)
        m == txMap \ ids
    IN \/ /\ more
          /\ queue' = q
          /\ txMap' = m
          /\ UNCHANGED cache
       \/ /\ ~more
          /\ ReprocessQueue(ch, q, m, h)

-----------------------------------------------------------------------------
(* Actors.                                                                 *)

\* A peer submits an interaction; the processor has already checked that
\* it is not confirmed and is scribable in the next plot.
SubmitInteraction(tx) ==
    /\ tx \notin Range(Confirmed(chain))
    /\ ScribableAt(tx, Height + 1)
    /\ Add(tx)
    /\ UNCHANGED <<chain, phase, forkLen>>

\* A new plot extends the tip outside any reorg.
ConnectTip(p) ==
    /\ phase = "idle"
    /\ PlotValid(p, chain, Len(chain))
    /\ chain' = Append(chain, p)
    /\ RemoveBatch(chain', Range(p.txs), Len(chain), FALSE)
    /\ UNCHANGED <<phase, forkLen>>

\* A reorg disconnects the tip; its non-plotroot interactions return to
\* the front of the pool at height Len(chain) - 2.
DisconnectTip ==
    /\ phase \in {"idle", "disconnecting"}
    /\ Len(chain) > 1
    /\ forkLen' = IF phase = "idle" THEN Len(chain) ELSE forkLen
    /\ phase' = "disconnecting"
    /\ chain' = Front(chain)
    /\ AddBatch(Last(chain).txs)

\* The reorg connects the new branch; the last connect, the one that makes
\* it longer than the old branch, carries more = FALSE.
ConnectBranch(p) ==
    LET more == Len(chain) + 1 <= forkLen IN
    /\ phase \in {"disconnecting", "connecting"}
    /\ PlotValid(p, chain, Len(chain))
    /\ chain' = Append(chain, p)
    /\ phase' = IF more THEN "connecting" ELSE "idle"
    /\ RemoveBatch(chain', Range(p.txs), Len(chain), more)
    /\ UNCHANGED forkLen

Init ==
    /\ queue = <<>>
    /\ txMap = {}
    /\ cache = EmptyCache
    /\ chain = << [root |-> GenesisKey, txs |-> <<>>] >>
    /\ phase = "idle"
    /\ forkLen = 0

Next ==
    \/ \E tx \in Txs : SubmitInteraction(tx)
    \/ \E p \in Plots : ConnectTip(p)
    \/ DisconnectTip
    \/ \E p \in Plots : ConnectBranch(p)

Spec == Init /\ [][Next]_vars

\* Bounds the main branch; states beyond it are not explored.
ChainBound == Len(chain) <= MaxLen

-----------------------------------------------------------------------------
(* Properties.                                                             *)

\* Types; imbalances in the cache are never negative, since Apply refuses
\* a sender without a unit to spend.
TypeOK ==
    /\ queue \in Seq(Txs)
    /\ txMap \subseteq Txs
    /\ cache \in [Keys -> Nat \cup {NoEntry}]
    /\ chain \in Seq(Plots)
    /\ phase \in {"idle", "disconnecting", "connecting"}
    /\ forkLen \in Nat

\* The id index and the list agree through Add, AddBatch (which moves an
\* id already present), RemoveBatch and reprocessQueue's deletions: every
\* queued interaction is indexed exactly once and nothing else is indexed.
QueueIndexConsistent ==
    /\ txMap = Range(queue)
    /\ Cardinality(Range(queue)) = Len(queue)

\* Once a tip change has been fully processed (no reorg in flight), every
\* pooled interaction could go into the next plot: it is scribable at
\* Height + 1, not already confirmed, and the pool in order is fundable
\* from the ledger's imbalances.  This is what RemoveBatch(more = FALSE)
\* and its reprocessQueue promise after connects, disconnects and Adds
\* interleaved during the reorg.
SettledQueueValid ==
    phase = "idle" =>
        /\ \A i \in DOMAIN queue : ScribableAt(queue[i], Height + 1)
        /\ Range(queue) \cap Range(Confirmed(chain)) = {}
        /\ FundableFrom([k \in Keys |-> LedgerImbalance(chain, k)], queue)

\* Once settled, the imbalance cache Add checks against is exactly the
\* ledger plus the pooled interactions, for every key: a stale entry left
\* from before a connect or disconnect would let Add accept an overspend
\* or reject a fundable interaction.
SettledCacheCoherent ==
    phase = "idle" =>
        \A k \in Keys : CachedImbalance(chain, cache, k) = LedgerImbalance(chain, k) + Net(queue, k)

\* Before(s, a, b): a precedes b in s.
Before(s, a, b) == \E i, j \in DOMAIN s : i < j /\ s[i] = a /\ s[j] = b

\* No step reorders two interactions that stay pooled, except that a
\* disconnect moves the disconnected plot's interactions to the front, in
\* their order in the plot, ahead of everything else.
PriorityPreserved ==
    [][ LET moved == IF Len(chain') < Len(chain) THEN Range(Last(chain).txs) ELSE {}
        IN /\ \A a, b \in (Range(queue) \cap Range(queue')) \ moved :
                  Before(queue, a, b) => Before(queue', a, b)
           /\ Len(chain') < Len(chain) => IsPrefix(Last(chain).txs, queue')
      ]_vars

\* The pool implements PoolAbs: an interaction enters only by Add or by the
\* AddBatch of a disconnected plot, and leaves only through RemoveBatch on
\* a tip change; one the new branch confirms is gone after every connect,
\* including the more = TRUE connects of a reorg that skip reprocessQueue.
Abs == INSTANCE PoolAbs WITH
           pending <- Range(queue), confirmed <- Range(Confirmed(chain)), tip <- chain

PoolRefinement == Abs!Spec
=============================================================================
