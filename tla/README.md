# TLA+ models of plot-thread

These TLA+ modules model the concurrent and stateful parts of the plot-thread
node (`src/`), and TLC configurations check them. Everything under `src/` is
translated from the code. The processor, the ledger and the imbalance cache
are not under `src/`. Where the models need them, they follow `spec.md`, and
PROJECT.json marks those definitions `spec_modelled`.

## 1. Inventory of the system

| Part | Source | State | Operations | Interacts with |
|---|---|---|---|---|
| Interaction rules | `src/unnamed/part_000` | none (pure) | `IsMature`, `IsExpired`, `computeInteractionSeries`, `ID` | pool, processor |
| Interaction pool | `src/interaction_queue_memory.go` | `txQueue` (list), `txMap` (id → element), `imbalanceCache` | `Add`, `AddBatch`, `RemoveBatch`, `reprocessQueue`; read-only `Get`, `Exists`, `ExistsSigned`, `Len` | peers (Add), processor (AddBatch/RemoveBatch), scriber (Get), ledger (through the cache) |
| Imbalance cache, ledger, processor | not under `src/` (spec §4.5, §5, §6.3) | main branch, cached imbalances, reorg phase, registered channels | connect, disconnect, reorg, notify | pool, indexer |
| Header hasher | `src/plot_header_hasher.go`, `PlotHeader.IDFast` in `part_002` | buffer, offsets and lengths of the mutable fields, previous values, `bufLen` | `NewPlotHeaderHasher`, `initBuffer`, `Update` | scriber (one hasher per header) |
| Plot construction | `part_002` | the plot's running SHA3 state, `HashListRoot`, `InteractionCount` | `NewPlot`, `AddInteraction`, `computeHashListRoot`, `addPlotrootToHashListRoot` | scriber, header hasher |
| Scriber | not under `src/` (spec §2, §4.2) | the candidate plot, the tip it builds on, and its header's time and nonce | build a candidate on a tip from the pool's `Get`, add interactions mid-scribe, call `IDFast` | plot construction, header hasher, work, pool |
| Header comparison and work | `part_002` | none (pure) | `Compare`, `computePlotWork`, `computeThreadWork` | processor |
| Indexer | `src/indexer.go` | `latestPlotID`/`latestHeight`, `txGraph`, `shutdownChan`, the tip-change channel | `run` (sync wait, catch-up walk, rank, register, tip loop), `Shutdown` | ledger, plot store, processor |
| Reputation graph | `src/indexer.go` | `index`, `nodes` (ranking, outbound), `edges` | `NewGraph`, `Link`, `Rank`, `Reset`; read-only `rankings`, `ToDOT` | indexer goroutine, peer goroutines (readers) |
| Peer messages, storage, genesis | `part_001`, `part_003`, `part_004`, `genesis.go` | declarations and a JSON literal | none | none |

The behaviours that make this code hard to get right:

- **Pool during a reorg.** The processor calls `AddBatch` once for each
  disconnected plot, then `RemoveBatch(more = true)` for each connected plot
  but the last, and `RemoveBatch(more = false)` for the last. That last call
  triggers `reprocessQueue`. Peers may call `Add` between any two of these
  calls. While the calls are in flight, `AddBatch` leaves the cache
  unchanged, so an `Add` in that window is checked against a stale cache.
- **Partial failure of `reprocessQueue`.** It resets the cache and then
  returns on the first ledger error.
- **Header hasher.** A decimal field whose length changes shifts every later
  field. Bytes past the new `bufLen` keep their old contents. The nonce must
  be rewritten when it moves, not only when its value changes.
- **Indexer.** The indexer goroutine races with the processor:
  - plots connected during the walk, or between the walk and registration;
  - the capacity-1 channel with a blocking send;
  - ranking only on `More == false`;
  - shutdown observed by `select`;
  - Rank's convergence loop, which runs with α = 1 and may never exit;
  - peer goroutines answering `get_rank` through `rankings()`, which read
    the `ranking` fields without a lock while `Rank` zeroes and rebuilds
    them in place;
  - peer goroutines answering `get_rank` and `get_graph` through
    `rankings()` and `ToDOT()`, which look up and range over `graph.index`,
    `graph.nodes` and `graph.edges` while `Link` inserts into them. Go's
    runtime may abort the process when it sees this.
- **Plot construction.** `AddInteraction` keeps writing to the SHA3 state
  `NewPlot` created. `Sum(nil)` does not reset that state, so the order of
  "write the id, then re-mix the plotroot" decides the root.
  `AddInteraction` also rewrites `plot.Header`'s root and count under the
  header's hasher, which notices only on its next `Update`. `Update` never
  rewrites previous, target, thread_work or height; `NewPlot` gives each
  candidate a header with no hasher, so `IDFast` builds one for the new tip.
- **Tip choice.** The processor compares each new header only with the
  current tip, so `Compare` must be a strict total order, and it must agree
  with the digits of `PlotID`s converted to big integers and back.

## 2. Modules

| Module | Models | State ↔ code |
|---|---|---|
| `Interaction` | `part_000` rules | `InteractionRecords` (id = the record), `GoDiv` (Go's truncating `/`), `ComputeInteractionSeries`, `IsMature`, `IsExpired`, `ScribableAt` (the three checks of `reprocessQueue`) |
| `InteractionQueue` | the pool, and from the spec the ledger, cache and processor | `queue` = `txQueue`, `txMap` = `DOMAIN txMap`, `cache` = `imbalanceCache` (key ↦ value or `NoEntry`), `chain` = main branch, `phase`/`forkLen` = the processor's reorg progress |
| `MCInteractionQueue` | instance | two keys; five interactions that reach each invalidation path (series switch, expiry, maturity, conflicting spends) |
| `HeaderHasher` | `PlotHeaderHasher` and `IDFast` | `hasher` has one field per Go field. `buffer` is a sequence of cells: a label or a hex field is one cell (both have a fixed width), and a decimal is one cell per character. `result` is the hashed prefix. |
| `MCHeaderHasher` | instance | times of 1–2 digits, nonces of 1–3, counts of 1–2, so every field can grow and shrink |
| `Indexer` | `indexer.go` `run`, `indexRepresentations`, `Link`, `NewGraph`, `Shutdown`, and from the spec the processor | `pc` = position in `run`, `walkHeight` = the walk's `height`, `graph` = `txGraph` edges and outbound totals, `ranked` = the edges the last `Rank` saw, `tipChan` (capacity 1), `registered`, `shutdown` |
| `MCIndexer` | instance | two keys; each plot has a plotroot plus at most one `a → b` interaction; the main branch holds at most 3 plots. `Delivery` picks the processor's send: `"block"` while the channel is full, or `"drop"` on overflow, as spec §5 allows |
| `PoolAbs` | what the pool promises, from no single code line | `pending` (a set), `confirmed`, `tip`. `Submit` adds an interaction that is neither pending nor confirmed. `TipChange` removes every newly confirmed interaction, may drop others, and may bring back only the un-confirmed ones. `InteractionQueue` maps onto it with `pending <- Range(queue)`, `confirmed <- Range(Confirmed(chain))` and `tip <- chain` |
| `Fraction` | exact rationals for `Rank` | reduced `[num, den]` records. `Strict` evaluates each argument once: TLC otherwise re-evaluates lazy arguments when it computes `ENABLED` for fairness, and nested fraction arithmetic becomes exponential |
| `Rank` | `Graph.Rank`, `rankGraph` and `rankings` in `indexer.go` | `graph` (nodes, edge weights, outbound totals), `ranking` (the shared fields), the locals `snapshot` (`nodes`), `leak` and `delta`, `todo` (the nodes the current loop has left), `pc`. Each iteration of Rank's three loops is one step: `Prologue(n)`, `SnapshotNode(n)`, `SpreadFrom(n)`. `BeginPass`, `ScaleLeak` and `EndPass` are the statements between the loops, and `Return` is the loop exit. `RankGraph` calls Rank again. `Rankings` is a peer's unlocked read, recorded in `served` with the history flag `ranked` |
| `MCRank` | instance | α = 1 as the indexer passes it, ε = 1/100 in place of 10⁻⁶. The 32-bit integers of TLC bound the denominators. Graphs: all 16 weightings of two nodes with 0/1 edges, and a chain of three. Also `Periodic` (zero key → a, a ↔ b) |
| `GraphAccess` | `NewGraph`, `Link` and `indexRepresentations` (the writer), `rankings` and `ToDOT` (the readers) in `indexer.go` | `graph` holds the three Go maps. `ops` lists the writes of the `Link` in progress, each with the graph after it, and `writing` is the map whose `mapassign` is under way (its `hashWriting` flag). `BeginWrite` and `EndWrite` bracket each map assignment. `peer` is the request being served and its position in the loops: `RangeIndex`, `LookupKey` and `LookupNode` for `rankings`, and `DotLookup`, `DotOuter`, `DotInner` and `DotNodes` for `ToDOT`. `Access` is a peer's map access, which may abort (`crashed`) while that map's flag is set |
| `MCGraphAccess` | instance | the graph after one plotroot (zero key → a); the next plot links a → b and zero key → b, so `Link` makes every kind of write: a new key and node, a new inner edge map, and updates of existing entries |
| `Plot` | `NewPlot`, `AddInteraction`, `computeHashListRoot`, `addPlotrootToHashListRoot` in `part_002` | `plot` has `interactions`, `hasher` (the sequence of ids written to the retained SHA3 state), `hashListRoot` and `interactionCount`. `err` is the last error. Hashes are injective record constructors |
| `Scriber` | the scriber's loop, from the spec, composing `Plot` (as `P`), `HeaderHasher` (as `H`, whose `header` is `plot.Header`), `Work` (as `W`, for `SetBigInt` and `computeThreadWork`) and the pool's `Get` | `plot`, `err`, `base` (the tip's `previous`, `height`, `target` and thread work passed to `NewPlot`), `time`, `nonce`, `hasher` (`plot.Header.hasher`), `result`. `NewCandidate(b, txs)` is `NewPlot` on tip `b` with the plotroot followed by `Get(queue, limit)`, and a header with no hasher. `AddToCandidate` is `AddInteraction`. `IDFast` sets a time and a nonce, then runs `Update` |
| `MCScriber` | instance | two plotroots, two interactions, cap 2 (so `NewPlot` both accepts and rejects), candidates of up to 4 interactions (so `AddInteraction` runs past the cap), times of 1–2 digits, nonces of 1 and 3 digits, two tips that differ in every fixed field (heights 9 and 10), pool queues of up to two distinct interactions, and `Get` limits 0 (all) and 1 |
| `Work` | `GetBigInt`, `SetBigInt`, `computePlotWork`, `computeThreadWork`, `Compare` in `part_002`, and from the spec the processor's tip choice | a `PlotID` is a big-endian sequence of `IDLen` digits of radix `Radix`. `stored` holds the stored headers, `tip` the best of them, `clock` the store time |
| `MCWork` | instance | 3 radix-4 digits (2^256 becomes 64). Targets 15, 31 and 63 make equal thread work reachable by different paths. Ids differ at every digit position |

Each pool method holds the pool's write lock for its whole body, so each
method is one atomic step. `reprocessQueue` is the recursive operator
`Revalidate` over a snapshot of the queue, and the `RemoveBatch` step
includes it. `ConnectTip` and `ConnectBranch` pass the new chain into
`RemoveBatch`, because the processor updates the ledger before it calls
the pool.

In the indexer, one step of the catch-up walk is one `GetPlotIDForHeight`
call and its `indexRepresentations`. The processor can move between any two
such steps. After registration, the processor's send blocks while the
channel is full. `latestPlotID` and `latestHeight` are read only before the
walk, and afterwards they are only logged, so they are left out.

## 3. Runs

| Run | Config | Expect | What it shows |
|---|---|---|---|
| `pool_core` | `MCInteractionQueue.cfg` | pass (250,548 states) | `QueueIndexConsistent`: the index and the list agree. `SettledQueueValid`: after every settled tip change, every pooled interaction is scribable at the next height, unconfirmed, and fundable in order. `SettledCacheCoherent`: the cache equals ledger + pool for every key. `PriorityPreserved` (action): no step reorders surviving entries, and a disconnect puts the plot's interactions first, in plot order. `PoolRefinement`: the pool implements `PoolAbs`, so even mid-reorg no confirmed interaction stays pooled and nothing enters except by `Add` or a disconnect. |
| `pool_ledger_error` | `MCInteractionQueue_ledgererr.cfg` | violation | A ledger error in `reprocessQueue` leaves unvalidated, unfundable interactions pooled with a reset cache. |
| `header_hasher` | `MCHeaderHasher.cfg` | pass (297 states) | `FastIDMatchesID`: after any sequence of field changes, the bytes `IDFast` hashes are exactly the header's JSON. `TypeOK` includes `bufLen <= len(buffer)`. |
| `indexer_core` | `MCIndexer.cfg` | pass (767,430 states) | `TipChangesTrackChain`: once registered, the graph moves in lockstep with the main branch through connects and reorgs. `RankFresh`: rankings are recomputed after every batch. `ShutdownCompletes`: `run` returns after `Shutdown`. |
| `indexer_startup` | `MCIndexer_startup.cfg` | violation | A plot connected after the walk and before `RegisterForTipChange` is never indexed (5 steps). |
| `indexer_drop` | `MCIndexer_drop.cfg` | violation | With a send that drops when the capacity-1 channel is full, two quick connects lose one notice, and the graph no longer follows the main branch. Spec §5 permits dropping; the indexer cannot recover from it. |
| `rank_core` | `MCRank.cfg` | pass (86,163 states) | `RankConserved`: at every test of `delta > epsilon` the rankings sum to exactly 1, leak included. `RankTerminates`: on these graphs, with α = 1, the first call returns. |
| `rank_torn_read` | `MCRank_torn.cfg` | violation | A `get_rank` answered while `rankGraph` re-runs `Rank` on an already ranked graph reports rankings that sum to less than 1: `SnapshotNode` has zeroed them, or `SpreadFrom` has rebuilt only some (`indexer.go:295`, `:355`). Spec §5 says the indexer owns the graph exclusively, but `rankings` reads it from peer goroutines. |
| `rank_periodic` | `MCRank_periodic.cfg` | violation | With α = 1 on zero key → a, a → b, b → a, the rankings of a and b swap between 1/3 and 2/3 forever. Δ stays at 2/3, so `Rank` never returns (`indexer.go:344`), against spec property 8. |
| `graph_map_race` | `MCGraphAccess.cfg` | violation | `NeverAborts` fails in 5 states: the indexer starts `Link(a, b, 1)` and is inside the assignment `graph.index[b] = 2` when a peer's `rankings(nil)` takes its next step over `graph.index`. Go's runtime aborts the process ("concurrent map iteration and map write"), though spec §5 says the indexer owns the graph exclusively (`indexer.go:224`, `:308`). |
| `scriber_core` | `MCScriber.cfg` | pass (8,848 states) | `HeaderDescribesInteractions`: after `NewPlot` and any number of `AddInteraction` calls, the root equals the root computed from scratch, and the count equals the number of interactions. `IDCommitsToInteractions` (action): every `IDFast`, however many interactions were added since the hasher's last `Update`, hashes the JSON of the header computed from scratch, with the previous, target, thread work and height of the tip the current candidate builds on. |
| `work_core` | `MCWork.cfg` | pass (2,891 states) | `TipIsBest`: comparing each new header only with the tip finds the best stored header. `CompareMatchesReference`: `Compare`, through `GetBigInt`, orders headers as the digit-wise reference order does. `TypeOK` includes that `SetBigInt` right-aligns into exactly `IDLen` digits. |

For every property of a passing run there is a mutant in PROJECT.json: a
plausible bug in the mapped code, which TLC catches. Examples are a
`RemoveBatch` that keeps the index entry, a `reprocessQueue` that skips the
cache reset or checks at `height` rather than `height + 1`, a `RemoveBatch`
that leaves the ids in place while `more` is true, an `UpdateNonce` that
ignores the running offset, an `AddInteraction` that re-mixes before it
writes the id, an `Update` that records the new root before comparing it,
a new candidate that keeps the previous header's hasher, a `Compare` whose
tie goes to the later header, a `Rank` pass that does not
return the leak, and one that does not reset `delta`.

**Bounds.**

- **Pool.** The main branch holds at most 4 plots (`CONSTRAINT ChainBound`),
  and each plot holds at most 2 interactions. The pool's bounds are chosen
  so that:
  - a reorg of depth 2 happens, with a `more = true` connect;
  - a series boundary falls inside the branch (`PLOTS_UNTIL_NEW_SERIES = 2`,
    lag 1 in place of 100);
  - an expiry and a maturity height lie inside the branch.
- **Hasher.** The hasher's small sets of times, nonces and counts cover
  every change of length, in both directions and in combination. `Cap` has
  the same shape as the code's capacity formula.
- **Indexer.** A main branch of 3 plots allows a depth-2 reorg, and a plot
  can arrive in every startup phase.
- **Rank.** Two-node graphs cover every mix of dangling nodes, self-loops
  and cycles. The chain of three adds a node that only receives. ε = 1/100
  keeps the exact denominators within TLC's 32-bit integers; convergence is
  geometric, so a smaller ε only adds passes.
- **Scriber.** A cap of 2 and candidates of up to 4 interactions give two
  `AddInteraction` calls on top of every accepted `NewPlot`, and a rejected
  list: `Get(queue, 0)` on a queue of two, plus the plotroot, is one over
  the cap. The two tips differ in every field `Update` never rewrites, and
  their heights differ in length, so a hasher carried over from one
  candidate to the next would be caught. With `IDFast` calls before, between and after them, every root
  change meets a time or nonce length change. Counts stay below 10, so the
  count's own length change is left to `header_hasher`.
- **Work.** Four headers and two store times give ties in work, then in
  time, so `Compare` reaches all three of its clauses.

**Fairness.**

- The pool's `pool_core` run checks safety only, and so do `scriber_core`,
  `work_core`, `header_hasher` and `graph_map_race`.
- In the indexer, the indexer goroutine is weakly fair: it is always
  runnable.
- `Exit` has its own weak fairness. Once `shutdownChan` is closed it stays
  ready, and Go's `select` picks uniformly among the ready cases, so a
  `select` that keeps offering it eventually takes it.
- The processor and `Shutdown` get no fairness. They are the environment.
- `Rank` is a plain loop in the indexer goroutine, so its steps
  (`RankStep`) are weakly fair: the loop keeps taking passes. A peer's
  `Rankings` read gets no fairness, because peers need never ask.

## 4. Plan

1. Done:
   - `Interaction`;
   - `InteractionQueue`, with its refinement of `PoolAbs`;
   - `HeaderHasher`;
   - `Indexer`, with the startup race and drop-on-full delivery;
   - `Rank` at loop-iteration grain, with peers reading `rankings`;
   - `GraphAccess`: `Link`'s map writes against the peers' `rankings` and
     `ToDOT`;
   - `Plot`, `HeaderHasher`, `Work` and the pool's `Get` composed in
     `Scriber`, with candidates on different tips;
   - `Work`.
2. Open: a candidate built from a pool snapshot that a reorg then
   invalidates. The scriber's reaction to a tip change is not in the spec.
3. Open: `CheckPOW` and the scriber's submission of a solved plot.

## 5. Not modelled

- **`IsMature`'s inversion.** `IsMature` accepts an interaction at heights
  before its `Matures`, against the field's comment. `spec.md` describes
  this behaviour as it is, so it is a documented choice, not a
  disagreement to check.
- **Peer protocol messages** (`part_001`): declarations only.
- **Storage interface** (`part_003`, `part_004`): declarations only.
- **Genesis JSON**: only the initial one-plot branch is modelled.
- **Read-only pool methods** (`Exists`, `ExistsSigned`, `Len`): they
  change no state and hold the pool's read lock. `Get` is modelled where
  the scriber calls it. `ToDOT`'s map accesses are modelled in
  `GraphAccess`, but not the text it formats.
- **Rank on negative outbound totals.** `Rank` builds normalised weights
  only for outbound > 0, and counts leak only for outbound == 0
  (`indexer.go:332–351`). A node with a negative outbound total therefore
  loses its rank on every pass. Such totals arise only from disconnects of
  plots that were never indexed, which is what `indexer_startup` shows.
  `Rank` can be instantiated with such a graph, but no run checks it.
- **`rankings` for an unknown key.** `g.index[keyStr]` yields 0 for a key
  that is not in the graph, so the reply gives that key the ranking of
  node 0. On an empty graph `g.nodes[0]` is nil, and the dereference
  panics. `GraphAccess`'s `LookupKey` and `LookupNode` model both cases.
  The instance starts from a non-empty graph, so that `graph_map_race`
  shows the map race; no run checks the reply's value.
- **Spec property 4.** "plot_work(t1) ≥ plot_work(t2) iff t1 ≤ t2" is
  false for `computePlotWork`, and the spec agrees with the code. Target 0
  has work 0 (§3). With 3 radix-4 digits, targets 32 and 33 both have work
  64 div 33 = 64 div 34 = 1. This is a fact about one pure function, so no
  run checks it.
- **A shutdown deadlock under a processor lock.** The processor is not
  under `src/`, and spec §5 has it coalesce or drop on a full channel
  rather than block while holding a lock. `indexer_drop` models the drop.
- **Signatures, SHA3, base64 and hex encoding**: these are abstracted to
  identity of the encoded value. In the hasher a hex field is one
  fixed-width cell.
- **The hasher's GPU path**: it is commented out.
- **Overflow of the hasher's buffer capacity**: it needs negative
  values or values of maximum width in several fields at once. Inputs to
  the scriber stay below `MAX_NUMBER`, so this is unreachable.
