------------------------------- MODULE Scriber -------------------------------
(***************************************************************************)
(* The scriber's use of a candidate plot (spec sections 2 and 4.2): it    *)
(* builds the plot with NewPlot, keeps hashing its header with IDFast     *)
(* while trying times and nonces, and appends interactions with           *)
(* AddInteraction mid-scribe.  AddInteraction writes plot.Header's        *)
(* hash_list_root and interaction_count in place, and the header's        *)
(* PlotHeaderHasher, made on the first IDFast, only sees them on its next *)
(* Update.  Each candidate builds on some tip, whose id, height, target   *)
(* and thread work NewPlot puts in the new header.  This composes Plot    *)
(* (the plot and its running SHA3 state), HeaderHasher (the header's JSON *)
(* buffer), Work (computeThreadWork) and the pool's Get; the scriber's    *)
(* loop is not under src/ and is modelled from the spec.                  *)
(***************************************************************************)
EXTENDS Integers, Sequences

CONSTANTS
    Plotroots, Txs, MAX_INTERACTIONS_PER_PLOT, MaxLen,   \* as in Plot
    Radix, IDLen,  \* as in Work: digits of a PlotID
    Times,       \* unix times the scriber's clock may show
    Nonces,      \* nonces it may try
    Tips,        \* NewPlot's previous, height, target (an integer) and
                 \* threadWork (the tip's, as digits) for each tip the
                 \* scriber may build on
    PoolQueues,  \* contents the pool's queue may have when Get is called
    Limits,      \* limits the scriber may pass to Get
    Cap          \* length of the buffer NewPlotHeaderHasher allocates

VARIABLES
    plot, err,   \* the candidate plot, as in Plot
    base,        \* the NewPlot arguments of the candidate (NoTip before one)
    time, nonce, \* plot.Header.Time and plot.Header.Nonce
    hasher,      \* plot.Header.hasher
    result       \* the bytes the last IDFast hashed

vars == <<plot, err, base, time, nonce, hasher, result>>

P == INSTANCE Plot

\* No candidate yet: NewPlot's arguments with no tip.
NoTip == [previous |-> "none", height |-> 0, target |-> 0, threadWork |-> <<>>]

\* Only Work's conversions and work arithmetic are used, not its processor.
W == INSTANCE Work WITH
         Targets <- {}, GenesisTarget <- 0, Ids <- {}, MaxClock <- 0, MaxHeaders <- 0,
         stored <- {}, tip <- NoTip, clock <- 0

\* plot.Header: the fields NewPlot fixes from its arguments (the target as
\* a PlotID, the thread work computeThreadWork of the tip's), the root and
\* count the plot keeps, and the time and nonce the scriber sets.
Header(p, b, t, n) ==
    [previous |-> b.previous, hashListRoot |-> p.hashListRoot, time |-> t,
     target |-> W!SetBigInt(b.target),
     threadWork |-> W!ComputeThreadWork(b.target, b.threadWork),
     nonce |-> n, height |-> b.height, interactionCount |-> p.interactionCount]

\* The hasher's header is plot.Header.  (Its InitHeader and Ids are only
\* used by HeaderHasher's own Init and TypeOK.)
H == INSTANCE HeaderHasher WITH
         Ids <- Plotroots, Counts <- 1..MaxLen, InitHeader <- NoTip,
         header <- Header(plot, base, time, nonce)

\* InteractionQueueMemory.Get(limit): the first limit interactions of the
\* queue in order, or all of them when limit is 0 or the queue is shorter.
Get(queue, limit) ==
    IF limit = 0 \/ Len(queue) < limit THEN queue ELSE SubSeq(queue, 1, limit)

\* The lists the scriber passes to NewPlot: its plotroot first, then what
\* Get returned from the pool.
ScriberCandidates ==
    {<<p>> \o Get(q, l) : p \in Plotroots, q \in PoolQueues, l \in Limits}

Init ==
    /\ P!Init
    /\ base = NoTip
    /\ time \in Times
    /\ nonce \in Nonces
    /\ hasher = H!NewHasher
    /\ result = H!NoHash

\* Mutant of NewCandidate: the new header takes over the old one's hasher.
NewCandidateKeepHasher(b, txs) ==
    /\ P!NewPlot(txs)
    /\ \/ /\ err' = "none"
          /\ base' = b
          /\ time' \in Times
          /\ nonce' \in Nonces
          /\ result' = H!NoHash
          /\ UNCHANGED hasher
       \/ /\ err' # "none"
          /\ UNCHANGED <<base, time, nonce, hasher, result>>

\* The scriber starts a candidate on tip b: NewPlot stamps the header with
\* b's fields, the current time and a random nonce, and the new header has
\* no hasher yet (IDFast makes one).  A rejected list leaves the old
\* candidate.
NewCandidate(b, txs) ==
    /\ P!NewPlot(txs)
    /\ \/ /\ err' = "none"
          /\ base' = b
          /\ time' \in Times
          /\ nonce' \in Nonces
          /\ hasher' = H!NewHasher
          /\ result' = H!NoHash
       \/ /\ err' # "none"
          /\ UNCHANGED <<base, time, nonce, hasher, result>>

\* The scriber appends an interaction to the candidate it is scribing.
AddToCandidate(tx) ==
    /\ P!AddInteraction(tx)
    /\ UNCHANGED <<base, time, nonce, hasher, result>>

\* header.IDFast: with a new time and nonce set, make the hasher if the
\* header has none, then Update it and hash its buffer.
IDFast ==
    /\ plot # P!NoPlot
    /\ time' \in Times
    /\ nonce' \in Nonces
    /\ hasher' = H!Update(hasher, Header(plot, base, time', nonce'))
    /\ result' = H!HashedBytes(hasher')
    /\ UNCHANGED <<plot, err, base>>

Next ==
    \/ \E b \in Tips, txs \in ScriberCandidates : NewCandidate(b, txs)
    \/ \E tx \in Txs : AddToCandidate(tx)
    \/ IDFast

Spec == Init /\ [][Next]_vars

-----------------------------------------------------------------------------

TypeOK ==
    /\ P!TypeOK
    /\ base \in Tips \cup {NoTip}
    /\ time \in Times /\ nonce \in Nonces
    /\ hasher.bufLen \in 0..Len(hasher.buffer)

\* Plot's promise holds inside the scriber: the header's root and count
\* describe the candidate's interactions.
HeaderDescribesInteractions == P!HeaderDescribesInteractions

\* The header a full re-serialisation would give: root and count computed
\* from scratch over the candidate's interactions.
ScratchHeader(p, b, t, n) ==
    Header([p EXCEPT !.hashListRoot = P!ComputeHashListRoot(<<>>, p.interactions).root,
                     !.interactionCount = Len(p.interactions)], b, t, n)

\* Every IDFast, however many AddInteraction calls came since the hasher
\* was made or last updated, hashes exactly the JSON of the header that
\* commits to the candidate's current interactions and to the tip it builds
\* on: the root AddInteraction re-mixed on the retained SHA3 state reaches
\* the hasher's buffer, and the previous, target, thread_work and height
\* that Update never rewrites are those of the current candidate.
IDCommitsToInteractions ==
    [][IDFast => result' = H!Serialize(ScratchHeader(plot', base', time', nonce'))]_vars
=============================================================================
