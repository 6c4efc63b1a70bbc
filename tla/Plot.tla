-------------------------------- MODULE Plot --------------------------------
(***************************************************************************)
(* Plot construction (src/unnamed/part_002): NewPlot, AddInteraction,     *)
(* computeHashListRoot and addPlotrootToHashListRoot.  A SHA3-256 state    *)
(* is the sequence of byte strings written to it; Sum hashes that         *)
(* sequence without resetting the state, as hash.Hash.Sum(nil) does.      *)
(* Hashes are injective constructors, so two roots are equal exactly when  *)
(* they hash the same ids in the same order.  The header's other fields   *)
(* (time, nonce, target, thread work) are HeaderHasher's concern.         *)
(***************************************************************************)
EXTENDS Integers, Sequences, SequencesExt

CONSTANTS
    Plotroots,              \* plotroot interactions (from = zero key)
    Txs,                    \* ordinary interactions
    MAX_INTERACTIONS_PER_PLOT,
    MaxLen                  \* bound on the length of a plot being scribed

VARIABLES
    plot,   \* NoPlot, or the Plot NewPlot returned, as the scriber holds it
    err     \* the error returned by the last NewPlot or AddInteraction

vars == <<plot, err>>

NoPlot == [interactions |-> <<>>]

\* Interaction.ID(): SHA3-256 of the JSON without the signature.
ID(tx) == [sha3 |-> <<"interaction", tx>>]

\* hasher.Sum(nil) on a state that has absorbed the byte strings in w.
Sum(w) == [sha3 |-> w]

\* addPlotrootToHashListRoot: H(id(plotroot) | hasher.Sum(nil)) with a fresh
\* SHA3 state; the running hasher itself is left as it was.
AddPlotrootToHashListRoot(hasher, plotroot) == Sum(<<ID(plotroot), Sum(hasher)>>)

\* The ids computeHashListRoot writes: every interaction after the plotroot.
NonPlotrootIDs(txs) == [i \in 1..Len(txs) - 1 |-> ID(txs[i + 1])]

\* computeHashListRoot(hasher, txs): the hasher's new state and the root.
ComputeHashListRoot(hasher, txs) ==
    [hasher |-> hasher \o NonPlotrootIDs(txs),
     root   |-> AddPlotrootToHashListRoot(hasher \o NonPlotrootIDs(txs), txs[1])]

\* The lists a scriber can pass to NewPlot: its plotroot, then pooled
\* interactions, possibly one more than the cap allows.
Candidates ==
    {<<p>> \o r : p \in Plotroots, r \in SeqOf(Txs, MAX_INTERACTIONS_PER_PLOT)}

-----------------------------------------------------------------------------

\* Mutant of NewPlot: interaction_count counts only the non-plotroot
\* interactions.
NewPlotCountNonPlotroot(txs) ==
    \/ /\ Len(txs) > MAX_INTERACTIONS_PER_PLOT
       /\ err' = "size exceeds limit"
       /\ UNCHANGED plot
    \/ /\ Len(txs) <= MAX_INTERACTIONS_PER_PLOT
       /\ LET h == ComputeHashListRoot(<<>>, txs) IN
          plot' = [interactions |-> txs, hasher |-> h.hasher,
                   hashListRoot |-> h.root, interactionCount |-> Len(txs) - 1]
       /\ err' = "none"

\* NewPlot: reject a list over the cap; otherwise hash the list with a new
\* SHA3 state and keep that state in the plot for AddInteraction.
NewPlot(txs) ==
    \/ /\ Len(txs) > MAX_INTERACTIONS_PER_PLOT
       /\ err' = "size exceeds limit"
       /\ UNCHANGED plot
    \/ /\ Len(txs) <= MAX_INTERACTIONS_PER_PLOT
       /\ LET h == ComputeHashListRoot(<<>>, txs) IN
          plot' = [interactions |-> txs, hasher |-> h.hasher,
                   hashListRoot |-> h.root, interactionCount |-> Len(txs)]
       /\ err' = "none"

\* Mutant of AddInteraction: the plotroot is re-mixed before the new id is
\* written to the running hasher.
AddInteractionRemixFirst(tx) ==
    /\ plot # NoPlot
    /\ Len(plot.interactions) < MaxLen
    /\ plot' = [plot EXCEPT !.hasher = Append(@, ID(tx)),
                            !.hashListRoot = AddPlotrootToHashListRoot(plot.hasher,
                                                                       plot.interactions[1]),
                            !.interactions = Append(@, tx),
                            !.interactionCount = @ + 1]
    /\ err' = "none"

\* AddInteraction(id, tx) with id = tx.ID(): write the id to the running
\* hasher, re-mix the plotroot, append tx and count it.  There is no check
\* against MAX_INTERACTIONS_PER_PLOT.
AddInteraction(tx) ==
    /\ plot # NoPlot
    /\ Len(plot.interactions) < MaxLen
    /\ LET hasher == Append(plot.hasher, ID(tx)) IN
       plot' = [plot EXCEPT !.hasher = hasher,
                            !.hashListRoot = AddPlotrootToHashListRoot(hasher,
                                                                       plot.interactions[1]),
                            !.interactions = Append(@, tx),
                            !.interactionCount = @ + 1]
    /\ err' = "none"

Init ==
    /\ plot = NoPlot
    /\ err = "none"

Next ==
    \/ \E txs \in Candidates : NewPlot(txs)
    \/ \E tx \in Txs : AddInteraction(tx)

Spec == Init /\ [][Next]_vars

-----------------------------------------------------------------------------

TypeOK ==
    /\ err \in {"none", "size exceeds limit"}
    /\ plot # NoPlot =>
          /\ plot.interactions[1] \in Plotroots
          /\ \A i \in 2..Len(plot.interactions) : plot.interactions[i] \in Txs
          /\ plot.interactionCount \in 1..MaxLen

\* Spec property 3 and the header's meaning: after NewPlot and any number
\* of AddInteraction calls on the one running SHA3 state, hash_list_root is
\* the root computed from scratch over the plot's interactions, and
\* interaction_count is their number.
HeaderDescribesInteractions ==
    plot # NoPlot =>
        /\ plot.hashListRoot = ComputeHashListRoot(<<>>, plot.interactions).root
        /\ plot.interactionCount = Len(plot.interactions)
=============================================================================
