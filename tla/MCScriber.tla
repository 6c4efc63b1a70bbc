------------------------------ MODULE MCScriber ------------------------------
(* The scriber with two plotroots and three interactions, a cap of 2 so   *)
(* that NewPlot both accepts and rejects, candidates of up to 4            *)
(* interactions, times of 1 and 2 digits and nonces of 1 to 3 digits, so  *)
(* AddInteraction's new root meets every shift of the fields after it.    *)
(* Two tips differ in every field NewPlot fixes, heights of 1 and 2       *)
(* digits included; PlotIDs have three radix-4 digits as in MCWork.  The  *)
(* pool holds up to three distinct interactions, and the scriber asks Get *)
(* for one of them or (limit 0) for all.                                  *)
EXTENDS Scriber, SequencesExt

CONSTANTS p0, p1, x1, x2, prev0, prev1

MCPlotroots == {p0, p1}
MCTxs == {x1, x2}

MCTips ==
    {[previous |-> prev0, height |-> 9, target |-> 15, threadWork |-> <<0, 1, 0>>],
     [previous |-> prev1, height |-> 10, target |-> 31, threadWork |-> <<0, 2, 1>>]}

\* The queue never holds an interaction twice (QueueIndexConsistent).
MCPoolQueues == {q \in SeqOf(MCTxs, 2) : IsInjective(q)}

\* NewPlotHeaderHasher's length: the nine labels, four hex fields, three
\* int64 decimals of at most 3 digits here, and a count of at most 2.
MCCap == 9 + 4 + 3 * 3 + 2
=============================================================================
