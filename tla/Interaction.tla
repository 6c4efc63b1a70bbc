----------------------------- MODULE Interaction -----------------------------
(***************************************************************************)
(* The rules of a single interaction (src/unnamed/part_000): maturity,     *)
(* expiry and series.  An interaction is a record; its identity (the       *)
(* SHA3-256 of its JSON without signature) is abstracted to the record     *)
(* itself, so two interactions have the same id iff they are equal.        *)
(* The Interaction type has no amount field, so every non-plotroot         *)
(* interaction moves one unit of imbalance from "from" to "to".            *)
(***************************************************************************)
EXTENDS Integers

CONSTANTS
    Keys,                   \* public keys (model values)
    PLOTS_UNTIL_NEW_SERIES, \* protocol constant, scaled down for TLC
    SeriesLag               \* the literal 100 of computeInteractionSeries, scaled down

ASSUME PLOTS_UNTIL_NEW_SERIES \in Nat \ {0}
ASSUME SeriesLag \in Nat

\* The shape of an interaction: time, nonce, memo and signature are left
\* out because none of the pool's decisions read them.
InteractionRecords ==
    [from: Keys, to: Keys, matures: Nat, expires: Nat, series: Int]

\* Go's integer division truncates toward zero; TLA+'s \div floors.
\* They differ for the negative numerator (height - 100) below height 100.
GoDiv(a, b) == IF a >= 0 THEN a \div b ELSE -((-a) \div b)

\* computeInteractionSeries: plotroots switch series on time, other
\* interactions SeriesLag plots later.
ComputeInteractionSeries(isPlotroot, height) ==
    IF isPlotroot THEN GoDiv(height, PLOTS_UNTIL_NEW_SERIES) + 1
                  ELSE GoDiv(height - SeriesLag, PLOTS_UNTIL_NEW_SERIES) + 1

\* checkInteractionSeries (referenced by the pool, not part of src): the
\* series must equal the one computed for a non-plotroot at that height.
CheckInteractionSeries(tx, height) ==
    tx.series = ComputeInteractionSeries(FALSE, height)

\* IsMature, exactly as written: an unset "matures" is always mature,
\* otherwise the interaction is mature while height <= matures.
IsMature(tx, height) == tx.matures = 0 \/ tx.matures >= height

\* IsExpired: an unset "expires" never expires.
IsExpired(tx, height) == tx.expires # 0 /\ tx.expires < height

\* The three checks reprocessQueue applies for inclusion at "height".
ScribableAt(tx, height) ==
    /\ CheckInteractionSeries(tx, height)
    /\ IsMature(tx, height)
    /\ ~IsExpired(tx, height)
=============================================================================
