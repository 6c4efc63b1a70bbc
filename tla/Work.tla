-------------------------------- MODULE Work --------------------------------
(***************************************************************************)
(* Proof-of-work accounting and tip comparison (src/unnamed/part_002):    *)
(* PlotID.GetBigInt / SetBigInt, computePlotWork, computeThreadWork and    *)
(* PlotHeader.Compare.  A PlotID is a big-endian sequence of IDLen digits  *)
(* of radix Radix, standing for 32 bytes of radix 256, so 2^256 becomes    *)
(* Radix^IDLen.  The processor that stores headers and keeps the best one *)
(* as its tip is not under src/; it is modelled from the spec (section 3, *)
(* tip comparison) as the caller of these functions.                      *)
(***************************************************************************)
EXTENDS Integers, Sequences, FiniteSets, SequencesExt

CONSTANTS
    Radix,          \* values of one digit of a PlotID (256 in the code)
    IDLen,          \* digits of a PlotID (32 in the code)
    Targets,        \* targets, as integers, the stored headers may carry
    GenesisTarget,  \* the genesis header's target
    Ids,            \* header ids (PlotIDs) the stored headers may have
    MaxClock,       \* bound on the store-time clock (unix seconds)
    MaxHeaders      \* bound on the number of stored headers

VARIABLES
    stored,   \* the headers stored so far: [target, threadWork, id, when]
    tip,      \* the best of them, by Compare
    clock     \* the current time, used as the store time ("when")

vars == <<stored, tip, clock>>

-----------------------------------------------------------------------------
(* Conversions between PlotID and big.Int.                                 *)

\* PlotID.GetBigInt: new(big.Int).SetBytes(id[:]), big-endian.
GetBigInt(id) == FoldLeft(LAMBDA acc, d : acc * Radix + d, 0, id)

\* big.Int.Bytes(): the minimal big-endian digits of n (none for 0).
RECURSIVE MinimalDigits(_)
MinimalDigits(n) == IF n = 0 THEN <<>> ELSE MinimalDigits(n \div Radix) \o <<n % Radix>>

\* Mutant of SetBigInt: the digits are not right-aligned in the 32 bytes.
SetBigIntUnpadded(n) == MinimalDigits(n)

\* PlotID.SetBigInt: zero the id and copy the digits right-aligned.  When
\* n needs more than IDLen digits the code panics ("Too much work"); the
\* result is then longer than IDLen, which TypeOK rules out.
SetBigInt(n) == [i \in 1..IDLen - Len(MinimalDigits(n)) |-> 0] \o MinimalDigits(n)

-----------------------------------------------------------------------------
(* Work.                                                                   *)

\* computePlotWork: 0 for a target <= 0, else 2^256 div (target + 1).
ComputePlotWork(target) ==
    IF target <= 0 THEN 0 ELSE (Radix ^ IDLen) \div (target + 1)

\* computeThreadWork: the previous thread work plus the plot's work.
ThreadWorkInt(target, threadWork) == GetBigInt(threadWork) + ComputePlotWork(target)
ComputeThreadWork(target, threadWork) == SetBigInt(ThreadWorkInt(target, threadWork))

-----------------------------------------------------------------------------
(* Comparison.                                                             *)

\* Mutant of Compare: a tie in work goes to the header stored later.
CompareLaterWins(h, their, thisWhen, theirWhen) ==
    LET mine == GetBigInt(h.threadWork)
        theirs == GetBigInt(their.threadWork)
    IN \/ mine > theirs
       \/ mine = theirs /\ thisWhen > theirWhen
       \/ mine = theirs /\ thisWhen = theirWhen /\ GetBigInt(h.id) < GetBigInt(their.id)

\* Mutant of Compare: no tie-break by id; equal work and time is "not better".
CompareNoIdTieBreak(h, their, thisWhen, theirWhen) ==
    LET mine == GetBigInt(h.threadWork)
        theirs == GetBigInt(their.threadWork)
    IN \/ mine > theirs
       \/ mine = theirs /\ thisWhen < theirWhen

\* PlotHeader.Compare: most work wins, then the header stored first, then
\* the lesser id.
Compare(h, their, thisWhen, theirWhen) ==
    LET mine == GetBigInt(h.threadWork)
        theirs == GetBigInt(their.threadWork)
    IN \/ mine > theirs
       \/ mine = theirs /\ thisWhen < theirWhen
       \/ mine = theirs /\ thisWhen = theirWhen /\ GetBigInt(h.id) < GetBigInt(their.id)

\* Reference order, from the spec's wording: greater work, then earlier
\* arrival, then the lexicographically smaller id, comparing PlotIDs digit
\* by digit as their hex strings compare.
RECURSIVE DigitsLess(_, _)
DigitsLess(x, y) ==
    /\ x # <<>>
    /\ \/ Head(x) < Head(y)
       \/ Head(x) = Head(y) /\ DigitsLess(Tail(x), Tail(y))

Better(a, b) ==
    \/ DigitsLess(b.threadWork, a.threadWork)
    \/ a.threadWork = b.threadWork /\ a.when < b.when
    \/ a.threadWork = b.threadWork /\ a.when = b.when /\ DigitsLess(a.id, b.id)

-----------------------------------------------------------------------------
(* The processor, from the spec: store headers, keep the best as tip.      *)

Genesis ==
    [target |-> GenesisTarget,
     threadWork |-> ComputeThreadWork(GenesisTarget, SetBigInt(0)),
     id |-> CHOOSE i \in Ids : TRUE, when |-> 0]

Init ==
    /\ stored = {Genesis}
    /\ tip = Genesis
    /\ clock = 0

\* A header with a new id extends a stored one: its thread work is
\* computeThreadWork of its target on the parent's, it is stored now, and
\* it becomes the tip if Compare says it is better than the tip.
StoreHeader ==
    \E parent \in stored, target \in Targets, id \in Ids :
        /\ Cardinality(stored) < MaxHeaders
        /\ \A h \in stored : h.id # id
        /\ LET h == [target |-> target,
                     threadWork |-> ComputeThreadWork(target, parent.threadWork),
                     id |-> id, when |-> clock]
           IN /\ stored' = stored \cup {h}
              /\ tip' = IF Compare(h, tip, h.when, tip.when) THEN h ELSE tip
        /\ UNCHANGED clock

\* A second passes.
Tick ==
    /\ clock < MaxClock
    /\ clock' = clock + 1
    /\ UNCHANGED <<stored, tip>>

Next == StoreHeader \/ Tick

Spec == Init /\ [][Next]_vars

-----------------------------------------------------------------------------

TypeOK ==
    /\ tip \in stored
    /\ \A h \in stored : Len(h.threadWork) = IDLen /\ h.when \in 0..clock

\* The tip, kept by comparing each new header only with the current tip,
\* is better by Compare than every other stored header: Compare must be
\* transitive and total for the incremental choice to find the best.
TipIsBest == \A h \in stored \ {tip} : Compare(tip, h, tip.when, h.when)

\* Compare, through GetBigInt, orders every pair of stored headers exactly
\* as the reference order on their digit sequences does.
CompareMatchesReference ==
    \A a, b \in stored : Compare(a, b, a.when, b.when) = Better(a, b)
=============================================================================
