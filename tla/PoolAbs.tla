------------------------------ MODULE PoolAbs ------------------------------
(***************************************************************************)
(* What the interaction pool promises its callers, without order, index   *)
(* or cache: a set of pending interactions beside the set confirmed on    *)
(* the main branch.  A peer's submission adds one interaction that is     *)
(* neither pending nor confirmed.  Only a change of the main branch may   *)
(* take interactions out of the pool: those it confirms always leave, any *)
(* other may be dropped as no longer valid, and the only interactions it  *)
(* may bring in are those it un-confirms.  InteractionQueue implements    *)
(* this through the mapping in MCInteractionQueue.                        *)
(***************************************************************************)
CONSTANTS Txs

VARIABLES
    pending,    \* the interactions in the pool
    confirmed,  \* the interactions on the main branch
    tip         \* the main branch, compared only for change

vars == <<pending, confirmed, tip>>

Init ==
    /\ pending = {}
    /\ confirmed = {}

Submit(tx) ==
    /\ tx \notin pending \cup confirmed
    /\ pending' = pending \cup {tx}
    /\ UNCHANGED <<confirmed, tip>>

TipChange ==
    /\ tip' # tip
    /\ confirmed' \subseteq Txs
    /\ pending' \subseteq (pending \cup (confirmed \ confirmed')) \ confirmed'

Next == (\E tx \in Txs : Submit(tx)) \/ TipChange

Spec == Init /\ [][Next]_vars
=============================================================================
