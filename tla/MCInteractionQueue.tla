------------------------- MODULE MCInteractionQueue -------------------------
(* Model-checking instance of InteractionQueue: two keys, five            *)
(* interactions chosen so that each of the pool's invalidation paths can   *)
(* happen within four plots: a series switch (PLOTS_UNTIL_NEW_SERIES = 2,  *)
(* lag 1 instead of 100), an expiry, a maturity bound, and conflicting     *)
(* spends of the same key.                                                 *)
EXTENDS InteractionQueue

CONSTANTS k1, k2

MCKeys == {k1, k2}

Tx(f, t, m, e, s) == [from |-> f, to |-> t, matures |-> m, expires |-> e, series |-> s]

MCTxs ==
    { Tx(k1, k2, 0, 0, 1),   \* plain spend of k1
      Tx(k2, k1, 0, 0, 1),   \* plain spend of k2
      Tx(k1, k2, 0, 2, 1),   \* expires after height 2
      Tx(k1, k2, 2, 0, 1),   \* matures = 2
      Tx(k2, k1, 0, 0, 2) }  \* next series
=============================================================================
