------------------------------ MODULE MCIndexer ------------------------------
(* Indexer with two user keys, plots of a plotroot and at most one other  *)
(* interaction a -> b, and a main branch of up to three plots, enough for *)
(* a reorg of depth two and for plots to arrive during each phase of      *)
(* startup.                                                                *)
EXTENDS Indexer

CONSTANTS a, b

MCKeys == {a, b}

MCTxPairs == {<<a, b>>}
=============================================================================
