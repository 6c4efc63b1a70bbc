---------------------------- MODULE MCGraphAccess ----------------------------
(* The graph after one plotroot (zero key -> a) has been indexed; the next *)
(* plot carries a -> b and a plotroot zero key -> b, so Link inserts a new *)
(* key and node, a new inner edge map, and entries into existing ones.     *)
EXTENDS GraphAccess

CONSTANTS zk, a, b

MCKeys == {zk, a, b}
MCInitLinks == <<<<zk, a, 1>>>>
MCLinks == <<<<a, b, 1>>, <<zk, b, 1>>>>
=============================================================================
