------------------------------- MODULE MCWork -------------------------------
(* Work with PlotIDs of three radix-4 digits (2^256 becomes 64).  Targets  *)
(* 15, 31 and 63 give plot works 4, 2 and 1, so four stored headers reach  *)
(* equal thread work by different paths (ties go to the store time, then   *)
(* the id) and never overflow.  Ids differ in their first, second or last  *)
(* digit, so the id tie-break compares digits at every position.          *)
EXTENDS Work

MCIds == {<<0, 1, 2>>, <<0, 2, 1>>, <<1, 0, 0>>, <<0, 1, 3>>}
=============================================================================
