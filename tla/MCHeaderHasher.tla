--------------------------- MODULE MCHeaderHasher ---------------------------
(* HeaderHasher with decimal fields whose lengths can grow and shrink:    *)
(* times of 1 and 2 digits, nonces of 1 to 3, counts of 1 and 2.  The     *)
(* buffer capacity follows NewPlotHeaderHasher: every label, the four hex *)
(* fields, and the longest time, nonce and height plus the longest count. *)
EXTENDS HeaderHasher

CONSTANTS r0, r1, p0, t0, w0

MCIds == {r0, r1}

MCInitHeader ==
    [previous |-> p0, hashListRoot |-> r0, time |-> 9, target |-> t0,
     threadWork |-> w0, nonce |-> 100, height |-> 42, interactionCount |-> 1]

MCCap == 9 + 4 + 3 * 3 + 2
=============================================================================
