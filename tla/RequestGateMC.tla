--------------------------- MODULE RequestGateMC ---------------------------
(***************************************************************************)
(* RequestGate with three requests for two permits, a burst of two and a   *)
(* half requests and half a request gained per tick.                       *)
(***************************************************************************)
EXTENDS RequestGate, TLC

CONSTANTS r1, r2, r3

Symmetry == Permutations(Request)
=============================================================================
