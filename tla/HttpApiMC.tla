----------------------------- MODULE HttpApiMC -----------------------------
(***************************************************************************)
(* HttpApi with three exchanges for two permits, and room for one token    *)
(* of two values.                                                          *)
(***************************************************************************)
EXTENDS HttpApi, TLC

CONSTANTS h1, h2, h3, q1, short, brief

FitsOne(S) == Cardinality(S) <= 1

Symmetry == Permutations(Handler) \cup Permutations(Value)
=============================================================================
