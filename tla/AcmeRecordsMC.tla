--------------------------- MODULE AcmeRecordsMC ---------------------------
(***************************************************************************)
(* AcmeRecords on small instances.  Two values take one unit of the        *)
(* message and a third takes two; what fits is what WireUnits can hold.    *)
(***************************************************************************)
EXTENDS AcmeRecords, FiniteSetsExt, TLC

CONSTANTS
  h1, h2, q1, q2,       \* tasks
  short, brief, long,   \* values
  WireUnits             \* the units one message can hold

SizeOf(v) == IF v = long THEN 2 ELSE 1

FitsUnits(S) == MapThenSumSet(SizeOf, S) <= WireUnits

Symmetry ==
  Permutations(Handler) \cup Permutations(Query) \cup Permutations({short, brief})
=============================================================================
