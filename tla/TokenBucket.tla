---------------------------- MODULE TokenBucket ----------------------------
(***************************************************************************)
(* What the rate limit promises: a bucket that gains Refill units at every *)
(* tick until it holds Burst, pays Price for each request it admits,       *)
(* and refuses a request only when it cannot pay.                          *)
(***************************************************************************)
EXTENDS Integers

CONSTANTS
  Burst,      \* what it may hold, in units
  Price,      \* one request, in units
  Refill      \* what one tick adds, in units

VARIABLE level   \* the units in the bucket

AtMost(n, bound) == IF n > bound THEN bound ELSE n

BucketInit == level = Burst

Pay == level >= Price /\ level' = level - Price

Refuse == level < Price /\ UNCHANGED level

Gain == level' = AtMost(level + Refill, Burst)

BucketNext == Pay \/ Refuse \/ Gain

BucketSpec == BucketInit /\ [][BucketNext]_level
=============================================================================
