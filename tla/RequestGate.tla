---------------------------- MODULE RequestGate ----------------------------
(***************************************************************************)
(* RequestGate of src/src/api.rs: the token bucket of check_rate behind    *)
(* its mutex, and the semaphore of try_acquire.  The two are taken one     *)
(* after the other, and requests on other threads come in between.         *)
(*                                                                         *)
(* The bucket is lazy: it is refilled only when a request looks at it, by  *)
(* the time since last_refill.  `unseen` is that time's worth of units; it *)
(* stops at Burst, beyond which no more could be added.  The code          *)
(* counts in f64, a token being 1.0; here a token is Price units and the   *)
(* arithmetic is exact.                                                    *)
(***************************************************************************)
EXTENDS Integers, FiniteSets

CONSTANTS
  Burst, Price, Refill,  \* as in TokenBucket
  Permits,               \* max_concurrent
  Request,               \* the requests that may be under way
  WindowUnits            \* bound: an observation window ends after the
                         \*   ticks that gain this many units

ASSUME GateAssumption ==
  /\ Burst \in Nat /\ Price \in Nat /\ Refill \in Nat
  /\ 0 < Price /\ Price <= Burst
  /\ 0 < Refill
  /\ Permits \in Nat \ {0}
  /\ WindowUnits \in Nat

VARIABLES
  tokens,     \* TokenBucket.tokens
  unseen,     \* what the bucket gained since last_refill and has not added
  available,  \* Semaphore::available_permits
  passed,     \* the requests that check_rate let through to try_acquire
  held,       \* the requests that hold a permit
  window      \* history: an observation window that opens at any instant,
              \*   the units paid in it and the units its ticks are worth

gateVars == <<tokens, unseen, available, passed, held, window>>

Closed == [open |-> FALSE, paid |-> 0, gained |-> 0]

(* Types; the bucket never holds less than nothing or more than its burst. *)
GateTypeOK ==
  /\ tokens \in 0 .. Burst
  /\ unseen \in 0 .. Burst
  /\ available \in 0 .. Permits
  /\ passed \in SUBSET Request
  /\ held \in SUBSET Request
  /\ window \in [open : BOOLEAN, paid : Nat, gained : 0 .. WindowUnits]

GateInit ==
  /\ tokens = Burst
  /\ unseen = 0
  /\ available = Permits
  /\ passed = {}
  /\ held = {}
  /\ window = Closed

AtMost(n, bound) == IF n > bound THEN bound ELSE n

(* Defect: a refill with no burst to stop at.                              *)
Uncapped == tokens + unseen

(* (bucket.tokens + elapsed * bucket.rate_per_second).min(bucket.burst)    *)
Refilled == AtMost(tokens + unseen, Burst)

(* !(bucket.tokens < 1.0)                                                  *)
Affords(n) == n >= Price

(* Defect: a refusal that adds the refill but leaves last_refill behind.   *)
RefillTwice(r) ==
  /\ r \notin passed \cup held
  /\ ~Affords(Refilled)
  /\ tokens' = Refilled
  /\ UNCHANGED <<unseen, available, passed, held, window>>

(* check_rate returns false.                                               *)
RateLimit(r) ==
  /\ r \notin passed \cup held
  /\ ~Affords(Refilled)
  /\ tokens' = Refilled
  /\ unseen' = 0
  /\ UNCHANGED <<available, passed, held, window>>

(* check_rate returns true.                                                *)
PassRate(r) ==
  /\ r \notin passed \cup held
  /\ Affords(Refilled)
  /\ tokens' = Refilled - Price
  /\ unseen' = 0
  /\ passed' = passed \cup {r}
  /\ window' = IF window.open THEN [window EXCEPT !.paid = @ + Price] ELSE window
  /\ UNCHANGED <<available, held>>

(* try_acquire finds a permit.                                             *)
Acquire(r) ==
  /\ r \in passed
  /\ available > 0
  /\ available' = available - 1
  /\ passed' = passed \ {r}
  /\ held' = held \cup {r}
  /\ UNCHANGED <<tokens, unseen, window>>

(* try_acquire finds none: the request is refused, its token is spent.     *)
Saturate(r) ==
  /\ r \in passed
  /\ available = 0
  /\ passed' = passed \ {r}
  /\ UNCHANGED <<tokens, unseen, available, held, window>>

(* The permit is dropped with the request's future, however that ends.     *)
Release(r) ==
  /\ r \in held
  /\ available' = available + 1
  /\ held' = held \ {r}
  /\ UNCHANGED <<tokens, unseen, passed, window>>

GateTick ==
  /\ unseen' = AtMost(unseen + Refill, Burst)
  /\ window' = IF ~window.open \/ window.gained + Refill > WindowUnits THEN Closed
               ELSE [window EXCEPT !.gained = @ + Refill]
  /\ UNCHANGED <<tokens, available, passed, held>>

OpenWindow ==
  /\ ~window.open
  /\ window' = [Closed EXCEPT !.open = TRUE]
  /\ UNCHANGED <<tokens, unseen, available, passed, held>>

GateNext ==
  \/ \E r \in Request :
       RateLimit(r) \/ PassRate(r) \/ Acquire(r) \/ Saturate(r) \/ Release(r)
  \/ GateTick
  \/ OpenWindow

GateSpec == GateInit /\ [][GateNext]_gateVars

-----------------------------------------------------------------------------
(* However the requests arrive, the requests let through in any stretch of *)
(* time cost at most one burst and what the rate allows in that time, even *)
(* though the bucket is refilled only when somebody looks.                 *)
WindowBound == window.paid <= Burst + window.gained

(* What window bounds needs: what was paid, and what could be paid now.    *)
WindowBudget == window.open => window.paid + Refilled <= Burst + window.gained

(* The lazy bucket is the bucket that is refilled at every tick: laziness  *)
(* neither grants nor withholds a request.                                 *)
Bucket == INSTANCE TokenBucket WITH level <- Refilled
LazyIsEager == Bucket!BucketSpec
=============================================================================
