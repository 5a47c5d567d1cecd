------------------------- MODULE RequestGateProofs -------------------------
(***************************************************************************)
(* Theorems about the request gate, for every burst, rate, price and       *)
(* number of permits, and for any set of requests.                         *)
(***************************************************************************)
EXTENDS RequestGate, FiniteSetTheorems, TLAPS

(* Each permit is either available or held by one request.                 *)
PermitBalance == IsFiniteSet(held) /\ available + Cardinality(held) = Permits

GateInv ==
  /\ GateTypeOK
  /\ passed \cap held = {}
  /\ PermitBalance
  /\ ~window.open => window = Closed
  /\ WindowBudget

LEMMA GateStart == GateInit => GateInv
  BY GateAssumption, FS_EmptySet
  DEF GateInit, GateInv, GateTypeOK, PermitBalance, WindowBudget, Closed,
      Refilled, AtMost

LEMMA GateStep == GateInv /\ [GateNext]_gateVars => GateInv'
  <1> SUFFICES ASSUME GateInv, [GateNext]_gateVars PROVE GateInv'
    OBVIOUS
  <1> USE GateAssumption
  <1>1. Cardinality(held) \in Nat
    BY FS_CardinalityType DEF GateInv, PermitBalance
  <1>2. ASSUME NEW r \in Request, RateLimit(r) PROVE GateInv'
    BY <1>2
    DEF RateLimit, GateInv, GateTypeOK, PermitBalance, WindowBudget, Refilled, AtMost
  <1>3. ASSUME NEW r \in Request, PassRate(r) PROVE GateInv'
    <2>1. /\ tokens' = Refilled - Price /\ unseen' = 0 /\ Refilled \in Price .. Burst
          /\ Refilled' = Refilled - Price
      BY <1>3 DEF PassRate, GateInv, GateTypeOK, Refilled, AtMost, Affords
    <2>2. GateTypeOK' /\ (passed \cap held = {})' /\ PermitBalance'
      BY <1>3, <2>1 DEF PassRate, GateInv, GateTypeOK, PermitBalance
    <2>3. (~window.open => window = Closed)' /\ WindowBudget'
      <3>1. CASE window.open
        <4>1. /\ window'.open /\ window'.paid = window.paid + Price
              /\ window'.gained = window.gained
          BY <1>3, <3>1 DEF PassRate, GateInv, GateTypeOK
        <4>2. window.paid + Refilled <= Burst + window.gained
          BY <3>1 DEF GateInv, WindowBudget
        <4>3. window.paid \in Nat /\ window.gained \in Nat
          BY DEF GateInv, GateTypeOK
        <4> QED
          BY <2>1, <4>1, <4>2, <4>3 DEF WindowBudget
      <3>2. CASE ~window.open
        BY <1>3, <3>2 DEF PassRate, GateInv, WindowBudget, Closed
      <3> QED
        BY <3>1, <3>2
    <2> QED
      BY <2>2, <2>3 DEF GateInv
  <1>4. ASSUME NEW r \in Request, Acquire(r) PROVE GateInv'
    <2>1. r \notin held /\ held' = held \cup {r} /\ available' = available - 1
      BY <1>4 DEF Acquire, GateInv
    <2>2. IsFiniteSet(held') /\ Cardinality(held') = Cardinality(held) + 1
      BY <2>1, FS_AddElement DEF GateInv, PermitBalance
    <2> QED
      BY <1>1, <1>4, <2>1, <2>2
      DEF Acquire, GateInv, GateTypeOK, PermitBalance, WindowBudget, Refilled, AtMost
  <1>5. ASSUME NEW r \in Request, Saturate(r) PROVE GateInv'
    BY <1>5
    DEF Saturate, GateInv, GateTypeOK, PermitBalance, WindowBudget, Refilled, AtMost
  <1>6. ASSUME NEW r \in Request, Release(r) PROVE GateInv'
    <2>1. r \in held /\ held' = held \ {r} /\ available' = available + 1
      BY <1>6 DEF Release
    <2>2. IsFiniteSet(held') /\ Cardinality(held') = Cardinality(held) - 1
      BY <2>1, FS_RemoveElement DEF GateInv, PermitBalance
    <2>3. Cardinality(held') \in Nat
      BY <2>2, FS_CardinalityType
    <2> QED
      BY <1>1, <1>6, <2>1, <2>2, <2>3
      DEF Release, GateInv, GateTypeOK, PermitBalance, WindowBudget, Refilled, AtMost
  <1>7. ASSUME GateTick PROVE GateInv'
    <2>1. Refilled' = AtMost(Refilled + Refill, Burst) /\ Refilled \in 0 .. Burst
      BY <1>7 DEF GateTick, GateInv, GateTypeOK, Refilled, AtMost
    <2>2. GateTypeOK' /\ (passed \cap held = {})' /\ PermitBalance'
      BY <1>7 DEF GateTick, GateInv, GateTypeOK, PermitBalance, AtMost, Closed
    <2>3. (~window.open => window = Closed)' /\ WindowBudget'
      BY <1>7, <2>1 DEF GateTick, GateInv, GateTypeOK, WindowBudget, Closed, AtMost
    <2> QED
      BY <2>2, <2>3 DEF GateInv
  <1>8. ASSUME OpenWindow PROVE GateInv'
    <2>1. window' = [open |-> TRUE, paid |-> 0, gained |-> 0]
      BY <1>8 DEF OpenWindow, Closed
    <2>2. Refilled' = Refilled /\ Refilled <= Burst
      BY <1>8 DEF OpenWindow, GateInv, GateTypeOK, Refilled, AtMost
    <2>3. WindowBudget' /\ (~window.open => window = Closed)'
      BY <2>1, <2>2 DEF WindowBudget, GateInv, GateTypeOK, Refilled, AtMost
    <2>4. window' \in [open : BOOLEAN, paid : Nat, gained : 0 .. WindowUnits]
      BY <2>1
    <2> QED
      BY <1>8, <2>3, <2>4 DEF OpenWindow, GateInv, GateTypeOK, PermitBalance
  <1>9. ASSUME UNCHANGED gateVars PROVE GateInv'
    BY <1>9
    DEF gateVars, GateInv, GateTypeOK, PermitBalance, WindowBudget, Refilled, AtMost
  <1> QED
    BY <1>2, <1>3, <1>4, <1>5, <1>6, <1>7, <1>8, <1>9 DEF GateNext

LEMMA GateInvariant == GateSpec => []GateInv
  BY GateStart, GateStep, PTL DEF GateSpec

(* The bucket stays between empty and its burst, and the semaphore never   *)
(* has more permits than it was made with.                                 *)
THEOREM GateTypeCorrect == GateSpec => []GateTypeOK
  <1>1. GateInv => GateTypeOK
    BY DEF GateInv
  <1> QED
    BY <1>1, GateInvariant, PTL

(* Never more requests in any stretch of time than one burst and what the  *)
(* rate allows in it.                                                      *)
THEOREM RateBounded == GateSpec => []WindowBound
  <1>1. GateInv => WindowBound
    BY GateAssumption
    DEF GateInv, GateTypeOK, WindowBudget, WindowBound, Closed, Refilled, AtMost
  <1> QED
    BY <1>1, GateInvariant, PTL

(* Refilling lazily, when a request looks, is the same as refilling at     *)
(* every tick.                                                             *)
THEOREM LazyRefill == GateSpec => LazyIsEager
  <1> USE GateAssumption DEF Refilled, AtMost, Bucket!AtMost
  <1>1. GateInit => Bucket!BucketInit
    BY DEF GateInit, Bucket!BucketInit
  <1>2. GateInv /\ [GateNext]_gateVars => [Bucket!BucketNext]_Refilled
    <2> SUFFICES ASSUME GateInv, [GateNext]_gateVars
                 PROVE  Bucket!BucketNext \/ UNCHANGED Refilled
      OBVIOUS
    <2> USE DEF GateInv, GateTypeOK
    <2>1. ASSUME NEW r \in Request, RateLimit(r) PROVE Bucket!Refuse
      BY <2>1 DEF RateLimit, Affords, Bucket!Refuse
    <2>2. ASSUME NEW r \in Request, PassRate(r) PROVE Bucket!Pay
      BY <2>2 DEF PassRate, Affords, Bucket!Pay
    <2>3. ASSUME NEW r \in Request, Acquire(r) \/ Saturate(r) \/ Release(r)
          PROVE  UNCHANGED Refilled
      BY <2>3 DEF Acquire, Saturate, Release
    <2>4. ASSUME GateTick PROVE Bucket!Gain
      BY <2>4 DEF GateTick, Bucket!Gain
    <2>5. ASSUME OpenWindow \/ UNCHANGED gateVars PROVE UNCHANGED Refilled
      BY <2>5 DEF OpenWindow, gateVars
    <2> QED
      BY <2>1, <2>2, <2>3, <2>4, <2>5 DEF GateNext, Bucket!BucketNext
  <1> QED
    BY <1>1, <1>2, GateInvariant, PTL
    DEF GateSpec, LazyIsEager, Bucket!BucketSpec
=============================================================================
