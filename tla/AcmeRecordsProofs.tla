------------------------- MODULE AcmeRecordsProofs -------------------------
(***************************************************************************)
(* Theorems about the challenge store, for every set of tasks and values,  *)
(* every lifetime, every token limit and every notion of what fits.        *)
(***************************************************************************)
EXTENDS AcmeRecords, FiniteSetTheorems, TLAPS

-----------------------------------------------------------------------------
(* A stored set that keeps every bound.                                    *)
Sound(R) ==
  /\ R \in SUBSET Token
  /\ IsFiniteSet(R)
  /\ \A r, s \in R : r.value = s.value => r = s
  /\ Cardinality(R) <= MaxTokens
  /\ Fits(Values(R))

(* The empty store is sound.                                               *)
LEMMA SoundEmpty == Sound({})
  <1>1. Values({}) = {}
    BY DEF Values
  <1> QED
    BY <1>1, FS_EmptySet, ConfigAssumption, FitsAssumption DEF Sound

(* Values of a stored set are values.                                      *)
LEMMA ValuesType == ASSUME NEW R \in SUBSET Token
                    PROVE  Values(R) \in SUBSET Value
  BY DEF Values, Token

(* Pruning and removal keep a store sound: what is left of a sound store   *)
(* is sound, because dropping records never makes a message larger.        *)
LEMMA SoundSubset == ASSUME NEW R, Sound(R), NEW S \in SUBSET R
                     PROVE  Sound(S)
  <1>1. IsFiniteSet(S) /\ Cardinality(S) <= Cardinality(R)
    BY FS_Subset DEF Sound
  <1>2. Cardinality(S) \in Nat /\ Cardinality(R) \in Nat
    BY <1>1, FS_CardinalityType DEF Sound
  <1>3. Cardinality(S) <= MaxTokens
    BY <1>1, <1>2, ConfigAssumption DEF Sound
  <1>4. Values(S) \subseteq Values(R)
    BY DEF Values
  <1>5. Values(S) \in SUBSET Value /\ Values(R) \in SUBSET Value
    BY ValuesType DEF Sound
  <1>6. Fits(Values(S))
    BY <1>4, <1>5, FitsAssumption DEF Sound
  <1> QED
    BY <1>1, <1>3, <1>6 DEF Sound

(* The passage of time changes no value and merges no two tokens.          *)
LEMMA SoundAged == ASSUME NEW R, Sound(R)
                   PROVE  /\ Sound(Aged(R))
                          /\ Values(Aged(R)) = Values(R)
                          /\ Cardinality(Aged(R)) = Cardinality(R)
  <1> DEFINE Older(r) ==
        [r EXCEPT !.remaining = IF r.remaining > 0 THEN r.remaining - 1 ELSE 0]
             f == [r \in R |-> Older(r)]
  <1>1. Aged(R) = {Older(r) : r \in R}
    BY DEF Aged
  <1>2. \A r \in R : Older(r) \in Token /\ Older(r).value = r.value
    BY ConfigAssumption DEF Sound, Token
  <1>3. f \in Surjection(R, Aged(R)) /\ f \in Injection(R, Aged(R))
    <2>1. f \in Surjection(R, Aged(R))
      BY <1>1 DEF Surjection
    <2>2. \A r, s \in R : Older(r) = Older(s) => r = s
      BY <1>2 DEF Sound
    <2>3. f \in [R -> Aged(R)] /\ \A r \in R : f[r] = Older(r)
      BY <1>1
    <2>4. f \in Injection(R, Aged(R))
      BY <2>2, <2>3 DEF Injection, IsInjective
    <2> QED
      BY <2>1, <2>4
  <1>4. IsFiniteSet(Aged(R)) /\ Cardinality(Aged(R)) = Cardinality(R)
    BY <1>3, FS_Surjection DEF Sound
  <1>5. Cardinality(Aged(R)) <= MaxTokens
    BY <1>4 DEF Sound
  <1>6. Values(Aged(R)) = Values(R)
    <2>1. Values(Aged(R)) = {Older(r).value : r \in R}
      BY <1>1 DEF Values
    <2> QED
      BY <2>1, <1>2 DEF Values
  <1>7. Aged(R) \in SUBSET Token
    BY <1>1, <1>2
  <1>8. ASSUME NEW r \in Aged(R), NEW s \in Aged(R), r.value = s.value
        PROVE  r = s
    <2>1. PICK p \in R : r = Older(p)
      BY <1>1
    <2>2. PICK q \in R : s = Older(q)
      BY <1>1
    <2>3. p.value = q.value
      BY <1>2, <1>8, <2>1, <2>2
    <2> QED
      BY <2>1, <2>2, <2>3 DEF Sound
  <1> QED
    BY <1>4, <1>5, <1>6, <1>7, <1>8 DEF Sound

(* Refreshing a stored value keeps the store sound and its values.         *)
LEMMA SoundRefresh == ASSUME NEW R, Sound(R), NEW v \in Value, Stored(R, v)
                      PROVE  LET S == Without(R, v) \cup {Fresh(v)}
                             IN  Sound(S) /\ Values(S) = Values(R)
  <1> DEFINE W == Without(R, v)
             S == W \cup {Fresh(v)}
  <1>1. PICK r \in R : r.value = v
    BY DEF Stored, Values
  <1>2. W \in SUBSET (R \ {r})
    BY <1>1 DEF Without
  <1>3. IsFiniteSet(R \ {r}) /\ Cardinality(R \ {r}) = Cardinality(R) - 1
    BY FS_RemoveElement DEF Sound
  <1>4. IsFiniteSet(W) /\ Cardinality(W) <= Cardinality(R) - 1
    BY <1>2, <1>3, FS_Subset
  <1>5. /\ IsFiniteSet(S)
        /\ Cardinality(S) = IF Fresh(v) \in W THEN Cardinality(W)
                                              ELSE Cardinality(W) + 1
    BY <1>4, FS_AddElement
  <1>6. Cardinality(W) \in Nat /\ Cardinality(R) \in Nat
    BY <1>4, FS_CardinalityType DEF Sound
  <1>7. Cardinality(S) <= MaxTokens
    BY <1>4, <1>5, <1>6, ConfigAssumption DEF Sound
  <1>8. Fresh(v) \in Token /\ Fresh(v).value = v
    BY ConfigAssumption DEF Fresh, Token
  <1>9. Values(S) = Values(R)
    BY <1>1, <1>8 DEF Values, Without
  <1>10. \A p, s \in S : p.value = s.value => p = s
    BY <1>8 DEF Without, Sound
  <1>11. S \in SUBSET Token
    BY <1>8 DEF Without, Sound
  <1> QED
    BY <1>5, <1>7, <1>9, <1>10, <1>11 DEF Sound

(* Pushing a new value that passed both tests keeps the store sound.       *)
LEMMA SoundPush == ASSUME NEW R, Sound(R), NEW v \in Value, ~Stored(R, v),
                          ~Full(R), ~Overflows(R, v)
                   PROVE  LET S == R \cup {Fresh(v)}
                          IN  Sound(S) /\ Values(S) = Values(R) \cup {v}
  <1> DEFINE S == R \cup {Fresh(v)}
  <1>1. Fresh(v) \in Token /\ Fresh(v).value = v
    BY ConfigAssumption DEF Fresh, Token
  <1>2. Fresh(v) \notin R
    BY <1>1 DEF Stored, Values
  <1>3. IsFiniteSet(S) /\ Cardinality(S) = Cardinality(R) + 1
    BY <1>2, FS_AddElement DEF Sound
  <1>4. Cardinality(R) \in Nat
    BY FS_CardinalityType DEF Sound
  <1>5. Cardinality(S) <= MaxTokens
    BY <1>3, <1>4, ConfigAssumption DEF Full
  <1>6. Values(S) = Values(R) \cup {v}
    BY <1>1 DEF Values
  <1>7. Fits(Values(S))
    BY <1>6 DEF Overflows
  <1>8. \A p, s \in S : p.value = s.value => p = s
    BY <1>1 DEF Sound, Stored, Values
  <1> QED
    BY <1>1, <1>3, <1>5, <1>6, <1>7, <1>8 DEF Sound
-----------------------------------------------------------------------------
(* The write guard: it is held by exactly the one task in its critical     *)
(* section, and `changed` is local to it.                                  *)
Guarded ==
  /\ \A t \in Task : stage[t] = "locked" <=> lock = t
  /\ lock = NoTask => ~changed

(* A task past its call carries a call of its kind.                        *)
Called ==
  \A t \in Task : stage[t] \in {"waiting", "locked"} => call[t] \in CallsOf(t)

StoreInv == TypeOK /\ Sound(records) /\ Guarded /\ Called

(* The reply of a task that has none.                                      *)
LEMMA NoReplyType == NoReply \in Reply
  BY SerialAssumption DEF NoReply, Reply, Serial

LEMMA StoreInit == Init => StoreInv
  <1> SUFFICES ASSUME Init PROVE StoreInv
    OBVIOUS
  <1>1. Sound(records)
    BY SoundEmpty DEF Init
  <1>2. TypeOK
    <2>1. records \in SUBSET Token /\ IsFiniteSet(records)
      BY <1>1 DEF Sound
    <2>2. serial \in Serial
      BY DEF Init
    <2>3. lock \in Task \cup {NoTask} /\ changed \in BOOLEAN
      BY DEF Init
    <2>4. stage \in [Task -> {"idle", "waiting", "locked", "done"}]
      BY DEF Init
    <2>5. call \in [Task -> AddCall \cup RemoveCall \cup LookupCall \cup {NoCall}]
      BY DEF Init
    <2>6. reply \in [Task -> Reply]
      BY NoReplyType DEF Init
    <2>7. drift \in [Query -> 0 .. SerialModulus]
      BY SerialAssumption DEF Init
    <2> QED
      BY <2>1, <2>2, <2>3, <2>4, <2>5, <2>6, <2>7 DEF TypeOK
  <1>3. Guarded /\ Called
    BY LockAssumption DEF Init, Guarded, Called
  <1> QED
    BY <1>1, <1>2, <1>3 DEF StoreInv

(* The serial and its history stay within their types.                     *)
LEMMA SuccessorType == ASSUME NEW n \in Serial
                       PROVE  Successor(n) = IF n = SerialModulus - 1 THEN 0 ELSE n + 1
  BY SerialAssumption DEF Successor, Serial

LEMMA AdvanceType == ASSUME TypeOK, NEW m \in BOOLEAN, AdvanceIf(m)
                     PROVE  /\ serial' \in Serial
                            /\ drift' \in [Query -> 0 .. SerialModulus]
  <1>1. Successor(serial) \in Serial
    BY SuccessorType, SerialAssumption DEF TypeOK, Serial
  <1> QED
    BY <1>1, SerialAssumption DEF TypeOK, AdvanceIf

(* An operation in its critical section has a call with a value of its     *)
(* kind, and finishing it frees the lock.                                  *)
LEMMA FinishKeeps == ASSUME StoreInv, NEW t \in Task, NEW op, Holding(t, op),
                            NEW rep \in Reply, Finish(t, rep)
                     PROVE  /\ Guarded' /\ Called'
                            /\ lock' \in Task \cup {NoTask}
                            /\ changed' \in BOOLEAN
                            /\ stage' \in [Task -> {"idle", "waiting", "locked", "done"}]
                            /\ reply' \in [Task -> Reply]
                            /\ call' = call
  BY LockAssumption DEF StoreInv, TypeOK, Guarded, Called, Holding, Finish

(* Every step of the store preserves the invariant.                        *)
LEMMA StoreNext == StoreInv /\ [Next]_vars => StoreInv'
  <1> SUFFICES ASSUME StoreInv, [Next]_vars PROVE StoreInv'
    OBVIOUS
  <1> USE DEF StoreInv
  <1>1. ASSUME NEW t \in Task, Call(t) PROVE StoreInv'
    <2>1. TypeOK'
      BY <1>1 DEF Call, TypeOK, CallsOf
    <2>2. Guarded' /\ Called'
      BY <1>1 DEF Call, TypeOK, Guarded, Called
    <2> QED
      BY <1>1, <2>1, <2>2 DEF Call
  <1>2. ASSUME NEW t \in Task, Begin(t) PROVE StoreInv'
    <2>1. Unexpired(records) \in SUBSET records
      BY DEF Unexpired
    <2>2. Sound(records')
      BY <1>2, <2>1, SoundSubset DEF Begin
    <2>3. TypeOK'
      BY <1>2, <2>2 DEF Begin, TypeOK, Sound
    <2>4. Guarded' /\ Called'
      BY <1>2, LockAssumption DEF Begin, TypeOK, Guarded, Called
    <2> QED
      BY <2>2, <2>3, <2>4
  <1>3. ASSUME NEW t \in Task, NEW op, Holding(t, op), NEW rep \in Reply,
               Finish(t, rep), NEW m \in BOOLEAN, AdvanceIf(m), Sound(records')
        PROVE  StoreInv'
    BY <1>3, AdvanceType, FinishKeeps DEF TypeOK, Sound
  <1>4. \A r \in {"ok", "limit", "wire"} : Plain(r) \in Reply
    BY SerialAssumption DEF Plain, Reply, Serial
  <1>5. ASSUME NEW t \in Task, Holding(t, "add") PROVE call[t].value \in Value
    BY <1>5 DEF TypeOK, Called, Holding, CallsOf, AddCall, RemoveCall, LookupCall
  <1>6. changed \in BOOLEAN
    BY DEF TypeOK
  <1>7. ASSUME NEW t \in Task, AddRefresh(t) PROVE StoreInv'
    <2>1. Sound(records')
      BY <1>5, <1>7, SoundRefresh DEF AddRefresh
    <2> QED
      BY <1>3, <1>4, <1>6, <1>7, <2>1 DEF AddRefresh
  <1>8. ASSUME NEW t \in Task, AddOverLimit(t) PROVE StoreInv'
    BY <1>3, <1>4, <1>6, <1>8 DEF AddOverLimit
  <1>9. ASSUME NEW t \in Task, AddOverWire(t) PROVE StoreInv'
    BY <1>3, <1>4, <1>6, <1>9 DEF AddOverWire
  <1>10. ASSUME NEW t \in Task, AddPush(t) PROVE StoreInv'
    <2>1. Sound(records')
      BY <1>5, <1>10, SoundPush DEF AddPush
    <2> QED
      BY <1>3, <1>4, <1>10, <2>1 DEF AddPush
  <1>11. ASSUME NEW t \in Task, Remove(t) PROVE StoreInv'
    <2>1. records' \in SUBSET records
      BY <1>11 DEF Remove, Without
    <2>2. Sound(records')
      BY <2>1, SoundSubset
    <2> QED
      BY <1>3, <1>4, <1>6, <1>11, <2>2 DEF Remove
  <1>12. ASSUME NEW m \in BOOLEAN, AdvanceIf(m), NEW S \in SUBSET Value
         PROVE  Answer(S, serial') \in Reply
    BY <1>12, AdvanceType DEF Answer, Reply
  <1>13. ASSUME NEW t \in Task, GetWithSerial(t) PROVE StoreInv'
    <2>1. Values(records) \in SUBSET Value
      BY ValuesType DEF TypeOK
    <2> QED
      BY <1>3, <1>6, <1>12, <1>13, <2>1 DEF GetWithSerial
  <1>14. ASSUME NEW t \in Task, ReadSerial(t) PROVE StoreInv'
    BY <1>3, <1>6, <1>12, <1>14 DEF ReadSerial
  <1>15. ASSUME NEW t \in Task, Forget(t), stage[t] # "locked" PROVE StoreInv'
    <2>1. TypeOK'
      BY <1>15, NoReplyType, SerialAssumption DEF Forget, TypeOK
    <2>2. Guarded' /\ Called'
      BY <1>15 DEF Forget, TypeOK, Guarded, Called
    <2> QED
      BY <1>15, <2>1, <2>2 DEF Forget
  <1>16. ASSUME Tick PROVE StoreInv'
    <2>1. Sound(records')
      BY <1>16, SoundAged DEF Tick
    <2>2. TypeOK' /\ Guarded' /\ Called'
      BY <1>16, <2>1 DEF Tick, TypeOK, Guarded, Called, Sound
    <2> QED
      BY <2>1, <2>2
  <1>17. ASSUME Restart PROVE StoreInv'
    <2>1. Sound(records')
      BY <1>17, SoundEmpty DEF Restart
    <2>2. TypeOK'
      <3>1. records' \in SUBSET Token /\ IsFiniteSet(records)'
        BY <2>1 DEF Sound
      <3>2. lock' \in Task \cup {NoTask} /\ changed' \in BOOLEAN /\ serial' \in Serial
        BY <1>17 DEF Restart
      <3>3. stage' \in [Task -> {"idle", "waiting", "locked", "done"}]
        BY <1>17 DEF Restart
      <3>4. call' \in [Task -> AddCall \cup RemoveCall \cup LookupCall \cup {NoCall}]
        BY <1>17 DEF Restart
      <3>5. reply' \in [Task -> Reply] /\ drift' \in [Query -> 0 .. SerialModulus]
        BY <1>17, NoReplyType, SerialAssumption DEF Restart
      <3> QED
        BY <3>1, <3>2, <3>3, <3>4, <3>5 DEF TypeOK
    <2>3. Guarded' /\ Called'
      BY <1>17, LockAssumption DEF Restart, Guarded, Called
    <2> QED
      BY <2>1, <2>2, <2>3
  <1>18. ASSUME UNCHANGED vars PROVE StoreInv'
    BY <1>18 DEF vars, TypeOK, Guarded, Called
  <1> QED
    BY <1>1, <1>2, <1>7, <1>8, <1>9, <1>10, <1>11, <1>13, <1>14, <1>15, <1>16,
       <1>17, <1>18
    DEF Next, Return, Cancel

LEMMA StoreInvariant == Spec => []StoreInv
  BY StoreInit, StoreNext, PTL DEF Spec

(* Type correctness of the store, whatever its tasks do.                   *)
THEOREM TypeCorrect == Spec => []TypeOK
  <1>1. StoreInv => TypeOK
    BY DEF StoreInv
  <1> QED
    BY <1>1, StoreInvariant, PTL

(* Neither bound on the zone is ever exceeded, whatever the number of      *)
(* concurrent additions and whatever expires between the readings of the   *)
(* clock.                                                                  *)
THEOREM NeverOverCapacity == Spec => []Capacity
  <1>1. StoreInv => Capacity
    BY DEF StoreInv, Sound, Capacity
  <1> QED
    BY <1>1, StoreInvariant, PTL

(* No value is ever stored twice.                                          *)
THEOREM NeverTwice == Spec => []OneTokenPerValue
  <1>1. StoreInv => OneTokenPerValue
    BY DEF StoreInv, Sound, OneTokenPerValue
  <1> QED
    BY <1>1, StoreInvariant, PTL
-----------------------------------------------------------------------------
(* What makes a serial name one content.  The distance from an answer's    *)
(* serial to the zone's is the number of advances since; an answer at      *)
(* distance zero holds the zone's values, unless an operation in its       *)
(* critical section has yet to advance; and two answers at one distance    *)
(* hold the same values.                                                   *)
Versioned ==
  /\ \A q \in Query : stage[q] # "done" => drift[q] = 0
  /\ \A q \in Query : Answering(q) =>
       /\ \/ serial = reply[q].serial + drift[q]
          \/ serial = reply[q].serial + drift[q] - SerialModulus
       /\ drift[q] = 0 /\ ~changed => Values(records) = reply[q].values
       /\ \A p \in Query : Answering(p) /\ drift[p] = drift[q] =>
                               reply[p].values = reply[q].values

(* An operation that advances the serial exactly when it, or the prune it  *)
(* began with, changed the values keeps every answer's version right, and  *)
(* so does the answer it gives itself.                                     *)
LEMMA VersionFinish ==
  ASSUME StoreInv, Versioned, NEW t \in Task, NEW op, Holding(t, op),
         NEW rep \in Reply, Finish(t, rep), NEW m \in BOOLEAN, AdvanceIf(m),
         ~m => ~changed /\ Values(records') = Values(records),
         op = "get" => rep.values = Values(records') /\ rep.serial = serial'
  PROVE  Versioned'
  <1>1. stage' = [stage EXCEPT ![t] = "done"] /\ reply' = [reply EXCEPT ![t] = rep]
        /\ call' = call /\ changed' = FALSE
    BY DEF Finish
  <1>2. stage \in [Task -> {"idle", "waiting", "locked", "done"}]
        /\ reply \in [Task -> Reply] /\ drift \in [Query -> 0 .. SerialModulus]
        /\ serial \in Serial /\ Query \subseteq Task
    BY DEF StoreInv, TypeOK, Task
  <1>3. stage[t] = "locked" /\ call[t].op = op
    BY DEF Holding
  <1>4. \A q \in Query : drift'[q] = IF m /\ stage[q] = "done" /\ drift[q] < SerialModulus
                                     THEN drift[q] + 1 ELSE drift[q]
    BY DEF AdvanceIf
  <1>5. serial' = IF m THEN (IF serial = SerialModulus - 1 THEN 0 ELSE serial + 1)
                       ELSE serial
    BY <1>2, SuccessorType DEF AdvanceIf
  <1>6. \A q \in Query : q # t /\ Answering(q)' => Answering(q)
    BY <1>1, <1>2, <1>4, SerialAssumption DEF Answering
  <1>7. \A q \in Query : q # t /\ Answering(q)' =>
          /\ reply'[q] = reply[q]
          /\ drift'[q] = IF m THEN drift[q] + 1 ELSE drift[q]
    BY <1>1, <1>2, <1>4, <1>6 DEF Answering
  <1>8. t \in Query => drift'[t] = 0
    BY <1>3, <1>4 DEF Versioned
  <1>9. t \in Query /\ Answering(t)' => rep.values = Values(records') /\ rep.serial = serial'
    BY <1>1, <1>3 DEF Answering
  <1>10. reply'[t] = rep
    BY <1>1, <1>2
  <1>11. ASSUME NEW q \in Query, stage'[q] # "done" PROVE drift'[q] = 0
    BY <1>1, <1>2, <1>4, <1>11 DEF Versioned
  <1>12. ASSUME NEW q \in Query, Answering(q)'
         PROVE  \/ serial' = reply'[q].serial + drift'[q]
                \/ serial' = reply'[q].serial + drift'[q] - SerialModulus
    <2>1. CASE q = t
      BY <1>2, <1>5, <1>8, <1>9, <1>10, <1>12, <2>1, SerialAssumption DEF Serial
    <2>2. CASE q # t
      <3>1. reply[q].serial \in Serial /\ drift[q] \in 0 .. SerialModulus
        BY <1>2 DEF Reply
      <3>2. \/ serial = reply[q].serial + drift[q]
            \/ serial = reply[q].serial + drift[q] - SerialModulus
        BY <1>6, <1>12, <2>2 DEF Versioned
      <3>3. drift'[q] < SerialModulus
        BY <1>12 DEF Answering
      <3> QED
        BY <1>2, <1>5, <1>7, <1>12, <2>2, <3>1, <3>2, <3>3, SerialAssumption DEF Serial
    <2> QED
      BY <2>1, <2>2
  <1>13. ASSUME NEW q \in Query, Answering(q)', drift'[q] = 0
         PROVE  Values(records') = reply'[q].values
    <2>1. CASE q = t
      BY <1>9, <1>10, <1>13, <2>1
    <2>2. CASE q # t
      <3>1. drift[q] \in 0 .. SerialModulus
        BY <1>2
      <3>2. ~m /\ drift[q] = 0
        BY <1>7, <1>13, <2>2, <3>1
      <3> QED
        BY <1>6, <1>7, <1>13, <2>2, <3>2 DEF Versioned
    <2> QED
      BY <2>1, <2>2
  <1>14. ASSUME NEW q \in Query, Answering(q)', NEW p \in Query, Answering(p)',
                drift'[p] = drift'[q]
         PROVE  reply'[p].values = reply'[q].values
    <2>1. CASE p = t \/ q = t
      BY <1>8, <1>13, <1>14, <2>1
    <2>2. CASE p # t /\ q # t
      <3>1. drift[p] \in 0 .. SerialModulus /\ drift[q] \in 0 .. SerialModulus
        BY <1>2
      <3>2. drift[p] = drift[q]
        BY <1>7, <1>14, <2>2, <3>1, SerialAssumption
      <3> QED
        BY <1>6, <1>7, <1>14, <2>2, <3>2 DEF Versioned
    <2> QED
      BY <2>1, <2>2
  <1> QED
    BY <1>11, <1>12, <1>13, <1>14 DEF Versioned

LEMMA VersionNext == StoreInv /\ Versioned /\ [Next]_vars => Versioned'
  <1> SUFFICES ASSUME StoreInv, Versioned, [Next]_vars PROVE Versioned'
    OBVIOUS
  <1>1. changed \in BOOLEAN /\ (lock = NoTask => ~changed) /\ Query \subseteq Task
    BY DEF StoreInv, TypeOK, Guarded, Task
  <1>2. \A r \in {"ok", "limit", "wire"} : Plain(r) \in Reply
    BY SerialAssumption DEF Plain, Reply, Serial
  <1>3. ASSUME NEW t \in Task, Call(t) PROVE Versioned'
    <2>1. \A q \in Query : Answering(q)' <=> Answering(q)
      BY <1>1, <1>3 DEF Call, Answering, StoreInv, TypeOK
    <2>2. \A q \in Query : stage'[q] # "done" => stage[q] # "done"
      BY <1>1, <1>3 DEF Call, StoreInv, TypeOK
    <2> QED
      BY <1>3, <2>1, <2>2 DEF Call, Versioned
  <1>4. ASSUME NEW t \in Task, Begin(t) PROVE Versioned'
    <2>1. \A q \in Query : Answering(q)' <=> Answering(q)
      BY <1>1, <1>4 DEF Begin, Answering, StoreInv, TypeOK
    <2>2. \A q \in Query : stage'[q] # "done" => stage[q] # "done"
      BY <1>1, <1>4 DEF Begin, StoreInv, TypeOK
    <2>3. ~changed /\ (~changed' => records' = records)
      BY <1>1, <1>4 DEF Begin
    <2> QED
      BY <1>4, <2>1, <2>2, <2>3 DEF Begin, Versioned
  <1>5. ASSUME NEW t \in Task, AddRefresh(t) PROVE Versioned'
    <2>1. call[t].value \in Value
      BY <1>5 DEF AddRefresh, Holding, StoreInv, TypeOK, Called, CallsOf, AddCall,
                  RemoveCall, LookupCall
    <2>2. Values(records') = Values(records)
      BY <1>5, <2>1, SoundRefresh DEF AddRefresh, StoreInv
    <2> QED
      BY <1>1, <1>2, <1>5, <2>2, VersionFinish DEF AddRefresh
  <1>6. ASSUME NEW t \in Task, AddOverLimit(t) PROVE Versioned'
    BY <1>1, <1>2, <1>6, VersionFinish DEF AddOverLimit
  <1>7. ASSUME NEW t \in Task, AddOverWire(t) PROVE Versioned'
    BY <1>1, <1>2, <1>7, VersionFinish DEF AddOverWire
  <1>8. ASSUME NEW t \in Task, AddPush(t) PROVE Versioned'
    <2> DEFINE m == TRUE
    <2>1. Holding(t, "add") /\ AdvanceIf(m) /\ Finish(t, Plain("ok"))
      BY <1>8 DEF AddPush
    <2>2. m \in BOOLEAN /\ (~m => ~changed /\ Values(records') = Values(records))
      OBVIOUS
    <2> HIDE DEF m
    <2> QED
      BY <1>2, <2>1, <2>2, VersionFinish
  <1>9. ASSUME NEW t \in Task, Remove(t) PROVE Versioned'
    <2> DEFINE m == changed \/ records' # records
    <2>1. Holding(t, "remove") /\ AdvanceIf(m) /\ Finish(t, Plain("ok"))
      BY <1>9 DEF Remove
    <2>2. m \in BOOLEAN /\ (~m => ~changed /\ Values(records') = Values(records))
      OBVIOUS
    <2> HIDE DEF m
    <2> QED
      BY <1>2, <2>1, <2>2, VersionFinish
  <1>10. ASSUME NEW m \in BOOLEAN, AdvanceIf(m), NEW S \in SUBSET Value
         PROVE  Answer(S, serial') \in Reply
    BY <1>10, AdvanceType DEF Answer, Reply, StoreInv
  <1>11. ASSUME NEW t \in Task, GetWithSerial(t) PROVE Versioned'
    <2>1. Values(records) \in SUBSET Value
      BY ValuesType DEF StoreInv, TypeOK
    <2>2. Answer(Values(records), serial') \in Reply
      BY <1>1, <1>10, <1>11, <2>1 DEF GetWithSerial
    <2>3. /\ Answer(Values(records), serial').values = Values(records')
          /\ Answer(Values(records), serial').serial = serial'
      BY <1>11 DEF GetWithSerial, Answer
    <2> QED
      BY <1>1, <1>11, <2>2, <2>3, VersionFinish DEF GetWithSerial
  <1>12. ASSUME NEW t \in Task, ReadSerial(t) PROVE Versioned'
    <2>1. Answer({}, serial') \in Reply
      BY <1>1, <1>10, <1>12 DEF ReadSerial
    <2> QED
      BY <1>1, <1>12, <2>1, VersionFinish DEF ReadSerial
  <1>13. ASSUME NEW t \in Task, Forget(t) PROVE Versioned'
    <2>1. \A q \in Query : Answering(q)' =>
            q # t /\ Answering(q) /\ reply'[q] = reply[q] /\ drift'[q] = drift[q]
      BY <1>1, <1>13 DEF Forget, Answering, StoreInv, TypeOK
    <2>2. \A q \in Query : stage'[q] # "done" => drift'[q] = 0
      BY <1>1, <1>13 DEF Forget, Versioned, StoreInv, TypeOK
    <2> QED
      BY <1>13, <2>1, <2>2 DEF Forget, Versioned
  <1>14. ASSUME Tick PROVE Versioned'
    <2>1. Values(records') = Values(records)
      BY <1>14, SoundAged DEF Tick, StoreInv
    <2>2. \A q \in Query : Answering(q)' <=> Answering(q)
      BY <1>14 DEF Tick, Answering
    <2> QED
      BY <1>14, <2>1, <2>2 DEF Tick, Versioned
  <1>15. ASSUME Restart PROVE Versioned'
    <2>1. \A q \in Query : ~Answering(q)' /\ drift'[q] = 0
      BY <1>1, <1>15 DEF Restart, Answering
    <2> QED
      BY <2>1 DEF Versioned
  <1>16. ASSUME UNCHANGED vars PROVE Versioned'
    <2>1. \A q \in Query : Answering(q)' <=> Answering(q)
      BY <1>16 DEF vars, Answering
    <2> QED
      BY <1>16, <2>1 DEF vars, Versioned
  <1> QED
    BY <1>3, <1>4, <1>5, <1>6, <1>7, <1>8, <1>9, <1>11, <1>12, <1>13, <1>14,
       <1>15, <1>16
    DEF Next, Return, Cancel

(* Two answers with the same serial carry the same values, and so does the *)
(* zone while it has that serial, for every interleaving of operations and *)
(* expiries and every width of the serial.                                 *)
THEOREM SerialSound == Spec => []SerialNamesContent
  <1>1. Init => Versioned
    BY DEF Init, Versioned, Answering, Task
  <1>2. StoreInv /\ Versioned => SerialNamesContent
    <2> SUFFICES ASSUME StoreInv, Versioned, NEW q \in Query, Answering(q)
                 PROVE  /\ lock = NoTask /\ serial = reply[q].serial =>
                               Values(records) = reply[q].values
                        /\ \A p \in Query :
                              Answering(p) /\ reply[p].serial = reply[q].serial =>
                                reply[p].values = reply[q].values
      BY DEF SerialNamesContent
    <2>1. \A p \in Query : reply[p].serial \in Serial /\ drift[p] \in 0 .. SerialModulus
      BY DEF StoreInv, TypeOK, Reply, Task
    <2>2. serial \in Serial
      BY DEF StoreInv, TypeOK
    <2>3. serial = reply[q].serial => drift[q] = 0
      BY <2>1, <2>2, SerialAssumption DEF Versioned, Answering, Serial
    <2>4. ASSUME NEW p \in Query, Answering(p), reply[p].serial = reply[q].serial
          PROVE  drift[p] = drift[q]
      BY <2>1, <2>2, <2>4, SerialAssumption DEF Versioned, Answering, Serial
    <2> QED
      BY <2>3, <2>4 DEF Versioned, StoreInv, Guarded
  <1> QED
    BY <1>1, <1>2, StoreInit, StoreNext, VersionNext, PTL DEF Spec

-----------------------------------------------------------------------------
(***************************************************************************)
(* The store implements the zone it promises, for every value of the       *)
(* constants: each of its steps is a step of ChallengeZone or changes      *)
(* nothing there.                                                          *)
(***************************************************************************)
zoneActive == Unexpired(records)
zoneStatus == [t \in Task |-> ZoneStatus(t)]
zoneOutcome == [t \in Task |-> [result |-> ZoneResult(t), values |-> ZoneValues(t)]]

(* A task that has no answer yet has a blank reply.                        *)
Blank == \A t \in Task : stage[t] # "done" => reply[t] = NoReply

LEMMA BlankNext == StoreInv /\ Blank /\ [Next]_vars => Blank'
  <1> SUFFICES ASSUME StoreInv, Blank, [Next]_vars PROVE Blank'
    OBVIOUS
  <1> USE DEF Blank
  <1>1. stage \in [Task -> {"idle", "waiting", "locked", "done"}]
        /\ reply \in [Task -> Reply]
    BY DEF StoreInv, TypeOK
  <1>2. ASSUME NEW t \in Task, NEW rep, Finish(t, rep) PROVE Blank'
    BY <1>1, <1>2 DEF Finish
  <1>3. ASSUME NEW t \in Task, Forget(t) PROVE Blank'
    BY <1>1, <1>3 DEF Forget
  <1>4. ASSUME NEW t \in Task, Call(t) PROVE Blank'
    BY <1>1, <1>4 DEF Call
  <1>5. ASSUME NEW t \in Task, Begin(t) PROVE Blank'
    BY <1>1, <1>5 DEF Begin
  <1>6. ASSUME Tick \/ UNCHANGED vars PROVE Blank'
    BY <1>6 DEF Tick, vars
  <1>7. ASSUME Restart PROVE Blank'
    BY <1>7 DEF Restart
  <1> QED
    BY <1>2, <1>3, <1>4, <1>5, <1>6, <1>7
    DEF Next, AddRefresh, AddOverLimit, AddOverWire, AddPush, Remove,
        GetWithSerial, ReadSerial, Return, Cancel

(* What the zone shows of a task depends on its own state, and on the      *)
(* records only while it holds the lock.                                   *)
LEMMA SameTask ==
  ASSUME NEW u \in Task, stage'[u] = stage[u], call'[u] = call[u],
         reply'[u] = reply[u], stage[u] # "locked" \/ records' = records
  PROVE  /\ ZoneStatus(u)' = ZoneStatus(u)
         /\ ZoneResult(u)' = ZoneResult(u)
         /\ ZoneValues(u)' = ZoneValues(u)
  BY DEF ZoneStatus, ZoneResult, ZoneValues, TakenEffect, Holding, Refused

(* The view of the tasks after a step of task t alone.                     *)
LEMMA OneTask ==
  ASSUME NEW t \in Task,
         \A u \in Task : u # t =>
           /\ stage'[u] = stage[u] /\ call'[u] = call[u] /\ reply'[u] = reply[u]
           /\ stage[u] # "locked" \/ records' = records
  PROVE  /\ zoneStatus' = [zoneStatus EXCEPT ![t] = ZoneStatus(t)']
         /\ zoneOutcome' = [zoneOutcome EXCEPT ![t] =
                              [result |-> ZoneResult(t)', values |-> ZoneValues(t)']]
  <1>1. \A u \in Task : u # t => /\ ZoneStatus(u)' = ZoneStatus(u)
                                 /\ ZoneResult(u)' = ZoneResult(u)
                                 /\ ZoneValues(u)' = ZoneValues(u)
    BY SameTask
  <1> QED
    BY <1>1 DEF zoneStatus, zoneOutcome

(* A waiting task is pending; an idle one shows nothing; a done one shows  *)
(* its reply.                                                              *)
LEMMA View ==
  ASSUME Blank, NEW t \in Task
  PROVE  /\ stage[t] = "idle" => ZoneStatus(t) = "idle"
         /\ stage[t] = "waiting" => ZoneStatus(t) = "pending"
         /\ stage[t] \in {"idle", "waiting"} =>
               ZoneResult(t) = "none" /\ ZoneValues(t) = {}
         /\ stage[t] = "done" =>
               /\ ZoneStatus(t) = "done"
               /\ ZoneResult(t) = reply[t].result
               /\ ZoneValues(t) = reply[t].values
  BY DEF Blank, NoReply, ZoneStatus, ZoneResult, ZoneValues, TakenEffect, Holding

(* What the tasks show after an operation finished.                        *)
LEMMA FinishView ==
  ASSUME StoreInv, Blank, NEW t \in Task, NEW op, Holding(t, op), NEW rep, Finish(t, rep)
  PROVE  /\ zoneStatus' = [zoneStatus EXCEPT ![t] = "done"]
         /\ zoneOutcome' = [zoneOutcome EXCEPT ![t] =
                              [result |-> rep.result, values |-> rep.values]]
         /\ call' = call
  <1>1. /\ stage[t] = "locked" /\ call' = call
        /\ stage' = [stage EXCEPT ![t] = "done"]
        /\ reply' = [reply EXCEPT ![t] = rep]
    BY DEF Holding, Finish
  <1>2. DOMAIN stage = Task /\ DOMAIN reply = Task
    BY DEF StoreInv, TypeOK
  <1>3. \A u \in Task : stage[u] = "locked" => u = t
    BY <1>1 DEF StoreInv, Guarded
  <1>4. \A u \in Task : u # t =>
           /\ stage'[u] = stage[u] /\ call'[u] = call[u] /\ reply'[u] = reply[u]
           /\ stage[u] # "locked"
    BY <1>1, <1>2, <1>3
  <1>5. stage'[t] = "done" /\ reply'[t] = rep
    BY <1>1, <1>2
  <1>6. /\ ZoneStatus(t)' = "done"
        /\ ZoneResult(t)' = rep.result
        /\ ZoneValues(t)' = rep.values
    BY <1>5 DEF ZoneStatus, ZoneResult, ZoneValues, TakenEffect, Holding
  <1> QED
    BY <1>1, <1>4, <1>6, OneTask

(* A lookup and a refused addition took effect before they finish; then    *)
(* finishing shows nothing new.                                            *)
LEMMA FinishStutters ==
  ASSUME StoreInv, Blank, NEW t \in Task, NEW op, Holding(t, op), NEW rep,
         Finish(t, rep), TakenEffect(t), rep.result = ZoneResult(t),
         rep.values = ZoneValues(t), records' = records
  PROVE  UNCHANGED <<zoneActive, zoneStatus, call, zoneOutcome>>
  <1>1. zoneStatus[t] = "done" /\ zoneOutcome[t] = [result |-> rep.result, values |-> rep.values]
    BY DEF zoneStatus, zoneOutcome, ZoneStatus, Holding
  <1>2. zoneStatus' = zoneStatus /\ zoneOutcome' = zoneOutcome /\ call' = call
    BY <1>1, FinishView DEF zoneStatus, zoneOutcome
  <1> QED
    BY <1>2 DEF zoneActive

(* Any other operation takes effect as it finishes.                        *)
LEMMA FinishCompletes ==
  ASSUME StoreInv, Blank, NEW t \in Task, NEW op, Holding(t, op), NEW rep,
         Finish(t, rep), ~TakenEffect(t), rep.result = "ok", rep.values = {}
  PROVE  Zone!Pending(t, op) /\ Zone!Complete(t, Zone!Acknowledged)
  <1>1. zoneStatus[t] = "pending" /\ call[t].op = op
    BY DEF zoneStatus, ZoneStatus, Holding
  <1> QED
    BY <1>1, FinishView
    DEF Zone!Pending, Zone!Complete, Zone!Acknowledged, zoneStatus, zoneOutcome

-----------------------------------------------------------------------------
(* What is unexpired after a write, and after a tick.                      *)
LEMMA ActiveAfterAdd ==
  ASSUME NEW R, NEW v
  PROVE  /\ Unexpired(Without(R, v) \cup {Fresh(v)}) = Zone!Without(Unexpired(R), v) \cup {Zone!Fresh(v)}
         /\ Unexpired(Without(R, v)) = Zone!Without(Unexpired(R), v)
         /\ v \notin Values(R) => Without(R, v) = R
  BY ConfigAssumption
  DEF Unexpired, Without, Fresh, Values, Zone!Without, Zone!Fresh

LEMMA SameValues == \A R : Zone!Values(R) = Values(R)
  BY DEF Values, Zone!Values

LEMMA SameCount == \A R : Zone!Cardinality(R) = Cardinality(R)
  BY DEF Cardinality, Zone!Cardinality, IsFiniteSet, Zone!IsFiniteSet

LEMMA ActiveAfterTick ==
  ASSUME NEW R \in SUBSET Token
  PROVE  Unexpired(Aged(R)) = {r \in Zone!Aged(Unexpired(R)) : r.remaining > 0}
  <1> DEFINE Older(r) ==
        [r EXCEPT !.remaining = IF r.remaining > 0 THEN r.remaining - 1 ELSE 0]
  <1>1. Aged(R) = {Older(r) : r \in R}
    BY DEF Aged
  <1>2. Zone!Aged(Unexpired(R)) = {Older(r) : r \in Unexpired(R)}
    BY DEF Zone!Aged
  <1>3. \A r \in R : Older(r).remaining > 0 => r.remaining > 0
    BY DEF Token
  <1> QED
    BY <1>1, <1>2, <1>3 DEF Unexpired

-----------------------------------------------------------------------------
(* Taking the lock is where a lookup and a refused addition take effect:   *)
(* the prune has just removed exactly what has expired.                    *)
LEMMA BeginStep ==
  ASSUME StoreInv, Blank, NEW t \in Task, Begin(t)
  PROVE  [Zone!Next]_<<zoneActive, zoneStatus, call, zoneOutcome>>
  <1>1. /\ stage[t] = "waiting" /\ stage' = [stage EXCEPT ![t] = "locked"]
        /\ records' = Unexpired(records) /\ lock = NoTask
        /\ call' = call /\ reply' = reply
    BY DEF Begin
  <1>2. DOMAIN stage = Task /\ reply[t] = NoReply
    BY <1>1 DEF StoreInv, TypeOK, Blank
  <1>3. records' = zoneActive /\ zoneActive' = zoneActive
    BY <1>1 DEF zoneActive, Unexpired
  <1>4. \A u \in Task : u # t => stage'[u] = stage[u] /\ stage[u] # "locked"
    BY <1>1, <1>2, LockAssumption DEF StoreInv, Guarded
  <1>5. /\ zoneStatus' = [zoneStatus EXCEPT ![t] = ZoneStatus(t)']
        /\ zoneOutcome' = [zoneOutcome EXCEPT ![t] =
                              [result |-> ZoneResult(t)', values |-> ZoneValues(t)']]
    BY <1>1, <1>4, OneTask
  <1>6. /\ zoneStatus[t] = "pending"
        /\ zoneOutcome[t] = [result |-> "none", values |-> {}]
    BY <1>1, View DEF zoneStatus, zoneOutcome
  <1>7. stage'[t] = "locked" /\ call'[t] = call[t] /\ reply'[t].values = {}
    BY <1>1, <1>2 DEF NoReply
  <1>8. CASE call[t].op = "get"
    <2>1. /\ ZoneStatus(t)' = "done" /\ ZoneResult(t)' = "ok"
          /\ ZoneValues(t)' = Values(zoneActive)
      BY <1>3, <1>7, <1>8 DEF ZoneStatus, ZoneResult, ZoneValues, TakenEffect, Holding
    <2>2. Zone!Observe(t)
      BY <1>1, <1>3, <1>5, <1>6, <1>8, <2>1, SameValues
      DEF Zone!Observe, Zone!Pending, Zone!Complete, zoneActive, zoneStatus, zoneOutcome
    <2> QED
      BY <2>2 DEF Zone!Next, Zone!Task, Task
  <1>9. CASE call[t].op = "serial"
    <2>1. ZoneStatus(t)' = "done" /\ ZoneResult(t)' = "ok" /\ ZoneValues(t)' = {}
      BY <1>7, <1>9 DEF ZoneStatus, ZoneResult, ZoneValues, TakenEffect, Holding
    <2>2. Zone!ObserveSerial(t)
      BY <1>1, <1>3, <1>5, <1>6, <1>9, <2>1
      DEF Zone!ObserveSerial, Zone!Pending, Zone!Complete, Zone!Acknowledged,
          zoneActive, zoneStatus, zoneOutcome
    <2> QED
      BY <2>2 DEF Zone!Next, Zone!Task, Task
  <1>10. CASE call[t].op = "add" /\ Refused(call[t].value)'
    <2> DEFINE v == call[t].value
    <2>1. /\ ZoneStatus(t)' = "done" /\ ZoneValues(t)' = {}
          /\ ZoneResult(t)' = IF Full(zoneActive) THEN "limit" ELSE "wire"
      BY <1>3, <1>7, <1>10 DEF ZoneStatus, ZoneResult, ZoneValues, TakenEffect, Holding
    <2>2. /\ v \notin Values(zoneActive)
          /\ Full(zoneActive) \/ ~Fits(Values(zoneActive) \cup {v})
      BY <1>1, <1>3, <1>10 DEF Refused, Stored, Overflows
    <2>3. Zone!TooMany = Full(zoneActive)
      BY SameCount DEF Zone!TooMany, Full, zoneActive
    <2>4. v \notin Zone!Values(zoneActive) /\ ~Zone!HasRoomFor(v)
      BY <2>2, <2>3, SameValues DEF Zone!HasRoomFor, zoneActive
    <2>5. Zone!Pending(t, "add")
      BY <1>6, <1>10 DEF Zone!Pending, zoneStatus
    <2>6. Zone!Complete(t, [result |-> IF Zone!TooMany THEN "limit" ELSE "wire",
                            values |-> {}])
      BY <1>1, <1>5, <2>1, <2>3 DEF Zone!Complete, zoneStatus, zoneOutcome
    <2>7. Zone!Refuse(t)
      BY <1>3, <2>4, <2>5, <2>6 DEF Zone!Refuse, zoneActive
    <2> QED
      BY <2>7 DEF Zone!Next, Zone!Task, Task
  <1>11. CASE /\ call[t].op \notin {"get", "serial"}
              /\ ~(call[t].op = "add" /\ Refused(call[t].value)')
    <2>1. ZoneStatus(t)' = "pending" /\ ZoneResult(t)' = "none" /\ ZoneValues(t)' = {}
      BY <1>1, <1>7, <1>11 DEF ZoneStatus, ZoneResult, ZoneValues, TakenEffect, Holding
    <2>2. zoneStatus' = zoneStatus /\ zoneOutcome' = zoneOutcome
      BY <1>5, <1>6, <2>1 DEF zoneStatus, zoneOutcome
    <2> QED
      BY <1>1, <1>3, <2>2
  <1> QED
    BY <1>8, <1>9, <1>10, <1>11

(* An addition that succeeds is one the zone accepts: whatever expired     *)
(* since the prune only left it more room.                                 *)
LEMMA AddSteps ==
  ASSUME StoreInv, Blank, NEW t \in Task, AddRefresh(t) \/ AddPush(t)
  PROVE  Zone!Accept(t)
  <1> DEFINE v == call[t].value
  <1>1. Holding(t, "add") /\ Finish(t, Plain("ok"))
    BY DEF AddRefresh, AddPush
  <1>2. v \in Value
    BY <1>1 DEF Holding, StoreInv, TypeOK, Called, CallsOf, AddCall, RemoveCall, LookupCall
  <1>3. ~Refused(v)
    BY DEF AddRefresh, AddPush, Refused
  <1>4. ~TakenEffect(t)
    BY <1>1, <1>3 DEF TakenEffect, Holding
  <1>5. Zone!Pending(t, "add") /\ Zone!Complete(t, Zone!Acknowledged)
    BY <1>1, <1>4, FinishCompletes DEF Plain
  <1>6. records' = Without(records, v) \cup {Fresh(v)}
    BY ActiveAfterAdd DEF AddRefresh, AddPush, Stored
  <1>7. zoneActive' = Zone!Without(zoneActive, v) \cup {Zone!Fresh(v)}
    BY <1>6, ActiveAfterAdd DEF zoneActive
  <1>8. v \in Zone!Values(zoneActive) \/ Zone!HasRoomFor(v)
    <2> SUFFICES ASSUME v \notin Values(zoneActive)
                 PROVE  ~Full(zoneActive) /\ Fits(Values(zoneActive) \cup {v})
      <3>1. Zone!TooMany = Full(zoneActive)
        BY SameCount DEF Zone!TooMany, Full, zoneActive
      <3> QED
        BY <3>1, SameValues DEF Zone!HasRoomFor, zoneActive
    <2>1. zoneActive \in SUBSET records /\ Sound(records)
      BY DEF zoneActive, Unexpired, StoreInv
    <2>2. /\ IsFiniteSet(zoneActive) /\ Cardinality(zoneActive) <= Cardinality(records)
          /\ Cardinality(records) = Cardinality(zoneActive) => records = zoneActive
      BY <2>1, FS_Subset DEF Sound
    <2>3. Cardinality(zoneActive) \in Nat /\ Cardinality(records) \in Nat
      BY <2>1, <2>2, FS_CardinalityType DEF Sound
    <2>4. Values(zoneActive) \subseteq Values(records) /\ Values(records) \in SUBSET Value
      BY <2>1, ValuesType DEF Values, Sound
    <2>5. CASE AddRefresh(t)
      <3>1. v \in Values(records)
        BY <2>5 DEF AddRefresh, Stored
      <3>2. Cardinality(zoneActive) < MaxTokens
        BY <2>1, <2>2, <2>3, <3>1, ConfigAssumption DEF Sound
      <3>3. Fits(Values(zoneActive) \cup {v})
        BY <2>1, <2>4, <3>1, FitsAssumption DEF Sound
      <3> QED
        BY <2>3, <3>2, <3>3, ConfigAssumption DEF Full
    <2>6. CASE AddPush(t)
      <3>1. ~Full(records) /\ ~Overflows(records, v)
        BY <2>6 DEF AddPush
      <3>2. Cardinality(zoneActive) < MaxTokens
        BY <2>2, <2>3, <3>1, ConfigAssumption DEF Full
      <3>3. /\ Values(zoneActive) \cup {v} \in SUBSET Value
            /\ Values(records) \cup {v} \in SUBSET Value
            /\ Values(zoneActive) \cup {v} \subseteq Values(records) \cup {v}
        BY <1>2, <2>4
      <3>4. Fits(Values(zoneActive) \cup {v})
        BY <3>1, <3>3, FitsAssumption DEF Overflows
      <3> QED
        BY <2>3, <3>2, <3>4, ConfigAssumption DEF Full
    <2> QED
      BY <2>5, <2>6
  <1> QED
    BY <1>5, <1>7, <1>8 DEF Zone!Accept, zoneActive

-----------------------------------------------------------------------------
(* Every step of the store is a step of the zone or changes nothing in it. *)
LEMMA ZoneStep ==
  StoreInv /\ Blank /\ [Next]_vars =>
    [Zone!Next]_<<zoneActive, zoneStatus, call, zoneOutcome>>
  <1> SUFFICES ASSUME StoreInv, Blank, [Next]_vars
               PROVE  [Zone!Next]_<<zoneActive, zoneStatus, call, zoneOutcome>>
    OBVIOUS
  <1>0. Zone!Task = Task /\ DOMAIN stage = Task /\ DOMAIN reply = Task /\ DOMAIN call = Task
    BY DEF Zone!Task, Task, StoreInv, TypeOK
  <1>1. ASSUME NEW t \in Task, Call(t) PROVE Zone!Submit(t)
    <2>1. \A u \in Task : u # t =>
             /\ stage'[u] = stage[u] /\ call'[u] = call[u] /\ reply'[u] = reply[u]
             /\ records' = records
      BY <1>0, <1>1 DEF Call
    <2>2. zoneStatus[t] = "idle" /\ ZoneResult(t) = "none" /\ ZoneValues(t) = {}
      BY <1>1, View DEF Call, zoneStatus
    <2>3. stage'[t] = "waiting" /\ reply'[t] = reply[t] /\ reply[t].values = {}
      BY <1>0, <1>1 DEF Call, Blank, NoReply
    <2>4. ZoneStatus(t)' = "pending" /\ ZoneResult(t)' = "none" /\ ZoneValues(t)' = {}
      BY <2>3 DEF ZoneStatus, ZoneResult, ZoneValues, TakenEffect, Holding
    <2>5. zoneStatus' = [zoneStatus EXCEPT ![t] = "pending"] /\ zoneOutcome' = zoneOutcome
      <3>1. /\ zoneStatus' = [zoneStatus EXCEPT ![t] = "pending"]
            /\ zoneOutcome' = [zoneOutcome EXCEPT ![t] =
                                 [result |-> "none", values |-> {}]]
        BY <2>1, <2>4, OneTask
      <3>2. zoneOutcome[t] = [result |-> "none", values |-> {}]
        BY <2>2 DEF zoneOutcome
      <3> QED
        BY <3>1, <3>2 DEF zoneOutcome
    <2>6. \E c \in Zone!CallsOf(t) : call' = [call EXCEPT ![t] = c]
      BY <1>1 DEF Call, CallsOf, Zone!CallsOf, AddCall, Zone!AddCall, RemoveCall,
                  Zone!RemoveCall, LookupCall, Zone!LookupCall
    <2>7. zoneActive' = zoneActive
      BY <1>1 DEF Call, zoneActive
    <2> QED
      BY <2>2, <2>5, <2>6, <2>7 DEF Zone!Submit, zoneActive, zoneStatus, zoneOutcome
  <1>2. ASSUME NEW t \in Task, Forget(t)
        PROVE  Zone!Forget(t)
    <2>1. \A u \in Task : u # t =>
             /\ stage'[u] = stage[u] /\ call'[u] = call[u] /\ reply'[u] = reply[u]
             /\ records' = records
      BY <1>0, <1>2 DEF Forget
    <2>2. stage'[t] = "idle" /\ reply'[t].values = {}
      BY <1>0, <1>2 DEF Forget, NoReply
    <2>3. ZoneStatus(t)' = "idle" /\ ZoneResult(t)' = "none" /\ ZoneValues(t)' = {}
      BY <2>2 DEF ZoneStatus, ZoneResult, ZoneValues, TakenEffect, Holding
    <2>4. /\ zoneStatus' = [zoneStatus EXCEPT ![t] = "idle"]
          /\ zoneOutcome' = [zoneOutcome EXCEPT ![t] = Zone!NoOutcome]
      BY <2>1, <2>3, OneTask DEF Zone!NoOutcome
    <2>5. call' = [call EXCEPT ![t] = Zone!NoCall] /\ zoneActive' = zoneActive
      BY <1>2 DEF Forget, NoCall, Zone!NoCall, zoneActive
    <2> QED
      BY <2>4, <2>5 DEF Zone!Forget, zoneActive, zoneStatus, zoneOutcome
  <1>3. ASSUME NEW t \in Task, Return(t) PROVE Zone!Return(t)
    <2>1. zoneStatus[t] = "done"
      BY <1>3, View DEF Return, zoneStatus
    <2> QED
      BY <1>2, <1>3, <2>1 DEF Return, Zone!Return, zoneStatus
  <1>4. ASSUME NEW t \in Task, Cancel(t) PROVE Zone!Abandon(t)
    <2>1. zoneStatus[t] = "pending"
      BY <1>4, View DEF Cancel, zoneStatus
    <2> QED
      BY <1>2, <1>4, <2>1 DEF Cancel, Zone!Abandon, zoneStatus
  <1>5. ASSUME NEW t \in Task, Remove(t) PROVE Zone!Withdraw(t)
    <2>1. Holding(t, "remove") /\ Finish(t, Plain("ok")) /\ ~TakenEffect(t)
      BY <1>5 DEF Remove, Holding, TakenEffect
    <2>2. Zone!Pending(t, "remove") /\ Zone!Complete(t, Zone!Acknowledged)
      BY <2>1, FinishCompletes DEF Plain
    <2>3. zoneActive' = Zone!Without(zoneActive, call[t].value)
      BY <1>5, ActiveAfterAdd DEF Remove, zoneActive
    <2> QED
      BY <2>2, <2>3 DEF Zone!Withdraw, zoneActive
  <1>6. ASSUME NEW t \in Task, AddOverLimit(t) \/ AddOverWire(t)
        PROVE  UNCHANGED <<zoneActive, zoneStatus, call, zoneOutcome>>
    <2> DEFINE rep == IF Full(records) THEN Plain("limit") ELSE Plain("wire")
    <2>1. Holding(t, "add") /\ Refused(call[t].value) /\ Finish(t, rep) /\ records' = records
      BY <1>6 DEF AddOverLimit, AddOverWire, Refused
    <2>2. TakenEffect(t) /\ stage[t] = "locked"
      BY <2>1 DEF TakenEffect, Holding
    <2>3. rep.result = ZoneResult(t) /\ rep.values = ZoneValues(t)
      BY <2>1, <2>2 DEF ZoneResult, ZoneValues, Plain, Holding, Blank, NoReply
    <2> HIDE DEF rep
    <2> QED
      BY <2>1, <2>2, <2>3, FinishStutters
  <1>7. ASSUME NEW t \in Task, GetWithSerial(t)
        PROVE  UNCHANGED <<zoneActive, zoneStatus, call, zoneOutcome>>
    <2> DEFINE rep == Answer(Values(records), serial')
    <2>1. Holding(t, "get") /\ Finish(t, rep) /\ records' = records
      BY <1>7 DEF GetWithSerial
    <2>2. TakenEffect(t) /\ stage[t] = "locked"
      BY <2>1 DEF TakenEffect, Holding
    <2>3. rep.result = ZoneResult(t) /\ rep.values = ZoneValues(t)
      BY <2>1, <2>2 DEF ZoneResult, ZoneValues, Answer, Holding
    <2> HIDE DEF rep
    <2> QED
      BY <2>1, <2>2, <2>3, FinishStutters
  <1>8. ASSUME NEW t \in Task, ReadSerial(t)
        PROVE  UNCHANGED <<zoneActive, zoneStatus, call, zoneOutcome>>
    <2> DEFINE rep == Answer({}, serial')
    <2>1. Holding(t, "serial") /\ Finish(t, rep) /\ records' = records
      BY <1>8 DEF ReadSerial
    <2>2. TakenEffect(t) /\ stage[t] = "locked"
      BY <2>1 DEF TakenEffect, Holding
    <2>3. rep.result = ZoneResult(t) /\ rep.values = ZoneValues(t)
      BY <2>1, <2>2 DEF ZoneResult, ZoneValues, Answer, Holding, Blank, NoReply
    <2> HIDE DEF rep
    <2> QED
      BY <2>1, <2>2, <2>3, FinishStutters
  <1>9. ASSUME Tick PROVE Zone!Tick
    <2>1. /\ stage' = stage /\ call' = call /\ reply' = reply
          /\ records' = Aged(records)
      BY <1>9 DEF Tick
    <2>2. Values(records') = Values(records) /\ Cardinality(records') = Cardinality(records)
      BY <2>1, SoundAged DEF StoreInv
    <2>3. \A v : /\ Refused(v)' <=> Refused(v)
                 /\ Full(records') <=> Full(records)
      BY <2>2 DEF Refused, Full, Overflows, Stored
    <2>4. \A t \in Task : /\ ZoneStatus(t)' = ZoneStatus(t)
                          /\ ZoneResult(t)' = ZoneResult(t)
                          /\ ZoneValues(t)' = ZoneValues(t)
      BY <2>1, <2>2, <2>3 DEF ZoneStatus, ZoneResult, ZoneValues, TakenEffect, Holding
    <2>5. zoneStatus' = zoneStatus /\ zoneOutcome' = zoneOutcome
      BY <2>4 DEF zoneStatus, zoneOutcome
    <2>6. zoneActive' = {r \in Zone!Aged(zoneActive) : r.remaining > 0}
      BY <2>1, ActiveAfterTick DEF zoneActive, StoreInv, TypeOK
    <2> QED
      BY <2>1, <2>5, <2>6 DEF Zone!Tick, zoneActive, zoneStatus, zoneOutcome
  <1>10. ASSUME Restart PROVE Zone!Restart
    <2>1. \A t \in Task : /\ ZoneStatus(t)' = "idle"
                          /\ ZoneResult(t)' = "none"
                          /\ ZoneValues(t)' = {}
      BY <1>10 DEF Restart, ZoneStatus, ZoneResult, ZoneValues, TakenEffect, Holding, NoReply
    <2>2. zoneActive' = {} /\ call' = [t \in Task |-> NoCall]
      BY <1>10 DEF Restart, zoneActive, Unexpired
    <2>3. /\ zoneStatus' = [t \in Task |-> "idle"]
          /\ zoneOutcome' = [t \in Task |-> Zone!NoOutcome]
      BY <2>1 DEF zoneStatus, zoneOutcome, Zone!NoOutcome
    <2> QED
      BY <1>0, <2>2, <2>3
      DEF Zone!Restart, Zone!Init, Zone!NoCall, NoCall, zoneActive, zoneStatus, zoneOutcome
  <1>11. ASSUME UNCHANGED vars
         PROVE  UNCHANGED <<zoneActive, zoneStatus, call, zoneOutcome>>
    <2>1. \A t \in Task : /\ ZoneStatus(t)' = ZoneStatus(t)
                          /\ ZoneResult(t)' = ZoneResult(t)
                          /\ ZoneValues(t)' = ZoneValues(t)
      BY <1>11, SameTask DEF vars
    <2> QED
      BY <1>11, <2>1 DEF vars, zoneActive, zoneStatus, zoneOutcome
  <1>12. ASSUME NEW t \in Task, AddRefresh(t) \/ AddPush(t) PROVE Zone!Next
    BY <1>0, <1>12, AddSteps DEF Zone!Next
  <1>13. ASSUME NEW t \in Task, Call(t) \/ Return(t) \/ Cancel(t) \/ Remove(t)
         PROVE  Zone!Next
    BY <1>0, <1>1, <1>3, <1>4, <1>5, <1>13 DEF Zone!Next
  <1> QED
    BY <1>6, <1>7, <1>8, <1>9, <1>10, <1>11, <1>12, <1>13, BeginStep
    DEF Next, Zone!Next

(* The store implements the zone: whatever the code may do, some order of  *)
(* calls that take effect at one instant each explains it.                 *)
THEOREM Implements == Spec => ImplementsZone
  <1>1. Init => Zone!Init /\ Blank
    <2> SUFFICES ASSUME Init PROVE Zone!Init /\ Blank
      OBVIOUS
    <2>1. \A t \in Task : /\ ZoneStatus(t) = "idle"
                          /\ ZoneResult(t) = "none"
                          /\ ZoneValues(t) = {}
      BY DEF Init, ZoneStatus, ZoneResult, ZoneValues, TakenEffect, Holding, NoReply
    <2>2. Unexpired(records) = {} /\ call = [t \in Task |-> NoCall] /\ Zone!Task = Task
      BY DEF Init, Unexpired, Zone!Task, Task
    <2>3. /\ zoneStatus = [t \in Task |-> "idle"]
          /\ zoneOutcome = [t \in Task |-> Zone!NoOutcome]
      BY <2>1 DEF zoneStatus, zoneOutcome, Zone!NoOutcome
    <2> QED
      BY <2>2, <2>3 DEF Init, Blank, Zone!Init, Zone!NoCall, NoCall, zoneStatus, zoneOutcome
  <1>2. StoreInv /\ Blank /\ [Next]_vars => [Zone!Next]_Zone!zoneVars
    BY ZoneStep DEF Zone!zoneVars, zoneActive, zoneStatus, zoneOutcome
  <1> QED
    BY <1>1, <1>2, StoreInit, StoreNext, BlankNext, PTL DEF Spec, ImplementsZone, Zone!Spec
=============================================================================
