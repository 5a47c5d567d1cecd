---------------------------- MODULE AcmeRecords ----------------------------
(***************************************************************************)
(* The challenge store, src/src/state.rs: the tokens of the challenge name *)
(* and the zone serial, behind one tokio RwLock that every operation takes *)
(* for writing.                                                            *)
(*                                                                         *)
(* An operation runs in three steps.  It waits for the lock, the only      *)
(* await in it; on getting the lock it prunes, with a first reading of the *)
(* clock; it then does its work, with a second reading of the clock, and   *)
(* releases the lock as it returns.  The clock may advance between the two *)
(* readings, and the caller uses the reply after the lock is gone.         *)
(***************************************************************************)
EXTENDS AcmeTokens

CONSTANTS
  NoTask,         \* the holder of a free lock
  SerialModulus   \* 2^32: the serial is a wrapping u32

ASSUME LockAssumption == NoTask \notin Task
ASSUME SerialAssumption == SerialModulus \in Nat /\ SerialModulus > 1

VARIABLES
  records,  \* ZoneState.records: the stored tokens, some perhaps expired
  serial,   \* ZoneState.serial
  lock,     \* the task that holds the write guard, or NoTask
  changed,  \* the holder's `changed`: its prune removed something
  stage,    \* stage[t]: "idle", "waiting", "locked" or "done"
  call,     \* call[t]: the operation and its argument
  reply,    \* reply[t]: what the operation returned, until the caller is
            \*   done with it
  drift     \* history: for a query that holds an answer, how often the serial
            \*   has advanced since, counted up to SerialModulus

vars == <<records, serial, lock, changed, stage, call, reply, drift>>

Serial == 0 .. SerialModulus - 1

Reply == [result : {"none", "ok", "limit", "wire"}, values : SUBSET Value,
          serial : Serial]
NoReply == [result |-> "none", values |-> {}, serial |-> 0]
Plain(r) == [result |-> r, values |-> {}, serial |-> 0]
Answer(S, n) == [result |-> "ok", values |-> S, serial |-> n]

(* Types; also that the stored set stays within finite bounds.             *)
TypeOK ==
  /\ records \in SUBSET Token
  /\ IsFiniteSet(records)
  /\ serial \in Serial
  /\ lock \in Task \cup {NoTask}
  /\ changed \in BOOLEAN
  /\ stage \in [Task -> {"idle", "waiting", "locked", "done"}]
  /\ call \in [Task -> AddCall \cup RemoveCall \cup LookupCall \cup {NoCall}]
  /\ reply \in [Task -> Reply]
  /\ drift \in [Query -> 0 .. SerialModulus]

-----------------------------------------------------------------------------
(* Deliberate defects, for mutation runs: each replaces the definition that*)
(* follows it, and a run must then fail.                                   *)
IgnoresNewValue(R, v) == ~Fits(Values(R))
NeverStored(R, v) == FALSE
NoWrap(n) == n + 1

(* What `prune` keeps: the tokens with expires_at > now.                   *)
Unexpired(R) == {r \in R : r.remaining > 0}

(* token_count >= self.max_tokens                                          *)
Full(R) == Cardinality(R) >= MaxTokens

(* !self.wire_capacity.fits(&prospective_values)                           *)
Overflows(R, v) == ~Fits(Values(R) \cup {v})

(* tokens.iter_mut().find(|token| token.value == value) finds one          *)
Stored(R, v) == v \in Values(R)

(* serial.wrapping_add(1)                                                  *)
Successor(n) == (n + 1) % SerialModulus

-----------------------------------------------------------------------------
Init ==
  /\ records = {}
  /\ serial \in Serial
  /\ lock = NoTask
  /\ changed = FALSE
  /\ stage = [t \in Task |-> "idle"]
  /\ call = [t \in Task |-> NoCall]
  /\ reply = [t \in Task |-> NoReply]
  /\ drift = [q \in Query |-> 0]

(* advance_serial under its condition, with the history of it.             *)
AdvanceIf(moved) ==
  /\ serial' = IF moved THEN Successor(serial) ELSE serial
  /\ drift' = [q \in Query |->
                 IF moved /\ stage[q] = "done" /\ drift[q] < SerialModulus
                 THEN drift[q] + 1
                 ELSE drift[q]]

(* The operation of task t holds the lock and has pruned.                  *)
Holding(t, op) == stage[t] = "locked" /\ call[t].op = op

(* Defect: the guard outlives the operation.                               *)
FinishKeepingLock(t, rep) ==
  /\ stage' = [stage EXCEPT ![t] = "done"]
  /\ reply' = [reply EXCEPT ![t] = rep]
  /\ UNCHANGED <<call, lock, changed>>

(* The guard is dropped as the operation returns rep.                      *)
Finish(t, rep) ==
  /\ lock' = NoTask
  /\ changed' = FALSE
  /\ stage' = [stage EXCEPT ![t] = "done"]
  /\ reply' = [reply EXCEPT ![t] = rep]
  /\ UNCHANGED call

Forget(t) ==
  /\ stage' = [stage EXCEPT ![t] = "idle"]
  /\ call' = [call EXCEPT ![t] = NoCall]
  /\ reply' = [reply EXCEPT ![t] = NoReply]
  /\ drift' = [q \in Query |-> IF q = t THEN 0 ELSE drift[q]]
  /\ UNCHANGED <<records, serial, lock, changed>>

Call(t) ==
  /\ stage[t] = "idle"
  /\ \E c \in CallsOf(t) : call' = [call EXCEPT ![t] = c]
  /\ stage' = [stage EXCEPT ![t] = "waiting"]
  /\ UNCHANGED <<records, serial, lock, changed, reply, drift>>

(* Defect: an operation that does not prune.                               *)
BeginUnpruned(t) ==
  /\ stage[t] = "waiting"
  /\ lock = NoTask
  /\ lock' = t
  /\ changed' = FALSE
  /\ stage' = [stage EXCEPT ![t] = "locked"]
  /\ UNCHANGED <<records, serial, call, reply, drift>>

(* self.state.write().await returns, and prune follows.                    *)
Begin(t) ==
  /\ stage[t] = "waiting"
  /\ lock = NoTask
  /\ lock' = t
  /\ records' = Unexpired(records)
  /\ changed' = (records' # records)
  /\ stage' = [stage EXCEPT ![t] = "locked"]
  /\ UNCHANGED <<serial, call, reply, drift>>

AddRefresh(t) ==
  LET v == call[t].value IN
  /\ Holding(t, "add")
  /\ Stored(records, v)
  /\ records' = Without(records, v) \cup {Fresh(v)}
  /\ AdvanceIf(changed)
  /\ Finish(t, Plain("ok"))

(* Defect: the limit is tested before the value is looked for.             *)
LimitBeforeRefresh(t) ==
  /\ Holding(t, "add")
  /\ Full(records)
  /\ AdvanceIf(changed)
  /\ Finish(t, Plain("limit"))
  /\ UNCHANGED records

AddOverLimit(t) ==
  /\ Holding(t, "add")
  /\ ~Stored(records, call[t].value)
  /\ Full(records)
  /\ AdvanceIf(changed)
  /\ Finish(t, Plain("limit"))
  /\ UNCHANGED records

(* Defect: a refusal that forgets what its prune removed.                  *)
RefuseQuietly(t) ==
  LET v == call[t].value IN
  /\ Holding(t, "add")
  /\ ~Stored(records, v)
  /\ ~Full(records)
  /\ Overflows(records, v)
  /\ Finish(t, Plain("wire"))
  /\ UNCHANGED <<records, serial, drift>>

AddOverWire(t) ==
  LET v == call[t].value IN
  /\ Holding(t, "add")
  /\ ~Stored(records, v)
  /\ ~Full(records)
  /\ Overflows(records, v)
  /\ AdvanceIf(changed)
  /\ Finish(t, Plain("wire"))
  /\ UNCHANGED records

AddPush(t) ==
  LET v == call[t].value IN
  /\ Holding(t, "add")
  /\ ~Stored(records, v)
  /\ ~Full(records)
  /\ ~Overflows(records, v)
  /\ records' = records \cup {Fresh(v)}
  /\ AdvanceIf(TRUE)
  /\ Finish(t, Plain("ok"))

Remove(t) ==
  /\ Holding(t, "remove")
  /\ records' = Without(records, call[t].value)
  /\ AdvanceIf(changed \/ records' # records)
  /\ Finish(t, Plain("ok"))

GetWithSerial(t) ==
  /\ Holding(t, "get")
  /\ AdvanceIf(changed)
  /\ Finish(t, Answer(Values(records), serial'))
  /\ UNCHANGED records

ReadSerial(t) ==
  /\ Holding(t, "serial")
  /\ AdvanceIf(changed)
  /\ Finish(t, Answer({}, serial'))
  /\ UNCHANGED records

(* The caller has used the reply: a DNS response or a status code is sent. *)
Return(t) == stage[t] = "done" /\ Forget(t)

(* The request timeout or a dropped connection drops the future of an HTTP *)
(* handler, which can be only at the handler's one await.                  *)
Cancel(t) == t \in Handler /\ stage[t] = "waiting" /\ Forget(t)

Tick ==
  /\ records' = Aged(records)
  /\ UNCHANGED <<serial, lock, changed, stage, call, reply, drift>>

(* Nothing is on disk: `new` starts again, from the wall clock's serial.   *)
Restart ==
  /\ records' = {}
  /\ serial' \in Serial
  /\ lock' = NoTask
  /\ changed' = FALSE
  /\ stage' = [t \in Task |-> "idle"]
  /\ call' = [t \in Task |-> NoCall]
  /\ reply' = [t \in Task |-> NoReply]
  /\ drift' = [q \in Query |-> 0]

Work(t) ==
  \/ AddRefresh(t) \/ AddOverLimit(t) \/ AddOverWire(t) \/ AddPush(t)
  \/ Remove(t) \/ GetWithSerial(t) \/ ReadSerial(t)

Next ==
  \/ \E t \in Task :
       \/ Call(t) \/ Begin(t) \/ Return(t) \/ Cancel(t)
       \/ AddRefresh(t) \/ AddOverLimit(t) \/ AddOverWire(t) \/ AddPush(t)
       \/ Remove(t) \/ GetWithSerial(t) \/ ReadSerial(t)
  \/ Tick
  \/ Restart

Spec == Init /\ [][Next]_vars

(* tokio's lock serves its waiters in order, the runtime polls what is     *)
(* ready, and time passes.                                                 *)
Fairness ==
  /\ WF_vars(Tick)
  /\ \A t \in Task :
       SF_vars(Begin(t)) /\ WF_vars(Work(t)) /\ WF_vars(Return(t))

FairSpec == Spec /\ Fairness

-----------------------------------------------------------------------------
(* A DNS answer that names a version of the zone.  The history tells a     *)
(* reused serial from a wrong one: it excludes answers kept while all the  *)
(* serials went round.                                                     *)
Answering(q) == stage[q] = "done" /\ call[q].op = "get" /\ drift[q] < SerialModulus

(* The bounds hold at every instant, between a prune and the write that    *)
(* follows it too, whatever the order of the additions: neither the token  *)
(* limit nor the size of the complete TXT answer is ever exceeded.         *)
Capacity ==
  /\ Cardinality(records) <= MaxTokens
  /\ Fits(Values(records))

(* A value is stored once: concurrent or repeated additions of it refresh. *)
OneTokenPerValue ==
  \A r, s \in records : r.value = s.value => r = s

(* A serial names one content of the zone.  Two answers that carry the     *)
(* same serial carry the same values, however the operations and the       *)
(* expiries between them interleave, and so does the zone itself.          *)
SerialNamesContent ==
  \A q \in Query : Answering(q) =>
    /\ lock = NoTask /\ serial = reply[q].serial => Values(records) = reply[q].values
    /\ \A p \in Query : Answering(p) /\ reply[p].serial = reply[q].serial =>
                            reply[p].values = reply[q].values

-----------------------------------------------------------------------------
(* The store implements ChallengeZone.  A lookup and a refused addition    *)
(* take effect when they prune, under the lock; an accepted addition and a *)
(* removal as they finish.                                                 *)
Refused(v) == ~Stored(records, v) /\ (Full(records) \/ Overflows(records, v))

TakenEffect(t) ==
  \/ stage[t] = "done"
  \/ Holding(t, "get")
  \/ Holding(t, "serial")
  \/ Holding(t, "add") /\ Refused(call[t].value)

ZoneStatus(t) ==
  IF stage[t] = "idle" THEN "idle" ELSE IF TakenEffect(t) THEN "done" ELSE "pending"

ZoneResult(t) ==
  IF stage[t] = "done" THEN reply[t].result
  ELSE IF ~TakenEffect(t) THEN "none"
  ELSE IF call[t].op # "add" THEN "ok"
  ELSE IF Full(records) THEN "limit" ELSE "wire"

ZoneValues(t) ==
  IF Holding(t, "get") THEN Values(records) ELSE reply[t].values

Zone == INSTANCE ChallengeZone WITH
          active <- Unexpired(records),
          status <- [t \in Task |-> ZoneStatus(t)],
          request <- call,
          outcome <- [t \in Task |->
                        [result |-> ZoneResult(t), values |-> ZoneValues(t)]]

(* Every call takes effect at one instant between its submission and its   *)
(* reply, although the code reads the clock twice and prunes only when it  *)
(* is called: expiry is seen exactly, no refused call leaves a trace, and  *)
(* a cancelled call never happened.                                        *)
ImplementsZone == Zone!Spec

(* The lock is never left held and every waiter gets its turn: each call   *)
(* is answered, cancelled or ended by a restart.                           *)
CallsComplete == \A t \in Task : stage[t] = "waiting" ~> stage[t] \in {"done", "idle"}

Adding(v) == \E t \in Task : call[t] = [op |-> "add", value |-> v]
Served(v) == \E q \in Query : v \in reply[q].values

(* A token whose cleanup never comes (the client crashed, or lost the      *)
(* request) disappears from the answers all the same.                      *)
AbandonedExpire == \A v \in Value : <>[]~Adding(v) => <>[]~Served(v)
=============================================================================
