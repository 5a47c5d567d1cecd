--------------------------- MODULE HttpApiProofs ---------------------------
(***************************************************************************)
(* The HTTP API uses the store and the gate as they are specified, for     *)
(* every number of exchanges, and its statuses tell the truth.             *)
(***************************************************************************)
EXTENDS HttpApi, AcmeRecordsProofs

(* A task that works, locks or calls is a task of the store.               *)
LEMMA StoreStep == [HttpNext]_httpVars => [Next]_vars
  <1> SUFFICES ASSUME [HttpNext]_httpVars PROVE [Next]_vars
    OBVIOUS
  <1>1. ASSUME NEW h \in Handler,
               \/ Handle(h) \/ Lock(h) \/ Operate(h) \/ Respond(h)
               \/ TimeOut(h) \/ HangUp(h)
        PROVE  [Next]_vars
    BY <1>1
    DEF Handle, Lock, Operate, Respond, TimeOut, HangUp, WaitsForBody, WaitsForLock,
        Work, Next, Task
  <1>2. ASSUME NEW h \in Handler,
               \/ Receive(h) \/ Unauthorized(h) \/ RateLimited(h) \/ CheckRate(h)
               \/ Busy(h) \/ Admit(h) \/ BadRequest(h) \/ EndExchange(h)
        PROVE  UNCHANGED vars
    BY <1>2
    DEF Receive, Unauthorized, RateLimited, CheckRate, Busy, Admit, BadRequest,
        EndExchange
  <1>3. ASSUME NEW q \in Query, Lookup(q) PROVE Next
    BY <1>3 DEF Lookup, Work, Next, Task
  <1>4. ASSUME StoreTick \/ RateTick PROVE [Next]_vars
    BY <1>4 DEF StoreTick, RateTick, Next
  <1>5. ASSUME UNCHANGED httpVars PROVE UNCHANGED vars
    BY <1>5 DEF httpVars
  <1> QED
    BY <1>1, <1>2, <1>3, <1>4, <1>5 DEF HttpNext

(* The API drives the store only through its operations: every theorem     *)
(* about the store holds of the store behind the API.                      *)
THEOREM UsesStore == HttpSpec => StoreUsedProperly
  <1>1. HttpInit => Init
    BY DEF HttpInit
  <1> QED
    BY <1>1, StoreStep, PTL DEF HttpSpec, StoreUsedProperly, Spec

(* In particular no traffic makes the zone exceed its bounds.              *)
THEOREM HttpCapacity == HttpSpec => []Capacity
  BY UsesStore, NeverOverCapacity, PTL DEF StoreUsedProperly

(* Whatever the exchanges and the lookups do, in whatever order, the zone  *)
(* behind them is one whose operations take effect at one instant each.    *)
THEOREM HttpZone == HttpSpec => ImplementsZone
  BY UsesStore, Implements, PTL DEF StoreUsedProperly

(* Two lookups behind the API that give one serial give one content, and   *)
(* no value is stored twice.                                               *)
THEOREM HttpSerials == HttpSpec => [](SerialNamesContent /\ OneTokenPerValue)
  BY UsesStore, SerialSound, NeverTwice, PTL DEF StoreUsedProperly

(* The API drives the gate only through its operations.                    *)
THEOREM UsesGate == HttpSpec => GateUsedProperly
  <1>1. HttpInit => Gate!GateInit
    BY DEF HttpInit
  <1>2. [HttpNext]_httpVars => [Gate!GateNext]_(Gate!gateVars)
    <2> SUFFICES ASSUME [HttpNext]_httpVars PROVE [Gate!GateNext]_(Gate!gateVars)
      OBVIOUS
    <2>1. ASSUME NEW h \in Handler, RateLimited(h) \/ CheckRate(h) \/ Busy(h) \/ Admit(h)
          PROVE  Gate!GateNext
      BY <2>1 DEF RateLimited, CheckRate, Busy, Admit, Gate!GateNext
    <2>2. ASSUME NEW h \in Handler,
                 BadRequest(h) \/ Respond(h) \/ TimeOut(h) \/ HangUp(h)
          PROVE  Gate!GateNext
      BY <2>2 DEF BadRequest, Respond, TimeOut, HangUp, Gate!GateNext
    <2>3. ASSUME NEW h \in Handler,
                 \/ Receive(h) \/ Unauthorized(h) \/ Handle(h) \/ Lock(h)
                 \/ Operate(h) \/ EndExchange(h)
          PROVE  UNCHANGED gateState
      BY <2>3 DEF Receive, Unauthorized, Handle, Lock, Operate, EndExchange
    <2>4. ASSUME NEW q \in Query, Lookup(q) PROVE UNCHANGED gateState
      BY <2>4 DEF Lookup
    <2>5. ASSUME StoreTick PROVE UNCHANGED gateState
      BY <2>5 DEF StoreTick
    <2>6. ASSUME RateTick PROVE Gate!GateNext
      BY <2>6 DEF RateTick, Gate!GateNext
    <2>7. ASSUME UNCHANGED httpVars PROVE UNCHANGED gateState
      BY <2>7 DEF httpVars
    <2>8. UNCHANGED gateState => UNCHANGED Gate!gateVars
      BY DEF gateState, Gate!gateVars
    <2> QED
      BY <2>1, <2>2, <2>3, <2>4, <2>5, <2>6, <2>7, <2>8 DEF HttpNext
  <1> QED
    BY <1>1, <1>2, PTL DEF HttpSpec, GateUsedProperly, Gate!GateSpec

(* Both at once: what is proved of the store and what is proved of the gate*)
(* holds of the API that is built from them.                               *)
THEOREM UsesParts == HttpSpec => PartsUsedProperly
  BY UsesStore, UsesGate DEF PartsUsedProperly

-----------------------------------------------------------------------------
(* Why statuses are honest: the store is touched only by exchanges in      *)
(* their storing phase, and whether it was is known from the stage.        *)
Honest(h) ==
  /\ phase[h] = "storing" <=> stage[h] # "idle"
  /\ phase[h] = "storing" => (touched[h] <=> stage[h] # "waiting")
  /\ phase[h] \notin {"storing", "answered"} => ~touched[h]
  /\ phase[h] # "answered" => status[h] = "none"
  /\ status[h] \in Refusal => ~touched[h]
  /\ status[h] \in {"200", "503 full"} => touched[h]
  /\ h \in passed => phase[h] = "received" /\ request[h].credentials

ExchangeTypes ==
  /\ DOMAIN phase = Handler /\ DOMAIN status = Handler /\ DOMAIN request = Handler
  /\ touched \in [Handler -> BOOLEAN]
  /\ passed \subseteq Handler

HonestInv == ExchangeTypes /\ \A h \in Handler : Honest(h)

(* A step of one exchange is judged by that exchange.                      *)
LEMMA OneExchange ==
  ASSUME HonestInv, NEW h \in Handler, ExchangeTypes', Honest(h)',
         \A u \in Handler : u # h =>
           /\ phase'[u] = phase[u] /\ status'[u] = status[u] /\ touched'[u] = touched[u]
           /\ stage'[u] = stage[u] /\ (u \in passed' => u \in passed)
           /\ request'[u] = request[u]
  PROVE  HonestInv'
  <1>1. ASSUME NEW u \in Handler, u # h PROVE Honest(u)'
    BY <1>1 DEF HonestInv, Honest
  <1> QED
    BY <1>1 DEF HonestInv

(* What the store's operations do to the stages of its tasks.              *)
LEMMA StageMoves ==
  ASSUME NEW t \in Task
  PROVE  /\ Call(t) => stage[t] = "idle" /\ stage' = [stage EXCEPT ![t] = "waiting"]
         /\ Begin(t) => stage[t] = "waiting" /\ stage' = [stage EXCEPT ![t] = "locked"]
         /\ Work(t) => stage[t] = "locked" /\ stage' = [stage EXCEPT ![t] = "done"]
         /\ Return(t) => stage[t] = "done" /\ stage' = [stage EXCEPT ![t] = "idle"]
         /\ Cancel(t) => stage[t] = "waiting" /\ stage' = [stage EXCEPT ![t] = "idle"]
  BY DEF Call, Begin, Work, AddRefresh, AddOverLimit, AddOverWire, AddPush, Remove,
         GetWithSerial, ReadSerial, Holding, Finish, Return, Cancel, Forget

(* The same, at one task and at the others.                                *)
StageStep(t, from, to) ==
  /\ stage[t] = from /\ stage'[t] = to
  /\ \A u \in Handler : u # t => stage'[u] = stage[u]

LEMMA StageSteps ==
  ASSUME StoreInv, NEW t \in Task
  PROVE  /\ Call(t) => StageStep(t, "idle", "waiting")
         /\ Begin(t) => StageStep(t, "waiting", "locked")
         /\ Work(t) => StageStep(t, "locked", "done")
         /\ Return(t) => StageStep(t, "done", "idle")
         /\ Cancel(t) => StageStep(t, "waiting", "idle")
  <1>1. DOMAIN stage = Task /\ Handler \subseteq Task
    BY DEF StoreInv, TypeOK, Task
  <1>2. ASSUME NEW from, NEW to, stage[t] = from, stage' = [stage EXCEPT ![t] = to]
        PROVE  StageStep(t, from, to)
    BY <1>1, <1>2 DEF StageStep
  <1> QED
    BY <1>2, StageMoves

(* Exchange h moves alone, to phase p and status s, with t of touched.     *)
ExchangeStep(h, p, s, t) ==
  /\ phase'[h] = p /\ status'[h] = s /\ touched'[h] = t
  /\ \A u \in Handler : u # h =>
       phase'[u] = phase[u] /\ status'[u] = status[u] /\ touched'[u] = touched[u]
  /\ DOMAIN phase' = Handler /\ DOMAIN status' = Handler
  /\ touched' \in [Handler -> BOOLEAN]

(* Its request may change, and of the passed only h may go or come.        *)
RequestStep(h) ==
  /\ DOMAIN request' = Handler /\ passed' \subseteq Handler
  /\ \A u \in Handler : u # h => /\ request'[u] = request[u]
                                 /\ u \in passed' => u \in passed

(* What h becomes must be honest: then everyone still is.                  *)
LEMMA HonestMove ==
  ASSUME HonestInv, NEW h \in Handler, NEW p, NEW s, NEW t \in BOOLEAN,
         ExchangeStep(h, p, s, t), RequestStep(h),
         \A u \in Handler : u # h => stage'[u] = stage[u],
         p = "storing" <=> stage'[h] # "idle",
         p = "storing" => (t <=> stage'[h] # "waiting"),
         p \notin {"storing", "answered"} => ~t,
         p # "answered" => s = "none",
         s \in Refusal => ~t,
         s \in {"200", "503 full"} => t,
         h \in passed' => p = "received" /\ request'[h].credentials
  PROVE  HonestInv'
  <1>1. phase'[h] = p /\ status'[h] = s /\ touched'[h] = t
    BY DEF ExchangeStep
  <1>2. Honest(h)'
    <2>1. phase'[h] = "storing" <=> stage'[h] # "idle"
      BY <1>1
    <2>2. phase'[h] = "storing" => (touched'[h] <=> stage'[h] # "waiting")
      BY <1>1
    <2>3. phase'[h] \notin {"storing", "answered"} => ~touched'[h]
      BY <1>1
    <2>4. phase'[h] # "answered" => status'[h] = "none"
      BY <1>1
    <2>5. status'[h] \in Refusal => ~touched'[h]
      BY <1>1
    <2>6. status'[h] \in {"200", "503 full"} => touched'[h]
      BY <1>1
    <2>7. h \in passed' => phase'[h] = "received" /\ request'[h].credentials
      BY <1>1
    <2> QED
      BY <2>1, <2>2, <2>3, <2>4, <2>5, <2>6, <2>7 DEF Honest, Refusal
  <1>3. ExchangeTypes'
    BY DEF ExchangeTypes, ExchangeStep, RequestStep
  <1> QED
    BY <1>2, <1>3, OneExchange DEF ExchangeStep, RequestStep

LEMMA AnsweredStep ==
  ASSUME ExchangeTypes, NEW h \in Handler, NEW code, Answered(h, code)
  PROVE  ExchangeStep(h, "answered", code, touched[h]) /\ request' = request
  BY DEF ExchangeTypes, ExchangeStep, Answered

LEMMA HonestStep == StoreInv /\ HonestInv /\ [HttpNext]_httpVars => HonestInv'
  <1> SUFFICES ASSUME StoreInv, HonestInv, [HttpNext]_httpVars PROVE HonestInv'
    OBVIOUS
  <1>1. /\ Handler \subseteq Task /\ Query \subseteq Task
        /\ \A q \in Query : q \notin Handler
    BY ConfigAssumption DEF Task
  <1>2. ExchangeTypes /\ \A h \in Handler : Honest(h)
    BY DEF HonestInv
  (* What an action that keeps the requests and the passed leaves.         *)
  <1>3. ASSUME NEW h \in Handler, request' = request, passed' = passed PROVE RequestStep(h)
    BY <1>2, <1>3 DEF RequestStep, ExchangeTypes
  <1>4. ASSUME NEW h \in Handler PROVE touched[h] \in BOOLEAN
    BY <1>2 DEF ExchangeTypes
  <1>5. ASSUME NEW h \in Handler, UNCHANGED vars, phase[h] \in {"received", "reading"},
               NEW code \in Refusal, Answered(h, code),
               passed' \in SUBSET passed, h \notin passed'
        PROVE  HonestInv'
    <2>1. ~touched[h] /\ stage[h] = "idle" /\ stage' = stage
      BY <1>2, <1>5 DEF Honest, vars
    <2>2. ExchangeStep(h, "answered", code, FALSE) /\ request' = request
      BY <1>2, <1>4, <1>5, <2>1, AnsweredStep
    <2>3. RequestStep(h)
      BY <1>2, <1>5, <2>2 DEF RequestStep, ExchangeTypes
    <2>4. code \notin {"200", "503 full"}
      BY <1>5 DEF Refusal
    <2> QED
      BY <1>5, <2>1, <2>2, <2>3, <2>4, HonestMove
  <1>6. ASSUME NEW h \in Handler, Receive(h) PROVE HonestInv'
    <2>1. phase[h] = "idle" /\ passed' = passed /\ stage' = stage
      BY <1>6 DEF Receive, vars, gateState
    <2>2. ~touched[h] /\ stage[h] = "idle" /\ status[h] = "none" /\ h \notin passed
      BY <1>2, <2>1 DEF Honest
    <2>3. ExchangeStep(h, "received", "none", FALSE)
      BY <1>2, <1>6, <2>2 DEF Receive, ExchangeStep, ExchangeTypes
    <2>4. RequestStep(h)
      BY <1>2, <1>6, <2>1 DEF Receive, RequestStep, ExchangeTypes
    <2> QED
      BY <2>1, <2>2, <2>3, <2>4, HonestMove DEF Refusal
  <1>7. ASSUME NEW h \in Handler, CheckRate(h) PROVE HonestInv'
    <2>1. /\ phase[h] = "received" /\ request[h].credentials
          /\ passed' = passed \cup {h} /\ request' = request /\ stage' = stage
          /\ UNCHANGED <<phase, status, touched>>
      BY <1>7 DEF CheckRate, Gate!PassRate, exchange, vars
    <2>2. ~touched[h] /\ stage[h] = "idle" /\ status[h] = "none"
      BY <1>2, <2>1 DEF Honest
    <2>3. ExchangeStep(h, "received", "none", FALSE)
      BY <1>2, <2>1, <2>2 DEF ExchangeStep, ExchangeTypes
    <2>4. RequestStep(h)
      BY <1>2, <2>1 DEF RequestStep, ExchangeTypes
    <2> QED
      BY <2>1, <2>2, <2>3, <2>4, HonestMove DEF Refusal
  <1>8. ASSUME NEW h \in Handler, Admit(h) PROVE HonestInv'
    <2>1. /\ h \in passed /\ passed' = passed \ {h} /\ request' = request
          /\ stage' = stage /\ phase' = [phase EXCEPT ![h] = "reading"]
          /\ UNCHANGED <<status, touched>>
      BY <1>8 DEF Admit, Gate!Acquire, vars
    <2>2. ~touched[h] /\ stage[h] = "idle" /\ status[h] = "none"
      BY <1>2, <2>1 DEF Honest
    <2>3. ExchangeStep(h, "reading", "none", FALSE)
      BY <1>2, <2>1, <2>2 DEF ExchangeStep, ExchangeTypes
    <2>4. RequestStep(h)
      BY <1>2, <2>1 DEF RequestStep, ExchangeTypes
    <2> QED
      BY <2>1, <2>2, <2>3, <2>4, HonestMove DEF Refusal
  <1>9. ASSUME NEW h \in Handler, Busy(h) PROVE HonestInv'
    <2>1. h \in passed /\ passed' = passed \ {h} /\ Answered(h, "503 busy") /\ UNCHANGED vars
      BY <1>9 DEF Busy, Gate!Saturate
    <2>2. phase[h] = "received"
      BY <1>2, <2>1 DEF Honest
    <2> QED
      BY <1>5, <2>1, <2>2 DEF Refusal
  <1>10. ASSUME NEW h \in Handler, Handle(h) PROVE HonestInv'
    <2>1. /\ phase[h] = "reading" /\ Call(h) /\ phase' = [phase EXCEPT ![h] = "storing"]
          /\ UNCHANGED <<request, passed, status, touched>>
      BY <1>10 DEF Handle, gateState
    <2>2. StageStep(h, "idle", "waiting")
      BY <1>1, <2>1, StageSteps
    <2>3. ~touched[h] /\ status[h] = "none" /\ h \notin passed
      BY <1>2, <2>1 DEF Honest
    <2>4. ExchangeStep(h, "storing", "none", FALSE)
      BY <1>2, <2>1, <2>3 DEF ExchangeStep, ExchangeTypes
    <2> QED
      BY <1>3, <2>1, <2>2, <2>3, <2>4, HonestMove DEF StageStep, Refusal
  <1>11. ASSUME NEW h \in Handler, Lock(h) PROVE HonestInv'
    <2>1. /\ phase[h] = "storing" /\ Begin(h) /\ touched' = [touched EXCEPT ![h] = TRUE]
          /\ UNCHANGED <<phase, request, status, passed>>
      BY <1>11 DEF Lock, gateState
    <2>2. StageStep(h, "waiting", "locked")
      BY <1>1, <2>1, StageSteps
    <2>3. status[h] = "none" /\ h \notin passed
      BY <1>2, <2>1 DEF Honest
    <2>4. ExchangeStep(h, "storing", "none", TRUE)
      BY <1>2, <2>1, <2>3 DEF ExchangeStep, ExchangeTypes
    <2> QED
      BY <1>3, <2>1, <2>2, <2>3, <2>4, HonestMove DEF StageStep, Refusal
  <1>12. ASSUME NEW h \in Handler, Operate(h) PROVE HonestInv'
    <2>1. phase[h] = "storing" /\ Work(h) /\ UNCHANGED <<phase, request, status, passed, touched>>
      BY <1>12 DEF Operate, gateState, exchange
    <2>2. StageStep(h, "locked", "done")
      BY <1>1, <2>1, StageSteps
    <2>3. status[h] = "none" /\ h \notin passed /\ touched[h] = TRUE
      BY <1>2, <1>4, <2>1, <2>2 DEF Honest, StageStep
    <2>4. ExchangeStep(h, "storing", "none", TRUE)
      BY <1>2, <2>1, <2>3 DEF ExchangeStep, ExchangeTypes
    <2> QED
      BY <1>3, <2>1, <2>2, <2>3, <2>4, HonestMove DEF StageStep, Refusal
  <1>13. ASSUME NEW h \in Handler, Respond(h) PROVE HonestInv'
    <2> DEFINE code == IF reply[h].result = "ok" THEN "200" ELSE "503 full"
    <2>1. phase[h] = "storing" /\ Return(h) /\ passed' = passed /\ Answered(h, code)
      BY <1>13 DEF Respond, Gate!Release
    <2>2. code \in {"200", "503 full"}
      OBVIOUS
    <2> HIDE DEF code
    <2>3. StageStep(h, "done", "idle")
      BY <1>1, <2>1, StageSteps
    <2>4. h \notin passed /\ touched[h] = TRUE
      BY <1>2, <1>4, <2>1, <2>3 DEF Honest, StageStep
    <2>5. ExchangeStep(h, "answered", code, TRUE) /\ request' = request
      BY <1>2, <2>1, <2>4, AnsweredStep
    <2>6. code \notin Refusal
      BY <2>2 DEF Refusal
    <2> QED
      BY <1>3, <2>1, <2>3, <2>4, <2>5, <2>6, HonestMove DEF StageStep
  <1>14. ASSUME NEW h \in Handler, WaitsForLock(h), Gate!Release(h), Answered(h, "408")
         PROVE  HonestInv'
    <2>1. phase[h] = "storing" /\ Cancel(h) /\ passed' = passed
      BY <1>14 DEF WaitsForLock, Gate!Release
    <2>2. StageStep(h, "waiting", "idle")
      BY <1>1, <2>1, StageSteps
    <2>3. h \notin passed /\ touched[h] = FALSE
      BY <1>2, <1>4, <2>1, <2>2 DEF Honest, StageStep
    <2>4. ExchangeStep(h, "answered", "408", FALSE) /\ request' = request
      BY <1>2, <1>14, <2>3, AnsweredStep
    <2> QED
      BY <1>3, <2>1, <2>2, <2>3, <2>4, HonestMove DEF StageStep
  <1>15. ASSUME NEW h \in Handler, WaitsForBody(h), Gate!Release(h), Answered(h, "408")
         PROVE  HonestInv'
    <2>1. phase[h] = "reading" /\ UNCHANGED vars /\ passed' = passed
      BY <1>15 DEF WaitsForBody, Gate!Release
    <2>2. h \notin passed
      BY <1>2, <2>1 DEF Honest
    <2> QED
      BY <1>5, <1>15, <2>1, <2>2 DEF Refusal
  <1>16. ASSUME NEW h \in Handler, HangUp(h) PROVE HonestInv'
    <2>1. /\ phase' = [phase EXCEPT ![h] = "idle"] /\ UNCHANGED <<status, touched, passed>>
          /\ request' = [request EXCEPT ![h] = NoRequest]
          /\ WaitsForBody(h) \/ WaitsForLock(h)
      BY <1>16 DEF HangUp, Gate!Release
    <2>2. /\ ~touched[h] /\ status[h] = "none" /\ h \notin passed /\ stage'[h] = "idle"
          /\ \A u \in Handler : u # h => stage'[u] = stage[u]
      <3>1. CASE WaitsForBody(h)
        <4>1. phase[h] = "reading" /\ stage' = stage
          BY <3>1 DEF WaitsForBody, vars
        <4> QED
          BY <1>2, <4>1 DEF Honest
      <3>2. CASE WaitsForLock(h)
        <4>1. phase[h] = "storing" /\ StageStep(h, "waiting", "idle")
          BY <1>1, <3>2, StageSteps DEF WaitsForLock
        <4> QED
          BY <1>2, <4>1 DEF Honest, StageStep
      <3> QED
        BY <2>1, <3>1, <3>2
    <2>3. ExchangeStep(h, "idle", "none", FALSE)
      BY <1>2, <2>1, <2>2 DEF ExchangeStep, ExchangeTypes
    <2>4. RequestStep(h)
      BY <1>2, <2>1 DEF RequestStep, ExchangeTypes
    <2> QED
      BY <2>1, <2>2, <2>3, <2>4, HonestMove DEF Refusal
  <1>17. ASSUME NEW h \in Handler, EndExchange(h) PROVE HonestInv'
    <2>1. /\ phase[h] = "answered" /\ passed' = passed /\ stage' = stage
          /\ phase' = [phase EXCEPT ![h] = "idle"] /\ status' = [status EXCEPT ![h] = "none"]
          /\ touched' = [touched EXCEPT ![h] = FALSE]
          /\ request' = [request EXCEPT ![h] = NoRequest]
      BY <1>17 DEF EndExchange, vars, gateState
    <2>2. stage[h] = "idle" /\ h \notin passed
      BY <1>2, <2>1 DEF Honest
    <2>3. ExchangeStep(h, "idle", "none", FALSE)
      BY <1>2, <2>1 DEF ExchangeStep, ExchangeTypes
    <2>4. RequestStep(h)
      BY <1>2, <2>1 DEF RequestStep, ExchangeTypes
    <2> QED
      BY <2>1, <2>2, <2>3, <2>4, HonestMove DEF Refusal
  <1>18. ASSUME UNCHANGED <<phase, request, status, touched, passed>>,
                \A h \in Handler : stage'[h] = stage[h]
         PROVE  HonestInv'
    BY <1>2, <1>18 DEF HonestInv, Honest, ExchangeTypes
  <1>19. ASSUME NEW q \in Query, Lookup(q) PROVE HonestInv'
    <2>1. Call(q) \/ Begin(q) \/ Work(q) \/ Return(q)
      BY <1>19 DEF Lookup
    <2>2. \A h \in Handler : stage'[h] = stage[h]
      BY <1>1, <2>1, StageSteps DEF StageStep
    <2>3. UNCHANGED <<phase, request, status, touched, passed>>
      BY <1>19 DEF Lookup, exchange, gateState
    <2> QED
      BY <1>18, <2>2, <2>3
  <1>20. ASSUME StoreTick \/ RateTick \/ UNCHANGED httpVars PROVE HonestInv'
    <2>1. UNCHANGED <<stage, phase, status, touched, passed, request>>
      BY <1>20 DEF StoreTick, RateTick, Tick, Gate!GateTick, httpVars, vars, exchange,
                   gateState
    <2> QED
      BY <1>18, <2>1
  <1>21. ASSUME NEW h \in Handler, Unauthorized(h) PROVE HonestInv'
    <2>1. h \notin passed /\ passed' = passed
      BY <1>2, <1>21 DEF Unauthorized, Honest, gateState
    <2> QED
      BY <1>5, <1>21, <2>1 DEF Unauthorized, Refusal
  <1>22. ASSUME NEW h \in Handler, RateLimited(h) PROVE HonestInv'
    <2>1. h \notin passed /\ passed' = passed
      BY <1>22 DEF RateLimited, Gate!RateLimit
    <2> QED
      BY <1>5, <1>22, <2>1 DEF RateLimited, Refusal
  <1>23. ASSUME NEW h \in Handler, BadRequest(h) PROVE HonestInv'
    <2>1. h \notin passed /\ passed' = passed
      BY <1>2, <1>23 DEF BadRequest, Gate!Release, Honest
    <2> QED
      BY <1>5, <1>23, <2>1 DEF BadRequest, Refusal
  <1>24. ASSUME NEW h \in Handler, TimeOut(h) PROVE HonestInv'
    BY <1>14, <1>15, <1>24 DEF TimeOut
  <1> QED
    BY <1>6, <1>7, <1>8, <1>9, <1>10, <1>11, <1>12, <1>13, <1>16, <1>17, <1>19, <1>20,
       <1>21, <1>22, <1>23, <1>24
    DEF HttpNext

LEMMA HonestInit == StoreInv /\ HttpInit => HonestInv
  <1>1. Handler \subseteq Task
    BY DEF Task
  <1> QED
    BY <1>1 DEF HttpInit, Init, Gate!GateInit, HonestInv, ExchangeTypes, Honest, Refusal

(* A refusal, a timeout and a full gate mean that the store was not and    *)
(* will not be touched; 200 and a full store, that it was.  The timeout    *)
(* and the lock race, and nothing in between can drop a handler.           *)
THEOREM StatusTruth == HttpSpec => []StatusHonest
  <1>1. HttpSpec => []StoreInv
    BY UsesStore, StoreInvariant, PTL DEF StoreUsedProperly
  <1>2. HonestInv => StatusHonest
    <2> SUFFICES ASSUME HonestInv, NEW h \in Handler
                 PROVE  /\ status[h] \in Refusal => ~touched[h] /\ stage[h] = "idle"
                        /\ status[h] \in {"200", "503 full"} => touched[h]
      BY DEF StatusHonest
    <2>1. Honest(h)
      BY DEF HonestInv
    <2> QED
      BY <2>1 DEF Honest, Refusal
  <1> QED
    BY <1>1, <1>2, HonestInit, HonestStep, PTL DEF HttpSpec

-----------------------------------------------------------------------------
(* Permits.  Who is being read or stored moves with who holds one.         *)
Working == {h \in Handler : phase[h] \in {"reading", "storing"}}

PermitInv ==
  /\ held = Working
  /\ IsFiniteSet(held)
  /\ available \in Int
  /\ available + Cardinality(held) = Permits

(* An exchange that neither begins nor ends its work.                      *)
LEMMA SameWork ==
  ASSUME HonestInv, PermitInv, NEW h \in Handler, NEW p,
         phase[h] \in {"reading", "storing"} <=> p \in {"reading", "storing"},
         phase' = [phase EXCEPT ![h] = p], held' = held, available' = available
  PROVE  PermitInv'
  <1>1. DOMAIN phase = Handler
    BY DEF HonestInv, ExchangeTypes
  <1>2. Working' = Working
    BY <1>1 DEF Working
  <1> QED
    BY <1>2 DEF PermitInv

LEMMA WorkBegins ==
  ASSUME HonestInv, PermitInv, NEW h \in Handler, Admit(h) PROVE PermitInv'
  <1>1. /\ h \in passed /\ phase' = [phase EXCEPT ![h] = "reading"]
        /\ held' = held \cup {h} /\ available' = available - 1
    BY DEF Admit, Gate!Acquire
  <1>2. DOMAIN phase = Handler /\ phase[h] = "received"
    BY <1>1 DEF HonestInv, ExchangeTypes, Honest
  <1>3. h \notin held /\ Working' = Working \cup {h}
    BY <1>1, <1>2 DEF PermitInv, Working
  <1>4. IsFiniteSet(held') /\ Cardinality(held') = Cardinality(held) + 1
    BY <1>1, <1>3, FS_AddElement DEF PermitInv
  <1>5. Cardinality(held) \in Nat
    BY FS_CardinalityType DEF PermitInv
  <1> QED
    BY <1>1, <1>3, <1>4, <1>5 DEF PermitInv

LEMMA WorkEnds ==
  ASSUME HonestInv, PermitInv, NEW h \in Handler, Gate!Release(h),
         NEW p, p \notin {"reading", "storing"}, phase' = [phase EXCEPT ![h] = p]
  PROVE  PermitInv'
  <1>1. h \in held /\ held' = held \ {h} /\ available' = available + 1
    BY DEF Gate!Release
  <1>2. DOMAIN phase = Handler
    BY DEF HonestInv, ExchangeTypes
  <1>3. Working' = Working \ {h}
    BY <1>2 DEF Working
  <1>4. IsFiniteSet(held') /\ Cardinality(held') = Cardinality(held) - 1
    BY <1>1, FS_RemoveElement DEF PermitInv
  <1>5. Cardinality(held) \in Nat
    BY FS_CardinalityType DEF PermitInv
  <1> QED
    BY <1>1, <1>3, <1>4, <1>5 DEF PermitInv

LEMMA PermitStep == HonestInv /\ PermitInv /\ [HttpNext]_httpVars => PermitInv'
  <1> SUFFICES ASSUME HonestInv, PermitInv, [HttpNext]_httpVars PROVE PermitInv'
    OBVIOUS
  <1>1. ASSUME UNCHANGED <<phase, held, available>> PROVE PermitInv'
    BY <1>1 DEF PermitInv, Working
  <1>2. ASSUME NEW h \in Handler, Receive(h) \/ Unauthorized(h) \/ EndExchange(h)
        PROVE  PermitInv'
    <2>1. PICK p \in {"received", "answered", "idle"} : phase' = [phase EXCEPT ![h] = p]
      BY <1>2 DEF Receive, Unauthorized, EndExchange, Answered
    <2>2. phase[h] \notin {"reading", "storing"} /\ UNCHANGED <<held, available>>
      BY <1>2 DEF Receive, Unauthorized, EndExchange, gateState
    <2> QED
      BY <2>1, <2>2, SameWork
  <1>3. ASSUME NEW h \in Handler, RateLimited(h) \/ Busy(h) PROVE PermitInv'
    <2>1. phase' = [phase EXCEPT ![h] = "answered"] /\ UNCHANGED <<held, available>>
      BY <1>3 DEF RateLimited, Busy, Answered, Gate!RateLimit, Gate!Saturate
    <2>2. phase[h] = "received"
      <3>1. CASE RateLimited(h)
        BY <3>1 DEF RateLimited
      <3>2. CASE Busy(h)
        BY <3>2 DEF Busy, Gate!Saturate, HonestInv, Honest
      <3> QED
        BY <1>3, <3>1, <3>2
    <2> QED
      BY <2>1, <2>2, SameWork
  <1>4. ASSUME NEW h \in Handler, CheckRate(h) \/ Lock(h) \/ Operate(h) PROVE PermitInv'
    BY <1>1, <1>4 DEF CheckRate, Gate!PassRate, Lock, Operate, exchange, gateState
  <1>5. ASSUME NEW h \in Handler, Handle(h) PROVE PermitInv'
    <2>1. /\ phase[h] = "reading" /\ phase' = [phase EXCEPT ![h] = "storing"]
          /\ UNCHANGED <<held, available>>
      BY <1>5 DEF Handle, gateState
    <2> QED
      BY <2>1, SameWork
  <1>6. ASSUME NEW h \in Handler, BadRequest(h) \/ Respond(h) \/ TimeOut(h) \/ HangUp(h)
        PROVE  PermitInv'
    <2>1. PICK p \in {"answered", "idle"} : phase' = [phase EXCEPT ![h] = p]
      BY <1>6 DEF BadRequest, Respond, TimeOut, HangUp, Answered
    <2>2. Gate!Release(h)
      BY <1>6 DEF BadRequest, Respond, TimeOut, HangUp
    <2> QED
      BY <2>1, <2>2, WorkEnds
  <1>7. ASSUME NEW q \in Query, Lookup(q) PROVE PermitInv'
    BY <1>1, <1>7 DEF Lookup, exchange, gateState
  <1>8. ASSUME StoreTick \/ RateTick \/ UNCHANGED httpVars PROVE PermitInv'
    BY <1>1, <1>8 DEF StoreTick, RateTick, Gate!GateTick, httpVars, exchange, gateState
  <1> QED
    BY <1>2, <1>3, <1>4, <1>5, <1>6, <1>7, <1>8, WorkBegins DEF HttpNext

LEMMA PermitInit == HttpInit => PermitInv
  <1> SUFFICES ASSUME HttpInit PROVE PermitInv
    OBVIOUS
  <1>1. Working = {} /\ held = {} /\ available = Permits
    BY DEF HttpInit, Gate!GateInit, Working
  <1> QED
    BY <1>1, PermitsAssumption, FS_EmptySet DEF PermitInv

(* Permits are held by exactly the exchanges that are read or stored: no   *)
(* way out of a request keeps one or returns one twice.                    *)
THEOREM PermitsFollowWork == HttpSpec => []PermitsHeldByWork
  <1>1. HttpSpec => []StoreInv
    BY UsesStore, StoreInvariant, PTL DEF StoreUsedProperly
  <1>2. PermitInv => PermitsHeldByWork
    BY DEF PermitInv, Working, PermitsHeldByWork
  <1> QED
    BY <1>1, <1>2, HonestInit, HonestStep, PermitInit, PermitStep, PTL DEF HttpSpec

-----------------------------------------------------------------------------
(* Who changes the zone.  What an operation under the lock does to what is *)
(* served: nothing, or exactly what its call asks for.                     *)
Changes(c) ==
  \E v \in Value :
    LET others == Without(Unexpired(records), v) IN
    \/ c = [op |-> "add", value |-> v] /\ Unexpired(records') = others \cup {Fresh(v)}
    \/ c = [op |-> "remove", value |-> v] /\ Unexpired(records') = others

LEMMA WorkChanges ==
  ASSUME StoreInv, NEW t \in Task, Work(t)
  PROVE  Unexpired(records') = Unexpired(records) \/ Changes(call[t])
  <1>1. Holding(t, "add") => call[t] \in AddCall
    BY DEF StoreInv, Called, Holding, CallsOf, AddCall, RemoveCall, LookupCall
  <1>2. Holding(t, "remove") => call[t] \in RemoveCall
    BY DEF StoreInv, Called, Holding, CallsOf, AddCall, RemoveCall, LookupCall
  <1>3. ASSUME Holding(t, "add") PROVE Fresh(call[t].value).remaining > 0
    BY ConfigAssumption DEF Fresh
  <1>4. ASSUME AddRefresh(t) \/ AddPush(t) PROVE Changes(call[t])
    <2> DEFINE v == call[t].value
               others == Without(Unexpired(records), v)
    <2>1. Holding(t, "add") /\ records' = Without(records, v) \cup {Fresh(v)}
      <3>1. CASE AddRefresh(t)
        BY <3>1 DEF AddRefresh
      <3>2. CASE AddPush(t)
        BY <3>2 DEF AddPush, Stored, Values, Without
      <3> QED
        BY <1>4, <3>1, <3>2
    <2>2. Unexpired(records') = others \cup {Fresh(v)}
      BY <1>3, <2>1 DEF Unexpired, Without
    <2>3. v \in Value /\ call[t] = [op |-> "add", value |-> v]
      BY <1>1, <2>1 DEF AddCall
    <2> QED
      BY <2>2, <2>3 DEF Changes
  <1>5. ASSUME Remove(t) PROVE Changes(call[t])
    <2> DEFINE v == call[t].value
    <2>1. Holding(t, "remove") /\ records' = Without(records, v)
      BY <1>5 DEF Remove
    <2>2. Unexpired(records') = Without(Unexpired(records), v)
      BY <2>1 DEF Unexpired, Without
    <2>3. v \in Value /\ call[t] = [op |-> "remove", value |-> v]
      BY <1>2, <2>1 DEF RemoveCall
    <2> QED
      BY <2>2, <2>3 DEF Changes
  <1>6. ASSUME AddOverLimit(t) \/ AddOverWire(t) \/ GetWithSerial(t) \/ ReadSerial(t)
        PROVE  records' = records
    BY <1>6 DEF AddOverLimit, AddOverWire, GetWithSerial, ReadSerial
  <1> QED
    BY <1>4, <1>5, <1>6 DEF Work

(* A query asks for no change.                                             *)
LEMMA QueriesOnlyRead ==
  ASSUME StoreInv, NEW q \in Query, Work(q)
  PROVE  Unexpired(records') = Unexpired(records)
  <1>1. q \in Task /\ q \notin Handler
    BY ConfigAssumption DEF Task
  <1>2. stage[q] = "locked"
    BY <1>1, StageMoves
  <1>3. call[q] \in LookupCall
    BY <1>1, <1>2 DEF StoreInv, Called, CallsOf
  <1>4. ~Changes(call[q])
    <2>1. call[q].op \in {"get", "serial"}
      BY <1>3 DEF LookupCall
    <2>2. \A v : [op |-> "add", value |-> v].op = "add"
      OBVIOUS
    <2>3. \A v : [op |-> "remove", value |-> v].op = "remove"
      OBVIOUS
    <2>4. SUFFICES ASSUME Changes(call[q]) PROVE FALSE
      OBVIOUS
    <2>5. PICK v \in Value : \/ call[q] = [op |-> "add", value |-> v]
                            \/ call[q] = [op |-> "remove", value |-> v]
      BY <2>4 DEF Changes
    <2> QED
      BY <2>1, <2>2, <2>3, <2>5
  <1> QED
    BY <1>1, <1>4, WorkChanges

(* Outside its operations the store changes by pruning and by time only.   *)
LEMMA OthersKeep ==
  ASSUME NEW t \in Task, Call(t) \/ Begin(t) \/ Return(t) \/ Cancel(t)
  PROVE  Unexpired(records') = Unexpired(records)
  BY DEF Call, Begin, Return, Cancel, Forget, Unexpired

(* An exchange at work has the right credentials, and what it asks of the  *)
(* store is what its client asked of it.                                   *)
Serves(h) ==
  /\ phase[h] \in {"reading", "storing"} => request[h].credentials
  /\ phase[h] = "storing" => call[h] = request[h].body

ServesInv == \A h \in Handler : Serves(h)

(* A step of a task leaves the calls of the others.                        *)
LEMMA CallMoves ==
  ASSUME StoreInv, NEW t \in Task,
         Call(t) \/ Begin(t) \/ Work(t) \/ Return(t) \/ Cancel(t)
  PROVE  /\ \A u \in Handler : u # t => call'[u] = call[u]
         /\ Begin(t) \/ Work(t) => call' = call
  <1>1. DOMAIN call = Task /\ Handler \subseteq Task
    BY DEF StoreInv, TypeOK, Task
  <1>2. ASSUME Call(t) \/ Return(t) \/ Cancel(t)
        PROVE  \E c : call' = [call EXCEPT ![t] = c]
    BY <1>2 DEF Call, Return, Cancel, Forget
  <1>3. ASSUME Begin(t) \/ Work(t) PROVE call' = call
    BY <1>3 DEF Begin, Work, AddRefresh, AddOverLimit, AddOverWire, AddPush, Remove,
                GetWithSerial, ReadSerial, Finish
  <1> QED
    BY <1>1, <1>2, <1>3

(* A step of one exchange is judged by that exchange.                      *)
LEMMA OneServes ==
  ASSUME ServesInv, NEW h \in Handler, Serves(h)',
         \A u \in Handler : u # h =>
           phase'[u] = phase[u] /\ request'[u] = request[u] /\ call'[u] = call[u]
  PROVE  ServesInv'
  BY DEF ServesInv, Serves

LEMMA ServesStep ==
  StoreInv /\ HonestInv /\ ServesInv /\ [HttpNext]_httpVars => ServesInv'
  <1> SUFFICES ASSUME StoreInv, HonestInv, ServesInv, [HttpNext]_httpVars
               PROVE  ServesInv'
    OBVIOUS
  <1>1. Handler \subseteq Task /\ Query \subseteq Task /\ Handler \cap Query = {}
    BY ConfigAssumption DEF Task
  <1>2. ExchangeTypes /\ \A h \in Handler : Honest(h) /\ Serves(h)
    BY DEF HonestInv, ServesInv
  <1>3. DOMAIN phase = Handler /\ DOMAIN request = Handler
    BY <1>2 DEF ExchangeTypes
  (* Who leaves work asks for nothing.                                     *)
  <1>4. ASSUME NEW h \in Handler, NEW p, p \notin {"reading", "storing"},
               phase' = [phase EXCEPT ![h] = p],
               \A u \in Handler : u # h => request'[u] = request[u] /\ call'[u] = call[u]
        PROVE  ServesInv'
    <2>1. Serves(h)'
      BY <1>3, <1>4 DEF Serves
    <2> QED
      BY <1>3, <1>4, <2>1, OneServes
  <1>5. ASSUME UNCHANGED <<phase, request>>, \A h \in Handler : call'[h] = call[h]
        PROVE  ServesInv'
    BY <1>2, <1>5 DEF ServesInv, Serves
  <1>6. ASSUME NEW h \in Handler,
               Receive(h) \/ Unauthorized(h) \/ RateLimited(h) \/ Busy(h) \/ EndExchange(h)
        PROVE  ServesInv'
    <2>1. PICK p \in {"received", "answered", "idle"} : phase' = [phase EXCEPT ![h] = p]
      BY <1>6 DEF Receive, Unauthorized, RateLimited, Busy, EndExchange, Answered
    <2>2. call' = call
      BY <1>6 DEF Receive, Unauthorized, RateLimited, Busy, EndExchange, vars
    <2>3. \A u \in Handler : u # h => request'[u] = request[u]
      BY <1>3, <1>6 DEF Receive, Unauthorized, RateLimited, Busy, EndExchange, Answered
    <2> QED
      BY <1>4, <2>1, <2>2, <2>3
  <1>7. ASSUME NEW h \in Handler, CheckRate(h) PROVE ServesInv'
    BY <1>5, <1>7 DEF CheckRate, vars, exchange
  <1>8. ASSUME NEW h \in Handler, Admit(h) PROVE ServesInv'
    <2>1. /\ h \in passed /\ phase' = [phase EXCEPT ![h] = "reading"]
          /\ request' = request /\ call' = call
      BY <1>8 DEF Admit, Gate!Acquire, vars
    <2>2. request[h].credentials
      BY <1>2, <2>1 DEF Honest
    <2>3. Serves(h)'
      BY <1>3, <2>1, <2>2 DEF Serves
    <2> QED
      BY <1>3, <2>1, <2>3, OneServes
  <1>9. ASSUME NEW h \in Handler, Handle(h) PROVE ServesInv'
    <2>1. /\ phase[h] = "reading" /\ phase' = [phase EXCEPT ![h] = "storing"]
          /\ request' = request /\ Call(h) /\ call'[h] = request[h].body
      BY <1>9 DEF Handle
    <2>2. \A u \in Handler : u # h => call'[u] = call[u]
      BY <1>1, <2>1, CallMoves
    <2>3. Serves(h)'
      BY <1>2, <1>3, <2>1 DEF Serves
    <2> QED
      BY <1>3, <2>1, <2>2, <2>3, OneServes
  <1>10. ASSUME NEW h \in Handler, Lock(h) \/ Operate(h) PROVE ServesInv'
    <2>1. Begin(h) \/ Work(h)
      BY <1>10 DEF Lock, Operate
    <2>2. UNCHANGED <<phase, request>>
      BY <1>10 DEF Lock, Operate, exchange
    <2> QED
      BY <1>1, <1>5, <2>1, <2>2, CallMoves
  <1>11. ASSUME NEW h \in Handler, BadRequest(h) \/ Respond(h) \/ TimeOut(h) \/ HangUp(h)
         PROVE  ServesInv'
    <2>1. PICK p \in {"answered", "idle"} : phase' = [phase EXCEPT ![h] = p]
      BY <1>11 DEF BadRequest, Respond, TimeOut, HangUp, Answered
    <2>2. UNCHANGED vars \/ Return(h) \/ Cancel(h)
      BY <1>11 DEF BadRequest, Respond, TimeOut, HangUp, WaitsForBody, WaitsForLock
    <2>3. \A u \in Handler : u # h => call'[u] = call[u]
      BY <1>1, <2>2, CallMoves DEF vars
    <2>4. \A u \in Handler : u # h => request'[u] = request[u]
      BY <1>3, <1>11 DEF BadRequest, Respond, TimeOut, HangUp, Answered
    <2> QED
      BY <1>4, <2>1, <2>3, <2>4
  <1>12. ASSUME NEW q \in Query, Lookup(q) PROVE ServesInv'
    <2>1. (Call(q) \/ Begin(q) \/ Work(q) \/ Return(q)) /\ UNCHANGED <<phase, request>>
      BY <1>12 DEF Lookup, exchange
    <2>2. \A h \in Handler : call'[h] = call[h]
      BY <1>1, <2>1, CallMoves
    <2> QED
      BY <1>5, <2>1, <2>2
  <1>13. ASSUME StoreTick \/ RateTick \/ UNCHANGED httpVars PROVE ServesInv'
    BY <1>5, <1>13 DEF StoreTick, RateTick, Tick, httpVars, vars, exchange
  <1> QED
    BY <1>6, <1>7, <1>8, <1>9, <1>10, <1>11, <1>12, <1>13 DEF HttpNext

LEMMA ServesInit == HttpInit => ServesInv
  BY DEF HttpInit, ServesInv, Serves

(* What a step may do to the zone, given who works for whom.               *)
LEMMA FollowsStep ==
  ASSUME StoreInv, PermitInv, ServesInv, [HttpNext]_httpVars
  PROVE  \/ records' = Aged(records)
         \/ Unexpired(records') = Unexpired(records)
         \/ \E h \in Handler, v \in Value :
              LET others == Without(Unexpired(records), v) IN
              \/ Asks(h, "add", v) /\ Unexpired(records') = others \cup {Fresh(v)}
              \/ Asks(h, "remove", v) /\ Unexpired(records') = others
  <1>1. Handler \subseteq Task /\ Query \subseteq Task
    BY DEF Task
  <1>2. ASSUME NEW h \in Handler, Operate(h),
               Unexpired(records') # Unexpired(records)
        PROVE  \E v \in Value :
                 LET others == Without(Unexpired(records), v) IN
                 \/ Asks(h, "add", v) /\ Unexpired(records') = others \cup {Fresh(v)}
                 \/ Asks(h, "remove", v) /\ Unexpired(records') = others
    <2>1. phase[h] = "storing" /\ Work(h)
      BY <1>2 DEF Operate
    <2>2. Changes(call[h])
      BY <1>1, <1>2, <2>1, WorkChanges
    <2>3. h \in held /\ request[h].credentials /\ call[h] = request[h].body
      BY <2>1 DEF PermitInv, Working, ServesInv, Serves
    <2> QED
      BY <2>1, <2>2, <2>3 DEF Changes, Asks
  <1>3. ASSUME NEW h \in Handler,
               Handle(h) \/ Lock(h) \/ Respond(h) \/ WaitsForLock(h)
        PROVE  Unexpired(records') = Unexpired(records)
    BY <1>1, <1>3, OthersKeep DEF Handle, Lock, Respond, WaitsForLock
  <1>4. ASSUME NEW h \in Handler,
               \/ Receive(h) \/ Unauthorized(h) \/ RateLimited(h) \/ CheckRate(h)
               \/ Busy(h) \/ Admit(h) \/ BadRequest(h) \/ EndExchange(h)
               \/ WaitsForBody(h)
        PROVE  records' = records
    BY <1>4 DEF Receive, Unauthorized, RateLimited, CheckRate, Busy, Admit, BadRequest,
                EndExchange, WaitsForBody, vars
  <1>5. ASSUME NEW h \in Handler, TimeOut(h) \/ HangUp(h)
        PROVE  Unexpired(records') = Unexpired(records)
    BY <1>3, <1>4, <1>5 DEF TimeOut, HangUp
  <1>6. ASSUME NEW q \in Query, Lookup(q)
        PROVE  Unexpired(records') = Unexpired(records)
    BY <1>1, <1>6, OthersKeep, QueriesOnlyRead DEF Lookup
  <1>7. ASSUME StoreTick PROVE records' = Aged(records)
    BY <1>7 DEF StoreTick, Tick
  <1>8. ASSUME RateTick \/ UNCHANGED httpVars PROVE records' = records
    BY <1>8 DEF RateTick, httpVars, vars
  <1> QED
    BY <1>2, <1>3, <1>4, <1>5, <1>6, <1>7, <1>8 DEF HttpNext

(* What DNS serves changes by the passing of time and by authenticated,    *)
(* admitted requests that are still waited for, one at a time and by       *)
(* exactly what each asks for; nothing else that the API, the queries or   *)
(* the pruning do is seen in the zone.                                     *)
THEOREM ZoneAccountable == HttpSpec => ZoneFollowsRequests
  <1>1. HttpSpec => []StoreInv
    BY UsesStore, StoreInvariant, PTL DEF StoreUsedProperly
  <1>2. HttpSpec => [](HonestInv /\ PermitInv)
    BY <1>1, HonestInit, HonestStep, PermitInit, PermitStep, PTL DEF HttpSpec
  <1>3. HttpSpec => []ServesInv
    BY <1>1, <1>2, ServesInit, ServesStep, PTL DEF HttpSpec
  <1> QED
    BY <1>1, <1>2, <1>3, FollowsStep, PTL DEF HttpSpec, ZoneFollowsRequests
=============================================================================
