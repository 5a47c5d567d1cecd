------------------------------ MODULE HttpApi ------------------------------
(***************************************************************************)
(* The HTTP API, src/src/api.rs: requests pass authentication and the      *)
(* request gate, have their body read, and call the challenge store of     *)
(* AcmeRecords; a timeout or a client that hangs up may end them anywhere  *)
(* they wait.  A task of Handler is one HTTP exchange at a time.           *)
(*                                                                         *)
(* The layers of router_with_limits nest: authorize_and_admit holds the    *)
(* permit around the timeout, the timeout runs around the body limit and   *)
(* the handler.  Between the awaits (the body, the store's lock, writing   *)
(* the response) nothing can drop a request.  A restart returns to         *)
(* HttpInit and so reaches no other state; AcmeRecords has it as a step.   *)
(***************************************************************************)
EXTENDS AcmeRecords

CONSTANTS
  Burst, Price, Refill, Permits  \* as in RequestGate

ASSUME PermitsAssumption == Permits \in Nat \ {0}

VARIABLES
  tokens, unseen, available, passed, held,  \* as in RequestGate
  phase,    \* phase[h]: "idle", "received", "reading", "storing", "answered"
  request,  \* request[h]: what the client sent
  status,   \* status[h]: the response, "none" before there is one
  touched   \* history: touched[h], the store took its lock for this exchange

gateState == <<tokens, unseen, available, passed, held>>
exchange == <<phase, request, status, touched>>
httpVars == <<vars, gateState, exchange>>

Gate == INSTANCE RequestGate WITH
          Request <- Handler, WindowUnits <- 0,
          window <- [open |-> FALSE, paid |-> 0, gained |-> 0]

(* A request has the right credentials or not, and a body that asks for a  *)
(* change of the zone, or one that is refused (malformed, too long, another*)
(* name, a bad value), or one that does not arrive.                        *)
Change == AddCall \cup RemoveCall
Body == Change \cup [op : {"refused", "stalled"}, value : {NoValue}]
Sent == [credentials : BOOLEAN, body : Body]
NoRequest == [credentials |-> FALSE, body |-> [op |-> "stalled", value |-> NoValue]]

(* 503 comes from the gate ("busy") and from the store ("full").           *)
Refusal == {"401", "429", "503 busy", "408", "4xx body"}

HttpInit ==
  /\ Init
  /\ Gate!GateInit
  /\ phase = [h \in Handler |-> "idle"]
  /\ request = [h \in Handler |-> NoRequest]
  /\ status = [h \in Handler |-> "none"]
  /\ touched = [h \in Handler |-> FALSE]

-----------------------------------------------------------------------------
Receive(h) ==
  /\ phase[h] = "idle"
  /\ \E s \in Sent : request' = [request EXCEPT ![h] = s]
  /\ phase' = [phase EXCEPT ![h] = "received"]
  /\ UNCHANGED <<vars, gateState, status, touched>>

Answered(h, code) ==
  /\ phase' = [phase EXCEPT ![h] = "answered"]
  /\ status' = [status EXCEPT ![h] = code]
  /\ UNCHANGED <<request, touched>>

Unauthorized(h) ==
  /\ phase[h] = "received"
  /\ ~request[h].credentials
  /\ Answered(h, "401")
  /\ UNCHANGED <<vars, gateState>>

RateLimited(h) ==
  /\ phase[h] = "received"
  /\ request[h].credentials
  /\ Gate!RateLimit(h)
  /\ Answered(h, "429")
  /\ UNCHANGED vars

(* Defect: a request that goes on to the gate whatever it is authorized by.*)
CheckRateOfAnyone(h) ==
  /\ phase[h] = "received"
  /\ Gate!PassRate(h)
  /\ UNCHANGED <<vars, exchange>>

CheckRate(h) ==
  /\ phase[h] = "received"
  /\ request[h].credentials
  /\ Gate!PassRate(h)
  /\ UNCHANGED <<vars, exchange>>

(* Defect: a request let in although no permit was left, without one.      *)
BusyLetIn(h) ==
  /\ h \in passed
  /\ available = 0
  /\ passed' = passed \ {h}
  /\ held' = held \cup {h}
  /\ phase' = [phase EXCEPT ![h] = "reading"]
  /\ UNCHANGED <<vars, tokens, unseen, available, request, status, touched>>

Busy(h) ==
  /\ Gate!Saturate(h)
  /\ Answered(h, "503 busy")
  /\ UNCHANGED vars

Admit(h) ==
  /\ Gate!Acquire(h)
  /\ phase' = [phase EXCEPT ![h] = "reading"]
  /\ UNCHANGED <<vars, request, status, touched>>

(* The body is read and names a change: the handler calls the store.       *)
Handle(h) ==
  /\ phase[h] = "reading"
  /\ request[h].body \in Change
  /\ Call(h)
  /\ call'[h] = request[h].body
  /\ phase' = [phase EXCEPT ![h] = "storing"]
  /\ UNCHANGED <<gateState, request, status, touched>>

BadRequest(h) ==
  /\ phase[h] = "reading"
  /\ request[h].body.op = "refused"
  /\ Gate!Release(h)
  /\ Answered(h, "4xx body")
  /\ UNCHANGED vars

(* The store's steps for this exchange.                                    *)
Lock(h) ==
  /\ phase[h] = "storing"
  /\ Begin(h)
  /\ touched' = [touched EXCEPT ![h] = TRUE]
  /\ UNCHANGED <<gateState, phase, request, status>>

Operate(h) ==
  /\ phase[h] = "storing"
  /\ Work(h)
  /\ UNCHANGED <<gateState, exchange>>

(* Defect: a response that keeps its permit.                               *)
RespondHoldingPermit(h) ==
  /\ phase[h] = "storing"
  /\ Return(h)
  /\ Answered(h, IF reply[h].result = "ok" THEN "200" ELSE "503 full")
  /\ UNCHANGED gateState

Respond(h) ==
  /\ phase[h] = "storing"
  /\ Return(h)
  /\ Gate!Release(h)
  /\ Answered(h, IF reply[h].result = "ok" THEN "200" ELSE "503 full")

(* Where a request waits: for its body, or for the store's lock.           *)
WaitsForBody(h) == phase[h] = "reading" /\ UNCHANGED vars
WaitsForLock(h) == phase[h] = "storing" /\ Cancel(h)

(* Defects: a timeout that can end an operation inside its critical        *)
(* section, and one that does not cover the body.                          *)
TimeoutInside(h) ==
  /\ phase[h] = "storing"
  /\ stage[h] \in {"waiting", "locked"}
  /\ Forget(h)
  /\ Gate!Release(h)
  /\ Answered(h, "408")
TimeoutForLockOnly(h) ==
  /\ WaitsForLock(h)
  /\ Gate!Release(h)
  /\ Answered(h, "408")

(* TimeoutLayer drops the handler's future and answers 408.                *)
TimeOut(h) ==
  /\ WaitsForBody(h) \/ WaitsForLock(h)
  /\ Gate!Release(h)
  /\ Answered(h, "408")

(* The client hangs up: the connection is dropped with its futures.        *)
HangUp(h) ==
  /\ WaitsForBody(h) \/ WaitsForLock(h)
  /\ Gate!Release(h)
  /\ phase' = [phase EXCEPT ![h] = "idle"]
  /\ request' = [request EXCEPT ![h] = NoRequest]
  /\ UNCHANGED <<status, touched>>

(* The response is written, or is lost with the connection.                *)
EndExchange(h) ==
  /\ phase[h] = "answered"
  /\ phase' = [phase EXCEPT ![h] = "idle"]
  /\ request' = [request EXCEPT ![h] = NoRequest]
  /\ status' = [status EXCEPT ![h] = "none"]
  /\ touched' = [touched EXCEPT ![h] = FALSE]
  /\ UNCHANGED <<vars, gateState>>

(* DNS queries use the store at the same time.                             *)
Lookup(q) ==
  /\ Call(q) \/ Begin(q) \/ Work(q) \/ Return(q)
  /\ UNCHANGED <<gateState, exchange>>

StoreTick == Tick /\ UNCHANGED <<gateState, exchange>>

RateTick == Gate!GateTick /\ UNCHANGED <<vars, exchange>>

HttpNext ==
  \/ \E h \in Handler :
       \/ Receive(h) \/ Unauthorized(h) \/ RateLimited(h) \/ CheckRate(h)
       \/ Busy(h) \/ Admit(h) \/ Handle(h) \/ BadRequest(h)
       \/ Lock(h) \/ Operate(h) \/ Respond(h)
       \/ TimeOut(h) \/ HangUp(h) \/ EndExchange(h)
  \/ \E q \in Query : Lookup(q)
  \/ StoreTick
  \/ RateTick

HttpSpec == HttpInit /\ [][HttpNext]_httpVars

(* The runtime polls what is ready and its timers fire.  Nothing is        *)
(* assumed of clients: bodies may never come, connections may stay.        *)
HttpFairness ==
  /\ \A h \in Handler :
       /\ WF_httpVars(TimeOut(h))
       /\ WF_httpVars(Busy(h)) /\ WF_httpVars(Admit(h))
       /\ SF_httpVars(Lock(h)) /\ WF_httpVars(Operate(h)) /\ WF_httpVars(Respond(h))
  /\ \A q \in Query : WF_httpVars(Work(q) /\ UNCHANGED <<gateState, exchange>>)

HttpFairSpec == HttpSpec /\ HttpFairness

-----------------------------------------------------------------------------
(* A status tells the truth about the zone: a request that was refused,    *)
(* timed out or found no room at the gate has not touched the store and    *)
(* never will, and a 200 or a full store is reported only after the store  *)
(* has done its work.  The race is between the timeout and the lock.       *)
StatusHonest ==
  \A h \in Handler :
    /\ status[h] \in Refusal => ~touched[h] /\ stage[h] = "idle"
    /\ status[h] \in {"200", "503 full"} => touched[h]

(* A permit is held exactly while the gate's request is being read or      *)
(* stored: no way out of a request keeps one, and none is given back twice.*)
PermitsHeldByWork ==
  /\ held = {h \in Handler : phase[h] \in {"reading", "storing"}}
  /\ available + Cardinality(held) = Permits

(* The exchanges use the store as its own specification says, and the gate *)
(* as its does: whatever is proved of either holds of the whole.           *)
StoreUsedProperly == Spec
GateUsedProperly == Gate!GateSpec
PartsUsedProperly == StoreUsedProperly /\ GateUsedProperly

(* A request that may change the zone now: authenticated, still admitted,  *)
(* not timed out and not hung up.                                          *)
Asks(h, op, v) ==
  /\ h \in held
  /\ phase[h] = "storing"
  /\ request[h].credentials
  /\ request[h].body = [op |-> op, value |-> v]

(* What DNS serves changes by the passing of time and by nothing else than *)
(* such a request, one at a time and by exactly what it asks for: pruning, *)
(* lookups, refusals, timeouts and disconnections leave no trace, and no   *)
(* token is lost or refreshed on the way.                                  *)
ZoneFollowsRequests ==
  [][\/ records' = Aged(records)
     \/ Unexpired(records') = Unexpired(records)
     \/ \E h \in Handler, v \in Value :
          LET others == Without(Unexpired(records), v) IN
          \/ Asks(h, "add", v) /\ Unexpired(records') = others \cup {Fresh(v)}
          \/ Asks(h, "remove", v) /\ Unexpired(records') = others
    ]_httpVars

(* Clients that stall cannot keep the API to themselves: admitted requests *)
(* end, and a permit becomes available again and again.                    *)
PermitsComeBack == []<>(available > 0)
=============================================================================
