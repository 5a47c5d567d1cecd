--------------------------- MODULE ChallengeZone ---------------------------
(***************************************************************************)
(* What the challenge store promises, with no lock, no serial and no lazy  *)
(* pruning: every call takes effect at one instant between its submission  *)
(* and its reply, and a token is in the zone from the moment its addition  *)
(* takes effect until it is removed or, exactly, until its lifetime has    *)
(* elapsed.                                                                *)
(***************************************************************************)
EXTENDS AcmeTokens

VARIABLES
  active,   \* the unexpired tokens
  status,   \* status[t]: "idle", "pending" or "done"
  request,  \* request[t]: the call task t has submitted
  outcome   \* outcome[t]: its reply, once it is done

zoneVars == <<active, status, request, outcome>>

NoOutcome == [result |-> "none", values |-> {}]
Acknowledged == [result |-> "ok", values |-> {}]

Init ==
  /\ active = {}
  /\ status = [t \in Task |-> "idle"]
  /\ request = [t \in Task |-> NoCall]
  /\ outcome = [t \in Task |-> NoOutcome]

Pending(t, op) == status[t] = "pending" /\ request[t].op = op

Complete(t, o) ==
  /\ status' = [status EXCEPT ![t] = "done"]
  /\ outcome' = [outcome EXCEPT ![t] = o]
  /\ UNCHANGED request

Forget(t) ==
  /\ status' = [status EXCEPT ![t] = "idle"]
  /\ request' = [request EXCEPT ![t] = NoCall]
  /\ outcome' = [outcome EXCEPT ![t] = NoOutcome]
  /\ UNCHANGED active

Submit(t) ==
  /\ status[t] = "idle"
  /\ \E c \in CallsOf(t) : request' = [request EXCEPT ![t] = c]
  /\ status' = [status EXCEPT ![t] = "pending"]
  /\ UNCHANGED <<active, outcome>>

TooMany == Cardinality(active) >= MaxTokens
HasRoomFor(v) == ~TooMany /\ Fits(Values(active) \cup {v})

(* An addition refreshes an active value whatever the bounds say; a new    *)
(* value needs room under both bounds.                                     *)
Accept(t) ==
  LET v == request[t].value IN
  /\ Pending(t, "add")
  /\ v \in Values(active) \/ HasRoomFor(v)
  /\ active' = Without(active, v) \cup {Fresh(v)}
  /\ Complete(t, Acknowledged)

Refuse(t) ==
  LET v == request[t].value IN
  /\ Pending(t, "add")
  /\ v \notin Values(active)
  /\ ~HasRoomFor(v)
  /\ Complete(t, [result |-> IF TooMany THEN "limit" ELSE "wire",
                  values |-> {}])
  /\ UNCHANGED active

Withdraw(t) ==
  /\ Pending(t, "remove")
  /\ active' = Without(active, request[t].value)
  /\ Complete(t, Acknowledged)

Observe(t) ==
  /\ Pending(t, "get")
  /\ Complete(t, [result |-> "ok", values |-> Values(active)])
  /\ UNCHANGED active

ObserveSerial(t) ==
  /\ Pending(t, "serial")
  /\ Complete(t, Acknowledged)
  /\ UNCHANGED active

Return(t) == status[t] = "done" /\ Forget(t)

(* A call abandoned before it took effect leaves no trace.                 *)
Abandon(t) == status[t] = "pending" /\ Forget(t)

(* A token leaves the zone at the very tick that uses up its lifetime.     *)
Tick ==
  /\ active' = {r \in Aged(active) : r.remaining > 0}
  /\ UNCHANGED <<status, request, outcome>>

(* The zone is in memory only: a restart empties it.                       *)
Restart == Init'

Next ==
  \/ \E t \in Task :
       \/ Submit(t) \/ Return(t) \/ Abandon(t)
       \/ Accept(t) \/ Refuse(t) \/ Withdraw(t) \/ Observe(t) \/ ObserveSerial(t)
  \/ Tick
  \/ Restart

Spec == Init /\ [][Next]_zoneVars
=============================================================================
