---------------------------- MODULE TcpListener ----------------------------
(***************************************************************************)
(* DNS over TCP: run_tcp_dns in src/src/main.rs.  The loop takes a permit  *)
(* before it accepts a connection and gives it to the task that serves the *)
(* connection; the task reads a length and a message, answers, writes, and *)
(* begins again, each time with a deadline for the reading and writing.    *)
(*                                                                         *)
(* A frame on the wire is four units, two of the length and two of the     *)
(* message, so that a deadline can pass in the middle of either.           *)
(***************************************************************************)
EXTENDS Integers, FiniteSets

CONSTANTS
  Client,
  MaxConnections  \* MAX_CONNECTIONS

ASSUME ListenerAssumption == MaxConnections \in Nat \ {0} /\ IsFiniteSet(Client)

VARIABLES
  available,  \* permits of the semaphore
  loop,       \* the accept loop: "acquiring" or "accepting", then with a permit
  stage,      \* stage[c]: what is done about the connection of c
  moved,      \* moved[c]: units of the item under way that were read or written
  sent,       \* history: sent[c], units of a frame that c sent and were read
  received,   \* history: received[c], units of an answer that c was sent
  mute        \* the clients that neither send nor read any more

listenerVars == <<available, loop, stage, moved, sent, received, mute>>

Waiting == {"length", "message", "writing"}   \* for the client
Served == Waiting \cup {"handling"}
Open == {c \in Client : stage[c] \in Served}

ListenerTypeOK ==
  /\ available \in 0 .. MaxConnections
  /\ loop \in {"acquiring", "accepting"}
  /\ stage \in [Client -> Served \cup {"none", "queued"}]
  /\ moved \in [Client -> 0 .. 3]
  /\ sent \in [Client -> 0 .. 3] /\ received \in [Client -> 0 .. 3]
  /\ mute \in SUBSET Client

ListenerInit ==
  /\ available = MaxConnections
  /\ loop = "acquiring"
  /\ stage = [c \in Client |-> "none"]
  /\ moved = [c \in Client |-> 0]
  /\ sent = [c \in Client |-> 0] /\ received = [c \in Client |-> 0]
  /\ mute = {}

-----------------------------------------------------------------------------
Connect(c) ==
  /\ stage[c] = "none"
  /\ stage' = [stage EXCEPT ![c] = "queued"]
  /\ mute' = mute \ {c}
  /\ UNCHANGED <<available, loop, moved, sent, received>>

FallSilent(c) ==
  /\ c \notin mute
  /\ mute' = mute \cup {c}
  /\ UNCHANGED <<available, loop, stage, moved, sent, received>>

Acquire ==
  /\ loop = "acquiring"
  /\ available > 0
  /\ available' = available - 1
  /\ loop' = "accepting"
  /\ UNCHANGED <<stage, moved, sent, received, mute>>

(* Defect: the permit stays in the loop and is dropped there.              *)
AcceptDropping(c) ==
  /\ loop = "accepting"
  /\ stage[c] = "queued"
  /\ loop' = "acquiring"
  /\ available' = available + 1
  /\ stage' = [stage EXCEPT ![c] = "length"]
  /\ UNCHANGED <<moved, sent, received, mute>>

Accept(c) ==
  /\ loop = "accepting"
  /\ stage[c] = "queued"
  /\ loop' = "acquiring"
  /\ stage' = [stage EXCEPT ![c] = "length"]
  /\ UNCHANGED <<available, moved, sent, received, mute>>

(* Defect: the permit of a failed accept is forgotten.                     *)
AcceptErrorKeeping ==
  /\ loop = "accepting"
  /\ loop' = "acquiring"
  /\ UNCHANGED <<available, stage, moved, sent, received, mute>>

(* `continue` drops the permit, and the loop asks for it again.            *)
AcceptError ==
  /\ loop = "accepting"
  /\ loop' = "acquiring"
  /\ available' = available + 1
  /\ UNCHANGED <<stage, moved, sent, received, mute>>

(* The task returns, for whatever reason: it drops its permit.             *)
Close(c) ==
  /\ stage[c] \in Served
  /\ stage' = [stage EXCEPT ![c] = "none"]
  /\ available' = available + 1
  /\ moved' = [moved EXCEPT ![c] = 0]
  /\ sent' = [sent EXCEPT ![c] = 0] /\ received' = [received EXCEPT ![c] = 0]
  /\ UNCHANGED <<loop, mute>>

(* read_exact: more of the length or of the message, or the rest of it.    *)
Read(c, from, to) ==
  /\ stage[c] = from
  /\ c \notin mute
  /\ sent' = [sent EXCEPT ![c] = (sent[c] + 1) % 4]
  /\ IF moved[c] = 0
     THEN moved' = [moved EXCEPT ![c] = 1] /\ UNCHANGED stage
     ELSE moved' = [moved EXCEPT ![c] = 0] /\ stage' = [stage EXCEPT ![c] = to]
  /\ UNCHANGED <<available, loop, received, mute>>

ReadLength(c) == Read(c, "length", "message")
ReadMessage(c) == Read(c, "message", "handling")

(* Any task may be in its handler for a while: it waits for the store.     *)
Handle(c) ==
  /\ stage[c] = "handling"
  /\ stage' = [stage EXCEPT ![c] = "writing"]
  /\ UNCHANGED <<available, loop, moved, sent, received, mute>>

(* Nothing to answer, or an answer over 65535 bytes.                       *)
RefuseMessage(c) == stage[c] = "handling" /\ Close(c)

(* The system may take what nobody reads any more.                         *)
Write(c) ==
  /\ stage[c] = "writing"
  /\ received' = [received EXCEPT ![c] = (received[c] + 1) % 4]
  /\ IF moved[c] < 3
     THEN moved' = [moved EXCEPT ![c] = moved[c] + 1] /\ UNCHANGED stage
     ELSE moved' = [moved EXCEPT ![c] = 0] /\ stage' = [stage EXCEPT ![c] = "length"]
  /\ UNCHANGED <<available, loop, sent, mute>>

(* Defects: a deadline after which the task waits for the next message on  *)
(* the same connection, and one for reading only.                          *)
TimeOutAndGoOn(c) ==
  /\ stage[c] \in Waiting
  /\ stage' = [stage EXCEPT ![c] = "length"]
  /\ moved' = [moved EXCEPT ![c] = 0]
  /\ UNCHANGED <<available, loop, sent, received, mute>>
TimeOutReading(c) == stage[c] \in {"length", "message"} /\ Close(c)

(* IO_TIMEOUT has passed over one read or write.                           *)
TimeOut(c) == stage[c] \in Waiting /\ Close(c)

(* The client closes or resets, or announces a message of length zero.     *)
HangUp(c) == stage[c] \in Waiting /\ Close(c)

LeaveQueue(c) ==
  /\ stage[c] = "queued"
  /\ stage' = [stage EXCEPT ![c] = "none"]
  /\ UNCHANGED <<available, loop, moved, sent, received, mute>>

ListenerNext ==
  \/ Acquire \/ AcceptError
  \/ \E c \in Client :
       \/ Connect(c) \/ FallSilent(c) \/ Accept(c)
       \/ ReadLength(c) \/ ReadMessage(c) \/ Handle(c) \/ RefuseMessage(c) \/ Write(c)
       \/ TimeOut(c) \/ HangUp(c) \/ LeaveQueue(c)

ListenerSpec == ListenerInit /\ [][ListenerNext]_listenerVars

(* The loop is polled, accepts what has waited longest and does not fail   *)
(* for ever; the store answers; deadlines pass.  Clients do as they like.  *)
ListenerFairness ==
  /\ WF_listenerVars(Acquire)
  /\ \A c \in Client :
       /\ SF_listenerVars(Accept(c))
       /\ WF_listenerVars(Handle(c) \/ RefuseMessage(c))
       /\ WF_listenerVars(TimeOut(c))

-----------------------------------------------------------------------------
(* Every permit is in the semaphore, with the loop or with one open        *)
(* connection: no way out of the task or of accept loses one.              *)
PermitsConserved ==
  available + Cardinality(Open) + (IF loop = "accepting" THEN 1 ELSE 0) = MaxConnections

(* Server and client agree on where frames begin: read_exact and write_all *)
(* that were dropped in the middle leave a stream that nobody reads or     *)
(* writes any more.                                                        *)
FramesAligned ==
  \A c \in Open :
    /\ sent[c] = CASE stage[c] = "length" -> moved[c]
                   [] stage[c] = "message" -> 2 + moved[c]
                   [] OTHER -> 0
    /\ received[c] = IF stage[c] = "writing" THEN moved[c] ELSE 0

(* A client that falls silent, at whatever point of a frame, and does not  *)
(* connect anew, loses its connection and so its permit.                   *)
SilentLeave ==
  \A c \in Client : <>[](c \in mute /\ stage[c] # "queued") => <>[](stage[c] = "none")

(* As long as none of the others talks for ever, whoever waits in the      *)
(* queue is accepted or leaves it.                                         *)
QueueServed ==
  \A c \in Client :
    (\A d \in Client \ {c} : []<>(stage[d] \notin Served)) =>
      (stage[c] = "queued" ~> stage[c] # "queued")
=============================================================================
