---------------------------- MODULE HttpListener ----------------------------
(***************************************************************************)
(* The connections of the HTTP API: run_http_api_with_limits in            *)
(* src/src/main.rs.  The loop accepts first and drops the connection when  *)
(* no permit is left; the task that serves it holds the permit.  What      *)
(* happens inside one exchange is HttpApi's; here it ends, because the API *)
(* bounds it, and its response goes to a buffer of the system that has     *)
(* room for `Buffer` responses that the client has not read.               *)
(***************************************************************************)
EXTENDS Integers, FiniteSets

CONSTANTS
  Client,
  MaxHttpConnections,  \* MAX_HTTP_CONNECTIONS
  Buffer               \* bound on what a client leaves unread

VARIABLES
  permits,  \* permits of the semaphore
  stage,    \* stage[c]: "none", "queued", reading "headers", "exchange"
  unread,   \* unread[c]: responses in the buffer
  silent    \* the clients that neither send nor read any more

httpListenerVars == <<permits, stage, unread, silent>>

Open == {c \in Client : stage[c] \in {"headers", "exchange"}}

HttpListenerInit ==
  /\ permits = MaxHttpConnections
  /\ stage = [c \in Client |-> "none"]
  /\ unread = [c \in Client |-> 0]
  /\ silent = {}

-----------------------------------------------------------------------------
Connect(c) ==
  /\ stage[c] = "none"
  /\ stage' = [stage EXCEPT ![c] = "queued"]
  /\ silent' = silent \ {c}
  /\ UNCHANGED <<permits, unread>>

FallSilent(c) ==
  /\ c \notin silent
  /\ silent' = silent \cup {c}
  /\ UNCHANGED <<permits, stage, unread>>

(* accept().await and try_acquire_owned(): nothing between them waits.     *)
Accept(c) ==
  /\ stage[c] = "queued"
  /\ permits > 0
  /\ permits' = permits - 1
  /\ stage' = [stage EXCEPT ![c] = "headers"]
  /\ UNCHANGED <<unread, silent>>

(* Defect: one permit is kept back.                                        *)
RejectEarly(c) ==
  /\ stage[c] = "queued"
  /\ permits <= 1
  /\ stage' = [stage EXCEPT ![c] = "none"]
  /\ UNCHANGED <<permits, unread, silent>>

Reject(c) ==
  /\ stage[c] = "queued"
  /\ permits = 0
  /\ stage' = [stage EXCEPT ![c] = "none"]
  /\ UNCHANGED <<permits, unread, silent>>

(* The connection ends, and its task with the permit.                      *)
Close(c) ==
  /\ stage' = [stage EXCEPT ![c] = "none"]
  /\ unread' = [unread EXCEPT ![c] = 0]
  /\ permits' = permits + 1
  /\ UNCHANGED silent

ReadHeaders(c) ==
  /\ stage[c] = "headers"
  /\ c \notin silent
  /\ stage' = [stage EXCEPT ![c] = "exchange"]
  /\ UNCHANGED <<permits, unread, silent>>

(* serve_connection writes the response and waits for the next headers.    *)
Respond(c) ==
  /\ stage[c] = "exchange"
  /\ unread[c] < Buffer
  /\ stage' = [stage EXCEPT ![c] = "headers"]
  /\ unread' = [unread EXCEPT ![c] = unread[c] + 1]
  /\ UNCHANGED <<permits, silent>>

ReadResponse(c) ==
  /\ c \notin silent
  /\ unread[c] > 0
  /\ unread' = [unread EXCEPT ![c] = unread[c] - 1]
  /\ UNCHANGED <<permits, stage, silent>>

(* Defect: the deadline covers the first request of a connection only.     *)
HeaderTimeoutOnce(c) == stage[c] = "headers" /\ unread[c] = 0 /\ Close(c)

HeaderTimeout(c) == stage[c] = "headers" /\ Close(c)

(* Closed by the client, or more headers than the server takes.            *)
HangUp(c) == c \in Open /\ Close(c)

HttpListenerNext ==
  \E c \in Client :
    \/ Connect(c) \/ FallSilent(c) \/ Accept(c) \/ Reject(c)
    \/ ReadHeaders(c) \/ Respond(c) \/ ReadResponse(c)
    \/ HeaderTimeout(c) \/ HangUp(c)

(* The loop is polled, exchanges end, deadlines pass.                      *)
HttpListenerFairness ==
  \A c \in Client :
    /\ WF_httpListenerVars(Accept(c) \/ Reject(c))
    /\ WF_httpListenerVars(Respond(c)) /\ WF_httpListenerVars(HeaderTimeout(c))

-----------------------------------------------------------------------------
(* The limit is on connections that are open, and is the whole limit:      *)
(* nobody is turned away unless so many were being served, whatever became *)
(* of the connections before them.                                         *)
TurnedAwayWhenFull ==
  [][\A c \in Client : stage[c] = "queued" /\ stage'[c] = "none" =>
       Cardinality(Open) = MaxHttpConnections]_httpListenerVars

(* A client that falls silent loses its connection, wherever in its        *)
(* conversation it stopped, as long as what it did not read has room.  The *)
(* condition is needed: writing a response has no deadline.                *)
SilentLeave ==
  \A c \in Client :
    <>[](c \in silent /\ unread[c] < Buffer /\ stage[c] # "queued") =>
      <>[](stage[c] = "none")
=============================================================================
