---------------------------- MODULE ListenersMC ----------------------------
(***************************************************************************)
(* The three listeners of the process, which main in src/src/main.rs       *)
(* starts side by side.  They share no state: the semaphores are two, and  *)
(* the store appears in each as what it does to its caller.  A behaviour   *)
(* of all three is therefore one of each, interleaved, and it is enough to *)
(* look at each while the others are at rest.                              *)
(***************************************************************************)
EXTENDS UdpLoop, TcpListener

CONSTANTS
  MaxHttpConnections, Buffer   \* of HttpListener

ASSUME HttpAssumption == MaxHttpConnections \in Nat \ {0}

VARIABLES
  listener,                          \* the one that is looked at
  permits, httpStage, unread, silent \* of HttpListener

Http == INSTANCE HttpListener WITH stage <- httpStage

httpVars == <<permits, httpStage, unread, silent>>

ListenersInit ==
  /\ listener \in {"udp", "tcp", "http"}
  /\ UdpInit /\ ListenerInit /\ Http!HttpListenerInit
  /\ listener # "udp" => src = CHOOSE d \in Datagram : TRUE

ListenersNext ==
  /\ UNCHANGED listener
  /\ \/ listener = "udp" /\ UdpNext /\ UNCHANGED <<listenerVars, httpVars>>
     \/ listener = "tcp" /\ ListenerNext /\ UNCHANGED <<udpVars, httpVars>>
     \/ listener = "http" /\ Http!HttpListenerNext /\ UNCHANGED <<udpVars, listenerVars>>

ListenersFairness ==
  /\ listener = "udp" => UdpFairness
  /\ listener = "tcp" => ListenerFairness
  /\ listener = "http" => Http!HttpListenerFairness

ListenersSpec ==
  /\ ListenersInit
  /\ [][ListenersNext]_<<listener, udpVars, listenerVars, httpVars>>
  /\ ListenersFairness

-----------------------------------------------------------------------------
(* run_http_api_with_limits turns a connection away only when all permits  *)
(* serve open ones: none was lost with a connection before.                *)
HttpTurnedAwayWhenFull == Http!TurnedAwayWhenFull

(* A silent client of the HTTP API loses its connection, wherever it       *)
(* stopped, as long as what it did not read has room.                      *)
HttpSilentLeave == Http!SilentLeave
=============================================================================
