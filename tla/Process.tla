------------------------------ MODULE Process ------------------------------
(***************************************************************************)
(* safexip as a service: main and shutdown_signal in src/src/main.rs under *)
(* a supervisor that restarts it when it fails (src/safexip.service).  It  *)
(* parses and validates its configuration, binds UDP, TCP and HTTP in this *)
(* order, and ends as soon as one of its listeners or the wait for a       *)
(* signal ends.                                                            *)
(***************************************************************************)
EXTENDS Integers, Sequences, FiniteSets

CONSTANTS
  Configuration,  \* what the environment may hold
  WireMax         \* maximum_token_count() for its names

VARIABLES
  config,   \* the configuration
  phase,    \* "down", "parse", "validate", a listener to bind, "serving"
  bound,    \* the listeners that are bound
  caught,   \* SIGTERM is handled
  outcome,  \* how the last process ended: "none", "ok", "error", "killed"
  ended,    \* history: what ended it: "none", a listener, "wait", "signal"
  wanted,   \* the supervisor is to keep the service running
  told,     \* a signal is on its way to the process
  ctrlC,    \* whether the system lets it wait for Ctrl-C
  taken     \* the listeners whose address another program holds

processVars ==
  <<config, phase, bound, caught, outcome, ended, wanted, told, ctrlC, taken>>

Listener == {"udp", "tcp", "http"}

(* A name as it is configured: its place, once dots at its end and upper   *)
(* case are gone.                                                          *)
Normal(raw) == raw.name

Names(c) == {Normal(c.ns_hostname), Normal(c.ns_hostname2)}

(* The parsers of the options: parse_dns_name, parse_api_key and           *)
(* parse_max_tokens.                                                       *)
Parses(c) == "empty" \notin Names(c) /\ c.api_key = "long" /\ c.max_tokens > 0

(* Config::validate: distinct, in the zone, and with derived names and a   *)
(* token limit that messages can hold.                                     *)
Valid(c) ==
  /\ Cardinality(Names(c)) = 2
  /\ Names(c) \subseteq {"apex", "inside", "inside too"}
  /\ c.derived = "valid"
  /\ c.max_tokens <= WireMax

ProcessInit ==
  /\ config \in Configuration
  /\ phase = "down" /\ bound = {} /\ caught = FALSE
  /\ outcome = "none" /\ ended = "none"
  /\ wanted = FALSE /\ told = FALSE
  /\ ctrlC \in BOOLEAN
  /\ taken \in SUBSET Listener

environment == <<wanted, ctrlC, taken>>

-----------------------------------------------------------------------------
Exit(how, by) ==
  /\ phase' = "down" /\ bound' = {} /\ caught' = FALSE /\ told' = FALSE
  /\ outcome' = how /\ ended' = by

Goto(next) == phase' = next /\ UNCHANGED <<caught, outcome, ended, told>>

Parse ==
  /\ phase = "parse"
  /\ IF Parses(config) THEN Goto("validate") /\ UNCHANGED bound ELSE Exit("error", "none")
  /\ UNCHANGED <<config, environment>>

Validate ==
  /\ phase = "validate"
  /\ IF Valid(config) THEN Goto("udp") /\ UNCHANGED bound ELSE Exit("error", "none")
  /\ UNCHANGED <<config, environment>>

Next(listener) ==
  CASE listener = "udp" -> "tcp" [] listener = "tcp" -> "http" [] OTHER -> "serving"

(* Defect: the process serves what it could bind.                          *)
BindOrSkip(listener) ==
  /\ phase = listener
  /\ Goto(Next(listener))
  /\ bound' = bound \cup ({listener} \ taken)
  /\ UNCHANGED <<config, environment>>

(* An address that is taken ends the process and frees what it has bound.  *)
Bind(listener) ==
  /\ phase = listener
  /\ IF listener \in taken THEN Exit("error", "none")
     ELSE Goto(Next(listener)) /\ bound' = bound \cup {listener}
  /\ UNCHANGED <<config, environment>>

(* The first poll of shutdown_signal; it is caught or stays as it was.     *)
Register ==
  /\ phase = "serving" /\ ~caught
  /\ caught' \in BOOLEAN
  /\ UNCHANGED <<config, phase, bound, outcome, ended, told, environment>>

(* Defect: the branches of UDP and TCP are like that of HTTP.              *)
EveryListenerExits(listener) == {"ok", "error"}

(* main takes it for an error that the UDP or the TCP listener returned at *)
(* all, and from the HTTP listener what it returned, success included.     *)
ListenerExits(listener) == IF listener = "http" THEN {"ok", "error"} ELSE {"error"}

(* A branch of select! in main: a listener returns, or panics, which is an *)
(* error; the others end with it.                                          *)
ListenerEnds(listener) ==
  /\ phase = "serving"
  /\ \E how \in ListenerExits(listener) : Exit(how, listener)
  /\ UNCHANGED <<config, environment>>

(* ctrl_c() fails, which ends the wait as a signal does.                   *)
WaitFails ==
  /\ phase = "serving" /\ ~ctrlC
  /\ Exit("ok", "wait")
  /\ UNCHANGED <<config, environment>>

(* A signal before the handler is there ends the process by itself.        *)
Signalled ==
  /\ told
  /\ Exit(IF caught THEN "ok" ELSE "killed", "signal")
  /\ UNCHANGED <<config, environment>>

-----------------------------------------------------------------------------
StartService ==
  /\ ~wanted /\ phase = "down"
  /\ wanted' = TRUE
  /\ phase' = "parse" /\ outcome' = "none" /\ ended' = "none"
  /\ UNCHANGED <<config, bound, caught, told, ctrlC, taken>>

StopService ==
  /\ wanted
  /\ wanted' = FALSE
  /\ told' = (phase # "down")
  /\ UNCHANGED <<config, phase, bound, caught, outcome, ended, ctrlC, taken>>

(* Restart=on-failure                                                      *)
Supervise ==
  /\ wanted /\ phase = "down" /\ outcome = "error"
  /\ phase' = "parse" /\ outcome' = "none" /\ ended' = "none"
  /\ UNCHANGED <<config, bound, caught, told, environment>>

Reconfigure ==
  /\ phase = "down"
  /\ config' \in Configuration
  /\ UNCHANGED <<phase, bound, caught, outcome, ended, told, environment>>

OthersBind ==
  /\ taken' \in SUBSET (Listener \ bound)
  /\ UNCHANGED <<config, phase, bound, caught, outcome, ended, wanted, told, ctrlC>>

Proceed ==
  \/ Parse \/ Validate \/ \E l \in Listener : Bind(l)
  \/ Signalled

ProcessNext ==
  \/ Proceed
  \/ Register \/ WaitFails \/ \E l \in Listener : ListenerEnds(l)
  \/ StartService \/ StopService \/ Supervise \/ Reconfigure \/ OthersBind

(* The process runs, signals arrive, and the supervisor restarts it.       *)
ProcessFairness == WF_processVars(Proceed) /\ WF_processVars(Supervise)

-----------------------------------------------------------------------------
(* There is no half of a service: from the moment it serves until it ends  *)
(* all three listeners are there, and a process that is down has left no   *)
(* address behind.  Nothing is bound under a configuration that was not    *)
(* accepted as a whole.                                                    *)
AllOrNothing ==
  /\ phase = "serving" => bound = Listener
  /\ phase = "down" => bound = {} /\ ~told
  /\ bound # {} => Parses(config) /\ Valid(config)

(* A service that is wanted is down only until the supervisor starts it    *)
(* again: it was neither stopped nor killed by a signal, early or late,    *)
(* that was meant for an earlier process, and it did not report success.   *)
(* There are two exceptions, both success to main: Ctrl-C could not be     *)
(* waited for, or the HTTP listener returned without an error.             *)
StaysDownOnlyWhenAsked ==
  wanted /\ phase = "down" =>
    \/ outcome = "error"
    \/ ended = "wait" /\ ~ctrlC
    \/ ended = "http"

(* A service that is wanted, with a configuration that is right and free   *)
(* addresses, comes back from every failure, unless the HTTP listener ends *)
(* it without an error.                                                    *)
ServiceReturns ==
  <>[](wanted /\ ctrlC /\ Parses(config) /\ Valid(config) /\ taken = {}) =>
    []<>(phase = "serving") \/ <>[](outcome = "ok" /\ ended = "http")
=============================================================================
