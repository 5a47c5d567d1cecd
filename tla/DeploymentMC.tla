---------------------------- MODULE DeploymentMC ----------------------------
(***************************************************************************)
(* What puts safexip on a machine and keeps it there: the package scripts, *)
(* the script that prepares a deployment in containers, the process under  *)
(* its supervisor, and what of the zone lasts from one life of the process *)
(* to the next.  They share no state, so each is looked at while the       *)
(* others are at rest.                                                     *)
(*                                                                         *)
(* The process has one configuration that is right and one for each        *)
(* mistake.                                                                *)
(***************************************************************************)
EXTENDS PackageLifecycle

CONSTANTS
  Run, Absent, Empty, Certificates  \* of Initialize
CONSTANTS
  WireMax,                          \* of Process
  Value, LastSecond, MaxLead        \* of ZoneSerial

(* A file is absent, is empty, or has one content.                         *)
ASSUME FilesAssumption ==
  /\ Absent # Empty /\ Certificates \notin {Absent, Empty}
  /\ Absent \notin Run /\ Empty \notin Run

ASSUME ClockAssumption == LastSecond \in Nat /\ MaxLead \in Nat

VARIABLES
  way,                              \* the one that is looked at
  acme, env, line, interrupted,     \* of Initialize
  config, phase, bound, caught, outcome, ended, wanted, told, ctrlC, taken, \* of Process
  clock, up, content, serial, published, outran  \* of ZoneSerial

Raw(name) == [name |-> name, spelling |-> "lower"]

Right ==
  [ns_hostname |-> Raw("inside"), ns_hostname2 |-> Raw("inside too"),
   api_key |-> "long", max_tokens |-> 2, derived |-> "valid"]

Configuration ==
  {Right,
   [Right EXCEPT !.ns_hostname2 = [name |-> "inside", spelling |-> "mixed"]],
   [Right EXCEPT !.ns_hostname = Raw("beside")],
   [Right EXCEPT !.ns_hostname2 = Raw("empty")],
   [Right EXCEPT !.api_key = "short"],
   [Right EXCEPT !.max_tokens = 0],
   [Right EXCEPT !.max_tokens = 3],
   [Right EXCEPT !.derived = "too long"]}

Preparation == INSTANCE Initialize
Service == INSTANCE Process
Lives == INSTANCE ZoneSerial WITH told <- published

initVars == <<acme, env, line, interrupted>>
processVars ==
  <<config, phase, bound, caught, outcome, ended, wanted, told, ctrlC, taken>>
serialVars == <<clock, up, content, serial, published, outran>>

DeploymentInit ==
  /\ way \in {"packages", "containers", "process", "serials"}
  /\ PackageInit /\ Preparation!FilesInit /\ Service!ProcessInit
  /\ Lives!SerialInit
  /\ way # "packages" => format = "deb"
  /\ way # "process" => config = Right /\ ctrlC /\ taken = {}

DeploymentNext ==
  /\ UNCHANGED way
  /\ \/ way = "packages" /\ PackageNext
        /\ UNCHANGED <<initVars, processVars, serialVars>>
     \/ way = "containers" /\ Preparation!FilesNext
        /\ UNCHANGED <<packageVars, processVars, serialVars>>
     \/ way = "process" /\ Service!ProcessNext
        /\ UNCHANGED <<packageVars, initVars, serialVars>>
     \/ way = "serials" /\ Lives!SerialNext
        /\ UNCHANGED <<packageVars, initVars, processVars>>

DeploymentSpec ==
  /\ DeploymentInit
  /\ [][DeploymentNext]_<<way, packageVars, initVars, processVars, serialVars>>
  /\ way = "process" => Service!ProcessFairness

-----------------------------------------------------------------------------
(* initialize.sh neither rotates a key nor truncates the ACME file, though *)
(* other runs and the proxy write them at the same time.                   *)
NothingReplaced == Preparation!NothingReplaced

(* A run of initialize.sh that was not interrupted leaves a key, or one    *)
(* that is about to be written, unless another run was interrupted or      *)
(* failed between creating the file and writing it.                        *)
KeyOrInterrupted == Preparation!KeyOrInterrupted

(* main never serves with a part of its listeners, leaves no address bound *)
(* when it is down, and binds none before it has accepted its configuration*)
AllOrNothing == Service!AllOrNothing

(* A process that its supervisor wants is started again, whatever ended    *)
(* it, except where it could not wait for Ctrl-C or its HTTP listener      *)
(* returned without an error.                                              *)
StaysDownOnlyWhenAsked == Service!StaysDownOnlyWhenAsked

(* A service that is wanted and can run comes back from every failure.     *)
ServiceReturns == Service!ServiceReturns

(* A serial names one content over all lives of the process, unless a life *)
(* began before the clock had passed what earlier lives told.              *)
NamesForEver == Lives!NamesForEver

(* Serials go forward over all lives of the process, with the same proviso.*)
NeverOlder == Lives!NeverOlder
=============================================================================
