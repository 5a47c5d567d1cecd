-------------------------- MODULE PackageLifecycle --------------------------
(***************************************************************************)
(* What the package scripts under src/packaging/scripts do to the service  *)
(* when a package manager installs, upgrades and removes safexip, while    *)
(* the service may crash, be restarted by its supervisor and be started or *)
(* stopped by an administrator.  A removal goes on when the service cannot *)
(* be stopped or disabled: its scripts end these commands in `|| true`.    *)
(*                                                                         *)
(* The package managers are external: the order in which each calls the    *)
(* scripts of the new and of the old package, and with which argument, is  *)
(* in Plan.  Which script is which is in src/nfpm.yaml.                    *)
(***************************************************************************)
EXTENDS Integers, Sequences

CONSTANTS Versions  \* the package's versions are 1 .. Versions

ASSUME VersionsAssumption == Versions \in Nat \ {0}

VARIABLES
  format,     \* "deb", "rpm", "apk" or "arch"
  operation,  \* the operation under way, or "none"
  plan,       \* what is left of it
  looked,     \* the script found the service running, and is to restart it
  installed,  \* the installed version, 0 for none
  running,    \* the version that runs, 0 for none
  enabled,    \* the service starts with the system
  crashed,    \* the supervisor is about to start the service again
  ran,        \* history: the service ran since the operation began
  missed      \* history: what the last removal tried in vain, "stop" or "disable"

packageVars ==
  <<format, operation, plan, looked, installed, running, enabled, crashed, ran, missed>>
service == <<running, enabled, crashed>>

Format == {"deb", "rpm", "apk", "arch"}

PackageInit ==
  /\ format \in Format
  /\ operation = "none" /\ plan = <<>> /\ looked = FALSE
  /\ installed = 0 /\ running = 0 /\ enabled = FALSE /\ crashed = FALSE /\ ran = FALSE
  /\ missed = {}

-----------------------------------------------------------------------------
Files(s) == <<s, "">>
Unpack == Files("unpack")
Delete == Files("delete")

(* <<script, argument>>: dpkg passes the action (and the old version on    *)
(* upgrades and after a removal that left the configuration), rpm the      *)
(* number of versions that will be there, apk and pacman have a script for *)
(* each case.                                                              *)
Plan ==
  [deb |-> [install |-> <<Unpack, <<"postinstall", "configure">>>>,
            reinstall |-> <<Unpack, <<"postinstall", "configure old">>>>,
            upgrade |-> <<<<"preremove", "upgrade">>, Unpack, <<"postremove", "upgrade">>,
                          <<"postinstall", "configure old">>>>,
            remove |-> <<<<"preremove", "remove">>, Delete, <<"postremove", "remove">>>>],
   rpm |-> [install |-> <<Unpack, <<"postinstall", "1">>>>,
            reinstall |-> <<Unpack, <<"postinstall", "1">>>>,
            upgrade |-> <<Unpack, <<"postinstall", "2">>, <<"preremove", "1">>,
                          <<"postremove", "1">>>>,
            remove |-> <<<<"preremove", "0">>, Delete, <<"postremove", "0">>>>],
   apk |-> [install |-> <<Unpack, <<"postinstall", "">>>>,
            reinstall |-> <<Unpack, <<"postinstall", "">>>>,
            upgrade |-> <<Unpack, <<"postupgrade", "">>>>,
            remove |-> <<<<"preremove", "">>, Delete, <<"postremove", "">>>>],
   arch |-> [install |-> <<Unpack, <<"postinstall", "">>>>,
             reinstall |-> <<Unpack, <<"postinstall", "">>>>,
             upgrade |-> <<Unpack, <<"postupgrade", "">>>>,
             remove |-> <<<<"preremove", "">>, Delete, <<"postremove", "">>>>]]

(* Defects: rpm's script takes every call for a removal, and none, since   *)
(* it compares with a default; its other script waits for a third version. *)
StopsAlways == {<<"preremove", a>> : a \in {"remove", "1", "0", ""}}
StopsNotRpm == {<<"preremove", a>> : a \in {"remove", ""}}
RestartsNotRpm == {<<"postinstall", "configure old">>, <<"postupgrade", "">>}

(* The calls at which the service is stopped and disabled, ...             *)
Stops == {<<"preremove", a>> : a \in {"remove", "0", ""}}

(* ... and those at which it is restarted if it is active.                 *)
Restarts ==
  {<<"postinstall", "configure old">>, <<"postinstall", "2">>, <<"postupgrade", "">>}

-----------------------------------------------------------------------------
Start(op) ==
  /\ operation = "none"
  /\ (op \in {"install", "reinstall"}) = (installed = 0)
  /\ op = "upgrade" => installed < Versions
  /\ operation' = op
  /\ plan' = Plan[format][op]
  /\ ran' = (running # 0)
  /\ missed' = IF op = "upgrade" THEN {} ELSE missed
  /\ UNCHANGED <<format, looked, installed, service>>

Done == plan' = Tail(plan) /\ UNCHANGED <<format, operation, ran>>

UnpackFiles ==
  /\ plan # <<>> /\ Head(plan) = Unpack
  /\ installed' = installed + 1
  /\ Done /\ UNCHANGED <<looked, service, missed>>

DeleteFiles ==
  /\ plan # <<>> /\ Head(plan) = Delete
  /\ installed' = 0
  /\ Done /\ UNCHANGED <<looked, service, missed>>

(* Either of the two may fail, or the manager's command be missing: the    *)
(* script does not tell.                                                   *)
StopAndDisable ==
  /\ plan # <<>> /\ Head(plan) \in Stops
  /\ missed' \in SUBSET {"stop", "disable"}
  /\ IF "stop" \in missed' THEN UNCHANGED <<running, crashed>>
     ELSE running' = 0 /\ crashed' = FALSE
  /\ enabled' = (enabled /\ "disable" \in missed')
  /\ Done /\ UNCHANGED <<looked, installed>>

(* Defect: an upgrade starts the service in any case.                      *)
RestartAlways ==
  /\ plan # <<>> /\ Head(plan) \in Restarts
  /\ looked' = FALSE
  /\ running' = installed /\ crashed' = FALSE
  /\ Done /\ UNCHANGED <<installed, enabled, missed>>

(* `is-active`, and only then `restart`: the service may change between.   *)
LookIfRunning ==
  /\ plan # <<>> /\ Head(plan) \in Restarts
  /\ ~looked
  /\ IF running # 0
     THEN looked' = TRUE /\ UNCHANGED <<format, operation, plan, ran>>
     ELSE Done /\ UNCHANGED looked
  /\ UNCHANGED <<installed, service, missed>>

Restart ==
  /\ looked
  /\ looked' = FALSE
  /\ running' = installed /\ crashed' = FALSE
  /\ Done /\ UNCHANGED <<installed, enabled, missed>>

(* The other calls reload the service manager, or do nothing.              *)
OtherCall ==
  /\ plan # <<>> /\ Head(plan) \notin Stops \cup Restarts \cup {Unpack, Delete}
  /\ Done /\ UNCHANGED <<looked, installed, service, missed>>

Finish ==
  /\ operation # "none" /\ plan = <<>>
  /\ operation' = "none"
  /\ UNCHANGED <<format, plan, looked, installed, service, ran, missed>>

-----------------------------------------------------------------------------
(* Restart=on-failure of the unit.                                         *)
Crash ==
  /\ running # 0
  /\ running' = 0 /\ crashed' = (format # "apk")
  /\ UNCHANGED <<format, operation, plan, looked, installed, enabled, ran, missed>>

Supervise ==
  /\ crashed /\ installed # 0
  /\ running' = installed /\ crashed' = FALSE /\ ran' = TRUE
  /\ UNCHANGED <<format, operation, plan, looked, installed, enabled, missed>>

(* There is no program left to start.                                      *)
SuperviseInVain ==
  /\ crashed /\ installed = 0
  /\ crashed' = FALSE
  /\ UNCHANGED <<format, operation, plan, looked, installed, running, enabled, ran, missed>>

(* The administrator does not start a package that is being removed.       *)
Administer ==
  /\ \/ /\ running = 0 /\ installed # 0 /\ operation # "remove"
        /\ running' = installed /\ enabled' \in {enabled, TRUE}
     \/ running # 0 /\ running' = 0 /\ enabled' \in {enabled, FALSE}
  /\ crashed' = FALSE
  /\ ran' = (ran \/ running' # 0)
  /\ UNCHANGED <<format, operation, plan, looked, installed, missed>>

Script ==
  UnpackFiles \/ DeleteFiles \/ StopAndDisable \/ LookIfRunning \/ Restart \/ OtherCall

PackageNext ==
  \/ \E op \in {"install", "reinstall", "upgrade", "remove"} : Start(op)
  \/ Script \/ Finish
  \/ Crash \/ Supervise \/ SuperviseInVain \/ Administer

-----------------------------------------------------------------------------
(* No operation leaves the program of an earlier version running, except   *)
(* that one survives a removal that could not stop it, until the next      *)
(* upgrade.                                                                *)
NoOldVersionLeft ==
  operation = "none" => running \in {0, installed} \/ "stop" \in missed

(* An upgrade or a new installation starts only a service that ran after   *)
(* it had begun: one that is inactive remains inactive.                    *)
StartsOnlyWhatRan == [][Script /\ running = 0 /\ running' # 0 => ran]_packageVars

(* An upgrade neither disables nor stops the service, in whatever order    *)
(* the scripts of the old and of the new package are called.               *)
UpgradeKeepsService ==
  [][Script /\ operation = "upgrade" =>
       enabled' = enabled /\ (running # 0 => running' # 0)]_packageVars

(* Once the service definition is gone nothing runs, will run or starts    *)
(* with the system, except what the service manager failed to stop or to   *)
(* disable when the removal asked for it: nothing that crashes, is started *)
(* again or is stopped between the steps of a removal escapes it.          *)
RemovedMeansStopped ==
  installed = 0 =>
    /\ running # 0 \/ crashed => "stop" \in missed
    /\ enabled => "disable" \in missed
=============================================================================
