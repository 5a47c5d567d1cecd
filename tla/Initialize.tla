----------------------------- MODULE Initialize -----------------------------
(***************************************************************************)
(* src/deploy/initialize.sh, run any number of times and at once, with a   *)
(* run interrupted anywhere: it prepares the ACME file, which the proxy    *)
(* then fills, and draws an API key into the environment file.             *)
(*                                                                         *)
(* A file is absent, empty, or has a content: the key of the run that      *)
(* wrote it, or the proxy's certificates.                                  *)
(***************************************************************************)
EXTENDS Integers, FiniteSets

CONSTANTS
  Run,               \* executions of the script
  Absent, Empty, Certificates

VARIABLES
  acme, env,    \* letsencrypt/acme.json and safexip.env
  line,         \* line[r]: what run r does next
  interrupted   \* history: before what run r was interrupted or failed, or "no"

initVars == <<acme, env, line, interrupted>>

FilesInit ==
  /\ acme = Absent /\ env = Absent
  /\ line = [r \in Run |-> "look acme"]
  /\ interrupted = [r \in Run |-> "no"]

-----------------------------------------------------------------------------
Goto(r, next) == line' = [line EXCEPT ![r] = next] /\ UNCHANGED interrupted

(* [ -e FILE ] || [ -L FILE ]                                              *)
LookAcme(r) ==
  /\ line[r] = "look acme"
  /\ Goto(r, IF acme = Absent THEN "create acme" ELSE "look env")
  /\ UNCHANGED <<acme, env>>

(* Defect: a file that has appeared since is emptied.                      *)
TruncateAcme(r) ==
  /\ line[r] = "create acme"
  /\ acme' = Empty
  /\ Goto(r, "look env")
  /\ UNCHANGED env

(* set -C: the redirection fails when the file exists by now.              *)
CreateAcme(r) ==
  /\ line[r] = "create acme"
  /\ acme' = IF acme = Absent THEN Empty ELSE acme
  /\ Goto(r, "look env")
  /\ UNCHANGED env

LookEnv(r) ==
  /\ line[r] = "look env"
  /\ Goto(r, IF env = Absent THEN "create env" ELSE "done")
  /\ UNCHANGED <<acme, env>>

(* Defect: a run that believes that creating the file writes the key.      *)
CreateEnvOnly(r) ==
  /\ line[r] = "create env"
  /\ env' = IF env = Absent THEN Empty ELSE env
  /\ Goto(r, "done")
  /\ UNCHANGED acme

CreateEnv(r) ==
  /\ line[r] = "create env"
  /\ IF env = Absent
     THEN env' = Empty /\ Goto(r, "write key")
     ELSE UNCHANGED env /\ Goto(r, "done")
  /\ UNCHANGED acme

WriteKey(r) ==
  /\ line[r] = "write key"
  /\ env' = r
  /\ Goto(r, "done")
  /\ UNCHANGED acme

(* printf fails, on a full disk for one: it looks like the file was there. *)
WriteFails(r) ==
  /\ line[r] = "write key"
  /\ line' = [line EXCEPT ![r] = "done"]
  /\ interrupted' = [interrupted EXCEPT ![r] = line[r]]
  /\ UNCHANGED <<acme, env>>

Interrupt(r) ==
  /\ line[r] # "done"
  /\ line' = [line EXCEPT ![r] = "done"]
  /\ interrupted' = [interrupted EXCEPT ![r] = line[r]]
  /\ UNCHANGED <<acme, env>>

(* The proxy keeps its certificates in the file, which it can also create. *)
ProxyStores ==
  /\ acme' = Certificates
  /\ UNCHANGED <<env, line, interrupted>>

FilesNext ==
  \/ \E r \in Run :
       \/ LookAcme(r) \/ CreateAcme(r)
       \/ LookEnv(r) \/ CreateEnv(r) \/ WriteKey(r) \/ WriteFails(r)
       \/ Interrupt(r)
  \/ ProxyStores

-----------------------------------------------------------------------------
(* It never rotates a key or truncates ACME data, nor does a second run at *)
(* the same time.                                                          *)
NothingReplaced ==
  [][/\ acme = Certificates => acme' = Certificates
     /\ env \in Run => env' = env]_initVars

(* A run that was not interrupted leaves an environment file, and the key  *)
(* in it is there or about to be, unless a run was interrupted or failed   *)
(* between creating the file and writing it: no later run repairs that.    *)
KeyOrInterrupted ==
  /\ \A r \in Run : line[r] = "done" /\ interrupted[r] = "no" => env # Absent
  /\ env = Empty => \E r \in Run : "write key" \in {line[r], interrupted[r]}
=============================================================================
