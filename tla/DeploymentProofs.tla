-------------------------- MODULE DeploymentProofs --------------------------
(***************************************************************************)
(* For every number of package versions, of runs of the script, of values  *)
(* and of seconds: what the package scripts, the script that prepares a    *)
(* deployment, the process under its supervisor and the serial over its    *)
(* lives never do.                                                         *)
(***************************************************************************)
EXTENDS DeploymentMC, FiniteSetTheorems, TLAPS

allVars == <<way, packageVars, initVars, processVars, serialVars>>

-----------------------------------------------------------------------------
(* The process.  What is bound, and what was checked of the configuration, *)
(* follow from how far main has come; a process that is down has nothing   *)
(* to do; and a signal is on its way only to a process that nobody wants   *)
(* any more.                                                               *)
BoundSoFar ==
  CASE phase = "tcp" -> {"udp"}
    [] phase = "http" -> {"udp", "tcp"}
    [] phase = "serving" -> Service!Listener
    [] OTHER -> {}

ServiceInv ==
  /\ phase \in {"down", "parse", "validate", "serving"} \cup Service!Listener
  /\ bound = BoundSoFar
  /\ phase = "validate" => Service!Parses(config)
  /\ phase \in Service!Listener \cup {"serving"} =>
       Service!Parses(config) /\ Service!Valid(config)
  /\ phase = "down" => ~told
  /\ told => ~wanted
  /\ Service!StaysDownOnlyWhenAsked

LEMMA ServiceInit == Service!ProcessInit => ServiceInv
  BY DEF Service!ProcessInit, ServiceInv, BoundSoFar, Service!Listener,
         Service!StaysDownOnlyWhenAsked

LEMMA ServiceStep ==
  ServiceInv /\ [Service!ProcessNext]_processVars => ServiceInv'
  <1> SUFFICES ASSUME ServiceInv, [Service!ProcessNext]_processVars PROVE ServiceInv'
    OBVIOUS
  <1> USE DEF ServiceInv, BoundSoFar, Service!Listener, Service!environment,
              Service!StaysDownOnlyWhenAsked
  <1>1. CASE Service!Parse \/ Service!Validate
    BY <1>1 DEF Service!Parse, Service!Validate, Service!Goto, Service!Exit
  <1>2. ASSUME NEW l \in Service!Listener, Service!Bind(l) PROVE ServiceInv'
    BY <1>2 DEF Service!Bind, Service!Next, Service!Goto, Service!Exit
  <1>3. CASE \/ Service!Register \/ Service!WaitFails
             \/ \E l \in Service!Listener : Service!ListenerEnds(l)
    BY <1>3 DEF Service!Register, Service!WaitFails, Service!ListenerEnds,
                Service!ListenerExits, Service!Exit
  <1>4. CASE Service!Signalled
    BY <1>4 DEF Service!Signalled, Service!Exit
  <1>5. CASE Service!StartService \/ Service!Supervise
    BY <1>5 DEF Service!StartService, Service!Supervise
  <1>6. CASE Service!StopService
    <2>1. ~wanted' /\ (told' => phase # "down")
          /\ UNCHANGED <<config, phase, bound, outcome, ended>>
      BY <1>6, Zenon DEF Service!StopService
    <2> QED
      BY <2>1
  <1>7. CASE Service!Reconfigure \/ Service!OthersBind \/ UNCHANGED processVars
    BY <1>7 DEF Service!Reconfigure, Service!OthersBind, processVars
  <1> QED
    BY <1>1, <1>2, <1>3, <1>4, <1>5, <1>6, <1>7 DEF Service!ProcessNext, Service!Proceed

-----------------------------------------------------------------------------
(* initialize.sh.  One run at most has created the environment file and    *)
(* not written the key yet, and then the file is empty.                    *)
Lines == {"look acme", "create acme", "look env", "create env", "write key", "done"}

FilesInv ==
  /\ env \in {Absent, Empty} \cup Run
  /\ line \in [Run -> Lines]
  /\ DOMAIN interrupted = Run
  /\ \A r \in Run : interrupted[r] # "no" => line[r] = "done"
  /\ \A r \in Run : line[r] = "write key" => env = Empty
  /\ \A r, s \in Run : line[r] = "write key" /\ line[s] = "write key" => r = s
  /\ Preparation!KeyOrInterrupted

LEMMA FilesInit == Preparation!FilesInit => FilesInv
  BY FilesAssumption DEF Preparation!FilesInit, FilesInv, Lines, Preparation!KeyOrInterrupted

(* A run goes on to another line than the writing of the key.              *)
LEMMA Advances ==
  ASSUME FilesInv, NEW r \in Run, line[r] \notin {"write key", "done"},
         NEW next \in Lines \ {"write key"}, next = "done" => env # Absent,
         line' = [line EXCEPT ![r] = next], UNCHANGED <<env, interrupted>>
  PROVE  FilesInv'
  <1> USE DEF FilesInv, Preparation!KeyOrInterrupted
  <1>1. /\ line' \in [Run -> Lines] /\ line'[r] = next
        /\ \A s \in Run : s # r => line'[s] = line[s]
    OBVIOUS
  <1>2. interrupted[r] = "no"
    OBVIOUS
  <1>3. ASSUME env = Empty PROVE \E s \in Run : "write key" \in {line'[s], interrupted[s]}
    <2>1. PICK s \in Run : "write key" \in {line[s], interrupted[s]}
      BY <1>3
    <2>2. s # r
      BY <1>2, <2>1
    <2> QED
      BY <1>1, <2>1, <2>2
  <1>4. \A s \in Run : line'[s] = "write key" => s # r /\ line[s] = "write key"
    BY <1>1
  <1>5. \A s \in Run : interrupted[s] # "no" => line'[s] = "done"
    BY <1>1, <1>2
  <1>6. \A s \in Run : line'[s] = "done" /\ interrupted[s] = "no" => env # Absent
    BY <1>1
  <1> QED
    BY <1>1, <1>3, <1>4, <1>5, <1>6

LEMMA FilesStep ==
  FilesInv /\ [Preparation!FilesNext]_initVars => FilesInv'
  <1> SUFFICES ASSUME FilesInv, [Preparation!FilesNext]_initVars PROVE FilesInv'
    OBVIOUS
  <1> USE FilesAssumption DEF FilesInv, Preparation!KeyOrInterrupted, Preparation!Goto
  <1>1. ASSUME NEW r \in Run,
               Preparation!LookAcme(r) \/ Preparation!CreateAcme(r) \/ Preparation!LookEnv(r)
        PROVE  FilesInv'
    <2>1. /\ line[r] \in {"look acme", "create acme", "look env"}
          /\ UNCHANGED <<env, interrupted>>
          /\ \E next \in Lines \ {"write key"} :
               /\ next = "done" => env # Absent
               /\ line' = [line EXCEPT ![r] = next]
      BY <1>1 DEF Preparation!LookAcme, Preparation!CreateAcme, Preparation!LookEnv, Lines
    <2> QED
      BY <2>1, Advances
  <1>2. ASSUME NEW r \in Run, Preparation!CreateEnv(r) PROVE FilesInv'
    <2>1. /\ line[r] = "create env" /\ UNCHANGED <<acme, interrupted>>
          /\ \/ /\ env = Absent /\ env' = Empty
                /\ line' = [line EXCEPT ![r] = "write key"]
             \/ /\ env # Absent /\ env' = env
                /\ line' = [line EXCEPT ![r] = "done"]
      BY <1>2 DEF Preparation!CreateEnv
    <2>2. CASE env # Absent
      <3>1. "done" \in Lines \ {"write key"} /\ line[r] \notin {"write key", "done"}
        BY <2>1 DEF Lines
      <3>2. line' = [line EXCEPT ![r] = "done"] /\ UNCHANGED <<env, interrupted>>
        BY <2>1, <2>2
      <3> QED
        BY <2>2, <3>1, <3>2, Advances
    <2>3. CASE env = Absent
      <3>1. /\ env' = Empty /\ line' = [line EXCEPT ![r] = "write key"]
            /\ \A s \in Run : line[s] # "write key"
        BY <2>1, <2>3
      <3>2. /\ line' \in [Run -> Lines] /\ line'[r] = "write key"
            /\ \A s \in Run : s # r => line'[s] = line[s]
        BY <3>1 DEF Lines
      <3>3. \A s \in Run : interrupted'[s] # "no" => line'[s] = "done"
        BY <2>1, <3>2
      <3>4. \A s \in Run : line'[s] = "write key" => s = r
        BY <3>1, <3>2
      <3>5. env' \in {Absent, Empty} \cup Run /\ env' # Absent /\ DOMAIN interrupted' = Run
        BY <2>1, <3>1
      <3>6. \E s \in Run : "write key" \in {line'[s], interrupted'[s]}
        BY <3>2
      <3> QED
        BY <3>1, <3>2, <3>3, <3>4, <3>5, <3>6
    <2> QED
      BY <2>2, <2>3
  <1>3. ASSUME NEW r \in Run, Preparation!WriteKey(r) PROVE FilesInv'
    <2>1. /\ line[r] = "write key" /\ UNCHANGED <<acme, interrupted>>
          /\ env' = r /\ line' = [line EXCEPT ![r] = "done"]
      BY <1>3 DEF Preparation!WriteKey
    <2>2. /\ line' \in [Run -> Lines]
          /\ \A s \in Run : line'[s] # "write key"
          /\ \A s \in Run : interrupted'[s] # "no" => line'[s] = "done"
      BY <2>1 DEF Lines
    <2>3. env' \in Run /\ env' \notin {Absent, Empty}
      BY <2>1
    <2> QED
      BY <2>1, <2>2, <2>3
  <1>4. ASSUME NEW r \in Run, Preparation!WriteFails(r) \/ Preparation!Interrupt(r)
        PROVE  FilesInv'
    <2>1. /\ line[r] # "done" /\ env' = env
          /\ line' = [line EXCEPT ![r] = "done"]
          /\ interrupted' = [interrupted EXCEPT ![r] = line[r]]
      BY <1>4 DEF Preparation!WriteFails, Preparation!Interrupt
    <2>2. ASSUME env = Empty PROVE \E s \in Run : "write key" \in {line'[s], interrupted'[s]}
      <3>1. PICK s \in Run : "write key" \in {line[s], interrupted[s]}
        BY <2>2
      <3>2. CASE s = r
        BY <2>1, <3>1, <3>2
      <3>3. CASE s # r
        BY <2>1, <3>1, <3>3
      <3> QED
        BY <3>2, <3>3
    <2>3. /\ line' \in [Run -> Lines] /\ DOMAIN interrupted' = Run
          /\ \A s \in Run : line'[s] = "write key" => line[s] = "write key"
          /\ \A s \in Run : interrupted'[s] # "no" => line'[s] = "done"
      BY <2>1 DEF Lines
    <2>4. \A s \in Run : line'[s] = "done" /\ interrupted'[s] = "no" => env # Absent
      <3>1. interrupted'[r] # "no"
        BY <2>1 DEF Lines
      <3> QED
        BY <2>1, <3>1
    <2>5. \A s \in Run : line'[s] = "write key" => env = Empty
      BY <2>3
    <2>6. \A s, u \in Run : line'[s] = "write key" /\ line'[u] = "write key" => s = u
      BY <2>3
    <2> QED
      BY <2>1, <2>2, <2>3, <2>4, <2>5, <2>6
  <1>5. CASE Preparation!ProxyStores \/ UNCHANGED initVars
    BY <1>5 DEF Preparation!ProxyStores, initVars
  <1> QED
    BY <1>1, <1>2, <1>3, <1>4, <1>5 DEF Preparation!FilesNext

(* Only a file that is absent is created, and only one that is empty gets  *)
(* its key.                                                                *)
LEMMA FilesKept ==
  ASSUME FilesInv, [Preparation!FilesNext]_initVars
  PROVE  /\ acme = Certificates => acme' = Certificates
         /\ env \in Run => env' = env
  <1> USE FilesAssumption DEF FilesInv
  <1>1. CASE Preparation!ProxyStores \/ UNCHANGED initVars
    BY <1>1 DEF Preparation!ProxyStores, initVars
  <1>2. ASSUME NEW r \in Run, Preparation!CreateEnv(r) \/ Preparation!WriteKey(r)
        PROVE  acme' = acme /\ (env \in Run => env' = env)
    BY <1>2 DEF Preparation!CreateEnv, Preparation!WriteKey
  <1>3. ASSUME NEW r \in Run,
               \/ Preparation!LookAcme(r) \/ Preparation!CreateAcme(r)
               \/ Preparation!LookEnv(r) \/ Preparation!WriteFails(r)
               \/ Preparation!Interrupt(r)
        PROVE  (acme = Certificates => acme' = Certificates) /\ env' = env
    BY <1>3 DEF Preparation!LookAcme, Preparation!CreateAcme, Preparation!LookEnv,
                Preparation!WriteFails, Preparation!Interrupt
  <1> QED
    BY <1>1, <1>2, <1>3 DEF Preparation!FilesNext

-----------------------------------------------------------------------------
(* The serial.  Unless a life began too early, what was told lies at or    *)
(* below the present serial, and under the present serial only the present *)
(* content was told.                                                       *)
ToldBefore ==
  /\ \A s \in Lives!Serials : published[s] # {} => s <= serial
  /\ published[serial] \subseteq {content}
  /\ \A s \in Lives!Serials : \A c, d \in published[s] : c = d

SerialsInv ==
  /\ clock \in 0 .. LastSecond
  /\ serial \in Lives!Serials
  /\ published \in [Lives!Serials -> SUBSET SUBSET Value]
  /\ content \in SUBSET Value
  /\ outran \in BOOLEAN
  /\ outran \/ ToldBefore

LEMMA SerialsInit == Lives!SerialInit => SerialsInv
  <1> SUFFICES ASSUME Lives!SerialInit PROVE SerialsInv
    OBVIOUS
  <1>1. /\ clock = 0 /\ serial = 0 /\ content = {} /\ outran = FALSE
        /\ published = [s \in Lives!Serials |-> {}]
    BY DEF Lives!SerialInit
  <1>2. 0 \in 0 .. LastSecond /\ 0 \in Lives!Serials
    BY ClockAssumption DEF Lives!Serials
  <1>3. ToldBefore
    BY <1>1, <1>2 DEF ToldBefore
  <1> QED
    BY <1>1, <1>2, <1>3 DEF SerialsInv

LEMMA SerialsStep == SerialsInv /\ [Lives!SerialNext]_serialVars => SerialsInv'
  <1> SUFFICES ASSUME SerialsInv, [Lives!SerialNext]_serialVars PROVE SerialsInv'
    OBVIOUS
  <1> USE ClockAssumption DEF SerialsInv, Lives!Serials
  <1>1. CASE Lives!Start
    <2>1. serial' = clock /\ content' = {} /\ UNCHANGED <<clock, published>>
      BY <1>1 DEF Lives!Start, Lives!Seed
    <2>2. ~outran' => ~outran /\ \A s \in Lives!Serials : s >= clock => published[s] = {}
      BY <1>1 DEF Lives!Start
    <2>3. ~outran' => ToldBefore'
      BY <2>1, <2>2 DEF ToldBefore
    <2>4. outran' \in BOOLEAN
      BY <1>1 DEF Lives!Start
    <2> QED
      BY <2>1, <2>3, <2>4
  <1>2. CASE Lives!Change
    <2>1. /\ serial' = serial + 1 /\ serial < clock + MaxLead
          /\ content' \in SUBSET Value /\ UNCHANGED <<clock, published, outran>>
      BY <1>2 DEF Lives!Change
    <2>2. ToldBefore => ToldBefore'
      BY <2>1 DEF ToldBefore
    <2> QED
      BY <2>1, <2>2
  <1>3. CASE Lives!Tell
    <2>1. /\ published' = [published EXCEPT ![serial] = published[serial] \cup {content}]
          /\ UNCHANGED <<clock, content, serial, outran>>
      BY <1>3 DEF Lives!Tell
    <2>2. ToldBefore => ToldBefore'
      BY <2>1 DEF ToldBefore
    <2> QED
      BY <2>1, <2>2
  <1>4. CASE Lives!Tick \/ Lives!SetBack
    <2>1. clock' \in 0 .. LastSecond /\ UNCHANGED <<content, serial, published, outran>>
      BY <1>4 DEF Lives!Tick, Lives!SetBack
    <2> QED
      BY <2>1 DEF ToldBefore
  <1>5. CASE Lives!Stop \/ UNCHANGED serialVars
    BY <1>5 DEF Lives!Stop, serialVars, ToldBefore
  <1> QED
    BY <1>1, <1>2, <1>3, <1>4, <1>5 DEF Lives!SerialNext

LEMMA SameCount == \A S : Lives!Cardinality(S) = Cardinality(S)
  BY DEF Cardinality, Lives!Cardinality, IsFiniteSet, Lives!IsFiniteSet

LEMMA OneContent == SerialsInv => Lives!NamesForEver
  <1> SUFFICES ASSUME SerialsInv, ~outran, NEW s \in Lives!Serials
               PROVE  Cardinality(published[s]) \in {0, 1}
    BY SameCount DEF Lives!NamesForEver
  <1>1. CASE published[s] = {}
    BY <1>1, FS_EmptySet
  <1>2. ASSUME NEW c \in published[s] PROVE Cardinality(published[s]) = 1
    <2>1. published[s] = {c}
      BY <1>2 DEF SerialsInv, ToldBefore
    <2> QED
      BY <2>1, FS_Singleton
  <1> QED
    BY <1>1, <1>2

LEMMA ToldForward ==
  ASSUME SerialsInv, published' # published /\ ~outran
  PROVE  \A s \in Lives!Serials : published[s] # {} => s <= serial
  BY DEF SerialsInv, ToldBefore

-----------------------------------------------------------------------------
(* The package scripts.  What is left of an operation, in whatever order   *)
(* the package manager calls: an installation begins with the files and    *)
(* stops nothing; an upgrade stops nothing, and restarts after the files   *)
(* are new; a removal stops before it deletes.                             *)
Call ==
  {"unpack", "delete", "preremove", "postremove", "postinstall", "postupgrade"} \X
    {"", "0", "1", "2", "remove", "upgrade", "configure", "configure old"}
Installing == {"install", "reinstall"}
Operation == Installing \cup {"upgrade", "remove"}

Orderly(op, p) ==
  /\ op \in Installing => \A i \in 1 .. Len(p) :
       p[i] \notin Stops \cup {Delete} /\ (p[i] = Unpack => i = 1)
  /\ op = "upgrade" => \A i \in 1 .. Len(p) :
       /\ p[i] \notin Stops \cup {Delete}
       /\ p[i] = Unpack => \E j \in i + 1 .. Len(p) : p[j] \in Restarts
  /\ op = "remove" => \A i \in 1 .. Len(p) :
       /\ p[i] \notin Restarts \cup {Unpack}
       /\ p[i] = Delete => \A j \in i .. Len(p) : p[j] \notin Stops
  /\ op = "none" => p = <<>>

Left(calls) == \E i \in 1 .. Len(plan) : plan[i] \in calls

(* Nothing of the service is left but what could not be stopped, disabled. *)
Stopped ==
  /\ running # 0 \/ crashed => "stop" \in missed
  /\ enabled => "disable" \in missed

PackageInv ==
  /\ format \in Format
  /\ operation \in Operation \cup {"none"}
  /\ plan \in Seq(Call) /\ Orderly(operation, plan)
  /\ installed \in Nat /\ looked \in BOOLEAN /\ ran \in BOOLEAN
  /\ looked => plan # <<>> /\ Head(plan) \in Restarts /\ ran
  /\ running # 0 => ran
  /\ running \notin {0, installed} => Left(Restarts) \/ "stop" \in missed
  /\ operation \in Installing => (Left({Unpack}) <=> installed = 0)
  /\ operation = "upgrade" => installed # 0
  /\ operation = "remove" /\ ~Left(Stops) => Stopped
  /\ installed = 0 => Stopped

(* Which calls do what, by the script and its argument.                    *)
LEMMA FilesApart ==
  /\ Unpack \in Call /\ Delete \in Call /\ Unpack # Delete
  /\ Unpack \notin Stops \cup Restarts /\ Delete \notin Stops \cup Restarts
  <1>1. Unpack \in Call /\ Delete \in Call /\ Unpack # Delete
    BY DEF Unpack, Delete, Files, Call
  <1>2. Unpack \notin Stops \cup Restarts /\ Delete \notin Stops \cup Restarts
    BY DEF Stops, Restarts, Unpack, Delete, Files
  <1> QED
    BY <1>1, <1>2

LEMMA StopsApart == \A c \in Stops : c \in Call /\ c \notin Restarts
  <1>1. \A a \in {"remove", "0", ""} : <<"preremove", a>> \in Call
    BY DEF Call
  <1>2. \A a \in {"remove", "0", ""} : <<"preremove", a>> \notin Restarts
    BY DEF Restarts
  <1> QED
    BY <1>1, <1>2 DEF Stops

LEMMA RestartCalls ==
  /\ <<"postinstall", "configure old">> \in Restarts
  /\ <<"postinstall", "2">> \in Restarts
  /\ <<"postupgrade", "">> \in Restarts
  BY DEF Restarts

(* A call that reloads the service manager or does nothing.                *)
Harmless == Call \ (Stops \cup Restarts \cup {Unpack, Delete})

LEMMA InstallShape ==
  ASSUME NEW f \in Format, NEW op \in Installing
  PROVE  \E c \in Harmless \cup Restarts : Plan[f][op] = <<Unpack, c>>
  <1>1. \E a \in {"configure", "configure old", "1", ""} :
           Plan[f][op] = <<Unpack, <<"postinstall", a>>>>
    <2>1. CASE f = "deb"
      <3>1. /\ Plan["deb"]["install"] = <<Unpack, <<"postinstall", "configure">>>>
            /\ Plan["deb"]["reinstall"] = <<Unpack, <<"postinstall", "configure old">>>>
        BY DEF Plan
      <3> QED
        BY <2>1, <3>1 DEF Installing
    <2>2. CASE f \in {"rpm", "apk", "arch"}
      <3>1. /\ Plan["rpm"]["install"] = <<Unpack, <<"postinstall", "1">>>>
            /\ Plan["rpm"]["reinstall"] = <<Unpack, <<"postinstall", "1">>>>
        BY DEF Plan
      <3>2. /\ Plan["apk"]["install"] = <<Unpack, <<"postinstall", "">>>>
            /\ Plan["apk"]["reinstall"] = <<Unpack, <<"postinstall", "">>>>
        BY DEF Plan
      <3>3. /\ Plan["arch"]["install"] = <<Unpack, <<"postinstall", "">>>>
            /\ Plan["arch"]["reinstall"] = <<Unpack, <<"postinstall", "">>>>
        BY DEF Plan
      <3> QED
        BY <2>2, <3>1, <3>2, <3>3 DEF Installing
    <2> QED
      BY <2>1, <2>2 DEF Format
  <1>2. \A a \in {"configure", "1", ""} : <<"postinstall", a>> \in Harmless
    BY DEF Harmless, Call, Stops, Restarts, Unpack, Delete, Files
  <1> QED
    BY <1>1, <1>2, RestartCalls

LEMMA RemoveShape ==
  ASSUME NEW f \in Format
  PROVE  \E s \in Stops, c \in Harmless : Plan[f]["remove"] = <<s, Delete, c>>
  <1>1. \E a \in {"remove", "0", ""} :
           Plan[f]["remove"] = <<<<"preremove", a>>, Delete, <<"postremove", a>>>>
    <2>1. CASE f = "deb"
      BY <2>1 DEF Plan
    <2>2. CASE f = "rpm"
      BY <2>2 DEF Plan
    <2>3. CASE f = "apk"
      BY <2>3 DEF Plan
    <2>4. CASE f = "arch"
      BY <2>4 DEF Plan
    <2> QED
      BY <2>1, <2>2, <2>3, <2>4 DEF Format
  <1>2. \A a \in {"remove", "0", ""} : <<"preremove", a>> \in Stops
    BY DEF Stops
  <1>3. \A a \in {"remove", "0", ""} : <<"postremove", a>> \in Harmless
    BY DEF Harmless, Call, Stops, Restarts, Unpack, Delete, Files
  <1> QED
    BY <1>1, <1>2, <1>3

(* An upgrade calls the scripts of the old package before those of the new *)
(* one, or after them, or not at all.                                      *)
LEMMA UpgradeShape ==
  ASSUME NEW f \in Format
  PROVE  \E c, d \in Harmless, r \in Restarts :
           Plan[f]["upgrade"] \in {<<c, Unpack, d, r>>, <<Unpack, r, c, d>>, <<Unpack, r>>}
  <1>1. /\ <<"preremove", "upgrade">> \in Harmless
        /\ <<"postremove", "upgrade">> \in Harmless
        /\ <<"preremove", "1">> \in Harmless
        /\ <<"postremove", "1">> \in Harmless
    BY DEF Harmless, Call, Stops, Restarts, Unpack, Delete, Files
  <1>2. CASE f = "deb"
    <2>1. Plan[f]["upgrade"] = <<<<"preremove", "upgrade">>, Unpack,
                                 <<"postremove", "upgrade">>,
                                 <<"postinstall", "configure old">>>>
      BY <1>2 DEF Plan
    <2> QED
      BY <1>1, <2>1, RestartCalls
  <1>3. CASE f = "rpm"
    <2>1. Plan[f]["upgrade"] = <<Unpack, <<"postinstall", "2">>, <<"preremove", "1">>,
                                 <<"postremove", "1">>>>
      BY <1>3 DEF Plan
    <2> QED
      BY <1>1, <2>1, RestartCalls
  <1>4. CASE f = "apk" \/ f = "arch"
    <2>1. Plan[f]["upgrade"] = <<Unpack, <<"postupgrade", "">>>>
      <3>1. CASE f = "apk"
        BY <3>1 DEF Plan
      <3>2. CASE f = "arch"
        BY <3>2 DEF Plan
      <3> QED
        BY <1>4, <3>1, <3>2
    <2> QED
      BY <1>1, <2>1, RestartCalls
  <1> QED
    BY <1>2, <1>3, <1>4 DEF Format

(* Every plan is orderly; a removal stops the service somewhere, an        *)
(* upgrade restarts it, and an installation unpacks its files.             *)
LEMMA PlansOrderly ==
  ASSUME NEW f \in Format, NEW op \in Operation
  PROVE  /\ Plan[f][op] \in Seq(Call)
         /\ Orderly(op, Plan[f][op])
         /\ op = "remove" => \E i \in 1 .. Len(Plan[f][op]) : Plan[f][op][i] \in Stops
         /\ op = "upgrade" => \E i \in 1 .. Len(Plan[f][op]) : Plan[f][op][i] \in Restarts
         /\ op \in Installing => \E i \in 1 .. Len(Plan[f][op]) : Plan[f][op][i] = Unpack
  <1>0. /\ \A c \in Harmless : c \in Call \ (Stops \cup Restarts \cup {Unpack, Delete})
        /\ \A c \in Stops : c \in Call \ (Restarts \cup {Unpack, Delete})
        /\ \A c \in Restarts : c \in Call \ (Stops \cup {Unpack, Delete})
    <2>1. /\ <<"postinstall", "configure old">> \in Call
          /\ <<"postinstall", "2">> \in Call /\ <<"postupgrade", "">> \in Call
      BY DEF Call
    <2>2. \A c \in Restarts : c \in Call
      BY <2>1 DEF Restarts
    <2> QED
      BY <2>2, FilesApart, StopsApart DEF Harmless
  <1> USE FilesApart
  <1>1. CASE op \in Installing
    <2>1. PICK c \in Harmless \cup Restarts : Plan[f][op] = <<Unpack, c>>
      BY <1>1, InstallShape
    <2>2. c \in Call \ (Stops \cup {Unpack, Delete})
      BY <1>0
    <2> QED
      BY <1>1, <2>1, <2>2 DEF Orderly, Installing
  <1>2. CASE op = "upgrade"
    <2>1. PICK c \in Harmless, d \in Harmless, r \in Restarts :
            Plan[f][op] \in {<<c, Unpack, d, r>>, <<Unpack, r, c, d>>, <<Unpack, r>>}
      BY <1>2, UpgradeShape
    <2>2. c \in Call /\ d \in Call /\ r \in Call
      BY <1>0
    <2>3. CASE Plan[f][op] = <<c, Unpack, d, r>>
      BY <1>0, <1>2, <2>2, <2>3 DEF Orderly, Installing
    <2>4. CASE Plan[f][op] = <<Unpack, r, c, d>>
      BY <1>0, <1>2, <2>2, <2>4 DEF Orderly, Installing
    <2>5. CASE Plan[f][op] = <<Unpack, r>>
      BY <1>0, <1>2, <2>2, <2>5 DEF Orderly, Installing
    <2> QED
      BY <2>1, <2>3, <2>4, <2>5
  <1>3. CASE op = "remove"
    <2>1. PICK s \in Stops, c \in Harmless : Plan[f][op] = <<s, Delete, c>>
      BY <1>3, RemoveShape
    <2>2. s \in Call /\ c \in Call
      BY <1>0
    <2> QED
      BY <1>0, <1>3, <2>1, <2>2 DEF Orderly, Installing
  <1> QED
    BY <1>1, <1>2, <1>3 DEF Operation

(* Every call of the plan but the first is still there in its tail.        *)
LEMMA TailLeaves ==
  ASSUME NEW p \in Seq(Call), p # <<>>
  PROVE  /\ Tail(p) \in Seq(Call) /\ Len(Tail(p)) = Len(p) - 1 /\ Head(p) = p[1]
         /\ \A i \in 1 .. Len(Tail(p)) : i + 1 \in 2 .. Len(p) /\ Tail(p)[i] = p[i + 1]
         /\ \A i \in 2 .. Len(p) : i - 1 \in 1 .. Len(Tail(p)) /\ Tail(p)[i - 1] = p[i]
  OBVIOUS

LEMMA TailOrderly ==
  ASSUME NEW op, NEW p \in Seq(Call), p # <<>>, Orderly(op, p)
  PROVE  Orderly(op, Tail(p))
  <1> USE DEF Orderly
  <1> DEFINE q == Tail(p)
  <1>0. /\ Len(q) = Len(p) - 1 /\ Len(p) \in Nat
        /\ \A i \in 1 .. Len(q) : i + 1 \in 2 .. Len(p) /\ q[i] = p[i + 1]
        /\ \A i \in 2 .. Len(p) : i - 1 \in 1 .. Len(q) /\ q[i - 1] = p[i]
    BY TailLeaves
  <1> HIDE DEF q
  <1>1. ASSUME op \in Installing, NEW i \in 1 .. Len(q)
        PROVE  q[i] \notin Stops \cup {Delete} /\ q[i] # Unpack
    BY <1>0, <1>1
  <1>2. ASSUME op = "upgrade", NEW i \in 1 .. Len(q)
        PROVE  /\ q[i] \notin Stops \cup {Delete}
               /\ q[i] = Unpack => \E j \in i + 1 .. Len(q) : q[j] \in Restarts
    <2>1. q[i] \notin Stops \cup {Delete}
      BY <1>0, <1>2
    <2>2. ASSUME q[i] = Unpack PROVE \E j \in i + 1 .. Len(q) : q[j] \in Restarts
      <3>1. PICK j \in i + 2 .. Len(p) : p[j] \in Restarts
        BY <1>0, <1>2, <2>2
      <3>2. j - 1 \in i + 1 .. Len(q) /\ q[j - 1] \in Restarts
        BY <1>0, <3>1
      <3> QED
        BY <3>2
    <2> QED
      BY <2>1, <2>2
  <1>3. ASSUME op = "remove", NEW i \in 1 .. Len(q)
        PROVE  /\ q[i] \notin Restarts \cup {Unpack}
               /\ q[i] = Delete => \A j \in i .. Len(q) : q[j] \notin Stops
    BY <1>0, <1>3
  <1> QED
    BY <1>1, <1>2, <1>3 DEF q

LEMMA PackageStart == PackageInit => PackageInv
  <1> SUFFICES ASSUME PackageInit PROVE PackageInv
    OBVIOUS
  <1>1. plan = <<>> /\ operation = "none" /\ format \in Format
        /\ installed = 0 /\ running = 0 /\ looked = FALSE /\ ran = FALSE
        /\ enabled = FALSE /\ crashed = FALSE
    BY DEF PackageInit
  <1>2. plan \in Seq(Call) /\ Orderly(operation, plan)
    BY <1>1 DEF Orderly, Installing
  <1> QED
    BY <1>1, <1>2 DEF PackageInv, Stopped, Installing

(* A script's call is done: what is left of the plan.                      *)
LEMMA DoneLeaves ==
  ASSUME PackageInv, plan # <<>>, Done
  PROVE  /\ plan' \in Seq(Call) /\ Orderly(operation', plan')
         /\ format' = format /\ operation' = operation /\ ran' = ran
         /\ \A calls : /\ Left(calls)' => Left(calls)
                       /\ Left(calls) => Left(calls)' \/ Head(plan) \in calls
  <1>1. plan \in Seq(Call) /\ Orderly(operation, plan) /\ plan' = Tail(plan)
        /\ format' = format /\ operation' = operation /\ ran' = ran
    BY DEF PackageInv, Done
  <1>2. plan' \in Seq(Call) /\ Orderly(operation', plan')
    BY <1>1, TailLeaves, TailOrderly
  <1>3. ASSUME NEW calls, Left(calls)' PROVE Left(calls)
    <2>1. PICK i \in 1 .. Len(plan') : plan'[i] \in calls
      BY <1>3 DEF Left
    <2>2. i + 1 \in 1 .. Len(plan) /\ plan[i + 1] \in calls
      BY <1>1, <2>1, TailLeaves
    <2> QED
      BY <2>2 DEF Left
  <1>4. ASSUME NEW calls, Left(calls), Head(plan) \notin calls PROVE Left(calls)'
    <2>1. PICK i \in 1 .. Len(plan) : plan[i] \in calls
      BY <1>4 DEF Left
    <2>2. i # 1
      BY <1>1, <1>4, <2>1, TailLeaves
    <2>3. i - 1 \in 1 .. Len(plan') /\ plan'[i - 1] \in calls
      BY <1>1, <2>1, <2>2, TailLeaves
    <2> QED
      BY <2>3 DEF Left
  <1> QED
    BY <1>1, <1>2, <1>3, <1>4

(* What the next call can be, and what follows it.                         *)
LEMMA HeadOrderly ==
  ASSUME PackageInv, plan # <<>>
  PROVE  /\ operation \in Operation
         /\ Head(plan) \in Stops => operation = "remove"
         /\ Head(plan) \in Restarts => operation # "remove" /\ installed # 0
         /\ Head(plan) = Unpack => operation # "remove"
         /\ Head(plan) = Delete => operation = "remove" /\ ~Left(Stops)
         /\ Head(plan) = Unpack /\ operation = "upgrade" => Left(Restarts)
  <1>1. plan \in Seq(Call) /\ Orderly(operation, plan) /\ operation \in Operation
    BY DEF PackageInv, Orderly
  <1>2. Head(plan) = plan[1] /\ 1 \in 1 .. Len(plan)
    BY <1>1
  <1>3. CASE operation \in Installing
    <2>1. ASSUME Head(plan) \in Restarts PROVE installed # 0
      <3>1. \A i \in 1 .. Len(plan) : plan[i] # Unpack
        BY <1>1, <1>2, <1>3, <2>1, FilesApart DEF Orderly
      <3> QED
        BY <1>3, <3>1 DEF PackageInv, Left
    <2>2. operation \notin {"upgrade", "remove"}
      BY <1>3 DEF Installing
    <2> QED
      BY <1>1, <1>2, <1>3, <2>1, <2>2 DEF Orderly
  <1>4. CASE operation = "upgrade"
    BY <1>1, <1>2, <1>4, FilesApart DEF Orderly, Left, PackageInv
  <1>5. CASE operation = "remove"
    BY <1>1, <1>2, <1>5, FilesApart DEF Orderly, Left
  <1> QED
    BY <1>1, <1>3, <1>4, <1>5 DEF Operation

LEMMA UnpackKeeps == ASSUME PackageInv, UnpackFiles PROVE PackageInv'
  <1> USE DEF PackageInv
  <1>1. /\ plan # <<>> /\ Head(plan) = Unpack /\ Done
        /\ installed' = installed + 1 /\ UNCHANGED <<looked, running, enabled, crashed, missed>>
    BY DEF UnpackFiles, service
  <1>2. Unpack \notin Restarts
    BY FilesApart
  <1>3. operation \in Installing => ~Left({Unpack})'
    <2> SUFFICES ASSUME operation \in Installing, Left({Unpack})' PROVE FALSE
      OBVIOUS
    <2>1. PICK i \in 1 .. Len(plan') : plan'[i] = Unpack
      BY DEF Left
    <2>2. i + 1 \in 1 .. Len(plan) /\ plan[i + 1] = Unpack
      BY <1>1, <2>1, TailLeaves DEF Done
    <2> QED
      BY <2>2 DEF Orderly
  <1>4. running' \notin {0, installed'} => Left(Restarts)' \/ "stop" \in missed'
    <2>1. CASE operation \in Installing
      <3>1. installed = 0
        BY <1>1, <2>1 DEF Left
      <3> QED
        BY <1>1, <3>1 DEF Stopped
    <2>2. CASE operation = "upgrade"
      <3>1. Left(Restarts)
        BY <1>1, <2>2, HeadOrderly
      <3> QED
        BY <1>1, <1>2, <3>1, DoneLeaves
    <2> QED
      BY <1>1, <2>1, <2>2, HeadOrderly DEF Operation
  <1>5. operation # "remove" /\ ~looked
    BY <1>1, <1>2, HeadOrderly
  <1>6. installed' \in Nat /\ installed' # 0
    BY <1>1
  <1> QED
    BY <1>1, <1>3, <1>4, <1>5, <1>6, DoneLeaves

LEMMA DeleteKeeps == ASSUME PackageInv, DeleteFiles PROVE PackageInv'
  <1> USE DEF PackageInv
  <1>1. /\ plan # <<>> /\ Head(plan) = Delete /\ Done
        /\ installed' = 0 /\ UNCHANGED <<looked, running, enabled, crashed, missed>>
    BY DEF DeleteFiles, service
  <1>2. operation = "remove" /\ ~Left(Stops)
    BY <1>1, HeadOrderly
  <1>3. Stopped /\ Stopped'
    BY <1>1, <1>2 DEF Stopped
  <1>4. ~looked
    BY <1>1, FilesApart
  <1>5. operation' \notin Installing \cup {"upgrade"}
    BY <1>1, <1>2 DEF Done, Installing
  <1> QED
    BY <1>1, <1>3, <1>4, <1>5, DoneLeaves DEF Stopped

LEMMA StopKeeps == ASSUME PackageInv, StopAndDisable PROVE PackageInv'
  <1> USE DEF PackageInv
  <1>1. /\ plan # <<>> /\ Head(plan) \in Stops /\ Done
        /\ \/ "stop" \in missed' /\ UNCHANGED <<running, crashed>>
           \/ running' = 0 /\ crashed' = FALSE
        /\ enabled' = (enabled /\ "disable" \in missed')
        /\ UNCHANGED <<looked, installed>>
    BY DEF StopAndDisable
  <1>2. operation = "remove" /\ ~looked
    BY <1>1, HeadOrderly, StopsApart
  <1>3. Stopped'
    BY <1>1 DEF Stopped
  <1>4. running' \in {0, running} /\ (running' # 0 => "stop" \in missed')
    BY <1>1
  <1>5. operation' \notin Installing \cup {"upgrade"}
    BY <1>1, <1>2 DEF Done, Installing
  <1> QED
    BY <1>1, <1>2, <1>3, <1>4, <1>5, DoneLeaves

LEMMA LookKeeps == ASSUME PackageInv, LookIfRunning PROVE PackageInv'
  <1> USE DEF PackageInv
  <1>1. /\ plan # <<>> /\ Head(plan) \in Restarts
        /\ UNCHANGED <<installed, running, enabled, crashed, missed>>
    BY DEF LookIfRunning, service
  <1>2. operation # "remove" /\ installed # 0
    BY <1>1, HeadOrderly
  <1>3. CASE running # 0
    <2>1. looked' = TRUE /\ UNCHANGED <<format, operation, plan, ran>>
      BY <1>3 DEF LookIfRunning
    <2> QED
      BY <1>1, <1>3, <2>1 DEF Left, Stopped
  <1>4. CASE running = 0
    <2>1. Done /\ ~looked /\ ~looked' /\ looked' \in BOOLEAN
      BY <1>4 DEF LookIfRunning
    <2>2. operation \in Installing => ~Left({Unpack})'
      BY <1>1, <1>2, <2>1, DoneLeaves
    <2> QED
      BY <1>1, <1>2, <1>4, <2>1, <2>2, DoneLeaves
  <1> QED
    BY <1>3, <1>4

LEMMA RestartKeeps == ASSUME PackageInv, Restart PROVE PackageInv'
  <1> USE DEF PackageInv
  <1>1. /\ plan # <<>> /\ Head(plan) \in Restarts /\ ran /\ Done
        /\ looked' = FALSE /\ running' = installed /\ UNCHANGED <<installed, enabled>>
    BY DEF Restart
  <1>2. operation # "remove" /\ installed # 0
    BY <1>1, HeadOrderly
  <1>3. operation \in Installing => ~Left({Unpack})'
    BY <1>1, <1>2, DoneLeaves
  <1> QED
    BY <1>1, <1>2, <1>3, DoneLeaves

LEMMA OtherKeeps == ASSUME PackageInv, OtherCall PROVE PackageInv'
  <1> USE DEF PackageInv
  <1>1. /\ plan # <<>> /\ Head(plan) \notin Stops \cup Restarts \cup {Unpack, Delete}
        /\ Done /\ UNCHANGED <<looked, installed, running, enabled, crashed, missed>>
    BY DEF OtherCall, service
  <1>2. ~looked
    BY <1>1
  <1>3. Stopped => Stopped'
    BY <1>1 DEF Stopped
  <1>4. Left({Unpack})' <=> Left({Unpack})
    BY <1>1, DoneLeaves
  <1> QED
    BY <1>1, <1>2, <1>3, <1>4, DoneLeaves

(* The service manager and the administrator leave the operation alone.    *)
LEMMA ServiceKeeps ==
  ASSUME PackageInv, Crash \/ Supervise \/ SuperviseInVain \/ Administer
  PROVE  PackageInv'
  <1> USE DEF PackageInv
  <1>1. UNCHANGED <<format, operation, plan, looked, installed, missed>>
    BY DEF Crash, Supervise, SuperviseInVain, Administer
  <1>2. \A calls : Left(calls)' = Left(calls)
    BY <1>1 DEF Left
  <1>3. running' \in {0, installed, running} /\ (running' # 0 => ran')
        /\ ran' \in BOOLEAN /\ (ran => ran')
    BY DEF Crash, Supervise, SuperviseInVain, Administer
  <1>4. ASSUME Stopped, operation = "remove" \/ installed = 0 PROVE Stopped'
    <2>1. running' # 0 \/ crashed' => running # 0 \/ crashed
      BY <1>4 DEF Crash, Supervise, SuperviseInVain, Administer
    <2>2. enabled' => enabled
      BY <1>4 DEF Crash, Supervise, SuperviseInVain, Administer
    <2> QED
      BY <1>1, <1>4, <2>1, <2>2 DEF Stopped
  <1> QED
    BY <1>1, <1>2, <1>3, <1>4

LEMMA StartKeeps ==
  ASSUME PackageInv, NEW op \in Operation, Start(op) PROVE PackageInv'
  <1> USE DEF PackageInv
  <1>1. /\ operation = "none" /\ operation' = op /\ plan' = Plan[format][op]
        /\ (op \in Installing) = (installed = 0)
        /\ op # "upgrade" => missed' = missed
        /\ UNCHANGED <<format, looked, installed, running, enabled, crashed>>
    BY DEF Start, service, Installing
  <1>2. ran' = (running # 0)
    BY DEF Start
  <1>3. plan = <<>> /\ ~looked
    BY <1>1 DEF Orderly
  <1>4. running \in {0, installed} \/ "stop" \in missed
    BY <1>3 DEF Left
  <1>5. /\ plan' \in Seq(Call) /\ Orderly(op, plan')
        /\ op = "remove" => Left(Stops)'
        /\ op = "upgrade" => Left(Restarts)'
        /\ op \in Installing => Left({Unpack})'
    BY <1>1, PlansOrderly DEF Left
  <1>6. op \in {"upgrade", "remove"} => installed # 0
    BY <1>1 DEF Installing
  <1>7. installed = 0 => Stopped'
    BY <1>1 DEF Stopped, Installing
  <1>8. running' \notin {0, installed'} => Left(Restarts)' \/ "stop" \in missed'
    BY <1>1, <1>4, <1>5
  <1>9. /\ op \in Installing => (Left({Unpack})' <=> installed' = 0)
        /\ op = "upgrade" => installed' # 0
        /\ op = "remove" /\ ~Left(Stops)' => Stopped'
        /\ installed' = 0 => Stopped'
    BY <1>1, <1>5, <1>6, <1>7
  <1>10. ran' \in BOOLEAN /\ (running' # 0 => ran')
    BY <1>1, <1>2
  <1>11. format' \in Format /\ installed' \in Nat /\ looked' = FALSE
    BY <1>1, <1>3
  <1> QED
    BY <1>1, <1>5, <1>8, <1>9, <1>10, <1>11

LEMMA FinishKeeps == ASSUME PackageInv, Finish PROVE PackageInv'
  <1> USE DEF PackageInv
  <1>1. plan = <<>> /\ operation' = "none"
        /\ UNCHANGED <<format, plan, looked, installed, running, enabled, crashed, ran, missed>>
    BY DEF Finish, service
  <1>2. \A calls : Left(calls)' = Left(calls)
    BY <1>1 DEF Left
  <1>3. Stopped => Stopped'
    BY <1>1 DEF Stopped
  <1>4. operation' \notin Installing /\ operation' \notin {"upgrade", "remove"}
    BY <1>1 DEF Installing
  <1>5. Orderly(operation', plan')
    BY <1>1, <1>4 DEF Orderly
  <1> QED
    BY <1>1, <1>2, <1>3, <1>4, <1>5

LEMMA PackageStep == PackageInv /\ [PackageNext]_packageVars => PackageInv'
  <1> SUFFICES ASSUME PackageInv, [PackageNext]_packageVars PROVE PackageInv'
    OBVIOUS
  <1>1. CASE UNCHANGED packageVars
    BY <1>1 DEF packageVars, PackageInv, Left, Stopped
  <1>2. CASE \E op \in Operation : Start(op)
    BY <1>2, StartKeeps
  <1>3. CASE Script
    BY <1>3, UnpackKeeps, DeleteKeeps, StopKeeps, LookKeeps, RestartKeeps, OtherKeeps
       DEF Script
  <1>4. CASE Finish
    BY <1>4, FinishKeeps
  <1>5. CASE Crash \/ Supervise \/ SuperviseInVain \/ Administer
    BY <1>5, ServiceKeeps
  <1> QED
    BY <1>1, <1>2, <1>3, <1>4, <1>5 DEF PackageNext, Operation, Installing

(* What a step of a script does to the service.                            *)
LEMMA ScriptSteps ==
  ASSUME PackageInv, Script
  PROVE  /\ running = 0 /\ running' # 0 => ran
         /\ operation = "upgrade" => enabled' = enabled /\ (running # 0 => running' # 0)
  <1>1. CASE StopAndDisable
    <2>1. (running' # 0 => running # 0) /\ operation = "remove"
      BY <1>1, HeadOrderly DEF StopAndDisable
    <2> QED
      BY <2>1
  <1>2. CASE Restart
    <2>1. ran /\ installed # 0
      BY <1>2, HeadOrderly DEF Restart, PackageInv
    <2>2. running' = installed /\ enabled' = enabled
      BY <1>2 DEF Restart
    <2> QED
      BY <2>1, <2>2
  <1>3. CASE UnpackFiles \/ DeleteFiles \/ LookIfRunning \/ OtherCall
    <2>1. UNCHANGED service
      BY <1>3 DEF UnpackFiles, DeleteFiles, LookIfRunning, OtherCall
    <2> QED
      BY <2>1 DEF service
  <1> QED
    BY <1>1, <1>2, <1>3 DEF Script

-----------------------------------------------------------------------------
(* The four together.  Each step is a step of one of them and leaves the   *)
(* others alone.                                                           *)
DeploymentInv == PackageInv /\ FilesInv /\ ServiceInv /\ SerialsInv

LEMMA DeploymentParts ==
  [DeploymentNext]_allVars =>
    /\ [PackageNext]_packageVars
    /\ [Preparation!FilesNext]_initVars
    /\ [Service!ProcessNext]_processVars
    /\ [Lives!SerialNext]_serialVars
  BY DEF DeploymentNext, allVars

LEMMA DeploymentStart == DeploymentInit => DeploymentInv
  BY PackageStart, FilesInit, ServiceInit, SerialsInit DEF DeploymentInit, DeploymentInv

LEMMA DeploymentStep == DeploymentInv /\ [DeploymentNext]_allVars => DeploymentInv'
  BY DeploymentParts, PackageStep, FilesStep, ServiceStep, SerialsStep DEF DeploymentInv

LEMMA DeploymentAlways == DeploymentSpec => []DeploymentInv
  BY DeploymentStart, DeploymentStep, PTL DEF DeploymentSpec, allVars

(* Whatever package manager, in whatever order it calls the scripts, and   *)
(* whatever the supervisor and the administrator do meanwhile: after an    *)
(* operation the program that runs is the installed one, except that one   *)
(* survives, until the next upgrade, a removal that could not stop it.     *)
THEOREM NoOldVersion == DeploymentSpec => []NoOldVersionLeft
  <1>1. DeploymentInv => NoOldVersionLeft
    BY DEF DeploymentInv, PackageInv, Orderly, Left, NoOldVersionLeft
  <1> QED
    BY <1>1, DeploymentAlways, PTL

(* Once the service definition is gone nothing runs, will run or starts    *)
(* with the system but what the service manager failed to stop or disable. *)
THEOREM RemovalStops == DeploymentSpec => []RemovedMeansStopped
  <1>1. DeploymentInv => RemovedMeansStopped
    BY DEF DeploymentInv, PackageInv, Stopped, RemovedMeansStopped
  <1> QED
    BY <1>1, DeploymentAlways, PTL

(* A script starts only a service that ran since the operation began.      *)
THEOREM NoUnaskedStart == DeploymentSpec => StartsOnlyWhatRan
  <1>1. DeploymentInv /\ [DeploymentNext]_allVars =>
          [Script /\ running = 0 /\ running' # 0 => ran]_packageVars
    BY ScriptSteps DEF DeploymentInv
  <1> QED
    BY <1>1, DeploymentAlways, PTL DEF DeploymentSpec, allVars, StartsOnlyWhatRan

(* An upgrade neither disables nor stops the service.                      *)
THEOREM UpgradeGentle == DeploymentSpec => UpgradeKeepsService
  <1>1. DeploymentInv /\ [DeploymentNext]_allVars =>
          [Script /\ operation = "upgrade" =>
             enabled' = enabled /\ (running # 0 => running' # 0)]_packageVars
    BY ScriptSteps DEF DeploymentInv
  <1> QED
    BY <1>1, DeploymentAlways, PTL DEF DeploymentSpec, allVars, UpgradeKeepsService

(* However many runs of initialize.sh there are at once, and whatever the  *)
(* proxy writes between their steps: no key is rotated, no ACME data lost. *)
THEOREM FilesSafe == DeploymentSpec => NothingReplaced
  <1>1. DeploymentInv /\ [DeploymentNext]_allVars =>
          /\ acme = Certificates => acme' = Certificates
          /\ env \in Run => env' = env
    BY DeploymentParts, FilesKept DEF DeploymentInv
  <1>2. DeploymentInv /\ [DeploymentNext]_allVars =>
          [/\ acme = Certificates => acme' = Certificates
           /\ env \in Run => env' = env]_(Preparation!initVars)
    BY <1>1
  <1> QED
    BY <1>2, DeploymentAlways, PTL
    DEF DeploymentSpec, allVars, NothingReplaced, Preparation!NothingReplaced

(* A run that was not interrupted leaves a key, or one that is about to be *)
(* written, unless another was interrupted or failed between creating the  *)
(* file and writing it.                                                    *)
THEOREM KeyIsThere == DeploymentSpec => []KeyOrInterrupted
  <1>1. DeploymentInv => KeyOrInterrupted
    BY DEF DeploymentInv, FilesInv, KeyOrInterrupted
  <1> QED
    BY <1>1, DeploymentAlways, PTL

(* The process serves with all of its listeners or with none, leaves no    *)
(* address and no signal behind, and binds nothing under a configuration   *)
(* that was not accepted.                                                  *)
THEOREM WholeService == DeploymentSpec => []AllOrNothing
  <1>1. DeploymentInv => AllOrNothing
    BY DEF DeploymentInv, ServiceInv, BoundSoFar, AllOrNothing, Service!AllOrNothing,
           Service!Listener
  <1> QED
    BY <1>1, DeploymentAlways, PTL

(* A process that is wanted stays down only if it could not wait for       *)
(* Ctrl-C or its HTTP listener returned without an error: no other listener*)
(* and no signal, however early, late or left over, does that.             *)
THEOREM NotLeftDown == DeploymentSpec => []StaysDownOnlyWhenAsked
  <1>1. DeploymentInv => StaysDownOnlyWhenAsked
    BY DEF DeploymentInv, ServiceInv, StaysDownOnlyWhenAsked
  <1> QED
    BY <1>1, DeploymentAlways, PTL

(* Over all lives of the process a serial names one content, unless a life *)
(* began before the clock had passed what was told.                        *)
THEOREM SerialForEver == DeploymentSpec => []NamesForEver
  <1>1. DeploymentInv => NamesForEver
    BY OneContent DEF DeploymentInv, NamesForEver
  <1> QED
    BY <1>1, DeploymentAlways, PTL

(* Over all lives of the process serials go forward, with the same proviso.*)
THEOREM SerialForward == DeploymentSpec => NeverOlder
  <1>1. DeploymentInv /\ [DeploymentNext]_allVars =>
          [published' # published /\ ~outran =>
             \A s \in Lives!Serials : published[s] # {} => s <= serial]_(Lives!serialVars)
    BY ToldForward DEF DeploymentInv
  <1> QED
    BY <1>1, DeploymentAlways, PTL
    DEF DeploymentSpec, allVars, NeverOlder, Lives!NeverOlder
=============================================================================
