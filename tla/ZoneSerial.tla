----------------------------- MODULE ZoneSerial -----------------------------
(***************************************************************************)
(* The serial of the zone over many lives of the process: a life begins    *)
(* with an empty zone and the seconds of the wall clock for a serial       *)
(* (AcmeRecords::new in src/src/state.rs), and counts up with every change *)
(* (AcmeRecords).  Resolvers keep what they were told from life to life.   *)
(***************************************************************************)
EXTENDS Integers, FiniteSets

CONSTANTS
  Value,      \* contents of the zone are sets of values
  LastSecond, \* bounds of the model on the clock,
  MaxLead     \* and on how far a serial runs ahead of it

VARIABLES
  clock,    \* the wall clock, in seconds
  up,       \* the process runs
  content,  \* the zone
  serial,
  told,     \* history: told[s], the contents that went out under serial s
  outran    \* history: a process began whose serials another had used up

serialVars == <<clock, up, content, serial, told, outran>>

Serials == 0 .. LastSecond + MaxLead

SerialInit ==
  /\ clock = 0
  /\ up = FALSE
  /\ content = {} /\ serial = 0
  /\ told = [s \in Serials |-> {}]
  /\ outran = FALSE

-----------------------------------------------------------------------------
(* Defect: every life begins at zero.                                      *)
SeededOnce == 0

(* chrono::Utc::now().timestamp(); its 32 bits last until 2106.            *)
Seed == clock

Start ==
  /\ ~up
  /\ up' = TRUE
  /\ content' = {} /\ serial' = Seed
  /\ outran' = (outran \/ \E s \in Serials : s >= clock /\ told[s] # {})
  /\ UNCHANGED <<clock, told>>

(* Tokens come, go and expire, several at once; the serial moves by one.   *)
Change ==
  /\ up
  /\ serial < clock + MaxLead
  /\ \E c \in SUBSET Value : c # content /\ content' = c
  /\ serial' = serial + 1
  /\ UNCHANGED <<clock, up, told, outran>>

Tell ==
  /\ up
  /\ told' = [told EXCEPT ![serial] = told[serial] \cup {content}]
  /\ UNCHANGED <<clock, up, content, serial, outran>>

(* Crashes, and stops in good order: nothing is kept of either.            *)
Stop ==
  /\ up
  /\ up' = FALSE
  /\ UNCHANGED <<clock, content, serial, told, outran>>

Tick ==
  /\ clock < LastSecond
  /\ clock' = clock + 1
  /\ UNCHANGED <<up, content, serial, told, outran>>

(* The clock is set back.                                                  *)
SetBack ==
  /\ clock > 0
  /\ serial < clock + MaxLead
  /\ clock' = clock - 1
  /\ UNCHANGED <<up, content, serial, told, outran>>

SerialNext == Start \/ Change \/ Tell \/ Stop \/ Tick \/ SetBack

-----------------------------------------------------------------------------
(* A serial names one content for ever, over all restarts, unless a        *)
(* process began before the clock had passed every serial that was told:   *)
(* more changes than seconds in an earlier life, or a clock set back.      *)
NamesForEver == outran \/ \A s \in Serials : Cardinality(told[s]) <= 1

(* What a life tells does not go back, and it goes on from where the lives *)
(* before it stopped, under the same condition.                            *)
NeverOlder ==
  [][told' # told /\ ~outran => \A s \in Serials : told[s] # {} => s <= serial]_serialVars
=============================================================================
