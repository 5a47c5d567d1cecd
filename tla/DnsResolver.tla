---------------------------- MODULE DnsResolver ----------------------------
(***************************************************************************)
(* safexip seen through a caching resolver, as a certificate authority     *)
(* sees it.  The resolver is not in src/; it does what the comments of     *)
(* src/src/dns.rs expect of one: it keeps positive and NODATA answers per  *)
(* name and type, takes NXDOMAIN to deny a name of every type and all that *)
(* is below it (RFC 8020), and randomises the spelling of what it asks.    *)
(*                                                                         *)
(* Answers travel: one may arrive after the zone has changed, after later  *)
(* ones, or never.  A lifetime in a cache is any finite time, for every    *)
(* TTL that safexip sends is finite.  The zone is the one of ChallengeZone *)
(* without its calls: values come and go at any time.                      *)
(***************************************************************************)
EXTENDS DnsAnswer

CONSTANTS
  AskedLabels,  \* the names that clients of the resolver ask for
  AskedType,    \* the types they ask for
  Value         \* the TXT values that may be presented

Question == AskedLabels \X AskedType

VARIABLES
  active,   \* the values in the zone
  flight,   \* flight[q]: the responses to q under way, at most one
  cached,   \* cached[q]: the answer kept for q, at most one
  denied    \* the names that the resolver holds not to exist

resolverVars == <<active, flight, cached, denied>>

ResolverInit ==
  /\ active = {}
  /\ flight = [q \in Question |-> {}]
  /\ cached = [q \in Question |-> {}]
  /\ denied = {}

(* m is n or a name below it.                                              *)
Below(m, n) == IsSuffix(n, m)

Covered(labels) == \E n \in denied : Below(labels, n)

-----------------------------------------------------------------------------
Present(v) ==
  /\ v \notin active
  /\ active' = active \cup {v}
  /\ UNCHANGED <<flight, cached, denied>>

(* Cleaned up, expired or lost in a restart.                               *)
Withdraw(v) ==
  /\ v \in active
  /\ active' = active \ {v}
  /\ UNCHANGED <<flight, cached, denied>>

ResponseTo(q, spelling) ==
  BuildResponse([labels |-> q[1], spelling |-> spelling], q[2], active)

(* The resolver knows nothing about q and asks; safexip answers.           *)
Ask(q) ==
  /\ flight[q] = {} /\ cached[q] = {}
  /\ ~Covered(q[1])
  /\ \E s \in Spelling : flight' = [flight EXCEPT ![q] = {ResponseTo(q, s)}]
  /\ UNCHANGED <<active, cached, denied>>

Deliver(q) ==
  \E r \in flight[q] :
    /\ flight' = [flight EXCEPT ![q] = {}]
    /\ IF r.rcode = "NXDOMAIN"
       THEN denied' = denied \cup {q[1]} /\ UNCHANGED cached
       ELSE cached' = [cached EXCEPT ![q] = {r.answers}] /\ UNCHANGED denied
    /\ UNCHANGED active

Lose(q) ==
  /\ flight[q] # {}
  /\ flight' = [flight EXCEPT ![q] = {}]
  /\ UNCHANGED <<active, cached, denied>>

Expire(q) ==
  /\ cached[q] # {}
  /\ cached' = [cached EXCEPT ![q] = {}]
  /\ UNCHANGED <<active, flight, denied>>

ExpireDenial(n) ==
  /\ n \in denied
  /\ denied' = denied \ {n}
  /\ UNCHANGED <<active, flight, cached>>

ResolverNext ==
  \/ \E v \in Value : Present(v) \/ Withdraw(v)
  \/ \E q \in Question : Ask(q) \/ Deliver(q) \/ Lose(q) \/ Expire(q)
  \/ \E n \in AskedLabels : ExpireDenial(n)

ResolverSpec == ResolverInit /\ [][ResolverNext]_resolverVars

(* TTLs run out, clients ask again, and not every answer is lost.          *)
ResolverFairness ==
  /\ \A q \in Question :
       /\ WF_resolverVars(Ask(q)) /\ WF_resolverVars(Expire(q))
       /\ SF_resolverVars(Deliver(q))
  /\ \A n \in AskedLabels : WF_resolverVars(ExpireDenial(n))

FairResolverSpec == ResolverSpec /\ ResolverFairness

-----------------------------------------------------------------------------
(* A name with data of some type, asked in its plain spelling.             *)
HasData(labels) ==
  \/ labels = AcmeLabels
  \/ \E t \in RecordType \ {"TXT"} : Answers(Named(labels), t, {}) # {}

(* However a name is asked, of whatever type and in whatever spelling, no  *)
(* answer makes a resolver deny a name that has data of another type: the  *)
(* list of names that exist and the lists of names that are answered are   *)
(* kept apart in the code and must agree.                                  *)
SiblingsKept == \A n \in denied : ~HasData(n)

(* A challenge that stays in the zone is seen through the resolver again   *)
(* and again, whatever else its clients ask and whatever it cached before  *)
(* the challenge was there.                                                *)
ChallengeVisible ==
  \A v \in Value :
    <>[](v \in active) =>
      []<>(\E S \in cached[<<AcmeLabels, "TXT">>] : v \in S)

(* A name that has data is never denied, by an answer about itself or      *)
(* about a name above it: what RFC 8020 asks of an authoritative server,   *)
(* for which a name exists also when only a name below it has data.        *)
ExistingNeverDenied ==
  \A n \in AskedLabels : HasData(n) => ~Covered(n)
=============================================================================
