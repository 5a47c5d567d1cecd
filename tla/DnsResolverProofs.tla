------------------------- MODULE DnsResolverProofs -------------------------
(***************************************************************************)
(* No answer of safexip, to any question in any spelling, makes a resolver *)
(* deny a name that has data: for every set of names, every configuration  *)
(* of the zone's names and every set of challenge values.                  *)
(***************************************************************************)
EXTENDS DnsResolver, TLAPS

(* Whatever is answered for some type is in the list of names that exist.  *)
LEMMA DataExists ==
  ASSUME NEW labels, HasData(labels) PROVE NameExists(Named(labels))
  <1>1. CASE labels = AcmeLabels
    BY <1>1 DEF NameExists, Acme
  <1>2. CASE \E t \in RecordType \ {"TXT"} : Answers(Named(labels), t, {}) # {}
    <2>1. PICK t \in RecordType \ {"TXT"} : Answers(Named(labels), t, {}) # {}
      BY <1>2
    <2>2. CASE t = "A"
      BY <2>1, <2>2 DEF Answers, ResolveA, NameExists
    <2>3. CASE t = "NS" \/ t = "SOA"
      BY <2>1, <2>3 DEF Answers, NameExists
    <2>4. CASE t = "CAA"
      BY <2>1, <2>4 DEF Answers
    <2> QED
      BY <2>2, <2>3, <2>4 DEF RecordType
  <1> QED
    BY <1>1, <1>2 DEF HasData

(* An NXDOMAIN is a true denial, whatever the type and the spelling.       *)
LEMMA DenialIsTrue ==
  ASSUME NEW labels, NEW s, NEW type, NEW values,
         BuildResponse([labels |-> labels, spelling |-> s], type, values).rcode = "NXDOMAIN"
  PROVE  ~HasData(labels)
  <1>1. Folded([labels |-> labels, spelling |-> s]) = Named(labels)
    BY DEF Folded, Named
  <1>2. ~NameExists(Folded([labels |-> labels, spelling |-> s]))
    BY DEF BuildResponse
  <1> QED
    BY <1>1, <1>2, DataExists

-----------------------------------------------------------------------------
(* What keeps the resolver from a false denial: none is cached and none is *)
(* on its way.                                                             *)
FlightHonest ==
  \A q \in Question : \A r \in flight[q] : r.rcode = "NXDOMAIN" => ~HasData(q[1])

DenialInv ==
  /\ DOMAIN flight = Question
  /\ FlightHonest
  /\ SiblingsKept

LEMMA DenialInit == ResolverInit => DenialInv
  BY DEF ResolverInit, DenialInv, FlightHonest, SiblingsKept

LEMMA DenialNext == DenialInv /\ [ResolverNext]_resolverVars => DenialInv'
  <1> SUFFICES ASSUME DenialInv, [ResolverNext]_resolverVars PROVE DenialInv'
    OBVIOUS
  <1> USE DEF DenialInv
  <1>1. ASSUME NEW v \in Value, Present(v) \/ Withdraw(v) PROVE DenialInv'
    BY <1>1 DEF Present, Withdraw, FlightHonest, SiblingsKept
  <1>2. ASSUME NEW q \in Question, Ask(q) PROVE DenialInv'
    <2>1. PICK s \in Spelling : flight' = [flight EXCEPT ![q] = {ResponseTo(q, s)}]
      BY <1>2 DEF Ask
    <2>2. ResponseTo(q, s).rcode = "NXDOMAIN" => ~HasData(q[1])
      BY DenialIsTrue DEF ResponseTo
    <2>3. FlightHonest'
      BY <2>1, <2>2 DEF FlightHonest
    <2>4. SiblingsKept'
      BY <1>2 DEF Ask, SiblingsKept
    <2> QED
      BY <2>1, <2>3, <2>4
  <1>3. ASSUME NEW q \in Question, Deliver(q) PROVE DenialInv'
    <2>1. PICK r \in flight[q] :
             /\ flight' = [flight EXCEPT ![q] = {}]
             /\ r.rcode = "NXDOMAIN" => denied' = denied \cup {q[1]}
             /\ r.rcode # "NXDOMAIN" => denied' = denied
      BY <1>3 DEF Deliver
    <2>2. FlightHonest'
      BY <2>1 DEF FlightHonest
    <2>3. SiblingsKept'
      BY <2>1 DEF FlightHonest, SiblingsKept
    <2> QED
      BY <2>1, <2>2, <2>3
  <1>4. ASSUME NEW q \in Question, Lose(q) \/ Expire(q) PROVE DenialInv'
    BY <1>4 DEF Lose, Expire, FlightHonest, SiblingsKept
  <1>5. ASSUME NEW n \in AskedLabels, ExpireDenial(n) PROVE DenialInv'
    BY <1>5 DEF ExpireDenial, FlightHonest, SiblingsKept
  <1>6. ASSUME UNCHANGED resolverVars PROVE DenialInv'
    BY <1>6 DEF resolverVars, FlightHonest, SiblingsKept
  <1> QED
    BY <1>1, <1>2, <1>3, <1>4, <1>5, <1>6 DEF ResolverNext

(* The list of names that exist covers the lists of names that have data,  *)
(* so that no question about a name can poison another type of it, with    *)
(* answers arriving late, out of order or never.                           *)
THEOREM SiblingsSafe == ResolverSpec => []SiblingsKept
  <1>1. DenialInv => SiblingsKept
    BY DEF DenialInv
  <1> QED
    BY <1>1, DenialInit, DenialNext, PTL DEF ResolverSpec
=============================================================================
