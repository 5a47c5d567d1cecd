----------------------------- MODULE DnsServer -----------------------------
(***************************************************************************)
(* From a DNS message to safexip's answer: handle, handle_udp and the      *)
(* refusals of build_response in src/src/dns.rs, with a client that asks   *)
(* over UDP, asks again when an answer is lost, and goes on over TCP when  *)
(* one is marked as truncated, while the zone changes.                     *)
(*                                                                         *)
(* The zone is the sequence of its contents since some moment; a serial is *)
(* a position in it (AcmeRecords shows that serials name contents).  Sizes *)
(* are the encoder's: so much without records, and so much per record.     *)
(* Whether the encoder takes a question back (`echoes`) is the library's:  *)
(* the code provides for a failure.                                        *)
(***************************************************************************)
EXTENDS DnsAnswer

CONSTANTS
  Client, Value,
  Request,      \* the messages that clients send
  BareSize,     \* the largest answer without records
  RecordSize,   \* a TXT record
  GlueSize,     \* the addresses of both name servers
  SpellingCost, \* what a question in mixed case adds to an answer with records
  PlainUdp,     \* what UDP carries without EDNS: 512
  MaxUdp,       \* MAX_UDP_PAYLOAD: 1232
  WireLimit,    \* what a DNS message holds: 65535
  MaxVersions   \* bound of the model on changes of the zone

(* The name servers and their addresses always fit a message, and an       *)
(* answer without records fits every datagram.                             *)
ASSUME SizeAssumption ==
  /\ {BareSize, RecordSize, GlueSize, SpellingCost, PlainUdp, MaxUdp, WireLimit} \subseteq Nat
  /\ BareSize <= PlainUdp /\ PlainUdp <= MaxUdp
  /\ BareSize + RecordSize * 2 + GlueSize <= WireLimit
  /\ IsFiniteSet(Value)
  /\ \A q \in Request : q.payload \in Nat

VARIABLES
  versions,  \* the contents of the zone, the present one last
  asked,     \* asked[c]: the message c waits for an answer to
  waiting,   \* waiting[c]: "no", or over "udp" or "tcp"
  coming     \* coming[c]: the answers under way to c, at most one

serverVars == <<versions, asked, waiting, coming>>

(* A message with the question that was asked, and nothing else.           *)
Bare ==
  [rcode |-> "NOERROR", aa |-> FALSE, tc |-> FALSE, question |-> TRUE,
   answers |-> {}, glue |-> FALSE, version |-> 0]

ServerInit ==
  /\ versions = <<{}>>
  /\ asked \in [Client -> Request]
  /\ waiting = [c \in Client |-> "no"]
  /\ coming = [c \in Client |-> {}]

-----------------------------------------------------------------------------
Size(q, r) ==
  BareSize + RecordSize * Cardinality(r.answers)
           + (IF r.glue THEN GlueSize ELSE 0)
           + (IF q.spelling = "mixed" /\ r.answers # {} THEN SpellingCost ELSE 0)

(* Defect: the capacity forgets what an answer holds besides its records.  *)
FitsRecordsOnly(values) == RecordSize * Cardinality(values) <= WireLimit

(* AcmeWireCapacity::fits measures the answer to a plain question.         *)
Fits(values) == BareSize + RecordSize * Cardinality(values) <= WireLimit

Smaller(m, n) == IF m < n THEN m ELSE n

(* Message::max_payload of the library                                     *)
MaxPayload(q) ==
  IF q.edns = "none" \/ q.payload < PlainUdp THEN PlainUdp ELSE q.payload

(* Defect: the server's own maximum is forgotten.                          *)
AnnouncedLimit(q) == MaxPayload(q)

(* request.max_payload().min(MAX_UDP_PAYLOAD)                              *)
UdpLimit(q) == Smaller(MaxPayload(q), MaxUdp)

(* The early returns of build_response, in their order.                    *)
Refusals(q) ==
  << <<q.edns = "newer", "BADVERS">>,
     <<q.opcode # "Query", "NOTIMP">>,
     <<q.queries # 1, "FORMERR">>,
     <<q.class \notin {"IN", "ANY"}, "NOTIMP">>,
     <<~q.inZone, "REFUSED">> >>

Refused(q) == {i \in 1 .. Len(Refusals(q)) : Refusals(q)[i][1]}

(* The first three return before the question is added to the response.    *)
Refusal(q, i) ==
  [Bare EXCEPT !.rcode = Refusals(q)[i][2], !.question = (i > 3)]

AnswerFrom(q, values, version) ==
  LET data == BuildResponse([labels |-> q.labels, spelling |-> q.spelling], q.type, values)
  IN  [Bare EXCEPT !.rcode = data.rcode, !.aa = TRUE, !.answers = data.answers,
                   !.glue = (q.type = "NS" /\ q.labels = <<>>), !.version = version]

(* Values and serial are read at one moment.                               *)
ZoneAnswer(q) == AnswerFrom(q, Last(versions), Len(versions))

Response(q) ==
  IF Refused(q) = {} THEN ZoneAnswer(q)
  ELSE Refusal(q, CHOOSE i \in Refused(q) : \A j \in Refused(q) : i <= j)

Encodes(q, r) == q.echoes \/ ~r.question

(* What is sent: one message, or none when not even this can be encoded.   *)
Servfail(q) ==
  LET r == [Bare EXCEPT !.rcode = "SERVFAIL"] IN IF Encodes(q, r) THEN {r} ELSE {}

(* An encoder that runs out of room leaves records out and marks that.     *)
Encoded(q) ==
  IF Encodes(q, Response(q)) /\ Size(q, Response(q)) <= WireLimit
  THEN {Response(q)} ELSE Servfail(q)

(* Defect: the mark is missing.                                           *)
CutSilently(r) == [r EXCEPT !.answers = {}, !.glue = FALSE]

(* Message::truncate keeps the header and the question.                    *)
Truncated(r) ==
  [Bare EXCEPT !.rcode = r.rcode, !.aa = r.aa, !.tc = TRUE, !.question = r.question]

HandleUdp(q) ==
  IF \A r \in Encoded(q) : Size(q, r) <= UdpLimit(q) THEN Encoded(q)
  ELSE IF Encodes(q, Truncated(Response(q))) THEN {Truncated(Response(q))}
  ELSE Servfail(q)

Handle(q) == Encoded(q)

-----------------------------------------------------------------------------
(* The zone gains a value that fits, or loses one.                         *)
Change ==
  /\ Len(versions) < MaxVersions
  /\ \E v \in Value :
       LET now == Last(versions) IN
       \/ /\ v \notin now
          /\ Fits(now \cup {v})
          /\ versions' = Append(versions, now \cup {v})
       \/ /\ v \in now
          /\ versions' = Append(versions, now \ {v})
  /\ UNCHANGED <<asked, waiting, coming>>

Ask(c) ==
  /\ waiting[c] = "no"
  /\ \E q \in Request : asked' = [asked EXCEPT ![c] = q]
  /\ waiting' = [waiting EXCEPT ![c] = "udp"]
  /\ UNCHANGED <<versions, coming>>

(* What is not a query, or does not parse, gets no answer.                 *)
Answer(c, transport, responses) ==
  /\ waiting[c] = transport
  /\ coming[c] = {}
  /\ asked[c].kind = "query"
  /\ coming' = [coming EXCEPT ![c] = responses]
  /\ UNCHANGED <<versions, asked, waiting>>

AnswerUdp(c) == Answer(c, "udp", HandleUdp(asked[c]))
AnswerTcp(c) == Answer(c, "tcp", Handle(asked[c]))

(* The datagram or the connection is lost; the client asks again.          *)
Lose(c) ==
  /\ coming[c] # {}
  /\ coming' = [coming EXCEPT ![c] = {}]
  /\ UNCHANGED <<versions, asked, waiting>>

Deliver(c) ==
  /\ \E r \in coming[c] :
       waiting' = [waiting EXCEPT ![c] = IF r.tc THEN "tcp" ELSE "no"]
  /\ coming' = [coming EXCEPT ![c] = {}]
  /\ UNCHANGED <<versions, asked>>

GiveUp(c) ==
  /\ waiting[c] # "no"
  /\ waiting' = [waiting EXCEPT ![c] = "no"]
  /\ coming' = [coming EXCEPT ![c] = {}]
  /\ UNCHANGED <<versions, asked>>

ServerNext ==
  \/ Change
  \/ \E c \in Client :
       \/ Ask(c) \/ AnswerUdp(c) \/ AnswerTcp(c)
       \/ Lose(c) \/ Deliver(c) \/ GiveUp(c)

ServerSpec == ServerInit /\ [][ServerNext]_serverVars

(* The server answers, and not every answer is lost.                       *)
ServerFairness ==
  \A c \in Client :
    /\ WF_serverVars(AnswerUdp(c)) /\ WF_serverVars(AnswerTcp(c))
    /\ SF_serverVars(Deliver(c))

FairServerSpec == ServerSpec /\ ServerFairness

-----------------------------------------------------------------------------
(* What a client may conclude from an answer that is not marked: that it   *)
(* has all the data of its name and type at the version it carries, of the *)
(* class it asked for.  Everything else is an error without data.          *)
Reliable(q, r) ==
  \/ r.tc
  \/ r.answers = {} /\ r.rcode \notin {"NOERROR", "NXDOMAIN"}
  \/ /\ q.class \in {"IN", "ANY"} /\ q.inZone
     /\ r.version \in DOMAIN versions
     /\ r.answers = Answers(Named(q.labels), q.type, versions[r.version])

(* Whatever happens to the zone between question, truncated answer, retry  *)
(* and arrival, an answer is complete for one version or says it is not.   *)
CompleteOrMarked == \A c \in Client : \A r \in coming[c] : Reliable(asked[c], r)

(* What the store accepted can be served: a question spelled as the        *)
(* capacity was measured never fails, over either transport.               *)
CapacityServed ==
  \A c \in Client : \A r \in coming[c] :
    asked[c].spelling = "lower" => r.rcode # "SERVFAIL"

(* What may come to a client in a datagram: what UDP always carries, or as *)
(* much as it announced, though never more than crosses every network.     *)
Takes(q, size) ==
  \/ size <= PlainUdp
  \/ q.edns # "none" /\ size <= q.payload /\ size <= MaxUdp

(* A datagram is no larger than that, also where the announcement is below *)
(* what UDP always carries or beyond the server's own maximum; and none is *)
(* cut without need: the marked ones stand for an answer that, from some   *)
(* version of the zone, would have been too large.                         *)
DatagramsFit ==
  \A c \in Client : \A r \in coming[c] :
    waiting[c] = "udp" =>
      /\ Takes(asked[c], Size(asked[c], r))
      /\ r.tc => \E i \in DOMAIN versions :
                   ~Takes(asked[c], Size(asked[c], AnswerFrom(asked[c], versions[i], i)))

(* The retry over TCP ends every lookup, whatever is lost on the way: the  *)
(* server never sends a client round in circles.  Only a question that the *)
(* library cannot encode again is left without an answer.                  *)
LookupEnds ==
  \A c \in Client :
    waiting[c] # "no" /\ asked[c].kind = "query" /\ asked[c].echoes ~> waiting[c] = "no"
=============================================================================
