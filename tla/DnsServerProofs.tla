-------------------------- MODULE DnsServerProofs --------------------------
(***************************************************************************)
(* What DnsServer sends is complete or marked, fits its transport, is not  *)
(* cut without need, and is never a failure for what the store accepted:   *)
(* for every zone, every set of requests and all sizes that the assumption *)
(* allows.                                                                 *)
(***************************************************************************)
EXTENDS DnsServer, FiniteSetTheorems, TLAPS

-----------------------------------------------------------------------------
(* The refusals: the first that applies is one of them.                    *)
LEMMA FirstOfFive ==
  ASSUME NEW R \in SUBSET (1 .. 5), R # {}
  PROVE  \E i \in R : \A j \in R : i <= j
  <1>1. R \subseteq {1, 2, 3, 4, 5}
    OBVIOUS
  <1>2. CASE 1 \in R
    BY <1>2
  <1>3. CASE 1 \notin R /\ 2 \in R
    BY <1>3
  <1>4. CASE 1 \notin R /\ 2 \notin R /\ 3 \in R
    BY <1>4
  <1>5. CASE 1 \notin R /\ 2 \notin R /\ 3 \notin R /\ 4 \in R
    BY <1>5
  <1>6. CASE R \cap {1, 2, 3, 4} = {}
    <2>1. R = {5}
      BY <1>1, <1>6
    <2> QED
      BY <2>1
  <1> QED
    BY <1>2, <1>3, <1>4, <1>5, <1>6

RefusalCodes == {"BADVERS", "NOTIMP", "FORMERR", "REFUSED"}

LEMMA RefusalsAre ==
  ASSUME NEW q
  PROVE  /\ Refused(q) \subseteq 1 .. 5
         /\ \A i \in 1 .. 5 : Refusals(q)[i][2] \in RefusalCodes
         /\ Refused(q) = {} => q.class \in {"IN", "ANY"} /\ q.inZone
  <1>1. Len(Refusals(q)) = 5
    BY DEF Refusals
  <1>2. Refused(q) \subseteq 1 .. 5
    BY <1>1 DEF Refused
  <1>3. \A i \in 1 .. 5 : Refusals(q)[i][2] \in RefusalCodes
    BY DEF Refusals, RefusalCodes
  <1>4. ASSUME Refused(q) = {} PROVE q.class \in {"IN", "ANY"} /\ q.inZone
    <2>1. ~Refusals(q)[4][1] /\ ~Refusals(q)[5][1]
      BY <1>1, <1>4 DEF Refused
    <2> QED
      BY <2>1 DEF Refusals
  <1> QED
    BY <1>2, <1>3, <1>4

-----------------------------------------------------------------------------
(* The two shapes of a response.                                           *)
Refuses(q) ==
  /\ Response(q).answers = {} /\ ~Response(q).glue
  /\ Response(q).rcode \in RefusalCodes

Serves(q) ==
  /\ q.class \in {"IN", "ANY"} /\ q.inZone
  /\ Response(q) = AnswerFrom(q, Last(versions), Len(versions))
  /\ Response(q).version = Len(versions)
  /\ Response(q).rcode \in {"NOERROR", "NXDOMAIN"}
  /\ Response(q).answers = Answers(Named(q.labels), q.type, Last(versions))
  /\ Response(q).glue => q.type = "NS"

LEMMA ResponseShapes ==
  ASSUME NEW q PROVE ~Response(q).tc /\ (Refuses(q) \/ Serves(q))
  <1>1. CASE Refused(q) = {}
    <2>1. Response(q) = AnswerFrom(q, Last(versions), Len(versions))
      BY <1>1 DEF Response, ZoneAnswer
    <2>2. Folded([labels |-> q.labels, spelling |-> q.spelling]) = Named(q.labels)
      BY DEF Folded, Named
    <2> DEFINE data ==
          BuildResponse([labels |-> q.labels, spelling |-> q.spelling], q.type, Last(versions))
               apex == q.type = "NS" /\ q.labels = <<>>
    <2>3. /\ data.answers = Answers(Named(q.labels), q.type, Last(versions))
          /\ data.rcode \in {"NOERROR", "NXDOMAIN"}
      BY <2>2 DEF BuildResponse
    <2>4. /\ Response(q).answers = data.answers /\ Response(q).rcode = data.rcode
          /\ Response(q).version = Len(versions) /\ Response(q).glue = apex
          /\ Response(q).tc = FALSE
      <3> HIDE DEF data
      <3>1. Response(q) = [Bare EXCEPT !.rcode = data.rcode, !.aa = TRUE,
                                       !.answers = data.answers,
                                       !.glue = apex, !.version = Len(versions)]
        BY <2>1 DEF AnswerFrom, data
      <3> HIDE DEF apex
      <3> QED
        BY <3>1 DEF Bare
    <2> QED
      BY <1>1, <2>1, <2>3, <2>4, RefusalsAre DEF Serves
  <1>2. CASE Refused(q) # {}
    <2> DEFINE first == CHOOSE i \in Refused(q) : \A j \in Refused(q) : i <= j
               code == Refusals(q)[first][2]
               asks == first > 3
    <2>1. first \in 1 .. 5
      BY <1>2, FirstOfFive, RefusalsAre
    <2>2. code \in RefusalCodes
      BY <2>1, RefusalsAre
    <2>3. Response(q) = [Bare EXCEPT !.rcode = code, !.question = asks]
      BY <1>2 DEF Response, Refusal
    <2> HIDE DEF code, asks
    <2> QED
      BY <2>2, <2>3 DEF Bare, Refuses
  <1> QED
    BY <1>1, <1>2

(* What is sent is the response itself, a SERVFAIL for what does not fit,  *)
(* or marked, over UDP only.                                               *)
Failure == [Bare EXCEPT !.rcode = "SERVFAIL"]

LEMMA FailureShape ==
  ASSUME NEW q, NEW r \in Servfail(q) PROVE r = Failure /\ q.echoes
  BY DEF Servfail, Encodes, Bare, Failure

LEMMA EncodedShapes ==
  ASSUME NEW q, NEW r \in Encoded(q)
  PROVE  \/ r = Response(q) /\ Size(q, r) <= WireLimit
         \/ r = Failure /\ ~(Size(q, Response(q)) <= WireLimit)
  <1>1. CASE Encodes(q, Response(q)) /\ Size(q, Response(q)) <= WireLimit
    BY <1>1 DEF Encoded
  <1>2. CASE ~(Encodes(q, Response(q)) /\ Size(q, Response(q)) <= WireLimit)
    <2>1. r = Failure /\ q.echoes
      BY <1>2, FailureShape DEF Encoded
    <2> QED
      BY <1>2, <2>1 DEF Encodes
  <1> QED
    BY <1>1, <1>2

TooLarge(q) == \E e \in Encoded(q) : ~(Size(q, e) <= UdpLimit(q))

LEMMA SentShapes ==
  ASSUME NEW q, NEW r, r \in HandleUdp(q) \/ r \in Handle(q)
  PROVE  \/ r \in Encoded(q) /\ (r \in HandleUdp(q) => Size(q, r) <= UdpLimit(q))
         \/ r = Truncated(Response(q)) /\ TooLarge(q)
  <1>1. CASE r \notin HandleUdp(q)
    BY <1>1 DEF Handle
  <1>2. CASE r \in HandleUdp(q) /\ ~TooLarge(q)
    BY <1>2 DEF HandleUdp, TooLarge
  <1>3. CASE r \in HandleUdp(q) /\ TooLarge(q)
    <2>1. Encodes(q, Truncated(Response(q)))
      <3>1. ASSUME ~Encodes(q, Truncated(Response(q))) PROVE FALSE
        <4>1. ~q.echoes /\ Response(q).question
          BY <3>1 DEF Encodes, Truncated, Bare
        <4>2. Encoded(q) = {}
          BY <4>1, FailureShape DEF Encoded, Encodes
        <4> QED
          BY <1>3, <4>2 DEF TooLarge
      <3> QED
        BY <3>1
    <2> QED
      BY <1>3, <2>1 DEF HandleUdp, TooLarge
  <1> QED
    BY <1>1, <1>2, <1>3

-----------------------------------------------------------------------------
(* Sizes.  What is not a challenge has at most two records.                *)
LEMMA TwoRecordsFit ==
  ASSUME NEW k \in 0 .. 2
  PROVE  /\ BareSize + RecordSize * k <= WireLimit
         /\ BareSize + RecordSize * k + GlueSize <= WireLimit
  <1>1. {BareSize, RecordSize, GlueSize, WireLimit} \subseteq Nat
    BY SizeAssumption
  <1>2. k = 0 \/ k = 1 \/ k = 2
    OBVIOUS
  <1> QED
    BY <1>1, <1>2, SizeAssumption

LEMMA AtMostOne ==
  ASSUME NEW S, \A x, y \in S : x = y PROVE Cardinality(S) \in 0 .. 2
  <1>1. CASE S = {}
    BY <1>1, FS_EmptySet
  <1>2. CASE S # {}
    <2>1. PICK x \in S : TRUE
      BY <1>2
    <2>2. S = {x}
      BY <2>1
    <2> QED
      BY <2>2, FS_Singleton
  <1> QED
    BY <1>1, <1>2

LEMMA OneAddress == ASSUME NEW n PROVE \A x, y \in ParseXipIp(n) : x = y
  <1> DEFINE parts == HyphenParts(n.labels)
             found == {i \in 1 .. Len(parts) - 3 : OctetsAt(parts, i)}
             last == {m \in found : \A k \in found : k <= m}
  <1>1. \A i, j \in last : i = j
    <2> SUFFICES ASSUME NEW i \in last, NEW j \in last PROVE i = j
      OBVIOUS
    <2>1. i \in Int /\ j \in Int
      OBVIOUS
    <2>2. i <= j /\ j <= i
      OBVIOUS
    <2> QED
      BY <2>1, <2>2
  <1>2. ParseXipIp(n) \subseteq {SubSeq(parts, i, i + 3) : i \in last}
    BY DEF ParseXipIp
  <1> HIDE DEF last, parts
  <1> QED
    BY <1>1, <1>2

LEMMA FewNameServers ==
  ASSUME NEW n, NEW values PROVE Cardinality(Answers(n, "NS", values)) \in 0 .. 2
  <1>1. IsFiniteSet({Named(NsLabels)}) /\ Cardinality({Named(NsLabels)}) = 1
    BY FS_Singleton
  <1>2. NameServers = {Named(NsLabels)} \cup {Named(NsLabels2)}
    BY DEF NameServers
  <1>3. Cardinality(NameServers) \in {1, 2}
    BY <1>1, <1>2, FS_AddElement
  <1>4. Answers(n, "NS", values) \in {NameServers, {}}
    BY DEF Answers
  <1> QED
    BY <1>3, <1>4, FS_EmptySet

LEMMA FewAnswers ==
  ASSUME NEW n, NEW type, NEW values
  PROVE  \/ Answers(n, type, values) = values
         \/ Cardinality(Answers(n, type, values)) \in 0 .. 2
  <1>1. Cardinality({}) \in 0 .. 2
    BY FS_EmptySet
  <1>2. CASE type = "A"
    <2>1. Cardinality(ResolveA(n)) \in 0 .. 2
      <3>1. \A x, y \in ResolveA(n) : x = y
        BY OneAddress DEF ResolveA
      <3> QED
        BY <3>1, AtMostOne
    <2> QED
      BY <1>2, <2>1 DEF Answers
  <1>3. CASE type = "TXT"
    BY <1>1, <1>3 DEF Answers
  <1>4. CASE type = "NS"
    BY <1>4, FewNameServers
  <1>5. CASE type = "SOA"
    <2>1. Cardinality({AnySoa}) \in 0 .. 2
      BY FS_Singleton
    <2> QED
      BY <1>1, <1>5, <2>1 DEF Answers
  <1>6. CASE type \notin {"A", "TXT", "NS", "SOA"}
    BY <1>1, <1>6 DEF Answers
  <1> QED
    BY <1>2, <1>3, <1>4, <1>5, <1>6

(* The store's contents, past and present, fit a message; so does what is  *)
(* answered from them to a question as the capacity was measured.          *)
ZoneInv ==
  /\ versions \in Seq(SUBSET Value)
  /\ Len(versions) >= 1
  /\ Fits(Last(versions))

LEMMA SizeOfResponse ==
  ASSUME NEW q, ZoneInv
  PROVE  /\ Cardinality(Response(q).answers) \in Nat
         /\ Size(q, Response(q)) \in Nat
  <1>1. Response(q).answers \subseteq Value \/ Cardinality(Response(q).answers) \in 0 .. 2
    <2>1. Last(versions) \subseteq Value
      BY DEF ZoneInv, Last
    <2>2. Cardinality({}) \in 0 .. 2
      BY FS_EmptySet
    <2> QED
      BY <2>1, <2>2, ResponseShapes, FewAnswers DEF Refuses, Serves
  <1>2. Cardinality(Response(q).answers) \in Nat
    BY <1>1, SizeAssumption, FS_Subset, FS_CardinalityType
  <1>3. Size(q, Response(q)) \in Nat
    BY <1>2, SizeAssumption DEF Size
  <1> QED
    BY <1>2, <1>3

LEMMA AnswerFits ==
  ASSUME NEW q, q.spelling = "lower", ZoneInv PROVE Size(q, Response(q)) <= WireLimit
  <1> DEFINE n == Cardinality(Response(q).answers)
             extra == IF Response(q).glue THEN GlueSize ELSE 0
  <1>1. Size(q, Response(q)) = BareSize + RecordSize * n + extra + 0
    BY DEF Size
  <1>2. n \in Nat /\ {BareSize, RecordSize, GlueSize} \subseteq Nat
    BY SizeOfResponse, SizeAssumption
  <1>3. CASE n \in 0 .. 2
    <2>1. extra = 0 \/ extra = GlueSize
      OBVIOUS
    <2> HIDE DEF n, extra
    <2>2. /\ BareSize + RecordSize * n <= WireLimit
          /\ BareSize + RecordSize * n + GlueSize <= WireLimit
      BY <1>3, TwoRecordsFit
    <2>3. RecordSize * n \in Int
      BY <1>2
    <2> QED
      BY <1>1, <1>2, <2>1, <2>2, <2>3
  <1>4. CASE n \notin 0 .. 2
    <2>1. ~Refuses(q)
      BY <1>4, FS_EmptySet DEF Refuses
    <2>2. Serves(q)
      BY <2>1, ResponseShapes
    <2>3. Response(q).answers = Last(versions)
      BY <1>4, <2>2, FewAnswers DEF Serves
    <2>4. ~Response(q).glue
      <3>1. ASSUME Response(q).glue PROVE FALSE
        <4>1. Response(q).answers = Answers(Named(q.labels), "NS", Last(versions))
          BY <2>2, <3>1 DEF Serves
        <4> QED
          BY <1>4, <4>1, FewNameServers
      <3> QED
        BY <3>1
    <2>5. BareSize + RecordSize * n <= WireLimit
      BY <2>3 DEF ZoneInv, Fits
    <2> QED
      BY <1>1, <1>2, <2>4, <2>5
  <1> QED
    BY <1>3, <1>4

(* What the receiver takes is what the server allows itself.               *)
LEMMA LimitIsTaken ==
  ASSUME NEW q \in Request, NEW size \in Nat
  PROVE  Takes(q, size) <=> size <= UdpLimit(q)
  BY SizeAssumption DEF Takes, UdpLimit, MaxPayload, Smaller

LEMMA BareTaken ==
  ASSUME NEW q \in Request, NEW r, r.answers = {}, ~r.glue
  PROVE  Size(q, r) \in Nat /\ Takes(q, Size(q, r))
  <1>1. Size(q, r) = BareSize + RecordSize * 0 + 0 + 0
    BY FS_EmptySet DEF Size
  <1>2. BareSize \in Nat /\ RecordSize \in Nat /\ BareSize <= PlainUdp
    BY SizeAssumption
  <1> QED
    BY <1>1, <1>2 DEF Takes

(* A datagram is taken, and is marked only for an answer that would not be.*)
Datagram(q, r) ==
  /\ Takes(q, Size(q, r))
  /\ r.tc => \E i \in DOMAIN versions : ~Takes(q, Size(q, AnswerFrom(q, versions[i], i)))

LEMMA FreshDatagram ==
  ASSUME NEW q \in Request, NEW r \in HandleUdp(q), ZoneInv PROVE Datagram(q, r)
  <1>1. /\ ~Failure.tc /\ Failure.answers = {} /\ ~Failure.glue
        /\ Truncated(Response(q)).answers = {} /\ ~Truncated(Response(q)).glue
    BY DEF Failure, Truncated, Bare
  <1>2. CASE r \in Encoded(q) /\ Size(q, r) <= UdpLimit(q)
    <2>1. r = Response(q) \/ r = Failure
      BY <1>2, EncodedShapes
    <2>2. ~r.tc
      BY <1>1, <2>1, ResponseShapes
    <2>3. Size(q, r) \in Nat
      BY <1>1, <2>1, SizeOfResponse, BareTaken
    <2> QED
      BY <1>2, <2>2, <2>3, LimitIsTaken DEF Datagram
  <1>3. CASE r = Truncated(Response(q)) /\ TooLarge(q)
    <2>1. PICK e \in Encoded(q) : ~(Size(q, e) <= UdpLimit(q))
      BY <1>3 DEF TooLarge
    <2>2. e # Failure
      BY <1>1, <2>1, BareTaken, LimitIsTaken
    <2>3. e = Response(q)
      BY <2>2, EncodedShapes
    <2>4. ~Refuses(q)
      BY <2>1, <2>3, BareTaken, LimitIsTaken DEF Refuses
    <2>5. e = AnswerFrom(q, versions[Len(versions)], Len(versions))
      BY <2>3, <2>4, ResponseShapes DEF Serves, ZoneInv, Last
    <2>6. ~Takes(q, Size(q, e))
      BY <2>1, <2>3, SizeOfResponse, LimitIsTaken
    <2>7. Len(versions) \in DOMAIN versions
      BY DEF ZoneInv
    <2> QED
      BY <1>1, <1>3, <2>5, <2>6, <2>7, BareTaken DEF Datagram
  <1> QED
    BY <1>2, <1>3, SentShapes

(* All of what is promised of an answer to q.                              *)
Promised(q, r) ==
  /\ Reliable(q, r)
  /\ q.spelling = "lower" => r.rcode # "SERVFAIL"

LEMMA FreshAnswer ==
  ASSUME NEW q, NEW r, r \in HandleUdp(q) \/ r \in Handle(q), ZoneInv
  PROVE  Promised(q, r)
  <1>1. CASE r = Response(q)
    <2>1. Len(versions) \in DOMAIN versions /\ versions[Len(versions)] = Last(versions)
      BY DEF ZoneInv, Last
    <2> QED
      BY <1>1, <2>1, ResponseShapes DEF Refuses, Serves, Promised, Reliable, RefusalCodes
  <1>2. CASE r = Failure /\ ~(Size(q, Response(q)) <= WireLimit)
    <2>1. q.spelling # "lower"
      BY <1>2, AnswerFits
    <2>2. r.answers = {} /\ r.rcode = "SERVFAIL"
      BY <1>2 DEF Failure, Bare
    <2> QED
      BY <2>1, <2>2 DEF Promised, Reliable
  <1>3. CASE r = Truncated(Response(q))
    <2>1. r.tc = TRUE /\ r.rcode = Response(q).rcode
      BY <1>3 DEF Truncated, Bare
    <2>2. Response(q).rcode # "SERVFAIL"
      BY ResponseShapes DEF Refuses, Serves, RefusalCodes
    <2> QED
      BY <2>1, <2>2 DEF Promised, Reliable
  <1> QED
    BY <1>1, <1>2, <1>3, SentShapes, EncodedShapes

-----------------------------------------------------------------------------
(* An answer under way answers the question its client still waits for.    *)
Good(c) ==
  \A r \in coming[c] :
    /\ Promised(asked[c], r)
    /\ waiting[c] = "udp" => Datagram(asked[c], r)

ServerInv ==
  /\ ZoneInv
  /\ asked \in [Client -> Request]
  /\ DOMAIN waiting = Client /\ DOMAIN coming = Client
  /\ \A c \in Client : waiting[c] = "no" => coming[c] = {}
  /\ \A c \in Client : Good(c)

LEMMA InitServer == ServerInit => ServerInv
  <1> SUFFICES ASSUME ServerInit PROVE ServerInv
    OBVIOUS
  <1>1. /\ Len(versions) = 1 /\ Last(versions) = {}
        /\ versions \in Seq(SUBSET Value)
    BY DEF ServerInit, Last
  <1>2. Fits({})
    BY FS_EmptySet, TwoRecordsFit DEF Fits
  <1> QED
    BY <1>1, <1>2 DEF ServerInit, ServerInv, ZoneInv, Good

(* A later version of the zone takes nothing back from an answer.          *)
LEMMA StillPromised ==
  ASSUME ZoneInv, NEW now, versions' = Append(versions, now),
         NEW q, NEW r
  PROVE  (Promised(q, r) => Promised(q, r)') /\ (Datagram(q, r) => Datagram(q, r)')
  <1>1. \A i \in DOMAIN versions : i \in DOMAIN versions' /\ versions'[i] = versions[i]
    BY DEF ZoneInv
  <1> QED
    BY <1>1 DEF Promised, Reliable, Datagram

LEMMA ChangeKeeps == ServerInv /\ Change => ServerInv'
  <1> SUFFICES ASSUME ServerInv, Change PROVE ServerInv'
    OBVIOUS
  <1> USE DEF ServerInv
  <1>1. PICK now \in SUBSET Value : versions' = Append(versions, now) /\ Fits(now)
    <2>1. Last(versions) \subseteq Value /\ Fits(Last(versions))
      BY DEF ZoneInv, Last
    <2>2. PICK v \in Value :
            \/ Fits(Last(versions) \cup {v})
               /\ versions' = Append(versions, Last(versions) \cup {v})
            \/ versions' = Append(versions, Last(versions) \ {v})
      BY DEF Change
    <2>3. Fits(Last(versions) \ {v})
      <3>1. /\ Cardinality(Last(versions) \ {v}) <= Cardinality(Last(versions))
            /\ Cardinality(Last(versions)) \in Nat /\ Cardinality(Last(versions) \ {v}) \in Nat
        BY <2>1, SizeAssumption, FS_Subset, FS_CardinalityType
      <3>2. /\ BareSize \in Nat /\ RecordSize \in Nat /\ WireLimit \in Nat
        BY SizeAssumption
      <3>3. \A m, n \in Nat : m <= n => RecordSize * m <= RecordSize * n
        BY <3>2
      <3> DEFINE m == Cardinality(Last(versions) \ {v})
                 n == Cardinality(Last(versions))
      <3> HIDE DEF m, n
      <3>4. RecordSize * m <= RecordSize * n /\ RecordSize * m \in Int /\ RecordSize * n \in Int
        BY <3>1, <3>2, <3>3 DEF m, n
      <3>5. BareSize + RecordSize * n <= WireLimit
        BY <2>1 DEF Fits, n
      <3>6. BareSize + RecordSize * m <= WireLimit
        BY <3>2, <3>4, <3>5
      <3> QED
        BY <3>6 DEF Fits, m
    <2> QED
      BY <2>1, <2>2, <2>3
  <1>2. ZoneInv'
    BY <1>1 DEF ZoneInv, Last, Fits
  <1>3. UNCHANGED <<asked, waiting, coming>>
    BY DEF Change
  <1>4. \A c \in Client : Good(c)'
    <2> SUFFICES ASSUME NEW c \in Client, NEW r \in coming[c]
                 PROVE  /\ Promised(asked[c], r)'
                        /\ waiting[c] = "udp" => Datagram(asked[c], r)'
      BY <1>3 DEF Good
    <2>1. Promised(asked[c], r) /\ (waiting[c] = "udp" => Datagram(asked[c], r))
      BY DEF Good
    <2> DEFINE q == asked[c]
    <2>2. q' = q
      BY <1>3
    <2>3. Promised(q, r)' /\ (waiting[c] = "udp" => Datagram(q, r)')
      <3> HIDE DEF q
      <3> QED
        BY <1>1, <2>1, <2>2, StillPromised DEF q
    <2> QED
      BY <2>3 DEF Good
  <1> QED
    BY <1>2, <1>3, <1>4

LEMMA AnswerKeeps ==
  ASSUME ServerInv, NEW c \in Client, AnswerUdp(c) \/ AnswerTcp(c) PROVE ServerInv'
  <1> USE DEF ServerInv
  <1>1. UNCHANGED <<versions, asked, waiting>>
    BY DEF AnswerUdp, AnswerTcp, Answer
  <1>2. ZoneInv'
    BY <1>1 DEF ZoneInv, Fits
  <1>3. PICK R : /\ coming' = [coming EXCEPT ![c] = R] /\ waiting[c] # "no"
                 /\ \/ R = HandleUdp(asked[c])
                    \/ R = Handle(asked[c]) /\ waiting[c] # "udp"
    BY DEF AnswerUdp, AnswerTcp, Answer
  <1>4. \A r \in R : /\ Promised(asked[c], r)
                     /\ waiting[c] = "udp" => Datagram(asked[c], r)
    BY <1>3, FreshAnswer, FreshDatagram
  <1>5. \A d \in Client : Good(d)'
    BY <1>1, <1>3, <1>4 DEF Good, Promised, Reliable, Datagram
  <1> QED
    BY <1>1, <1>2, <1>3, <1>5

(* The other actions of a client discard the answer, or had none to keep.  *)
LEMMA ClientKeeps ==
  ASSUME ServerInv, NEW c \in Client, Ask(c) \/ Lose(c) \/ Deliver(c) \/ GiveUp(c)
  PROVE  ServerInv'
  <1> USE DEF ServerInv
  <1>1. UNCHANGED versions
    BY DEF Ask, Lose, Deliver, GiveUp
  <1>2. ZoneInv'
    BY <1>1 DEF ZoneInv, Fits
  <1>3. /\ asked' \in [Client -> Request]
        /\ DOMAIN waiting' = Client /\ DOMAIN coming' = Client
    BY DEF Ask, Lose, Deliver, GiveUp
  <1>4. coming'[c] = {}
    BY DEF Ask, Lose, Deliver, GiveUp
  <1>5. \A d \in Client \ {c} :
          asked'[d] = asked[d] /\ waiting'[d] = waiting[d] /\ coming'[d] = coming[d]
    BY DEF Ask, Lose, Deliver, GiveUp
  <1>6. \A d \in Client : waiting'[d] = "no" => coming'[d] = {}
    BY <1>4, <1>5
  <1>7. \A d \in Client : Good(d)'
    BY <1>1, <1>4, <1>5 DEF Good, Promised, Reliable, Datagram
  <1> QED
    BY <1>2, <1>3, <1>6, <1>7

LEMMA ServerStep == ServerInv /\ [ServerNext]_serverVars => ServerInv'
  <1> SUFFICES ASSUME ServerInv, [ServerNext]_serverVars PROVE ServerInv'
    OBVIOUS
  <1>1. CASE Change
    BY <1>1, ChangeKeeps
  <1>2. CASE \E c \in Client : AnswerUdp(c) \/ AnswerTcp(c)
    BY <1>2, AnswerKeeps
  <1>3. CASE \E c \in Client : Ask(c) \/ Lose(c) \/ Deliver(c) \/ GiveUp(c)
    BY <1>3, ClientKeeps
  <1>4. CASE UNCHANGED serverVars
    BY <1>4 DEF serverVars, ServerInv, ZoneInv, Fits, Good, Promised, Reliable, Datagram
  <1> QED
    BY <1>1, <1>2, <1>3, <1>4 DEF ServerNext

LEMMA ServerAlways == ServerSpec => []ServerInv
  BY InitServer, ServerStep, PTL DEF ServerSpec

LEMMA ServerHolds == ServerInv => CompleteOrMarked /\ CapacityServed /\ DatagramsFit
  BY DEF ServerInv, Good, Promised, Datagram, CompleteOrMarked, CapacityServed, DatagramsFit

(* An answer without the mark has all the data of one version of the zone, *)
(* over both transports and whatever is lost or changes in between.        *)
THEOREM Complete == ServerSpec => []CompleteOrMarked
  BY ServerAlways, ServerHolds, PTL

(* A question spelled as the capacity was measured is never failed.        *)
THEOREM AcceptedIsServed == ServerSpec => []CapacityServed
  BY ServerAlways, ServerHolds, PTL

(* A datagram is never larger than its receiver takes, whatever that       *)
(* announces, and is marked as truncated only for an answer that, from a   *)
(* version of the zone, is larger.                                         *)
THEOREM DatagramsSmall == ServerSpec => []DatagramsFit
  BY ServerAlways, ServerHolds, PTL
=============================================================================
