-------------------------- MODULE ListenersProofs --------------------------
(***************************************************************************)
(* For every number of clients and of permits: run_tcp_dns loses no permit *)
(* and never reads or writes in the middle of a frame as if it were at     *)
(* the beginning of one, and run_http_api_with_limits loses no permit and  *)
(* turns nobody away while it has one.                                     *)
(***************************************************************************)
EXTENDS ListenersMC, FiniteSetTheorems, TLAPS

(* Where a connection is in its frames, by what is done about it.          *)
Aligned(c) ==
  /\ stage[c] \in {"none", "queued", "handling"} =>
       moved[c] = 0 /\ sent[c] = 0 /\ received[c] = 0
  /\ stage[c] = "length" => moved[c] \in 0 .. 1 /\ sent[c] = moved[c] /\ received[c] = 0
  /\ stage[c] = "message" => moved[c] \in 0 .. 1 /\ sent[c] = 2 + moved[c] /\ received[c] = 0
  /\ stage[c] = "writing" => sent[c] = 0 /\ received[c] = moved[c]

ListenerInv ==
  /\ ListenerTypeOK
  /\ PermitsConserved
  /\ \A c \in Client : Aligned(c)

-----------------------------------------------------------------------------
(* A connection opens or closes: their number moves by one.                *)
LEMMA OpenIsFinite == IsFiniteSet(Open) /\ Cardinality(Open) \in Nat
  <1>1. Open \subseteq Client
    BY DEF Open
  <1> QED
    BY <1>1, ListenerAssumption, FS_Subset, FS_CardinalityType

LEMMA Opens ==
  ASSUME ListenerTypeOK, NEW c \in Client, stage[c] \notin Served,
         NEW to \in Served, stage' = [stage EXCEPT ![c] = to]
  PROVE  Cardinality(Open') = Cardinality(Open) + 1
  <1>1. Open' = Open \cup {c} /\ c \notin Open
    BY DEF Open, ListenerTypeOK
  <1> QED
    BY <1>1, OpenIsFinite, FS_AddElement

LEMMA Closes ==
  ASSUME ListenerTypeOK, NEW c \in Client, stage[c] \in Served,
         NEW to, to \notin Served, stage' = [stage EXCEPT ![c] = to]
  PROVE  Cardinality(Open') = Cardinality(Open) - 1 /\ Cardinality(Open) >= 1
  <1>1. Open' = Open \ {c} /\ c \in Open
    BY DEF Open, ListenerTypeOK
  <1>2. Cardinality(Open') = Cardinality(Open) - 1
    BY <1>1, OpenIsFinite, FS_RemoveElement
  <1>3. Cardinality(Open \ {c}) \in Nat
    BY OpenIsFinite, FS_Subset, FS_CardinalityType
  <1> QED
    BY <1>1, <1>2, <1>3, OpenIsFinite

LEMMA Stays ==
  ASSUME ListenerTypeOK, NEW c \in Client, NEW to, stage[c] \in Served <=> to \in Served,
         stage' = [stage EXCEPT ![c] = to]
  PROVE  Cardinality(Open') = Cardinality(Open)
  <1>1. Open' = Open
    BY DEF Open, ListenerTypeOK
  <1> QED
    BY <1>1

-----------------------------------------------------------------------------
LEMMA InitListener == ListenerInit => ListenerInv
  <1> SUFFICES ASSUME ListenerInit PROVE ListenerInv
    OBVIOUS
  <1>1. ListenerTypeOK
    BY ListenerAssumption DEF ListenerInit, ListenerTypeOK, Served, Waiting
  <1>2. Open = {}
    BY DEF ListenerInit, Open, Served, Waiting
  <1>3. PermitsConserved
    BY <1>2, ListenerAssumption, FS_EmptySet DEF ListenerInit, PermitsConserved
  <1>4. \A c \in Client : Aligned(c)
    BY DEF ListenerInit, Aligned
  <1> QED
    BY <1>1, <1>3, <1>4 DEF ListenerInv

(* The actions that leave every connection as it is.                       *)
LEMMA LoopKeeps ==
  ASSUME ListenerInv, Acquire \/ AcceptError \/ \E c \in Client : FallSilent(c)
  PROVE  ListenerInv'
  <1> USE DEF ListenerInv
  <1>1. UNCHANGED <<stage, moved, sent, received>>
    BY DEF Acquire, AcceptError, FallSilent
  <1>2. Open' = Open
    BY <1>1 DEF Open
  <1>3. \A c \in Client : Aligned(c)'
    BY <1>1 DEF Aligned
  <1>4. PermitsConserved'
    BY <1>2, OpenIsFinite, ListenerAssumption
       DEF PermitsConserved, ListenerTypeOK, Acquire, AcceptError, FallSilent
  <1>5. available' \in 0 .. MaxConnections
    BY <1>2, OpenIsFinite, ListenerAssumption
       DEF PermitsConserved, ListenerTypeOK, Acquire, AcceptError, FallSilent
  <1>6. loop' \in {"acquiring", "accepting"} /\ mute' \in SUBSET Client
    BY DEF ListenerTypeOK, Acquire, AcceptError, FallSilent
  <1>7. ListenerTypeOK'
    BY <1>1, <1>5, <1>6 DEF ListenerTypeOK
  <1> QED
    BY <1>3, <1>4, <1>7

-----------------------------------------------------------------------------
(* A step of one connection.                                               *)
OnlyAt(c) ==
  \A d \in Client \ {c} :
    stage'[d] = stage[d] /\ moved'[d] = moved[d]
      /\ sent'[d] = sent[d] /\ received'[d] = received[d]

LEMMA Together ==
  ASSUME ListenerInv, NEW c \in Client, OnlyAt(c),
         Aligned(c)', ListenerTypeOK', PermitsConserved'
  PROVE  ListenerInv'
  <1>1. \A d \in Client \ {c} : Aligned(d)'
    BY DEF ListenerInv, OnlyAt, Aligned
  <1> QED
    BY <1>1 DEF ListenerInv

(* Steps that neither open nor close a connection.                         *)
Within(c) ==
  Connect(c) \/ LeaveQueue(c) \/ ReadLength(c) \/ ReadMessage(c) \/ Handle(c) \/ Write(c)

LEMMA WithinKeeps ==
  ASSUME ListenerInv, NEW c \in Client, Within(c) PROVE ListenerInv'
  <1> USE DEF ListenerInv, Within
  <1>1. available' = available /\ loop' = loop /\ mute' \in SUBSET Client
    BY DEF ListenerTypeOK, Connect, LeaveQueue, ReadLength, ReadMessage, Read, Handle, Write
  <1>2. OnlyAt(c)
    BY DEF OnlyAt, ListenerTypeOK,
           Connect, LeaveQueue, ReadLength, ReadMessage, Read, Handle, Write
  <1>3. /\ stage' \in [Client -> Served \cup {"none", "queued"}]
        /\ stage' = [stage EXCEPT ![c] = stage'[c]]
        /\ stage[c] \in Served <=> stage'[c] \in Served
    <2>1. CASE Connect(c) \/ LeaveQueue(c)
      BY <2>1 DEF ListenerTypeOK, Connect, LeaveQueue, Served, Waiting
    <2>2. CASE ReadLength(c) \/ ReadMessage(c)
      BY <2>2 DEF ListenerTypeOK, ReadLength, ReadMessage, Read, Served, Waiting
    <2>3. CASE Handle(c) \/ Write(c)
      BY <2>3 DEF ListenerTypeOK, Handle, Write, Served, Waiting
    <2> QED
      BY <2>1, <2>2, <2>3
  <1>4. /\ moved' \in [Client -> 0 .. 3]
        /\ sent' \in [Client -> 0 .. 3] /\ received' \in [Client -> 0 .. 3]
    <2>1. CASE Connect(c) \/ LeaveQueue(c) \/ Handle(c)
      BY <2>1 DEF ListenerTypeOK, Connect, LeaveQueue, Handle
    <2>2. CASE ReadLength(c) \/ ReadMessage(c)
      BY <2>2 DEF ListenerTypeOK, ReadLength, ReadMessage, Read
    <2>3. CASE Write(c)
      BY <2>3 DEF ListenerTypeOK, Write
    <2> QED
      BY <2>1, <2>2, <2>3
  <1>5. Aligned(c)'
    <2>1. Aligned(c) /\ stage \in [Client -> Served \cup {"none", "queued"}]
          /\ moved \in [Client -> 0 .. 3] /\ sent \in [Client -> 0 .. 3]
          /\ received \in [Client -> 0 .. 3]
      BY DEF ListenerTypeOK
    <2>2. CASE Connect(c) \/ LeaveQueue(c) \/ Handle(c)
      BY <2>1, <2>2 DEF Aligned, Connect, LeaveQueue, Handle
    <2>3. CASE ReadLength(c)
      BY <2>1, <2>3 DEF Aligned, ReadLength, Read
    <2>4. CASE ReadMessage(c)
      BY <2>1, <2>4 DEF Aligned, ReadMessage, Read
    <2>5. CASE Write(c)
      BY <2>1, <2>5 DEF Aligned, Write
    <2> QED
      BY <2>2, <2>3, <2>4, <2>5
  <1>6. ListenerTypeOK'
    BY <1>1, <1>3, <1>4 DEF ListenerTypeOK
  <1>7. PermitsConserved'
    <2>1. Cardinality(Open') = Cardinality(Open)
      BY <1>3, Stays
    <2> QED
      BY <1>1, <2>1 DEF PermitsConserved
  <1> QED
    BY <1>2, <1>5, <1>6, <1>7, Together

LEMMA AcceptKeeps ==
  ASSUME ListenerInv, NEW c \in Client, Accept(c) PROVE ListenerInv'
  <1> USE DEF ListenerInv
  <1>1. /\ available' = available /\ loop = "accepting" /\ loop' = "acquiring"
        /\ mute' = mute
        /\ stage[c] = "queued" /\ stage' = [stage EXCEPT ![c] = "length"]
        /\ UNCHANGED <<moved, sent, received>>
    BY DEF Accept
  <1>2. OnlyAt(c) /\ stage'[c] = "length"
    BY <1>1 DEF OnlyAt, ListenerTypeOK
  <1>3. ListenerTypeOK'
    BY <1>1 DEF ListenerTypeOK, Served, Waiting
  <1>4. Aligned(c)'
    BY <1>1, <1>2 DEF Aligned
  <1>5. PermitsConserved'
    <2>1. Cardinality(Open') = Cardinality(Open) + 1
      BY <1>1, Opens DEF Served, Waiting
    <2> QED
      BY <1>1, <2>1, OpenIsFinite DEF PermitsConserved, ListenerTypeOK
  <1> QED
    BY <1>2, <1>3, <1>4, <1>5, Together

LEMMA CloseKeeps ==
  ASSUME ListenerInv, NEW c \in Client, Close(c) PROVE ListenerInv'
  <1> USE DEF ListenerInv
  <1>1. /\ available' = available + 1 /\ loop' = loop /\ mute' = mute
        /\ stage[c] \in Served /\ stage' = [stage EXCEPT ![c] = "none"]
        /\ moved' = [moved EXCEPT ![c] = 0]
        /\ sent' = [sent EXCEPT ![c] = 0] /\ received' = [received EXCEPT ![c] = 0]
    BY DEF Close
  <1>2. OnlyAt(c)
    BY <1>1 DEF OnlyAt, ListenerTypeOK
  <1>3. Aligned(c)'
    BY <1>1 DEF Aligned, ListenerTypeOK
  <1>4. Cardinality(Open') = Cardinality(Open) - 1 /\ Cardinality(Open) >= 1
    BY <1>1, Closes DEF Served, Waiting
  <1>5. PermitsConserved'
    BY <1>1, <1>4, OpenIsFinite DEF PermitsConserved, ListenerTypeOK
  <1>6. available' \in 0 .. MaxConnections
    BY <1>1, <1>4, OpenIsFinite, ListenerAssumption DEF PermitsConserved, ListenerTypeOK
  <1>7. ListenerTypeOK'
    BY <1>1, <1>6 DEF ListenerTypeOK
  <1> QED
    BY <1>2, <1>3, <1>5, <1>7, Together

LEMMA ListenerStep == ListenerInv /\ [ListenerNext]_listenerVars => ListenerInv'
  <1> SUFFICES ASSUME ListenerInv, [ListenerNext]_listenerVars PROVE ListenerInv'
    OBVIOUS
  <1>1. CASE Acquire \/ AcceptError \/ \E c \in Client : FallSilent(c)
    BY <1>1, LoopKeeps
  <1>2. CASE \E c \in Client : Accept(c)
    BY <1>2, AcceptKeeps
  <1>3. CASE \E c \in Client : Within(c)
    BY <1>3, WithinKeeps
  <1>4. CASE \E c \in Client : RefuseMessage(c) \/ TimeOut(c) \/ HangUp(c)
    BY <1>4, CloseKeeps DEF RefuseMessage, TimeOut, HangUp
  <1>5. CASE UNCHANGED listenerVars
    BY <1>5 DEF listenerVars, ListenerInv, ListenerTypeOK, PermitsConserved, Open, Aligned
  <1> QED
    BY <1>1, <1>2, <1>3, <1>4, <1>5 DEF ListenerNext, Within

LEMMA ListenerAlways == ListenerSpec => []ListenerInv
  BY InitListener, ListenerStep, PTL DEF ListenerSpec

LEMMA ListenerHolds == ListenerInv => ListenerTypeOK /\ PermitsConserved /\ FramesAligned
  <1> SUFFICES ASSUME ListenerInv PROVE FramesAligned
    BY DEF ListenerInv
  <1>1. ASSUME NEW c \in Open, Aligned(c)
        PROVE  /\ sent[c] = CASE stage[c] = "length" -> moved[c]
                              [] stage[c] = "message" -> 2 + moved[c]
                              [] OTHER -> 0
               /\ received[c] = IF stage[c] = "writing" THEN moved[c] ELSE 0
    BY <1>1 DEF Open, Aligned, Served, Waiting
  <1> QED
    BY <1>1 DEF FramesAligned, ListenerInv, Open

(* The listener keeps its types, and never more permits than there are.    *)
THEOREM ListenerTypeCorrect == ListenerSpec => []ListenerTypeOK
  BY ListenerAlways, ListenerHolds, PTL

(* No way out of accept or of a connection's task loses a permit.          *)
THEOREM NoPermitLost == ListenerSpec => []PermitsConserved
  BY ListenerAlways, ListenerHolds, PTL

(* Client and server agree on where frames begin, on every connection.     *)
THEOREM NeverMidFrame == ListenerSpec => []FramesAligned
  BY ListenerAlways, ListenerHolds, PTL

-----------------------------------------------------------------------------
(* The HTTP listener.  Every permit is in the semaphore or with one open   *)
(* connection; the loop holds none.                                        *)
HttpInv ==
  /\ httpStage \in [Client -> {"none", "queued", "headers", "exchange"}]
  /\ permits \in Nat
  /\ permits + Cardinality(Http!Open) = MaxHttpConnections

LEMMA SameCount == \A S : Http!Cardinality(S) = Cardinality(S)
  BY DEF Cardinality, Http!Cardinality, IsFiniteSet, Http!IsFiniteSet

LEMMA HttpOpenIsFinite == IsFiniteSet(Http!Open) /\ Cardinality(Http!Open) \in Nat
  <1>1. Http!Open \subseteq Client
    BY DEF Http!Open
  <1> QED
    BY <1>1, ListenerAssumption, FS_Subset, FS_CardinalityType

LEMMA HttpStart == Http!HttpListenerInit => HttpInv
  <1> SUFFICES ASSUME Http!HttpListenerInit PROVE HttpInv
    OBVIOUS
  <1>1. Http!Open = {} /\ permits = MaxHttpConnections
    BY DEF Http!HttpListenerInit, Http!Open
  <1>2. httpStage \in [Client -> {"none", "queued", "headers", "exchange"}]
    BY DEF Http!HttpListenerInit
  <1> QED
    BY <1>1, <1>2, FS_EmptySet, HttpAssumption DEF HttpInv

LEMMA HttpAccepts == ASSUME HttpInv, NEW c \in Client, Http!Accept(c) PROVE HttpInv'
  <1>1. /\ httpStage[c] = "queued" /\ httpStage' = [httpStage EXCEPT ![c] = "headers"]
        /\ permits > 0 /\ permits' = permits - 1
    BY DEF Http!Accept
  <1>2. (Http!Open)' = Http!Open \cup {c} /\ c \notin Http!Open
    BY <1>1 DEF Http!Open, HttpInv
  <1>3. Cardinality((Http!Open)') = Cardinality(Http!Open) + 1
    BY <1>2, HttpOpenIsFinite, FS_AddElement
  <1>4. httpStage' \in [Client -> {"none", "queued", "headers", "exchange"}]
    BY <1>1 DEF HttpInv
  <1> QED
    BY <1>1, <1>3, <1>4, HttpOpenIsFinite DEF HttpInv

LEMMA HttpCloses ==
  ASSUME HttpInv, NEW c \in Client, Http!HeaderTimeout(c) \/ Http!HangUp(c)
  PROVE  HttpInv'
  <1>1. /\ httpStage[c] \in {"headers", "exchange"}
        /\ httpStage' = [httpStage EXCEPT ![c] = "none"]
        /\ permits' = permits + 1
    BY DEF Http!HeaderTimeout, Http!HangUp, Http!Close, Http!Open
  <1>2. (Http!Open)' = Http!Open \ {c} /\ c \in Http!Open
    BY <1>1 DEF Http!Open, HttpInv
  <1>3. Cardinality((Http!Open)') = Cardinality(Http!Open) - 1
    BY <1>2, HttpOpenIsFinite, FS_RemoveElement
  <1>4. httpStage' \in [Client -> {"none", "queued", "headers", "exchange"}]
    BY <1>1 DEF HttpInv
  <1> QED
    BY <1>1, <1>3, <1>4, HttpOpenIsFinite DEF HttpInv

(* Every other step leaves the same connections open.                      *)
LEMMA HttpStays ==
  ASSUME HttpInv, NEW c \in Client,
         \/ Http!Connect(c) \/ Http!FallSilent(c) \/ Http!Reject(c)
         \/ Http!ReadHeaders(c) \/ Http!Respond(c) \/ Http!ReadResponse(c)
  PROVE  HttpInv'
  <1>1. permits' = permits
    BY DEF Http!Connect, Http!FallSilent, Http!Reject, Http!ReadHeaders, Http!Respond,
           Http!ReadResponse
  <1>2. httpStage' \in [Client -> {"none", "queued", "headers", "exchange"}]
    BY DEF HttpInv, Http!Connect, Http!FallSilent, Http!Reject, Http!ReadHeaders,
           Http!Respond, Http!ReadResponse
  <1>3. (Http!Open)' = Http!Open
    BY DEF HttpInv, Http!Open, Http!Connect, Http!FallSilent, Http!Reject,
           Http!ReadHeaders, Http!Respond, Http!ReadResponse
  <1> QED
    BY <1>1, <1>2, <1>3 DEF HttpInv

LEMMA HttpStep == HttpInv /\ [Http!HttpListenerNext]_httpVars => HttpInv'
  <1> SUFFICES ASSUME HttpInv, [Http!HttpListenerNext]_httpVars PROVE HttpInv'
    OBVIOUS
  <1>1. CASE UNCHANGED httpVars
    BY <1>1 DEF httpVars, HttpInv, Http!Open
  <1> QED
    BY <1>1, HttpAccepts, HttpCloses, HttpStays DEF Http!HttpListenerNext

(* A connection that waited is gone only if the loop found no permit.      *)
LEMMA TurnedAway ==
  ASSUME HttpInv, [Http!HttpListenerNext]_httpVars,
         NEW c \in Client, httpStage[c] = "queued", httpStage'[c] = "none"
  PROVE  Cardinality(Http!Open) = MaxHttpConnections
  <1>1. PICK d \in Client :
          \/ Http!Connect(d) \/ Http!FallSilent(d) \/ Http!Accept(d) \/ Http!Reject(d)
          \/ Http!ReadHeaders(d) \/ Http!Respond(d) \/ Http!ReadResponse(d)
          \/ Http!HeaderTimeout(d) \/ Http!HangUp(d)
    BY DEF Http!HttpListenerNext, httpVars
  <1>2. CASE Http!Reject(d)
    BY <1>2, HttpOpenIsFinite DEF Http!Reject, HttpInv
  <1>3. CASE \/ Http!Connect(d) \/ Http!FallSilent(d) \/ Http!Accept(d)
             \/ Http!ReadHeaders(d) \/ Http!Respond(d) \/ Http!ReadResponse(d)
    BY <1>3 DEF HttpInv, Http!Connect, Http!FallSilent, Http!Accept, Http!ReadHeaders,
                Http!Respond, Http!ReadResponse
  <1>4. CASE Http!HeaderTimeout(d) \/ Http!HangUp(d)
    <2>1. httpStage[d] \in {"headers", "exchange"}
          /\ httpStage' = [httpStage EXCEPT ![d] = "none"]
      BY <1>4 DEF Http!HeaderTimeout, Http!HangUp, Http!Close, Http!Open
    <2> QED
      BY <2>1 DEF HttpInv
  <1> QED
    BY <1>1, <1>2, <1>3, <1>4

-----------------------------------------------------------------------------
(* The listeners side by side: a step of one of them leaves the others     *)
(* alone.                                                                  *)
allVars == <<listener, udpVars, listenerVars, httpVars>>

LEMMA ListenersParts ==
  [ListenersNext]_allVars =>
    [ListenerNext]_listenerVars /\ [Http!HttpListenerNext]_httpVars
  BY DEF ListenersNext, allVars

LEMMA HttpAlways == ListenersSpec => []HttpInv
  <1>1. ListenersInit => HttpInv
    BY HttpStart DEF ListenersInit
  <1>2. HttpInv /\ [ListenersNext]_allVars => HttpInv'
    BY ListenersParts, HttpStep
  <1> QED
    BY <1>1, <1>2, PTL DEF ListenersSpec, allVars

(* A client of the API is turned away only while as many others are served *)
(* as the limit allows: no permit was ever lost.                           *)
THEOREM HttpLimitExact == ListenersSpec => HttpTurnedAwayWhenFull
  <1>1. HttpInv /\ [ListenersNext]_allVars =>
          [\A c \in Client : httpStage[c] = "queued" /\ httpStage'[c] = "none" =>
             Http!Cardinality(Http!Open) = MaxHttpConnections]_(Http!httpListenerVars)
    BY ListenersParts, TurnedAway, SameCount
  <1> QED
    BY <1>1, HttpAlways, PTL
    DEF ListenersSpec, allVars, HttpTurnedAwayWhenFull, Http!TurnedAwayWhenFull

(* Beside the other listeners the TCP listener behaves as it does alone.   *)
THEOREM TcpAmongOthers == ListenersSpec => [](PermitsConserved /\ FramesAligned)
  <1>1. ListenersInit => ListenerInit
    BY DEF ListenersInit
  <1> QED
    BY <1>1, ListenersParts, InitListener, ListenerStep, ListenerHolds, PTL
    DEF ListenersSpec, allVars
=============================================================================
