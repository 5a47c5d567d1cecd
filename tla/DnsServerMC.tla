---------------------------- MODULE DnsServerMC ----------------------------
(***************************************************************************)
(* DnsServer with questions for the challenge and for the name servers, in *)
(* both spellings, with every kind of announcement, and every kind of      *)
(* message that is refused.  The sizes of the challenge's answers, 5, 9,   *)
(* 13 and 17, and one more for a mixed spelling, meet each limit of a      *)
(* datagram (9, 13, 14) exactly and pass it by one.                        *)
(***************************************************************************)
EXTENDS DnsServer

CONSTANTS acme, ns1, ns2

AcmeName == <<<<acme>>>>
NsName == <<<<ns1>>>>
NsName2 == <<<<ns2>>>>
ServerIp == <<127, 0, 0, 1>>

ChallengeQuestion ==
  [kind |-> "query", labels |-> AcmeName, spelling |-> "lower", type |-> "TXT",
   class |-> "IN", inZone |-> TRUE, opcode |-> "Query", queries |-> 1,
   edns |-> "none", payload |-> 0, echoes |-> TRUE]

Refusable ==
  {[ChallengeQuestion EXCEPT !.edns = "newer"], [ChallengeQuestion EXCEPT !.opcode = "Notify"],
   [ChallengeQuestion EXCEPT !.queries = 2], [ChallengeQuestion EXCEPT !.class = "CH"],
   [ChallengeQuestion EXCEPT !.inZone = FALSE], [ChallengeQuestion EXCEPT !.kind = "response"],
   [ChallengeQuestion EXCEPT !.class = "CH", !.queries = 2, !.echoes = FALSE]}

(* Below what UDP always carries, between that and the server's maximum,   *)
(* and beyond it.                                                          *)
Announced == {<<"none", 0>>, <<"v0", 6>>, <<"v0", 13>>, <<"v0", 20>>}

SomeRequests ==
  Refusable \cup
  {[ChallengeQuestion EXCEPT !.spelling = s, !.edns = e[1], !.payload = e[2]] :
     s \in Spelling, e \in Announced} \cup
  {[ChallengeQuestion EXCEPT !.labels = <<>>, !.type = t] : t \in {"NS", "TXT"}} \cup
  {[ChallengeQuestion EXCEPT !.echoes = FALSE]}
=============================================================================
