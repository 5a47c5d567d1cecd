----------------------------- MODULE DnsAnswer -----------------------------
(***************************************************************************)
(* What safexip answers to a well-formed question inside its zone: the     *)
(* match of build_response in src/src/dns.rs, and parse_xip_ip of          *)
(* src/src/xip.rs, which gives an address to every name that spells one.   *)
(*                                                                         *)
(* A name is the sequence of its labels below the apex, leftmost first,    *)
(* and the spelling of its letters: resolvers randomise it, and the code   *)
(* folds it.  A label is the sequence of its parts between hyphens.  A     *)
(* part that reads as a number of at most 255 is that number; every other  *)
(* part is a word.                                                         *)
(***************************************************************************)
EXTENDS Integers, Sequences, SequencesExt, FiniteSets

CONSTANTS
  Octet,                \* the parts that parse as 0 .. 255
  Dotted,               \* a part that a dot runs through: it never parses
  AcmeLabels,           \* config.acme_name()
  NsLabels, NsLabels2,  \* config.ns_hostname, config.ns_hostname2
  NsIp,                 \* config.ns_ip
  AnySoa                \* an SOA record

Spelling == {"lower", "mixed"}
RecordType == {"A", "TXT", "NS", "SOA", "CAA"}  \* CAA: any other type

Named(labels) == [labels |-> labels, spelling |-> "lower"]

Apex == Named(<<>>)
Acme == Named(AcmeLabels)
NameServers == {Named(NsLabels), Named(NsLabels2)}

-----------------------------------------------------------------------------
(* Deliberate defects, here and below, are for mutation runs only: names   *)
(* compared as they are spelled.                                           *)
SpelledAsAsked(n) == n

(* qname.to_ascii().trim_end_matches('.').to_lowercase()                   *)
Folded(n) == [n EXCEPT !.spelling = "lower"]

(* prefix.split('-'): where labels meet, the last part of one and the      *)
(* first part of the next are one part with a dot in it.                   *)
HyphenParts(labels) ==
  FoldLeft(LAMBDA parts, label : Front(parts) \o <<Dotted>> \o Tail(label),
           Head(labels), Tail(labels))

(* parse_octets of the four parts from position i                          *)
OctetsAt(parts, i) == \A j \in i .. i + 3 : parts[j] \in Octet

(* The address that the name spells, or none: the last four parts in a row *)
(* that parse win.  The apex has no prefix to parse.                       *)
ParseXipIp(n) ==
  LET parts == HyphenParts(n.labels)
      found == {i \in 1 .. Len(parts) - 3 : OctetsAt(parts, i)}
  IN  IF n.labels = <<>> THEN {}
      ELSE {SubSeq(parts, i, i + 3) : i \in {m \in found : \A k \in found : k <= m}}

ResolveA(n) == IF n = Apex \/ n \in NameServers THEN {NsIp} ELSE ParseXipIp(n)

(* Defect: the challenge name exists only while it has a token.            *)
ForgetsChallenge(n) == n = Apex \/ n \in NameServers \/ ParseXipIp(n) # {}

NameExists(n) ==
  \/ n = Apex
  \/ n \in NameServers
  \/ n = Acme
  \/ ParseXipIp(n) # {}

(* The answer section, for a folded name: `values` is what get_with_serial *)
(* returned.                                                               *)
Answers(n, type, values) ==
  CASE type = "A" -> ResolveA(n)
    [] type = "TXT" -> IF n = Acme THEN values ELSE {}
    [] type = "NS" -> IF n = Apex THEN NameServers ELSE {}
    [] type = "SOA" -> IF n = Apex THEN {AnySoa} ELSE {}
    [] OTHER -> {}

BuildResponse(n, type, values) ==
  LET name == Folded(n)
      data == Answers(name, type, values)
  IN  [rcode |-> IF data = {} /\ ~NameExists(name) THEN "NXDOMAIN" ELSE "NOERROR",
       answers |-> data]
=============================================================================
