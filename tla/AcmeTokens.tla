---------------------------- MODULE AcmeTokens ----------------------------
(***************************************************************************)
(* The vocabulary shared by the challenge store (AcmeRecords) and by the   *)
(* specification of what it promises (ChallengeZone): tokens and calls.    *)
(*                                                                         *)
(* A token carries the time it has left instead of the Instant at which it *)
(* expires: `expires_at = now + lifetime` is a fresh token with Lifetime   *)
(* left, `expires_at > now` is remaining > 0, and a tick of the clock ages *)
(* every token.  This keeps the state finite with no bound on time.        *)
(*                                                                         *)
(* The HTTP API admits one record name only (api.rs, validate_request) and *)
(* DNS reads that name only, so the map of names holds at most one entry;  *)
(* the model keeps that entry's vector, as a set of tokens.                *)
(***************************************************************************)
EXTENDS Integers, FiniteSets

CONSTANTS
  Handler,    \* tasks serving an HTTP request: they add and remove
  Query,      \* tasks serving a DNS query: they look up
  Value,      \* TXT strings, non-empty and at most 255 bytes
  NoValue,    \* the value of a call that carries none
  Lifetime,   \* config.token_lifetime, in ticks
  MaxTokens,  \* config.max_tokens
  Fits(_)     \* whether a set of values fits one DNS-over-TCP message

Task == Handler \cup Query

(* Config::validate admits only a token limit of at least 1 that fits the  *)
(* wire, so that the empty set fits; dropping records never makes a        *)
(* message larger.                                                         *)
ASSUME ConfigAssumption ==
  /\ Lifetime \in Nat \ {0}
  /\ MaxTokens \in Nat \ {0}
  /\ Handler \cap Query = {}
  /\ NoValue \notin Value

ASSUME FitsAssumption ==
  /\ \A S \in SUBSET Value : Fits(S) \in BOOLEAN
  /\ Fits({})
  /\ \A S, T \in SUBSET Value : S \subseteq T /\ Fits(T) => Fits(S)

Token == [value : Value, remaining : 0 .. Lifetime]

Fresh(v) == [value |-> v, remaining |-> Lifetime]

Values(R) == {r.value : r \in R}

Without(R, v) == {r \in R : r.value # v}

Aged(R) ==
  {[r EXCEPT !.remaining = IF r.remaining > 0 THEN r.remaining - 1 ELSE 0] :
     r \in R}

AddCall == [op : {"add"}, value : Value]
RemoveCall == [op : {"remove"}, value : Value]
LookupCall == [op : {"get", "serial"}, value : {NoValue}]
NoCall == [op |-> "none", value |-> NoValue]

CallsOf(t) == IF t \in Handler THEN AddCall \cup RemoveCall ELSE LookupCall

=============================================================================
