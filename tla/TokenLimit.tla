----------------------------- MODULE TokenLimit -----------------------------
(***************************************************************************)
(* How a configured token limit is accepted at startup:                    *)
(* AcmeWireCapacity::maximum_token_count of src/src/wire.rs searches for   *)
(* the largest number of one-character tokens that fit one DNS-over-TCP    *)
(* message, and Config::validate of src/src/config.rs compares.            *)
(*                                                                         *)
(* What fits is decided by serialising the response.  A response with      *)
(* fewer records is smaller, so what fits is a range of counts from zero,  *)
(* here 0 .. largest; `largest` is 0 when not even one token fits.         *)
(***************************************************************************)
EXTENDS Integers

CONSTANTS
  MaxRecords,  \* MAX_DNS_RECORDS, 65535
  LimitBound   \* bound: the largest limit an operator configures

ASSUME RecordsAssumption == MaxRecords \in Nat \ {0} /\ LimitBound \in Nat

VARIABLES
  largest,    \* the answer the search must find; never changes
  max_tokens, \* the configured limit, at least 1 (parse_max_tokens)
  low, high,  \* locals of maximum_token_count
  stage,      \* "doubling", "halving", "found" or "validated"
  found,      \* what maximum_token_count returns
  accepted    \* what validate says of the limit

limitVars == <<largest, max_tokens, low, high, stage, found, accepted>>

LimitTypeOK ==
  /\ largest \in 0 .. MaxRecords
  /\ max_tokens \in 1 .. LimitBound
  /\ low \in 0 .. MaxRecords
  /\ high \in 1 .. MaxRecords
  /\ stage \in {"doubling", "halving", "found", "validated"}
  /\ found \in 0 .. MaxRecords
  /\ accepted \in BOOLEAN

LimitInit ==
  /\ largest \in 0 .. MaxRecords
  /\ max_tokens \in 1 .. LimitBound
  /\ low = 0
  /\ high = 1
  /\ stage = "doubling"
  /\ found = 0
  /\ accepted = FALSE

(* self.fits_count(count)                                                  *)
FitsCount(count) == count <= largest

(* (high * 2).min(MAX_DNS_RECORDS)                                         *)
Doubled(n) == IF n * 2 < MaxRecords THEN n * 2 ELSE MaxRecords

(* Defect: a middle that may be the lower end again.                       *)
MiddleRoundedDown == (low + high - 1) \div 2

Middle == low + (high - low) \div 2

Double ==
  /\ stage = "doubling"
  /\ IF high < MaxRecords /\ FitsCount(high)
     THEN low' = high /\ high' = Doubled(high) /\ UNCHANGED stage
     ELSE stage' = "halving" /\ UNCHANGED <<low, high>>
  /\ UNCHANGED <<largest, max_tokens, found, accepted>>

Halve ==
  /\ stage = "halving"
  /\ low + 1 < high
  /\ IF FitsCount(Middle) THEN low' = Middle /\ UNCHANGED high
                          ELSE high' = Middle /\ UNCHANGED low
  /\ UNCHANGED <<largest, max_tokens, stage, found, accepted>>

(* Defect: the upper end is never tried.                                   *)
SettleLow == low

Settle == IF high = MaxRecords /\ FitsCount(high) THEN high ELSE low

Finish ==
  /\ stage = "halving"
  /\ low + 1 >= high
  /\ found' = Settle
  /\ stage' = "found"
  /\ UNCHANGED <<largest, max_tokens, low, high, accepted>>

Validate ==
  /\ stage = "found"
  /\ accepted' = (max_tokens <= found)
  /\ stage' = "validated"
  /\ UNCHANGED <<largest, max_tokens, low, high, found>>

LimitNext == Double \/ Halve \/ Finish \/ Validate

LimitSpec == LimitInit /\ [][LimitNext]_limitVars

(* One thread computes it; nothing it does waits.                          *)
FairLimitSpec == LimitSpec /\ WF_limitVars(LimitNext)

-----------------------------------------------------------------------------
(* The search narrows around the answer: the lower end fits, the upper end *)
(* does not, unless it is the last count and has not been tried.           *)
Bracketed ==
  /\ low < high
  /\ low <= largest
  /\ stage # "doubling" => high > largest \/ high = MaxRecords

(* A limit is accepted exactly when that many tokens can be served in one  *)
(* answer, at every capacity, the first and the last count included.       *)
AcceptedExactly ==
  stage = "validated" => (accepted <=> max_tokens <= largest)

(* The search ends, and startup with it.                                   *)
SearchEnds == <>(stage = "validated")
=============================================================================
