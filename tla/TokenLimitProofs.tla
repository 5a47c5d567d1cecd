-------------------------- MODULE TokenLimitProofs --------------------------
(***************************************************************************)
(* The limit search is right for every number of records and every limit.  *)
(***************************************************************************)
EXTENDS TokenLimit, TLAPS

LimitInv ==
  /\ LimitTypeOK
  /\ Bracketed
  /\ stage \in {"found", "validated"} => found = largest
  /\ AcceptedExactly

LEMMA LimitStart == LimitInit => LimitInv
  <1> SUFFICES ASSUME LimitInit PROVE LimitInv
    OBVIOUS
  <1> USE RecordsAssumption DEF LimitInit
  <1>1. accepted \in BOOLEAN
    OBVIOUS
  <1>2. LimitTypeOK
    BY <1>1 DEF LimitTypeOK
  <1>3. Bracketed
    BY DEF Bracketed
  <1>4. stage \notin {"found", "validated"}
    OBVIOUS
  <1> QED
    BY <1>2, <1>3, <1>4 DEF LimitInv, AcceptedExactly

LEMMA LimitStep == LimitInv /\ [LimitNext]_limitVars => LimitInv'
  <1> SUFFICES ASSUME LimitInv, [LimitNext]_limitVars PROVE LimitInv'
    OBVIOUS
  <1> USE RecordsAssumption DEF LimitInv, LimitTypeOK, Bracketed, AcceptedExactly, FitsCount
  <1>1. CASE Double
    BY <1>1 DEF Double, Doubled
  <1>2. CASE Halve
    <2>1. low + 1 < high => low < Middle /\ Middle < high /\ Middle \in Nat
      BY DEF Middle
    <2> QED
      BY <1>2, <2>1 DEF Halve
  <1>3. CASE Finish
    BY <1>3 DEF Finish, Settle
  <1>4. CASE Validate
    <2>1. accepted' \in BOOLEAN
      BY <1>4 DEF Validate
    <2>2. accepted' <=> max_tokens <= largest
      BY <1>4 DEF Validate
    <2> QED
      BY <1>4, <2>1, <2>2 DEF Validate
  <1>5. CASE UNCHANGED limitVars
    BY <1>5 DEF limitVars
  <1> QED
    BY <1>1, <1>2, <1>3, <1>4, <1>5 DEF LimitNext

(* Every limit that can be served in one answer is accepted and no other,  *)
(* whatever the serialiser makes of the configured names.                  *)
THEOREM LimitExact == LimitSpec => []AcceptedExactly
  <1>1. LimitInv => AcceptedExactly
    BY DEF LimitInv
  <1> QED
    BY <1>1, LimitStart, LimitStep, PTL DEF LimitSpec

(* The search stays within its bounds, the counts a message can hold, ...  *)
THEOREM LimitTypeCorrect == LimitSpec => []LimitTypeOK
  <1>1. LimitInv => LimitTypeOK
    BY DEF LimitInv
  <1> QED
    BY <1>1, LimitStart, LimitStep, PTL DEF LimitSpec

(* ... and around the answer, at every step.                               *)
THEOREM SearchBracketed == LimitSpec => []Bracketed
  <1>1. LimitInv => Bracketed
    BY DEF LimitInv
  <1> QED
    BY <1>1, LimitStart, LimitStep, PTL DEF LimitSpec
=============================================================================
