------------------------ MODULE ReductionEngineProofs ------------------------
(***************************************************************************)
(* Theorems of a reduction run, for every stimulus set, every budget, and  *)
(* every evaluator and enumerator: its type invariant, that its record     *)
(* parses, and that a completed draft is minimal among its neighbours.     *)
(*                                                                         *)
(* Parsing reads the record from its first entry to its last, and the run  *)
(* wrote it in that order, so what parsing asks of entry i is settled when *)
(* i is written, with two exceptions.  That nothing follows a refusal or a *)
(* failed sweep is the inductive invariant Underway: a run that goes on    *)
(* has recorded neither.  That the sweep evaluated the whole round is      *)
(* SweptSoFar, with the proposals still to do.                             *)
(***************************************************************************)
EXTENDS ReductionEngine, FiniteSetTheorems, WellFoundedInduction, TLAPS

Decisions == {"PRESERVES", "CHANGES", "UNRESOLVED"}

Reasons ==
  Refusals \cup
  {"EXACT_PRESERVATION_MAP_MATCH", "EXACT_PRESERVATION_MAP_CHANGED",
   "CANDIDATE_ELIGIBILITY_OR_ADMISSION_CHANGED", "WALL_BUDGET_EXHAUSTED",
   "REDUCTION_CANCELLED", "EVALUATOR_ERROR", "NO_OBSERVATION"}

EntryKind ==
  [parent : Stimuli, neighbor : Stimuli, purpose : {"REDUCTION", "FINAL_SWEEP"},
   decision : Decisions, reason : Reasons, mapped : BOOLEAN,
   evidence : SUBSET Nat, count : Nat, trials : Nat, total : Nat]

Written == 1 .. Len(entries)

RunTyped ==
  /\ pc \in {"turn", "enumerate", "try", "sweepEnumerate", "evaluate", "done", "failed"}
  /\ finalState \in {"NOT_RUN", "INCOMPLETE", "COMPLETE"}
  /\ expired \in BOOLEAN /\ cancelled \in BOOLEAN

ProgressTyped ==
  /\ current \in Stimuli /\ round \subseteq Stimuli /\ todo \subseteq round
  /\ proposalsUsed \in 0 .. ProposalLimit /\ trialsUsed \in 0 .. MaxTrials
  /\ entries \in Seq(EntryKind)
  /\ Len(entries) = proposalsUsed - (IF pc \in {"evaluate", "failed"} THEN 1 ELSE 0)
  /\ accepted \in Seq(Stimuli \X Stimuli)
  /\ ledger \subseteq Nat

\* The ledger is what was recorded, and its tokens are counted up.
LedgerKept ==
  /\ ledger = EvidenceBefore(Len(entries) + 1)
  /\ \E m \in ledger : \A e \in ledger : e <= m

Phases ==
  /\ pc = "evaluate" => todo # {} /\ trialsUsed < TrialLimit
  /\ pc \in {"try", "evaluate", "sweepEnumerate"} => round \subseteq Smaller(current)
  /\ pc \in {"turn", "enumerate"} => ~Sweeping
  /\ pc = "sweepEnumerate" => Sweeping
  /\ finalState = "COMPLETE" => pc = "done" /\ todo = {}
  /\ pc # "done" => trialsUsed <= TrialLimit
  /\ trialsUsed = Total(Len(entries))

RecordSound ==
  \A i \in Written : Counted(i) /\ Chained(i) /\ Decided(i) /\ Evidenced(i)

\* A run that goes on has recorded no refusal and no failed sweep.
Underway ==
  pc # "done" =>
    \A i \in Written :
      /\ entries[i].reason \notin Refusals
      /\ entries[i].purpose = "FINAL_SWEEP" => entries[i].decision = "CHANGES"

Swept == {i \in Written : entries[i].purpose = "FINAL_SWEEP"}

\* What the sweep has evaluated so far, all of it from where the search ended.
SweptSoFar ==
  /\ ~Sweeping \/ pc = "sweepEnumerate" => Swept = {}
  /\ (Sweeping /\ pc \in {"try", "evaluate"}) \/ finalState = "COMPLETE" =>
       {entries[i].neighbor : i \in Swept} = round \ todo
  /\ \A i \in Swept : entries[i].parent = current

Tried(n) ==
  \E i \in Written :
    /\ entries[i].purpose = "REDUCTION"
    /\ entries[i].parent = current /\ entries[i].neighbor = n
    /\ entries[i].decision \in {"CHANGES", "UNRESOLVED"}

\* What the search has evaluated of the last round.
SearchedSoFar ==
  /\ ~Sweeping /\ pc \in {"try", "evaluate"} => \A n \in round \ todo : Tried(n)
  /\ Sweeping => \A n \in round : Tried(n)

\* The accepted path, and where it leads.
PathKept ==
  /\ current = Reached(Len(entries))
  /\ PathParses
  /\ accepted = <<>> => current = Original
  /\ accepted # <<>> => Size[current] < Size[Original]

UnresolvedIsLimited ==
  limits = {} => \A i \in Written : entries[i].decision # "UNRESOLVED"

LimitsTold == LimitsHaveEntries /\ UnresolvedIsLimited

EngineInv ==
  /\ RunTyped /\ ProgressTyped /\ LedgerKept /\ Phases
  /\ RecordSound /\ Underway /\ SweptSoFar /\ SearchedSoFar
  /\ PathKept /\ LimitsTold

\* Types and record are parts of the inductive invariant.
LEMMA Typing == EngineInv => TypeOK
BY DEF EngineInv, RunTyped, ProgressTyped, LedgerKept, TypeOK, EvidenceBefore

USE ReductionAssumption

----------------------------------------------------------------------------
(* Least and greatest numbers of a set.                                    *)

LEMMA LeastIsThere ==
  ASSUME NEW S, S \subseteq Nat, S # {}
  PROVE  Min(S) \in S
<1>1. IsWellFoundedOn(OpToRel(<, Nat), Nat)
  BY NatLessThanWellFounded
<1>2. PICK x \in S : \A y \in S : ~(<<y, x>> \in OpToRel(<, Nat))
  BY <1>1, WFMin
<1>3. \A y \in S : ~(y < x)
  BY <1>2 DEF OpToRel
<1>4. \A y \in S : x <= y
  BY <1>3
<1> QED
  BY <1>4 DEF Min

LEMMA GreatestIs ==
  ASSUME NEW S, NEW m \in S, S \subseteq Int, \A x \in S : x <= m
  PROVE  Max(S) = m
<1>1. \A x \in S : m >= x
  OBVIOUS
<1>2. Max(S) \in S /\ \A y \in S : Max(S) >= y
  BY <1>1 DEF Max
<1>3. Max(S) >= m /\ m >= Max(S) /\ Max(S) \in Int
  BY <1>1, <1>2
<1> QED
  BY <1>3

LEMMA GreatestIsThere ==
  ASSUME NEW n \in Nat, NEW S, S \subseteq 1 .. n, S # {}
  PROVE  Max(S) \in S /\ \A y \in S : y <= Max(S)
<1> DEFINE Below == {n - x : x \in S}
<1>1. Below \subseteq Nat /\ Below # {}
  <2>1. \A x \in S : n - x \in Nat
    OBVIOUS
  <2> QED
    BY <2>1
<1>2. PICK d \in Below : \A y \in Below : d <= y
  <2>1. Min(Below) \in Below
    BY <1>1, LeastIsThere
  <2>2. IsWellFoundedOn(OpToRel(<, Nat), Nat)
    BY NatLessThanWellFounded
  <2>3. PICK x \in Below : \A y \in Below : ~(<<y, x>> \in OpToRel(<, Nat))
    BY <1>1, <2>2, WFMin
  <2>4. \A y \in Below : ~(y < x)
    BY <1>1, <2>3 DEF OpToRel
  <2> HIDE DEF Below
  <2> QED
    BY <1>1, <2>4
<1>3. PICK m \in S : d = n - m
  BY <1>2
<1>4. \A x \in S : x <= m
  BY <1>2, <1>3
<1>5. Max(S) = m
  <2>1. S \subseteq Int
    OBVIOUS
  <2> QED
    BY <1>4, <2>1, GreatestIs
<1> QED
  BY <1>4, <1>5

----------------------------------------------------------------------------
(* What is recorded of an observation.                                     *)

\* A result is recorded on its own evidence, and says what it stands on.
Sound(result, trials) ==
  /\ result.decision \in Decisions /\ result.reason \in Reasons
  /\ result.mapped \in BOOLEAN /\ result.evidence \in SUBSET Nat
  /\ result.evidence \cap ledger = {}
  /\ result.decision \in {"PRESERVES", "CHANGES"} => result.mapped
  /\ result.mapped => /\ result.reason = MapReason(result.decision)
                      /\ trials > 0 /\ trials = Cardinality(result.evidence)
  /\ (trials > TrialLimit - trialsUsed) =
       (result.reason = "EVALUATOR_EXCEEDED_CANDIDATE_TRIAL_BUDGET")
  /\ result.reason \in Refusals => result.decision = "UNRESOLVED" /\ ~result.mapped
  /\ ~result.mapped /\ trials > 0 /\ result.reason \notin Refusals => result.evidence # {}
  /\ result.reason = "OBSERVED_MAP_WITHOUT_CANDIDATE_TRIALS" => trials = 0
  /\ result.reason = "UNRESOLVED_EVALUATION_MISSING_EVIDENCE" =>
       trials > 0 /\ result.evidence = {}
  /\ result.reason = "REUSED_EVALUATION_EVIDENCE" => result.evidence = {}

\* Evidence is fresh, used before, or none, and keeps the tokens counted up.
LEMMA EvidenceTyped ==
  ASSUME ProgressTyped, LedgerKept, NEW o \in Observations
  PROVE  /\ o.evidence \in SUBSET Nat /\ o.trials \in Nat
         /\ \E m \in ledger \cup o.evidence : \A e \in ledger \cup o.evidence : e <= m
<1>1. PICK m \in ledger : \A e \in ledger : e <= m
  BY DEF LedgerKept
<1>2. m \in Nat /\ Max(ledger) = m
  <2>1. ledger \subseteq Int /\ m \in Nat
    BY DEF ProgressTyped
  <2> QED
    BY <1>1, <2>1, GreatestIs
<1>3. o.trials \in Reported /\ o.evidence \in {Fresh(n) : n \in Reported} \cup {{e} : e \in ledger}
  BY DEF Observations
<1>4. CASE o.evidence \in {{e} : e \in ledger}
  <2>1. o.evidence \subseteq ledger
    BY <1>4
  <2> QED
    BY <1>1, <1>3, <2>1 DEF ProgressTyped
<1>5. ASSUME NEW n \in Reported, o.evidence = Fresh(n)
      PROVE  /\ o.evidence \in SUBSET Nat
             /\ \E k \in ledger \cup o.evidence : \A e \in ledger \cup o.evidence : e <= k
  <2>1. n \in Nat /\ o.evidence = m + 1 .. m + n
    BY <1>2, <1>5 DEF Fresh
  <2>2. CASE n = 0
    BY <1>1, <1>2, <2>1, <2>2 DEF ProgressTyped
  <2>3. CASE n # 0
    <3>1. m + n \in o.evidence /\ \A e \in o.evidence : e <= m + n
      BY <1>2, <2>1, <2>3
    <3>2. \A e \in ledger : e <= m + n
      BY <1>1, <1>2, <2>1 DEF ProgressTyped
    <3> QED
      BY <1>2, <2>1, <3>1, <3>2
  <2> QED
    BY <2>2, <2>3
<1> QED
  BY <1>3, <1>4, <1>5

LEMMA EvaluationSound ==
  ASSUME RunTyped, ProgressTyped, LedgerKept, NEW o \in Observations
  PROVE  Sound(Evaluation(o), o.trials) /\ Evaluation(o).evidence \in {{}, o.evidence}
<1>1. /\ o.evidence \in SUBSET Nat /\ o.trials \in Nat
      /\ o.outcome \in Maps \cup {"NONE", "NO_REASON", "ERROR"}
      /\ o.outcome \in Maps => o.evidence # {}
  BY EvidenceTyped DEF Observations
<1>2. trialsUsed \in Nat /\ TrialLimit \in Nat /\ Stopped \in BOOLEAN
  BY DEF ProgressTyped, RunTyped, Stopped
<1>3. ~Reuses({})
  BY DEF Reuses
<1> DEFINE mapped == o.outcome \in Maps /\ ~Stopped
<1> DEFINE refused(why) == Evaluation(o) = ProtocolRefusal(why, o)
<1>4. o.trials > TrialLimit - trialsUsed =>
        refused("EVALUATOR_EXCEEDED_CANDIDATE_TRIAL_BUDGET")
  BY DEF Evaluation
<1>e. ASSUME ~(o.trials > TrialLimit - trialsUsed)
      PROVE  \/ mapped /\ o.trials = 0 /\ refused("OBSERVED_MAP_WITHOUT_CANDIDATE_TRIALS")
             \/ refused("INVALID_EVALUATOR_RESULT")
             \/ /\ ~mapped /\ o.trials > 0 /\ o.evidence = {}
                /\ refused("UNRESOLVED_EVALUATION_MISSING_EVIDENCE")
             \/ Reuses(o.evidence) /\ refused("REUSED_EVALUATION_EVIDENCE")
             \/ /\ mapped /\ o.outcome # "MALFORMED" /\ ~Reuses(o.evidence)
                /\ o.trials # 0 /\ o.trials = Cardinality(o.evidence)
                /\ Evaluation(o) = Result(o.outcome, MapReason(o.outcome), TRUE, o.evidence)
             \/ /\ ~mapped /\ ~Reuses(o.evidence)
                /\ o.trials > 0 => o.evidence # {}
                /\ \E why \in {"WALL_BUDGET_EXHAUSTED", "REDUCTION_CANCELLED", "EVALUATOR_ERROR",
                               "NO_OBSERVATION"} :
                     Evaluation(o) = Result("UNRESOLVED", why, FALSE, o.evidence)
  <2> DEFINE refusal ==
        IF mapped /\ o.trials = 0 THEN "OBSERVED_MAP_WITHOUT_CANDIDATE_TRIALS"
        ELSE IF mapped /\ o.trials # Cardinality(o.evidence) THEN "INVALID_EVALUATOR_RESULT"
        ELSE IF ~mapped /\ o.trials > 0 /\ o.evidence = {}
        THEN "UNRESOLVED_EVALUATION_MISSING_EVIDENCE"
        ELSE IF ~Stopped /\ o.outcome \in {"MALFORMED", "NO_REASON"}
        THEN "INVALID_EVALUATOR_RESULT"
        ELSE IF Reuses(o.evidence) THEN "REUSED_EVALUATION_EVIDENCE" ELSE ""
  <2> DEFINE why == IF Stopped THEN StopReason
                    ELSE IF o.outcome = "ERROR" THEN "EVALUATOR_ERROR" ELSE "NO_OBSERVATION"
  <2>1. Evaluation(o) =
          IF refusal # "" THEN ProtocolRefusal(refusal, o)
          ELSE IF mapped THEN Result(o.outcome, MapReason(o.outcome), TRUE, o.evidence)
          ELSE Result("UNRESOLVED", why, FALSE, o.evidence)
    BY <1>e DEF Evaluation
  <2>2. why \in {"WALL_BUDGET_EXHAUSTED", "REDUCTION_CANCELLED", "EVALUATOR_ERROR", "NO_OBSERVATION"}
    BY DEF StopReason
  <2>3. CASE refusal # ""
    <3>1. Evaluation(o) = ProtocolRefusal(refusal, o)
      BY <2>1, <2>3
    <3> QED
      BY <2>3, <3>1
  <2>4. CASE refusal = ""
    <3>1. CASE mapped
      <4>1. Evaluation(o) = Result(o.outcome, MapReason(o.outcome), TRUE, o.evidence)
        BY <2>1, <2>4, <3>1
      <4> QED
        BY <2>4, <3>1, <4>1
    <3>2. CASE ~mapped
      <4>1. Evaluation(o) = Result("UNRESOLVED", why, FALSE, o.evidence)
        BY <2>1, <2>4, <3>2
      <4> HIDE DEF why
      <4> QED
        BY <2>2, <2>4, <3>2, <4>1
    <3> QED
      BY <3>1, <3>2
  <2> QED
    BY <2>3, <2>4
<1>5. ASSUME NEW why \in Refusals, refused(why),
             (o.trials > TrialLimit - trialsUsed) =
               (why = "EVALUATOR_EXCEEDED_CANDIDATE_TRIAL_BUDGET"),
             why = "OBSERVED_MAP_WITHOUT_CANDIDATE_TRIALS" => o.trials = 0,
             why = "UNRESOLVED_EVALUATION_MISSING_EVIDENCE" => o.trials > 0 /\ o.evidence = {},
             why = "REUSED_EVALUATION_EVIDENCE" => Reuses(o.evidence)
      PROVE  Sound(Evaluation(o), o.trials) /\ Evaluation(o).evidence \in {{}, o.evidence}
  <2>1. /\ Evaluation(o).decision = "UNRESOLVED" /\ Evaluation(o).reason = why
        /\ Evaluation(o).mapped = FALSE
        /\ Evaluation(o).evidence = IF Reuses(o.evidence) THEN {} ELSE o.evidence
    BY <1>5 DEF ProtocolRefusal, Result
  <2>2. Evaluation(o).evidence \cap ledger = {} /\ Evaluation(o).evidence \in {{}, o.evidence}
    BY <2>1 DEF Reuses
  <2> HIDE DEF refused
  <2> QED
    BY <1>1, <1>5, <2>1, <2>2 DEF Sound, Decisions, Reasons
<1>6. ASSUME NEW decision \in {"PRESERVES", "CHANGES", "UNRESOLVED"},
             Evaluation(o) = Result(decision, MapReason(decision), TRUE, o.evidence),
             o.trials <= TrialLimit - trialsUsed, ~Reuses(o.evidence),
             o.trials > 0, o.trials = Cardinality(o.evidence)
      PROVE  Sound(Evaluation(o), o.trials) /\ Evaluation(o).evidence \in {{}, o.evidence}
  <2>1. /\ Evaluation(o).decision = decision /\ Evaluation(o).reason = MapReason(decision)
        /\ Evaluation(o).mapped = TRUE /\ Evaluation(o).evidence = o.evidence
    BY <1>6 DEF Result
  <2>2. MapReason(decision) \in Reasons \ Refusals
    BY <1>6 DEF MapReason, Reasons, Refusals
  <2>3. o.evidence \cap ledger = {}
    BY <1>6 DEF Reuses
  <2>4. MapReason(decision) \notin
          {"EVALUATOR_EXCEEDED_CANDIDATE_TRIAL_BUDGET", "OBSERVED_MAP_WITHOUT_CANDIDATE_TRIALS",
           "UNRESOLVED_EVALUATION_MISSING_EVIDENCE", "REUSED_EVALUATION_EVIDENCE"}
    BY <1>6 DEF MapReason
  <2>5. (o.trials > TrialLimit - trialsUsed) = FALSE
    BY <1>1, <1>2, <1>6
  <2> QED
    BY <1>1, <1>6, <2>1, <2>2, <2>3, <2>4, <2>5 DEF Sound, Decisions
<1>7. ASSUME NEW why \in {"WALL_BUDGET_EXHAUSTED", "REDUCTION_CANCELLED", "EVALUATOR_ERROR",
                          "NO_OBSERVATION"},
             Evaluation(o) = Result("UNRESOLVED", why, FALSE, o.evidence),
             o.trials <= TrialLimit - trialsUsed, ~Reuses(o.evidence),
             o.trials > 0 => o.evidence # {}
      PROVE  Sound(Evaluation(o), o.trials) /\ Evaluation(o).evidence \in {{}, o.evidence}
  <2>1. /\ Evaluation(o).decision = "UNRESOLVED" /\ Evaluation(o).reason = why
        /\ Evaluation(o).mapped = FALSE /\ Evaluation(o).evidence = o.evidence
    BY <1>7 DEF Result
  <2>2. why \in Reasons \ Refusals
    BY <1>7 DEF Reasons, Refusals
  <2>3. o.evidence \cap ledger = {}
    BY <1>7 DEF Reuses
  <2>4. why \notin
          {"EVALUATOR_EXCEEDED_CANDIDATE_TRIAL_BUDGET", "OBSERVED_MAP_WITHOUT_CANDIDATE_TRIALS",
           "UNRESOLVED_EVALUATION_MISSING_EVIDENCE", "REUSED_EVALUATION_EVIDENCE"}
    BY <1>7
  <2>5. (o.trials > TrialLimit - trialsUsed) = FALSE
    BY <1>1, <1>2, <1>7
  <2> QED
    BY <1>1, <1>7, <2>1, <2>2, <2>3, <2>4, <2>5 DEF Sound, Decisions
<1>8. CASE o.trials > TrialLimit - trialsUsed
  BY <1>4, <1>5, <1>8 DEF Refusals
<1>9. CASE ~(o.trials > TrialLimit - trialsUsed)
  <2>1. o.trials <= TrialLimit - trialsUsed
    BY <1>1, <1>2, <1>9
  <2>2. mapped /\ o.outcome # "MALFORMED" =>
          o.outcome \in {"PRESERVES", "CHANGES", "UNRESOLVED"}
    BY DEF Maps
  <2>3. o.trials # 0 <=> o.trials > 0
    BY <1>1
  <2>4. (o.trials > TrialLimit - trialsUsed) = FALSE
    BY <1>9
  <2> HIDE DEF refused, mapped
  <2>5. CASE mapped /\ o.trials = 0 /\ refused("OBSERVED_MAP_WITHOUT_CANDIDATE_TRIALS")
    BY <1>5, <2>4, <2>5 DEF Refusals
  <2>6. CASE refused("INVALID_EVALUATOR_RESULT")
    BY <1>5, <2>4, <2>6 DEF Refusals
  <2>7. CASE /\ o.trials > 0 /\ o.evidence = {}
             /\ refused("UNRESOLVED_EVALUATION_MISSING_EVIDENCE")
    BY <1>5, <2>4, <2>7 DEF Refusals
  <2>8. CASE Reuses(o.evidence) /\ refused("REUSED_EVALUATION_EVIDENCE")
    BY <1>5, <2>4, <2>8 DEF Refusals
  <2>9. CASE /\ mapped /\ o.outcome # "MALFORMED" /\ ~Reuses(o.evidence)
             /\ o.trials # 0 /\ o.trials = Cardinality(o.evidence)
             /\ Evaluation(o) = Result(o.outcome, MapReason(o.outcome), TRUE, o.evidence)
    BY <1>6, <2>1, <2>2, <2>3, <2>9
  <2>10. CASE /\ ~Reuses(o.evidence)
              /\ o.trials > 0 => o.evidence # {}
              /\ \E why \in {"WALL_BUDGET_EXHAUSTED", "REDUCTION_CANCELLED",
                             "EVALUATOR_ERROR", "NO_OBSERVATION"} :
                   Evaluation(o) = Result("UNRESOLVED", why, FALSE, o.evidence)
    BY <1>7, <2>1, <2>10
  <2> QED
    BY <1>9, <1>e, <2>5, <2>6, <2>7, <2>8, <2>9, <2>10
<1> QED
  BY <1>8, <1>9

----------------------------------------------------------------------------
(* What parsing asks of a decision, and which of it may still be disturbed.*)

DecidedAlone(e) ==
  /\ e.decision \in {"PRESERVES", "CHANGES"} => e.mapped
  /\ e.mapped => e.reason = MapReason(e.decision)
  /\ (e.total > TrialLimit) = (e.reason = "EVALUATOR_EXCEEDED_CANDIDATE_TRIAL_BUDGET")
  /\ e.reason \in Refusals => e.decision = "UNRESOLVED" /\ ~e.mapped

\* An entry that ends the run is the last one, and the limitations tell it.
EndIsTold(e, last, state, told) ==
  /\ e.reason \in Refusals => last /\ state # "COMPLETE" /\ <<"", e.reason>> \in told
  /\ e.purpose = "FINAL_SWEEP" /\ e.decision # "CHANGES" =>
       /\ last /\ state = "INCOMPLETE"
       /\ e.reason \notin Refusals =>
            /\ e.decision = "UNRESOLVED" => <<"FINAL_SWEEP", e.reason>> \in told
            /\ e.decision # "UNRESOLVED" => <<"", "FINAL_SWEEP_PRESERVING_NEIGHBOR">> \in told

LEMMA DecidedSplits ==
  ASSUME NEW i
  PROVE  Decided(i) <=>
           /\ DecidedAlone(entries[i])
           /\ EndIsTold(entries[i], i = Len(entries), finalState, limits)
BY DEF Decided, DecidedAlone, EndIsTold

LEMMA DecidedSplitsNext ==
  ASSUME NEW i
  PROVE  Decided(i)' <=>
           /\ DecidedAlone(entries'[i])
           /\ EndIsTold(entries'[i], i = Len(entries'), finalState', limits')
BY DEF Decided, DecidedAlone, EndIsTold

----------------------------------------------------------------------------
(* Steps that record nothing.                                              *)

\* Such a step leaves the record as it is, but for how far the final sweep is
\* and a limitation that no entry has to tell.
UnwrittenStep ==
  /\ UNCHANGED <<entries, accepted, current, ledger, trialsUsed>>
  /\ \/ limits' = limits
     \/ \E why \in {"WALL_BUDGET_EXHAUSTED", "REDUCTION_CANCELLED", "NEIGHBOR_ENUMERATION_FAILED",
                    "FINAL_SWEEP_ENUMERATION_FAILED", "FINAL_SWEEP_ENUMERATION_STALE",
                    "PROPOSAL_BUDGET_EXHAUSTED", "CANDIDATE_TRIAL_BUDGET_EXHAUSTED"} :
          limits' = limits \cup {<<"", why>>}
  /\ \/ finalState' = finalState
     \/ finalState = "NOT_RUN" /\ finalState' = "INCOMPLETE"
     \/ pc = "try" /\ finalState' = "COMPLETE"

LEMMA UnwrittenKeeps ==
  ASSUME EngineInv, UnwrittenStep
  PROVE  LedgerKept' /\ RecordSound' /\ PathKept' /\ LimitsTold'
<1> USE DEF EngineInv
<1>1. UNCHANGED <<entries, accepted, current, ledger>>
  BY DEF UnwrittenStep
<1>2. LedgerKept' /\ PathKept'
  BY <1>1 DEF LedgerKept, EvidenceBefore, PathKept, Reached, Preserving, PathParses
<1>3. RecordSound'
  <2> SUFFICES ASSUME NEW i \in Written
               PROVE  Counted(i)' /\ Chained(i)' /\ Decided(i)' /\ Evidenced(i)'
    BY <1>1 DEF RecordSound, Written
  <2>1. Counted(i) /\ Chained(i) /\ Decided(i) /\ Evidenced(i)
    BY DEF RecordSound
  <2>2. Counted(i)' /\ Chained(i)' /\ Evidenced(i)'
    BY <1>1, <2>1 DEF Counted, Total, Chained, Reached, Preserving, Evidenced, EvidenceBefore
  <2>3. /\ DecidedAlone(entries[i])
        /\ EndIsTold(entries[i], i = Len(entries), finalState, limits)
    BY <2>1, DecidedSplits
  <2>4. limits \subseteq limits'
    BY DEF UnwrittenStep
  <2>5. EndIsTold(entries[i], i = Len(entries), finalState', limits')
    <3>1. CASE pc = "try" /\ finalState' = "COMPLETE"
      <4>1. /\ entries[i].reason \notin Refusals
            /\ entries[i].purpose = "FINAL_SWEEP" => entries[i].decision = "CHANGES"
        BY <3>1 DEF Underway
      <4> QED
        BY <4>1 DEF EndIsTold
    <3>2. CASE finalState = "NOT_RUN" /\ finalState' = "INCOMPLETE"
      BY <2>3, <2>4, <3>2 DEF EndIsTold
    <3>3. CASE finalState' = finalState
      BY <2>3, <2>4, <3>3 DEF EndIsTold
    <3> QED
      BY <3>1, <3>2, <3>3 DEF UnwrittenStep
  <2>6. Decided(i)'
    BY <1>1, <2>3, <2>5, DecidedSplitsNext
  <2> QED
    BY <2>2, <2>6
<1>4. LimitsTold'
  <2>1. UnresolvedIsLimited'
    BY <1>1 DEF LimitsTold, UnresolvedIsLimited, UnwrittenStep, Written
  <2>2. CASE limits' = limits
    BY <1>1, <2>1, <2>2 DEF LimitsTold, LimitsHaveEntries
  <2>3. ASSUME NEW why \in {"WALL_BUDGET_EXHAUSTED", "REDUCTION_CANCELLED",
                            "NEIGHBOR_ENUMERATION_FAILED", "FINAL_SWEEP_ENUMERATION_FAILED",
                            "FINAL_SWEEP_ENUMERATION_STALE", "PROPOSAL_BUDGET_EXHAUSTED",
                            "CANDIDATE_TRIAL_BUDGET_EXHAUSTED"},
               limits' = limits \cup {<<"", why>>}
        PROVE  LimitsTold'
    <3>1. why \notin Refusals /\ why # "FINAL_SWEEP_PRESERVING_NEIGHBOR"
      BY <2>3 DEF Refusals
    <3>2. LimitsHaveEntries'
      <4>1. \A limit \in limits' : limit \in limits \/ limit = <<"", why>>
        BY <2>3
      <4>2. <<"", why>>[1] = "" /\ <<"", why>>[2] = why
        OBVIOUS
      <4> QED
        BY <1>1, <3>1, <4>1, <4>2 DEF LimitsTold, LimitsHaveEntries
    <3> QED
      BY <2>1, <3>2 DEF LimitsTold
  <2> QED
    BY <2>2, <2>3 DEF UnwrittenStep
<1> QED
  BY <1>2, <1>3, <1>4

\* A run that ends with such a limitation.
LEMMA LimitedKeeps ==
  ASSUME EngineInv, pc \in {"turn", "enumerate", "try", "sweepEnumerate"},
         NEW why \in {"WALL_BUDGET_EXHAUSTED", "REDUCTION_CANCELLED",
                      "NEIGHBOR_ENUMERATION_FAILED", "FINAL_SWEEP_ENUMERATION_FAILED",
                      "FINAL_SWEEP_ENUMERATION_STALE", "PROPOSAL_BUDGET_EXHAUSTED",
                      "CANDIDATE_TRIAL_BUDGET_EXHAUSTED"},
         EndLimited("", why), UNCHANGED <<progress, finalState, expired, cancelled>>
  PROVE  EngineInv'
<1> USE DEF EngineInv
<1>1. /\ limits' = limits \cup {<<"", why>>} /\ pc' = "done"
      /\ UNCHANGED <<current, round, todo, proposalsUsed, trialsUsed, entries, accepted, ledger>>
      /\ UNCHANGED <<finalState, expired, cancelled>>
  BY DEF EndLimited, progress
<1>2. UnwrittenStep
  BY <1>1 DEF UnwrittenStep
<1>3. LedgerKept' /\ RecordSound' /\ PathKept' /\ LimitsTold'
  BY <1>2, UnwrittenKeeps
<1>4. RunTyped' /\ ProgressTyped' /\ Underway'
  BY <1>1 DEF RunTyped, ProgressTyped, Underway
<1>5. Phases'
  BY <1>1 DEF Phases, Sweeping, Total
<1>6. SweptSoFar' /\ SearchedSoFar'
  BY <1>1 DEF Phases, SweptSoFar, SearchedSoFar, Sweeping, Swept, Written, Tried
<1> QED
  BY <1>3, <1>4, <1>5, <1>6

LEMMA StopKeeps ==
  ASSUME EngineInv, pc \in {"turn", "enumerate", "try", "sweepEnumerate"}, StopIfStopped
  PROVE  EngineInv'
<1>1. StopReason \in {"WALL_BUDGET_EXHAUSTED", "REDUCTION_CANCELLED"}
  BY DEF StopReason
<1> QED
  BY <1>1, LimitedKeeps DEF StopIfStopped

LEMMA ClockKeeps ==
  ASSUME EngineInv, Expire \/ Cancel \/ UNCHANGED vars
  PROVE  EngineInv'
<1> USE DEF EngineInv
<1>1. /\ UNCHANGED <<pc, limits, finalState>>
      /\ UNCHANGED <<current, round, todo, proposalsUsed, trialsUsed, entries, accepted, ledger>>
      /\ expired' \in BOOLEAN /\ cancelled' \in BOOLEAN
  BY DEF Expire, Cancel, progress, vars, RunTyped
<1>2. LedgerKept' /\ RecordSound' /\ PathKept' /\ LimitsTold'
  BY <1>1, UnwrittenKeeps DEF UnwrittenStep
<1>3. RunTyped' /\ ProgressTyped' /\ Underway'
  BY <1>1 DEF RunTyped, ProgressTyped, Underway, Written
<1>4. Phases' /\ SweptSoFar' /\ SearchedSoFar'
  BY <1>1 DEF Phases, Smaller, Sweeping, Total, SweptSoFar, SearchedSoFar, Swept, Written, Tried
<1> QED
  BY <1>2, <1>3, <1>4

LEMMA SearchTurnKeeps == ASSUME EngineInv, SearchTurn PROVE EngineInv'
<1> USE DEF EngineInv
<1>1. CASE StopIfStopped
  BY <1>1, StopKeeps DEF SearchTurn
<1>2. CASE pc' = "enumerate" /\ UNCHANGED <<progress, limits, finalState, expired, cancelled>>
  <2>1. /\ pc = "turn" /\ pc' = "enumerate"
        /\ UNCHANGED <<current, round, todo, proposalsUsed, trialsUsed, entries, accepted, ledger>>
        /\ UNCHANGED <<limits, finalState, expired, cancelled>>
    BY <1>2 DEF SearchTurn, progress
  <2>2. LedgerKept' /\ RecordSound' /\ PathKept' /\ LimitsTold'
    BY <2>1, UnwrittenKeeps DEF UnwrittenStep
  <2>3. RunTyped' /\ ProgressTyped' /\ Underway'
    BY <2>1 DEF RunTyped, ProgressTyped, Underway, Written
  <2>4. Phases' /\ SweptSoFar' /\ SearchedSoFar'
    BY <2>1 DEF Phases, Sweeping, Total, SweptSoFar, SearchedSoFar, Swept, Written, Tried
  <2> QED
    BY <2>2, <2>3, <2>4
<1> QED
  BY <1>1, <1>2 DEF SearchTurn

LEMMA EnumerateKeeps == ASSUME EngineInv, Enumerate PROVE EngineInv'
<1> USE DEF EngineInv
<1>1. CASE StopIfStopped
  BY <1>1, StopKeeps DEF Enumerate
<1>2. CASE /\ EndLimited("", "NEIGHBOR_ENUMERATION_FAILED")
           /\ UNCHANGED <<progress, finalState, expired, cancelled>>
  BY <1>2, LimitedKeeps DEF Enumerate
<1>3. CASE /\ round' \in SUBSET Smaller(current) /\ todo' = round' /\ pc' = "try"
           /\ UNCHANGED <<current, proposalsUsed, trialsUsed, entries, accepted, ledger, limits,
                          finalState, expired, cancelled>>
  <2>1. pc = "enumerate"
    BY DEF Enumerate
  <2>2. LedgerKept' /\ RecordSound' /\ PathKept' /\ LimitsTold'
    BY <1>3, UnwrittenKeeps DEF UnwrittenStep
  <2>3. RunTyped' /\ ProgressTyped' /\ Underway'
    BY <1>3, <2>1 DEF RunTyped, ProgressTyped, Underway, Written, Smaller
  <2>4. Phases' /\ SweptSoFar' /\ SearchedSoFar'
    BY <1>3, <2>1 DEF Phases, Smaller, Sweeping, Total, SweptSoFar, SearchedSoFar, Swept, Written,
      Tried
  <2> QED
    BY <2>2, <2>3, <2>4
<1> QED
  BY <1>1, <1>2, <1>3 DEF Enumerate

LEMMA BeginSweepKeeps == ASSUME EngineInv, BeginSweep PROVE EngineInv'
<1> USE DEF EngineInv
<1>1. /\ pc = "try" /\ todo = {} /\ finalState = "NOT_RUN"
      /\ finalState' = "INCOMPLETE" /\ pc' = "sweepEnumerate"
      /\ UNCHANGED <<current, round, todo, proposalsUsed, trialsUsed, entries, accepted, ledger>>
      /\ UNCHANGED <<limits, expired, cancelled>>
  BY DEF BeginSweep, progress, Sweeping
<1>2. LedgerKept' /\ RecordSound' /\ PathKept' /\ LimitsTold'
  BY <1>1, UnwrittenKeeps DEF UnwrittenStep
<1>3. RunTyped' /\ ProgressTyped' /\ Underway'
  BY <1>1 DEF RunTyped, ProgressTyped, Underway, Written
<1>4. Phases' /\ SweptSoFar' /\ SearchedSoFar'
  BY <1>1 DEF Phases, Smaller, Sweeping, Total, SweptSoFar, SearchedSoFar, Swept, Written, Tried
<1> QED
  BY <1>2, <1>3, <1>4

LEMMA SweepEnumerateKeeps == ASSUME EngineInv, SweepEnumerate PROVE EngineInv'
<1> USE DEF EngineInv
<1>1. CASE StopIfStopped
  BY <1>1, StopKeeps DEF SweepEnumerate
<1>2. CASE /\ EndLimited("", "FINAL_SWEEP_ENUMERATION_FAILED")
           /\ UNCHANGED <<progress, finalState, expired, cancelled>>
  BY <1>2, LimitedKeeps DEF SweepEnumerate
<1>3. CASE /\ EndLimited("", "FINAL_SWEEP_ENUMERATION_STALE")
           /\ UNCHANGED <<progress, finalState, expired, cancelled>>
  BY <1>3, LimitedKeeps DEF SweepEnumerate
<1>4. CASE /\ todo' = round /\ pc' = "try"
           /\ UNCHANGED <<current, round, proposalsUsed, trialsUsed, entries, accepted, ledger,
                          limits, finalState, expired, cancelled>>
  <2>1. pc = "sweepEnumerate"
    BY DEF SweepEnumerate
  <2>2. LedgerKept' /\ RecordSound' /\ PathKept' /\ LimitsTold'
    BY <1>4, UnwrittenKeeps DEF UnwrittenStep
  <2>3. RunTyped' /\ ProgressTyped' /\ Underway'
    BY <1>4, <2>1 DEF RunTyped, ProgressTyped, Underway, Written
  <2>4. Phases' /\ SearchedSoFar'
    BY <1>4, <2>1 DEF Phases, Smaller, Sweeping, Total, SearchedSoFar, Written, Tried
  <2>5. SweptSoFar'
    BY <1>4, <2>1 DEF Phases, Sweeping, SweptSoFar, Swept, Written
  <2> QED
    BY <2>2, <2>3, <2>4, <2>5
<1> QED
  BY <1>1, <1>2, <1>3, <1>4 DEF SweepEnumerate

LEMMA BeginEvaluationKeeps == ASSUME EngineInv, BeginEvaluation PROVE EngineInv'
<1> USE DEF EngineInv
<1>1. CASE StopIfStopped
  BY <1>1, StopKeeps DEF BeginEvaluation
<1>2. CASE /\ EndLimited("", "PROPOSAL_BUDGET_EXHAUSTED")
           /\ UNCHANGED <<progress, finalState, expired, cancelled>>
  BY <1>2, LimitedKeeps DEF BeginEvaluation
<1>3. CASE /\ EndLimited("", "CANDIDATE_TRIAL_BUDGET_EXHAUSTED")
           /\ UNCHANGED <<progress, finalState, expired, cancelled>>
  BY <1>3, LimitedKeeps DEF BeginEvaluation
<1>4. CASE /\ proposalsUsed < ProposalLimit /\ trialsUsed < TrialLimit
           /\ proposalsUsed' = proposalsUsed + 1 /\ pc' = "evaluate"
           /\ UNCHANGED <<current, round, todo, trialsUsed, entries, accepted, ledger, limits,
                          finalState, expired, cancelled>>
  <2>1. pc = "try" /\ todo # {}
    BY DEF BeginEvaluation
  <2>2. LedgerKept' /\ RecordSound' /\ PathKept' /\ LimitsTold'
    BY <1>4, UnwrittenKeeps DEF UnwrittenStep
  <2>3. RunTyped' /\ ProgressTyped' /\ Underway'
    <3>1. RunTyped' /\ Underway'
      BY <1>4, <2>1 DEF RunTyped, Underway, Written
    <3>2. proposalsUsed' \in 0 .. ProposalLimit
      BY <1>4, ReductionAssumption DEF ProgressTyped, ReductionAssumption
    <3>3. Len(entries) = proposalsUsed /\ proposalsUsed \in Nat
      BY <2>1 DEF ProgressTyped
    <3>4. Len(entries') = proposalsUsed' - (IF pc' \in {"evaluate", "failed"} THEN 1 ELSE 0)
      BY <1>4, <3>3
    <3> QED
      BY <1>4, <3>1, <3>2, <3>4 DEF ProgressTyped
  <2>4. Phases' /\ SweptSoFar' /\ SearchedSoFar'
    BY <1>4, <2>1 DEF Phases, Smaller, Sweeping, Total, SweptSoFar, SearchedSoFar, Swept, Written,
      Tried
  <2> QED
    BY <2>2, <2>3, <2>4
<1> QED
  BY <1>1, <1>2, <1>3, <1>4 DEF BeginEvaluation

LEMMA CompleteSweepKeeps == ASSUME EngineInv, CompleteSweep PROVE EngineInv'
<1> USE DEF EngineInv
<1>1. CASE StopIfStopped
  BY <1>1, StopKeeps DEF CompleteSweep
<1>2. CASE /\ finalState' = "COMPLETE" /\ pc' = "done"
           /\ UNCHANGED <<progress, limits, expired, cancelled>>
  <2>1. /\ pc = "try" /\ todo = {} /\ Sweeping
        /\ UNCHANGED <<current, round, todo, proposalsUsed, trialsUsed, entries, accepted, ledger>>
    BY <1>2 DEF CompleteSweep, progress
  <2>2. LedgerKept' /\ RecordSound' /\ PathKept' /\ LimitsTold'
    BY <1>2, <2>1, UnwrittenKeeps DEF UnwrittenStep
  <2>3. RunTyped' /\ ProgressTyped' /\ Underway'
    BY <1>2, <2>1 DEF RunTyped, ProgressTyped, Underway, Written
  <2>4. Phases' /\ SweptSoFar' /\ SearchedSoFar'
    BY <1>2, <2>1 DEF Phases, Smaller, Sweeping, Total, SweptSoFar, SearchedSoFar, Swept, Written,
      Tried
  <2> QED
    BY <2>2, <2>3, <2>4
<1> QED
  BY <1>1, <1>2 DEF CompleteSweep

----------------------------------------------------------------------------
(* One entry more.                                                         *)

Accepting(e) == e.purpose = "REDUCTION" /\ e.decision = "PRESERVES"

LEMMA AppendFacts ==
  ASSUME entries \in Seq(EntryKind), NEW e \in EntryKind, entries' = Append(entries, e)
  PROVE  /\ Len(entries) \in Nat /\ Len(entries') = Len(entries) + 1
         /\ \A i \in Written : entries'[i] = entries[i] /\ entries[i] \in EntryKind
         /\ entries'[Len(entries) + 1] = e
         /\ entries' \in Seq(EntryKind)
         /\ Written' = Written \cup {Len(entries) + 1}
         /\ \A i \in Written : i \in Nat /\ i >= 1 /\ i <= Len(entries) /\ 1 .. i \subseteq Written
BY DEF Written

\* What is told of the entries up to one stays told.
LEMMA PrefixKept ==
  ASSUME entries \in Seq(EntryKind), NEW e \in EntryKind, entries' = Append(entries, e),
         NEW i \in 0 .. Len(entries)
  PROVE  /\ Total(i)' = Total(i) /\ EvidenceBefore(i + 1)' = EvidenceBefore(i + 1)
         /\ Preserving(i)' = Preserving(i) /\ Reached(i)' = Reached(i)
<1>1. i \in Nat /\ \A j \in 1 .. i : entries'[j] = entries[j]
  BY AppendFacts DEF Written
<1>2. i # 0 => i \in 1 .. i
  BY <1>1
<1>3. Total(i)' = Total(i)
  BY <1>1, <1>2 DEF Total
<1>4. EvidenceBefore(i + 1)' = EvidenceBefore(i + 1)
  <2>1. i + 1 - 1 = i
    BY <1>1
  <2>2. {entries'[j].evidence : j \in 1 .. i} = {entries[j].evidence : j \in 1 .. i}
    BY <1>1
  <2> QED
    BY <2>1, <2>2 DEF EvidenceBefore
<1>5. Preserving(i)' = Preserving(i)
  BY <1>1 DEF Preserving
<1>6. Reached(i)' = Reached(i)
  <2>1. Preserving(i) # {} => Max(Preserving(i)) \in 1 .. i
    <3>1. Preserving(i) \subseteq 1 .. i
      BY DEF Preserving
    <3> QED
      BY <1>1, <3>1, GreatestIsThere
  <2>2. (Reached(i))' = IF Preserving(i) = {} THEN Original
                        ELSE entries'[Max(Preserving(i))].neighbor
    BY <1>5 DEF Reached
  <2> QED
    BY <1>1, <2>1, <2>2 DEF Reached
<1> QED
  BY <1>3, <1>4, <1>5, <1>6

\* What the new entry adds to it.
LEMMA LastAdds ==
  ASSUME entries \in Seq(EntryKind), NEW e \in EntryKind, entries' = Append(entries, e),
         NEW n, n = Len(entries)
  PROVE  /\ Total(n + 1)' = e.total
         /\ EvidenceBefore(n + 2)' = EvidenceBefore(n + 1) \cup e.evidence
         /\ Preserving(n + 1)' = IF Accepting(e) THEN Preserving(n) \cup {n + 1} ELSE Preserving(n)
         /\ Reached(n + 1)' = IF Accepting(e) THEN e.neighbor ELSE Reached(n)
<1>1. /\ n \in Nat /\ entries'[n + 1] = e
      /\ \A j \in 1 .. n : entries'[j] = entries[j]
  BY AppendFacts DEF Written
<1>2. Total(n + 1)' = e.total
  BY <1>1 DEF Total
<1>3. EvidenceBefore(n + 2)' = EvidenceBefore(n + 1) \cup e.evidence
  <2>1. n + 2 - 1 = n + 1 /\ n + 1 - 1 = n /\ 1 .. n + 1 = (1 .. n) \cup {n + 1}
    BY <1>1
  <2>2. {entries'[j].evidence : j \in 1 .. n + 1} =
          {entries[j].evidence : j \in 1 .. n} \cup {e.evidence}
    BY <1>1, <2>1
  <2>3. EvidenceBefore(n + 2)' = {0} \cup UNION {entries'[j].evidence : j \in 1 .. n + 1}
    BY <2>1 DEF EvidenceBefore
  <2>4. EvidenceBefore(n + 1) = {0} \cup UNION {entries[j].evidence : j \in 1 .. n}
    BY <2>1 DEF EvidenceBefore
  <2> QED
    BY <2>2, <2>3, <2>4
<1>4. Preserving(n + 1)' = IF Accepting(e) THEN Preserving(n) \cup {n + 1} ELSE Preserving(n)
  <2>1. 1 .. n + 1 = (1 .. n) \cup {n + 1}
    BY <1>1
  <2> QED
    BY <1>1, <2>1 DEF Preserving, Accepting
<1>5. Reached(n + 1)' = IF Accepting(e) THEN e.neighbor ELSE Reached(n)
  <2>1. Preserving(n) \subseteq 1 .. n
    BY DEF Preserving
  <2>2. CASE Accepting(e)
    <3>1. Preserving(n + 1)' = Preserving(n) \cup {n + 1}
      BY <1>4, <2>2
    <3>2. n + 1 \in Preserving(n) \cup {n + 1} /\ Preserving(n) \cup {n + 1} \subseteq Int
          /\ \A x \in Preserving(n) \cup {n + 1} : x <= n + 1
      BY <1>1, <2>1
    <3>3. Max(Preserving(n) \cup {n + 1}) = n + 1
      BY <3>2, GreatestIs
    <3> QED
      BY <1>1, <2>2, <3>1, <3>3 DEF Reached
  <2>3. CASE ~Accepting(e)
    <3>1. Preserving(n + 1)' = Preserving(n)
      BY <1>4, <2>3
    <3>2. Preserving(n) # {} => Max(Preserving(n)) \in 1 .. n
      BY <1>1, <2>1, GreatestIsThere
    <3>3. Reached(n + 1)' = IF Preserving(n) = {} THEN Original
                            ELSE entries'[Max(Preserving(n))].neighbor
      BY <3>1 DEF Reached
    <3> QED
      BY <1>1, <2>3, <3>2, <3>3 DEF Reached
  <2> QED
    BY <2>2, <2>3
<1> QED
  BY <1>2, <1>3, <1>4, <1>5

\* What is common to every evaluation that is recorded, and how it goes on.
Records(e) ==
  /\ pc = "evaluate" /\ e \in EntryKind /\ Sound(e, e.trials)
  /\ e.parent = current /\ e.neighbor \in todo
  /\ e.purpose = IF Sweeping THEN "FINAL_SWEEP" ELSE "REDUCTION"
  /\ e.count = proposalsUsed /\ e.total = trialsUsed + e.trials /\ e.total <= MaxTrials
  /\ entries' = Append(entries, e) /\ ledger' = ledger \cup e.evidence
  /\ \E m \in ledger' : \A x \in ledger' : x <= m
  /\ trialsUsed' = e.total /\ todo' = todo \ {e.neighbor}
  /\ UNCHANGED <<round, proposalsUsed, finalState, expired, cancelled>>

GoesOn(e) ==
  \/ /\ e.reason \in Refusals
     /\ limits' = limits \cup {<<"", e.reason>>} /\ pc' = "done"
     /\ UNCHANGED <<current, accepted>>
  \/ /\ e.reason \notin Refusals /\ ~Sweeping /\ e.decision = "PRESERVES"
     /\ current' = e.neighbor
     /\ accepted' = Append(accepted, <<e.parent, e.neighbor>>)
     /\ limits' = limits /\ pc' = "turn"
  \/ /\ e.reason \notin Refusals /\ e.decision = "CHANGES"
     /\ limits' = limits /\ pc' = "try"
     /\ UNCHANGED <<current, accepted>>
  \/ /\ e.reason \notin Refusals /\ ~Sweeping /\ e.decision = "UNRESOLVED"
     /\ limits' = limits \cup {<<"UNRESOLVED", e.reason>>} /\ pc' = "try"
     /\ UNCHANGED <<current, accepted>>
  \/ /\ e.reason \notin Refusals /\ Sweeping /\ e.decision = "UNRESOLVED"
     /\ limits' = limits \cup {<<"FINAL_SWEEP", e.reason>>} /\ pc' = "done"
     /\ UNCHANGED <<current, accepted>>
  \/ /\ e.reason \notin Refusals /\ Sweeping /\ e.decision = "PRESERVES"
     /\ limits' = limits \cup {<<"", "FINAL_SWEEP_PRESERVING_NEIGHBOR">>} /\ pc' = "done"
     /\ UNCHANGED <<current, accepted>>

LEMMA EvaluationRecords ==
  ASSUME EngineInv, EvaluationEnds
  PROVE  \/ \E e : Records(e) /\ GoesOn(e)
         \/ pc = "evaluate" /\ pc' = "failed"
            /\ UNCHANGED <<progress, limits, finalState, expired, cancelled>>
<1> USE DEF EngineInv
<1>1. PICK o \in Observations :
        \/ /\ pc' = "failed" /\ UNCHANGED <<progress, limits>>
        \/ LET result == Evaluation(o) IN
           /\ o.trials <= MaxTrials - trialsUsed
           /\ trialsUsed' = trialsUsed + o.trials
           /\ entries' = Append(entries, Entry(o, result))
           /\ ledger' = ledger \cup result.evidence
           /\ todo' = todo \ {Min(todo)}
           /\ UNCHANGED <<round, proposalsUsed>>
           /\ \/ /\ result.reason \in Refusals
                 /\ EndLimited("", result.reason)
                 /\ UNCHANGED <<current, accepted>>
              \/ result.reason \notin Refusals /\ ~Sweeping /\ SearchContinues(result)
              \/ result.reason \notin Refusals /\ Sweeping /\ SweepContinues(result)
  BY DEF EvaluationEnds
<1>2. pc = "evaluate" /\ UNCHANGED <<finalState, expired, cancelled>>
  BY DEF EvaluationEnds
<1>3. CASE pc' = "failed" /\ UNCHANGED <<progress, limits>>
  BY <1>2, <1>3
<1> DEFINE r == Evaluation(o)
<1> DEFINE e == Entry(o, r)
<1>4. ASSUME /\ o.trials <= MaxTrials - trialsUsed
             /\ trialsUsed' = trialsUsed + o.trials
             /\ entries' = Append(entries, e)
             /\ ledger' = ledger \cup r.evidence
             /\ todo' = todo \ {Min(todo)}
             /\ UNCHANGED <<round, proposalsUsed>>,
             \/ /\ r.reason \in Refusals
                /\ EndLimited("", r.reason)
                /\ UNCHANGED <<current, accepted>>
             \/ r.reason \notin Refusals /\ ~Sweeping /\ SearchContinues(r)
             \/ r.reason \notin Refusals /\ Sweeping /\ SweepContinues(r)
      PROVE  Records(e) /\ GoesOn(e)
  <2>1. /\ Sound(r, o.trials) /\ r.evidence \in {{}, o.evidence}
        /\ o.trials \in Nat /\ trialsUsed \in Nat /\ proposalsUsed \in Nat /\ MaxTrials \in Nat
    <3>1. Sound(r, o.trials) /\ r.evidence \in {{}, o.evidence}
      BY EvaluationSound
    <3>2. o.trials \in Nat
      BY EvidenceTyped
    <3>3. trialsUsed \in Nat /\ proposalsUsed \in Nat /\ MaxTrials \in Nat
      BY ReductionAssumption DEF ProgressTyped, ReductionAssumption
    <3> QED
      BY <3>1, <3>2, <3>3
  <2>2. /\ r.decision \in Decisions /\ r.reason \in Reasons /\ r.mapped \in BOOLEAN
        /\ r.evidence \in SUBSET Nat
    BY <2>1 DEF Sound
  <2>3. Min(todo) \in todo /\ Min(todo) \in Stimuli /\ current \in Stimuli
    <3>1. todo \subseteq Nat /\ todo # {} /\ todo \subseteq Stimuli
      BY <1>2 DEF ProgressTyped, Phases
    <3> QED
      BY <3>1, LeastIsThere DEF ProgressTyped
  <2>4. /\ e.parent = current /\ e.neighbor = Min(todo)
        /\ e.purpose = IF Sweeping THEN "FINAL_SWEEP" ELSE "REDUCTION"
        /\ e.decision = r.decision /\ e.reason = r.reason /\ e.mapped = r.mapped
        /\ e.evidence = r.evidence /\ e.count = proposalsUsed
        /\ e.trials = o.trials /\ e.total = trialsUsed + o.trials
    BY DEF Entry
  <2>5. e \in EntryKind
    <3>1. trialsUsed + o.trials \in Nat
      BY <2>1
    <3> HIDE DEF r
    <3> QED
      BY <2>1, <2>2, <2>3, <3>1 DEF Entry, EntryKind
  <2>6. \E m \in ledger' : \A x \in ledger' : x <= m
    <3>1. CASE r.evidence = {}
      BY <1>4, <3>1 DEF LedgerKept
    <3>2. CASE r.evidence = o.evidence
      <4>1. ledger' = ledger \cup o.evidence
        BY <1>4, <3>2
      <4> QED
        BY <4>1, EvidenceTyped
    <3> QED
      BY <2>1, <3>1, <3>2
  <2>7. Sound(e, e.trials)
    <3> HIDE DEF e, r
    <3> QED
      BY <2>1, <2>4 DEF Sound
  <2> HIDE DEF e, r
  <2>8. e.total <= MaxTrials
    <3>1. o.trials <= MaxTrials - trialsUsed
      BY <1>4
    <3>2. trialsUsed + o.trials <= MaxTrials
      BY <2>1, <3>1
    <3> QED
      BY <2>4, <3>2
  <2>9. Records(e)
    BY <1>2, <1>4, <2>3, <2>4, <2>5, <2>6, <2>7, <2>8 DEF Records
  <2>10. GoesOn(e)
    <3>1. CASE r.reason \in Refusals /\ EndLimited("", r.reason) /\ UNCHANGED <<current, accepted>>
      BY <2>4, <3>1 DEF GoesOn, EndLimited
    <3>2. CASE r.reason \notin Refusals /\ ~Sweeping /\ SearchContinues(r)
      BY <2>4, <3>2 DEF GoesOn, SearchContinues
    <3>3. CASE r.reason \notin Refusals /\ Sweeping /\ SweepContinues(r)
      BY <2>4, <3>3 DEF GoesOn, SweepContinues, EndLimited
    <3> QED
      BY <1>4, <3>1, <3>2, <3>3
  <2> QED
    BY <2>9, <2>10
<1> QED
  BY <1>1, <1>3, <1>4

LEMMA AtTheEnd ==
  ASSUME NEW n, n = Len(entries')
  PROVE  /\ Total(Len(entries))' = Total(n)'
         /\ EvidenceBefore(Len(entries) + 1)' = EvidenceBefore(n + 1)'
         /\ Preserving(Len(entries))' = Preserving(n)'
         /\ Reached(Len(entries))' = Reached(n)'
BY DEF Total, EvidenceBefore, Preserving, Reached

LEMMA RecordsTyped ==
  ASSUME EngineInv, NEW e, Records(e), GoesOn(e)
  PROVE  /\ RunTyped' /\ ProgressTyped' /\ LedgerKept' /\ Phases' /\ Underway'
         /\ Len(entries') = proposalsUsed
<1> USE DEF EngineInv
<1>0. /\ entries \in Seq(EntryKind) /\ e \in EntryKind /\ entries' = Append(entries, e)
      /\ pc = "evaluate" /\ e.neighbor \in todo /\ todo' = todo \ {e.neighbor}
      /\ UNCHANGED <<round, proposalsUsed, finalState, expired, cancelled>>
  BY DEF ProgressTyped, Records
<1>1. /\ Len(entries) \in Nat /\ Len(entries') = Len(entries) + 1
      /\ \A i \in Written : entries'[i] = entries[i]
      /\ entries'[Len(entries) + 1] = e /\ entries' \in Seq(EntryKind)
      /\ Written' = Written \cup {Len(entries) + 1}
  BY <1>0, AppendFacts
<1>2. Len(entries') = proposalsUsed
  BY <1>0, <1>1 DEF ProgressTyped
<1>3. pc' \in {"turn", "try", "done"}
  BY DEF GoesOn
<1>4. RunTyped'
  BY <1>0, <1>3 DEF RunTyped
<1>5. /\ e.total \in Nat /\ e.trials \in Nat /\ e.parent \in Stimuli /\ e.neighbor \in Stimuli
      /\ e.evidence \subseteq Nat /\ trialsUsed' = e.total /\ e.total <= MaxTrials
  BY <1>0 DEF EntryKind, Records
<1>6. current' \in Stimuli /\ accepted' \in Seq(Stimuli \X Stimuli)
  <2>1. CASE UNCHANGED <<current, accepted>>
    BY <2>1 DEF ProgressTyped
  <2>2. CASE current' = e.neighbor /\ accepted' = Append(accepted, <<e.parent, e.neighbor>>)
    <3>1. accepted \in Seq(Stimuli \X Stimuli) /\ <<e.parent, e.neighbor>> \in Stimuli \X Stimuli
      BY <1>5 DEF ProgressTyped
    <3> QED
      BY <1>5, <2>2, <3>1
  <2> QED
    BY <2>1, <2>2 DEF GoesOn
<1>7. ProgressTyped'
  <2>1. ledger' \subseteq Nat
    BY <1>5 DEF ProgressTyped, Records
  <2>2. trialsUsed' \in 0 .. MaxTrials
    BY <1>5
  <2>3. round' \subseteq Stimuli /\ todo' \subseteq round' /\ proposalsUsed' \in 0 .. ProposalLimit
    BY <1>0 DEF ProgressTyped
  <2>4. Len(entries') = proposalsUsed' - (IF pc' \in {"evaluate", "failed"} THEN 1 ELSE 0)
    BY <1>0, <1>2, <1>3, <2>3
  <2> QED
    BY <1>1, <1>6, <2>1, <2>2, <2>3, <2>4 DEF ProgressTyped
<1>8. PICK n \in Nat : n = Len(entries)
  BY <1>1
<1>9. LedgerKept'
  <2>1. /\ ledger = EvidenceBefore(n + 1) /\ ledger' = ledger \cup e.evidence
        /\ \E m \in ledger' : \A x \in ledger' : x <= m
    BY <1>8 DEF LedgerKept, Records
  <2>2. EvidenceBefore(n + 2)' = EvidenceBefore(n + 1) \cup e.evidence
    BY <1>0, <1>8, LastAdds
  <2>3. EvidenceBefore(Len(entries) + 1)' = EvidenceBefore(n + 2)'
    <3>1. n + 1 = Len(entries') /\ (n + 1) + 1 = n + 2
      BY <1>1, <1>8
    <3> QED
      BY <3>1, AtTheEnd
  <2> QED
    BY <2>1, <2>2, <2>3 DEF LedgerKept
<1>10. Phases'
  <2>1. trialsUsed' = Total(Len(entries))'
    <3>1. n + 1 = Len(entries') /\ Total(n + 1)' = e.total
      BY <1>0, <1>1, <1>8, LastAdds
    <3> QED
      BY <1>5, <3>1, AtTheEnd
  <2>2. pc' # "done" => trialsUsed' <= TrialLimit
    <3>1. SUFFICES ASSUME pc' # "done" PROVE e.total <= TrialLimit
      BY <1>5
    <3>2. e.reason # "EVALUATOR_EXCEEDED_CANDIDATE_TRIAL_BUDGET"
      BY <3>1 DEF GoesOn, Refusals
    <3>3. ~(e.trials > TrialLimit - trialsUsed)
      BY <3>2 DEF Records, Sound
    <3>4. trialsUsed \in Nat /\ e.total = trialsUsed + e.trials
      BY DEF ProgressTyped, Records
    <3> QED
      BY <1>5, <3>3, <3>4
  <2>3. pc' = "try" => round' \subseteq Smaller(current)'
    <3>1. round \subseteq Smaller(current) /\ round' = round
      BY <1>0 DEF Phases
    <3>2. pc' = "try" => current' = current
      BY DEF GoesOn
    <3> QED
      BY <3>1, <3>2 DEF Smaller
  <2>4. pc' = "turn" => ~Sweeping'
    BY <1>0 DEF GoesOn, Sweeping
  <2>5. finalState' # "COMPLETE"
    BY <1>0 DEF Phases
  <2> QED
    BY <1>3, <2>1, <2>2, <2>3, <2>4, <2>5 DEF Phases
<1>11. Underway'
  <2> SUFFICES ASSUME pc' # "done", NEW i \in Written'
               PROVE  /\ entries'[i].reason \notin Refusals
                      /\ entries'[i].purpose = "FINAL_SWEEP" => entries'[i].decision = "CHANGES"
    BY DEF Underway
  <2>1. CASE i \in Written
    BY <1>0, <1>1, <2>1 DEF Underway
  <2>2. CASE i = Len(entries) + 1
    <3>1. /\ e.reason \notin Refusals
          /\ e.purpose = "FINAL_SWEEP" => e.decision = "CHANGES"
      BY DEF GoesOn, Records
    <3> QED
      BY <1>1, <2>2, <3>1
  <2> QED
    BY <1>1, <2>1, <2>2
<1> QED
  BY <1>2, <1>4, <1>7, <1>9, <1>10, <1>11

\* Parsing accepts what was written before, and what is written now.
LEMMA RecordsSound ==
  ASSUME EngineInv, NEW e, Records(e), GoesOn(e)
  PROVE  RecordSound'
<1> USE DEF EngineInv
<1>0. /\ entries \in Seq(EntryKind) /\ e \in EntryKind /\ entries' = Append(entries, e)
      /\ pc = "evaluate" /\ e.neighbor \in todo /\ finalState' = finalState
  BY DEF ProgressTyped, Records
<1>1. PICK n \in Nat : n = Len(entries)
  BY <1>0, AppendFacts
<1>2. /\ Len(entries') = n + 1
      /\ \A i \in 1 .. n : entries'[i] = entries[i] /\ entries[i] \in EntryKind
      /\ entries'[n + 1] = e
      /\ Written = 1 .. n /\ Written' = (1 .. n) \cup {n + 1}
  BY <1>0, <1>1, AppendFacts DEF Written
<1>3. \A k \in 0 .. n :
        /\ Total(k)' = Total(k) /\ EvidenceBefore(k + 1)' = EvidenceBefore(k + 1)
        /\ Reached(k)' = Reached(k)
  BY <1>0, <1>1, PrefixKept
<1>4. ASSUME NEW i \in 1 .. n
      PROVE  Counted(i)' /\ Chained(i)' /\ Decided(i)' /\ Evidenced(i)'
  <2>1. Counted(i) /\ Chained(i) /\ Decided(i) /\ Evidenced(i)
    BY <1>2 DEF RecordSound
  <2>2. /\ i - 1 \in 0 .. n /\ (i - 1) + 1 = i /\ entries'[i] = entries[i]
        /\ \A j \in 1 .. i : entries'[j] = entries[j]
    BY <1>2
  <2>3. /\ Total(i - 1)' = Total(i - 1) /\ EvidenceBefore(i)' = EvidenceBefore(i)
        /\ Reached(i - 1)' = Reached(i - 1)
    BY <1>3, <2>2
  <2>4. Counted(i)' /\ Chained(i)' /\ Evidenced(i)'
    BY <2>1, <2>2, <2>3 DEF Counted, Chained, Evidenced
  <2>5. Decided(i)'
    <3>1. DecidedAlone(entries[i])
      BY <2>1, DecidedSplits
    <3>2. /\ entries[i].reason \notin Refusals
          /\ entries[i].purpose = "FINAL_SWEEP" => entries[i].decision = "CHANGES"
      BY <1>0, <1>2 DEF Underway
    <3>3. EndIsTold(entries[i], i = Len(entries'), finalState', limits')
      BY <3>2 DEF EndIsTold
    <3> QED
      BY <2>2, <3>1, <3>3, DecidedSplitsNext
  <2> QED
    BY <2>4, <2>5
<1>5. /\ e.parent = current /\ e.neighbor \in round /\ e.count = proposalsUsed
      /\ e.purpose = IF Sweeping THEN "FINAL_SWEEP" ELSE "REDUCTION"
      /\ e.total = trialsUsed + e.trials /\ e.total <= MaxTrials /\ Sound(e, e.trials)
      /\ e.trials \in Nat /\ trialsUsed \in Nat
  <2>1. e.trials \in Nat
    BY <1>0 DEF EntryKind
  <2>2. todo \subseteq round /\ trialsUsed \in Nat
    BY DEF ProgressTyped
  <2> QED
    BY <1>0, <2>1, <2>2 DEF Records
<1>6. /\ (n + 1) - 1 = n /\ n \in 0 .. n
  OBVIOUS
<1>7. Counted(n + 1)'
  <2>1. Total(n)' = trialsUsed /\ trialsUsed < TrialLimit
    BY <1>0, <1>1, <1>3, <1>6 DEF Phases
  <2>2. proposalsUsed = n + 1
    BY <1>2, RecordsTyped
  <2> QED
    BY <1>2, <1>5, <1>6, <2>1, <2>2 DEF Counted
<1>8. Chained(n + 1)'
  <2>1. Size[e.neighbor] < Size[e.parent]
    BY <1>0, <1>5 DEF Phases, Smaller
  <2>2. Reached(n)' = current
    BY <1>1, <1>3, <1>6 DEF PathKept
  <2>3. e.purpose = "REDUCTION" => \A j \in 1 .. n + 1 : entries'[j].purpose = "REDUCTION"
    <3>1. SUFFICES ASSUME e.purpose = "REDUCTION", NEW j \in 1 .. n
                   PROVE  entries[j].purpose = "REDUCTION"
      BY <1>2
    <3>2. Swept = {}
      BY <1>5, <3>1 DEF SweptSoFar
    <3> QED
      BY <1>2, <3>2 DEF Swept, EntryKind
  <2> QED
    BY <1>2, <1>5, <1>6, <2>1, <2>2, <2>3 DEF Chained
<1>9. Decided(n + 1)'
  <2>1. DecidedAlone(e)
    <3>1. (e.total > TrialLimit) = (e.trials > TrialLimit - trialsUsed)
      <4>1. e.total > TrialLimit <=> e.trials > TrialLimit - trialsUsed
        BY <1>5
      <4> QED
        BY <4>1
    <3> QED
      BY <1>5, <3>1 DEF Sound, DecidedAlone
  <2>2. finalState' # "COMPLETE" /\ (Sweeping => finalState' = "INCOMPLETE")
    BY <1>0 DEF Phases, Sweeping, RunTyped
  <2>3. e.reason \in Refusals => <<"", e.reason>> \in limits' /\ e.decision = "UNRESOLVED"
    BY <1>5 DEF GoesOn, Sound
  <2>4. e.purpose = "FINAL_SWEEP" /\ e.decision # "CHANGES" /\ e.reason \notin Refusals =>
          /\ e.decision = "UNRESOLVED" => <<"FINAL_SWEEP", e.reason>> \in limits'
          /\ e.decision # "UNRESOLVED" => <<"", "FINAL_SWEEP_PRESERVING_NEIGHBOR">> \in limits'
    BY <1>5 DEF GoesOn
  <2>5. EndIsTold(e, n + 1 = Len(entries'), finalState', limits')
    BY <1>2, <1>5, <2>2, <2>3, <2>4 DEF EndIsTold
  <2> QED
    BY <1>2, <2>1, <2>5, DecidedSplitsNext
<1>10. Evidenced(n + 1)'
  <2>1. EvidenceBefore(n + 1)' = ledger
    BY <1>1, <1>3, <1>6 DEF LedgerKept
  <2> QED
    BY <1>2, <1>5, <2>1 DEF Evidenced, Sound
<1> QED
  BY <1>2, <1>4, <1>7, <1>8, <1>9, <1>10 DEF RecordSound

\* The sweep has evaluated what is no longer to do, from where the search ended.
LEMMA RecordsSwept ==
  ASSUME EngineInv, NEW e, Records(e), GoesOn(e)
  PROVE  SweptSoFar' /\ SearchedSoFar'
<1> USE DEF EngineInv
<1>0. /\ entries \in Seq(EntryKind) /\ e \in EntryKind /\ entries' = Append(entries, e)
      /\ pc = "evaluate" /\ e.neighbor \in todo /\ todo' = todo \ {e.neighbor}
      /\ todo \subseteq round /\ round' = round /\ finalState' = finalState
      /\ e.parent = current
      /\ e.purpose = IF Sweeping THEN "FINAL_SWEEP" ELSE "REDUCTION"
  BY DEF ProgressTyped, Records
<1>1. PICK n \in Nat : n = Len(entries)
  BY <1>0, AppendFacts
<1>2. /\ Len(entries') = n + 1
      /\ \A i \in 1 .. n : entries'[i] = entries[i] /\ entries[i] \in EntryKind
      /\ entries'[n + 1] = e
      /\ Written = 1 .. n /\ Written' = (1 .. n) \cup {n + 1} /\ n + 1 \notin 1 .. n
  BY <1>0, <1>1, AppendFacts DEF Written
<1>3. finalState # "COMPLETE" /\ (Sweeping' <=> Sweeping) /\ pc' # "sweepEnumerate"
  BY <1>0 DEF Phases, Sweeping, GoesOn
<1>4. CASE ~Sweeping
  <2>1. Swept' = {}
    <3>1. Swept = {}
      BY <1>4 DEF SweptSoFar
    <3>2. \A i \in Written' : entries'[i].purpose # "FINAL_SWEEP"
      BY <1>0, <1>2, <1>4, <3>1 DEF Swept
    <3> QED
      BY <3>2 DEF Swept
  <2>2. SweptSoFar'
    BY <1>0, <1>3, <1>4, <2>1 DEF SweptSoFar
  <2>3. SearchedSoFar'
    <3> SUFFICES ASSUME pc' = "try", NEW x \in round \ todo' PROVE Tried(x)'
      BY <1>0, <1>3, <1>4 DEF SearchedSoFar, GoesOn
    <3>1. current' = current /\ e.decision \in {"CHANGES", "UNRESOLVED"}
      BY DEF GoesOn
    <3>2. CASE x = e.neighbor
      <4>1. n + 1 \in Written' /\ entries'[n + 1] = e
        BY <1>2
      <4> QED
        BY <1>0, <1>4, <3>1, <3>2, <4>1 DEF Tried
    <3>3. CASE x # e.neighbor
      <4>1. Tried(x)
        BY <1>0, <1>4, <3>3 DEF SearchedSoFar
      <4> QED
        BY <1>2, <3>1, <4>1 DEF Tried
    <3> QED
      BY <3>2, <3>3
  <2> QED
    BY <2>2, <2>3
<1>5. CASE Sweeping
  <2>1. current' = current
    BY <1>5 DEF GoesOn, Records
  <2>2. Swept' = Swept \cup {n + 1} /\ Swept \subseteq 1 .. n
    BY <1>0, <1>2, <1>5 DEF Swept
  <2>3. {entries[i].neighbor : i \in Swept} = round \ todo
    BY <1>0, <1>5 DEF SweptSoFar
  <2>4. {entries'[i].neighbor : i \in Swept'} = {entries[i].neighbor : i \in Swept} \cup {e.neighbor}
    BY <1>2, <2>2
  <2>5. {entries'[i].neighbor : i \in Swept'} = round' \ todo'
    BY <1>0, <2>3, <2>4
  <2>6. \A i \in Swept' : entries'[i].parent = current'
    BY <1>0, <1>2, <2>1, <2>2 DEF SweptSoFar
  <2>7. SweptSoFar'
    BY <1>3, <1>5, <2>5, <2>6 DEF SweptSoFar
  <2>8. SearchedSoFar'
    <3> SUFFICES ASSUME NEW x \in round PROVE Tried(x)'
      BY <1>0, <1>3, <1>5 DEF SearchedSoFar
    <3>1. Tried(x)
      BY <1>5 DEF SearchedSoFar
    <3> QED
      BY <1>2, <2>1, <3>1 DEF Tried
  <2> QED
    BY <2>7, <2>8
<1> QED
  BY <1>4, <1>5

LEMMA PreservingCounted ==
  ASSUME NEW i \in Nat
  PROVE  /\ IsFiniteSet(Preserving(i)) /\ Cardinality(Preserving(i)) \in Nat
         /\ i \in Preserving(i) => Cardinality(Preserving(i)) # 0
         /\ \A k \in 0 .. i : Cardinality(Preserving(k)) <= Cardinality(Preserving(i))
<1>1. /\ IsFiniteSet(1 .. i)
      /\ Preserving(i) \subseteq 1 .. i
  <2>1. IsFiniteSet(1 .. i)
    BY FS_Interval
  <2>2. Preserving(i) \subseteq 1 .. i
    BY DEF Preserving
  <2> QED
    BY <2>1, <2>2
<1>2. IsFiniteSet(Preserving(i))
  BY <1>1, FS_Subset
<1>3. Cardinality(Preserving(i)) \in Nat
  BY <1>2, FS_CardinalityType
<1>4. i \in Preserving(i) => Cardinality(Preserving(i)) # 0
  BY <1>2, FS_EmptySet
<1>5. ASSUME NEW k \in 0 .. i
      PROVE  Cardinality(Preserving(k)) <= Cardinality(Preserving(i))
  <2>1. Preserving(k) \subseteq Preserving(i)
    BY DEF Preserving
  <2> QED
    BY <1>2, <2>1, FS_Subset
<1> QED
  BY <1>2, <1>3, <1>4, <1>5

\* The accepted path grows with the entries that preserve the map.
LEMMA RecordsPath ==
  ASSUME EngineInv, NEW e, Records(e), GoesOn(e)
  PROVE  PathKept'
<1> USE DEF EngineInv
<1>0. /\ entries \in Seq(EntryKind) /\ e \in EntryKind /\ entries' = Append(entries, e)
      /\ pc = "evaluate" /\ e.neighbor \in round /\ e.parent = current
      /\ e.purpose = IF Sweeping THEN "FINAL_SWEEP" ELSE "REDUCTION"
      /\ Sound(e, e.trials) /\ accepted \in Seq(Stimuli \X Stimuli)
  BY DEF ProgressTyped, Records
<1>1. PICK n \in Nat : n = Len(entries)
  BY <1>0, AppendFacts
<1>2. /\ Len(entries') = n + 1 /\ entries'[n + 1] = e
      /\ \A i \in 1 .. n : entries'[i] = entries[i]
  BY <1>0, <1>1, AppendFacts DEF Written
<1>3. /\ \A k \in 0 .. n : Preserving(k)' = Preserving(k) /\ Reached(k)' = Reached(k)
      /\ Preserving(n + 1)' = IF Accepting(e) THEN Preserving(n) \cup {n + 1} ELSE Preserving(n)
      /\ Reached(n + 1)' = IF Accepting(e) THEN e.neighbor ELSE Reached(n)
  BY <1>0, <1>1, LastAdds, PrefixKept
<1>4. /\ Reached(Len(entries))' = Reached(n + 1)'
      /\ Preserving(Len(entries))' = Preserving(n + 1)'
  BY <1>2, AtTheEnd
<1>5. /\ current = Reached(n) /\ PathParses
      /\ accepted = <<>> => current = Original
      /\ accepted # <<>> => Size[current] < Size[Original]
  BY <1>1 DEF PathKept
<1>6. /\ Len(accepted) = Cardinality(Preserving(n)) /\ Preserving(n) \subseteq 1 .. n
      /\ \A i \in Preserving(n) : accepted[Cardinality(Preserving(i))] =
           <<entries[i].parent, entries[i].neighbor>>
  BY <1>1, <1>5 DEF PathParses, Preserving
<1>7. CASE Accepting(e)
  <2>1. /\ current' = e.neighbor
        /\ accepted' = Append(accepted, <<e.parent, e.neighbor>>)
    <3>1. e.reason \notin Refusals /\ ~Sweeping
      BY <1>0, <1>7 DEF Accepting, Sound
    <3> QED
      BY <1>7, <3>1 DEF Accepting, GoesOn
  <2> DEFINE c == Cardinality(Preserving(n))
  <2>2. c \in Nat /\ Len(accepted) = c
    BY <1>6, PreservingCounted
  <2>3. Cardinality(Preserving(n) \cup {n + 1}) = c + 1
    <3>1. IsFiniteSet(Preserving(n)) /\ n + 1 \notin Preserving(n)
      BY <1>6, PreservingCounted
    <3> QED
      BY <3>1, FS_AddElement
  <2>4. /\ Len(accepted') = c + 1 /\ accepted'[c + 1] = <<e.parent, e.neighbor>>
        /\ \A k \in 1 .. c : accepted'[k] = accepted[k]
        /\ accepted' # <<>>
    <3>1. <<e.parent, e.neighbor>> \in Stimuli \X Stimuli
      BY <1>0 DEF EntryKind
    <3> QED
      BY <1>0, <2>1, <2>2, <3>1
  <2>5. PathParses'
    <3>1. Len(accepted') = Cardinality(Preserving(Len(entries))')
      BY <1>3, <1>4, <1>7, <2>3, <2>4
    <3>2. ASSUME NEW i \in Preserving(n)
          PROVE  accepted'[Cardinality(Preserving(i)')] =
                   <<entries'[i].parent, entries'[i].neighbor>>
      <4>1. i \in 1 .. n /\ i \in Nat /\ i \in 0 .. n /\ i \in Preserving(i)
        BY <1>6 DEF Preserving
      <4>2. Cardinality(Preserving(i)) \in 1 .. c
        <5>1. Cardinality(Preserving(i)) \in Nat /\ Cardinality(Preserving(i)) # 0
          BY <4>1, PreservingCounted
        <5>2. Cardinality(Preserving(i)) <= c
          BY <4>1, PreservingCounted
        <5> QED
          BY <2>2, <5>1, <5>2
      <4> QED
        BY <1>2, <1>3, <1>6, <2>4, <4>1, <4>2
    <3>3. accepted'[Cardinality(Preserving(n + 1)')] =
            <<entries'[n + 1].parent, entries'[n + 1].neighbor>>
      BY <1>2, <1>3, <1>7, <2>3, <2>4
    <3>4. \A i \in Preserving(Len(entries))' :
            accepted'[Cardinality(Preserving(i)')] = <<entries'[i].parent, entries'[i].neighbor>>
      BY <1>3, <1>4, <1>7, <3>2, <3>3
    <3> QED
      BY <3>1, <3>4 DEF PathParses
  <2>6. Size[current'] < Size[Original]
    <3>1. Size[e.neighbor] < Size[current] /\ e.neighbor \in Stimuli /\ current \in Stimuli
      BY <1>0 DEF Phases, Smaller, ProgressTyped
    <3>2. Size[e.neighbor] \in Nat /\ Size[current] \in Nat /\ Size[Original] \in Nat
      BY <3>1
    <3>3. Size[current] <= Size[Original]
      BY <1>5, <3>2
    <3> QED
      BY <2>1, <3>1, <3>2, <3>3
  <2> QED
    BY <1>3, <1>4, <1>7, <2>1, <2>4, <2>5, <2>6 DEF PathKept
<1>8. CASE ~Accepting(e)
  <2>1. current' = current /\ accepted' = accepted
    BY <1>0, <1>8 DEF Accepting, GoesOn
  <2>2. PathParses'
    <3>1. Len(accepted') = Cardinality(Preserving(Len(entries))')
      BY <1>3, <1>4, <1>6, <1>8, <2>1
    <3>2. ASSUME NEW i \in Preserving(n)
          PROVE  accepted'[Cardinality(Preserving(i)')] =
                   <<entries'[i].parent, entries'[i].neighbor>>
      BY <1>2, <1>3, <1>6, <2>1
    <3>3. \A i \in Preserving(Len(entries))' :
            accepted'[Cardinality(Preserving(i)')] = <<entries'[i].parent, entries'[i].neighbor>>
      BY <1>3, <1>4, <1>8, <3>2
    <3> QED
      BY <3>1, <3>3 DEF PathParses
  <2> QED
    BY <1>3, <1>4, <1>5, <1>8, <2>1, <2>2 DEF PathKept
<1> QED
  BY <1>7, <1>8

\* Every limitation that needs an entry has the one that is written with it.
LEMMA RecordsLimits ==
  ASSUME EngineInv, NEW e, Records(e), GoesOn(e)
  PROVE  LimitsTold'
<1> USE DEF EngineInv
<1>0. /\ entries \in Seq(EntryKind) /\ e \in EntryKind /\ entries' = Append(entries, e)
      /\ e.purpose = IF Sweeping THEN "FINAL_SWEEP" ELSE "REDUCTION"
      /\ Sound(e, e.trials)
  BY DEF ProgressTyped, Records
<1>1. PICK n \in Nat : n = Len(entries)
  BY <1>0, AppendFacts
<1>2. /\ Len(entries') = n + 1 /\ entries'[n + 1] = e
      /\ \A i \in 1 .. n : entries'[i] = entries[i]
      /\ 1 .. n + 1 = (1 .. n) \cup {n + 1} /\ Written' = 1 .. n + 1 /\ Written = 1 .. n
  BY <1>0, <1>1, AppendFacts DEF Written
<1>3. UnresolvedIsLimited'
  <2> SUFFICES ASSUME limits' = {}, NEW i \in 1 .. n + 1
               PROVE  entries'[i].decision # "UNRESOLVED"
    BY <1>2 DEF UnresolvedIsLimited
  <2>1. limits = {} /\ e.decision # "UNRESOLVED"
    BY <1>0 DEF GoesOn, Sound
  <2> QED
    BY <1>2, <2>1 DEF LimitsTold, UnresolvedIsLimited
<1> DEFINE Told(limit) ==
      /\ limit[1] = "" /\ limit[2] \in Refusals =>
           \E i \in 1 .. n + 1 : entries'[i].reason = limit[2]
      /\ limit[1] = "FINAL_SWEEP" =>
           \E i \in 1 .. n + 1 :
             entries'[i].purpose = "FINAL_SWEEP" /\ entries'[i].reason = limit[2]
      /\ limit[2] = "FINAL_SWEEP_PRESERVING_NEIGHBOR" =>
           \E i \in 1 .. n + 1 :
             entries'[i].purpose = "FINAL_SWEEP" /\ entries'[i].decision = "PRESERVES"
<1>4. \A limit \in limits : Told(limit)
  <2>1. \A i \in 1 .. n : i \in 1 .. n + 1 /\ entries'[i] = entries[i]
    BY <1>2
  <2>2. LimitsHaveEntries /\ 1 .. n = 1 .. Len(entries)
    BY <1>1, <1>2 DEF LimitsTold
  <2> QED
    BY <2>1, <2>2 DEF LimitsHaveEntries
<1>5. ASSUME NEW limit \in limits' PROVE Told(limit)
  <2>1. n + 1 \in 1 .. n + 1
    BY <1>2
  <2>2. e.reason # "FINAL_SWEEP_PRESERVING_NEIGHBOR"
    BY <1>0 DEF Sound, Reasons, Refusals
  <2>3. CASE limit \in limits
    BY <1>4, <2>3
  <2>4. CASE limit = <<"", e.reason>>
    <3>1. limit[1] = "" /\ limit[2] = e.reason
      BY <2>4
    <3> QED
      BY <1>2, <2>1, <2>2, <3>1
  <2>5. CASE limit = <<"UNRESOLVED", e.reason>>
    <3>1. limit[1] = "UNRESOLVED" /\ limit[2] = e.reason
      BY <2>5
    <3> QED
      BY <2>2, <3>1
  <2>6. CASE limit = <<"FINAL_SWEEP", e.reason>> /\ Sweeping
    <3>1. limit[1] = "FINAL_SWEEP" /\ limit[2] = e.reason
      BY <2>6
    <3> QED
      BY <1>0, <1>2, <2>1, <2>2, <2>6, <3>1
  <2>7. CASE /\ limit = <<"", "FINAL_SWEEP_PRESERVING_NEIGHBOR">>
             /\ Sweeping /\ e.decision = "PRESERVES"
    <3>1. limit[1] = "" /\ limit[2] = "FINAL_SWEEP_PRESERVING_NEIGHBOR"
      BY <2>7
    <3>2. limit[2] \notin Refusals
      BY <3>1 DEF Refusals
    <3> QED
      BY <1>0, <1>2, <2>1, <2>7, <3>1, <3>2
  <2> QED
    BY <2>3, <2>4, <2>5, <2>6, <2>7 DEF GoesOn
<1>6. LimitsHaveEntries'
  BY <1>2, <1>5 DEF LimitsHaveEntries
<1> QED
  BY <1>3, <1>6 DEF LimitsTold

LEMMA EvaluationEndsKeeps == ASSUME EngineInv, EvaluationEnds PROVE EngineInv'
<1>1. ASSUME NEW e, Records(e), GoesOn(e) PROVE EngineInv'
  BY <1>1, RecordsTyped, RecordsSound, RecordsSwept, RecordsPath, RecordsLimits DEF EngineInv
<1>2. CASE /\ pc = "evaluate" /\ pc' = "failed"
           /\ UNCHANGED <<progress, limits, finalState, expired, cancelled>>
  <2> USE DEF EngineInv
  <2>1. UNCHANGED <<current, round, todo, proposalsUsed, trialsUsed, entries, accepted, ledger>>
    BY <1>2 DEF progress
  <2>2. LedgerKept' /\ RecordSound' /\ PathKept' /\ LimitsTold'
    BY <1>2, <2>1, UnwrittenKeeps DEF UnwrittenStep
  <2>3. RunTyped' /\ ProgressTyped' /\ Underway'
    BY <1>2, <2>1 DEF RunTyped, ProgressTyped, Underway, Written
  <2>4. Phases' /\ SweptSoFar' /\ SearchedSoFar'
    BY <1>2, <2>1 DEF Phases, Sweeping, Total, SweptSoFar, SearchedSoFar, Swept, Written, Tried
  <2> QED
    BY <2>2, <2>3, <2>4
<1> QED
  BY <1>1, <1>2, EvaluationRecords

----------------------------------------------------------------------------
(* The theorems.                                                           *)

LEMMA InitKeeps == Init => EngineInv
<1> SUFFICES ASSUME Init PROVE EngineInv
  OBVIOUS
<1>1. /\ pc = "turn" /\ current = Original /\ round = {} /\ todo = {}
      /\ proposalsUsed = 0 /\ trialsUsed = 0 /\ entries = <<>> /\ accepted = <<>>
      /\ ledger = {0} /\ limits = {} /\ finalState = "NOT_RUN"
      /\ expired = FALSE /\ cancelled = FALSE
  BY DEF Init
<1>2. Len(entries) = 0 /\ Written = {} /\ 1 .. 0 = {}
  BY <1>1 DEF Written
<1>3. Preserving(0) = {} /\ Reached(0) = Original /\ Total(0) = 0
  BY <1>2 DEF Preserving, Reached, Total
<1>4. EvidenceBefore(0 + 1) = {0}
  <2>1. {entries[j].evidence : j \in 1 .. (0 + 1) - 1} = {}
    BY <1>2
  <2> QED
    BY <2>1 DEF EvidenceBefore
<1>5. RunTyped
  BY <1>1 DEF RunTyped
<1>6. ProgressTyped
  <2>1. entries \in Seq(EntryKind) /\ accepted \in Seq(Stimuli \X Stimuli)
    BY <1>1
  <2>2. current \in Stimuli /\ round \subseteq Stimuli /\ todo \subseteq round
    BY <1>1, ReductionAssumption DEF ReductionAssumption
  <2>3. proposalsUsed \in 0 .. ProposalLimit /\ trialsUsed \in 0 .. MaxTrials
    BY <1>1, ReductionAssumption DEF ReductionAssumption
  <2>4. Len(entries) = proposalsUsed - (IF pc \in {"evaluate", "failed"} THEN 1 ELSE 0)
    <3>1. pc \notin {"evaluate", "failed"}
      BY <1>1
    <3>2. Len(entries) = 0 /\ proposalsUsed = 0
      BY <1>1, <1>2
    <3>3. (IF pc \in {"evaluate", "failed"} THEN 1 ELSE 0) = 0
      BY <3>1
    <3>4. Len(entries) = proposalsUsed - 0
      BY ONLY <3>2
    <3> QED
      BY ONLY <3>3, <3>4
  <2>5. ledger \subseteq Nat
    BY <1>1
  <2> QED
    BY <2>1, <2>2, <2>3, <2>4, <2>5 DEF ProgressTyped
<1>7. LedgerKept
  BY <1>1, <1>2, <1>4 DEF LedgerKept
<1>8. Phases
  BY <1>1, <1>2, <1>3 DEF Phases, Sweeping
<1>9. RecordSound /\ Underway
  BY <1>2 DEF RecordSound, Underway
<1>10. SweptSoFar /\ SearchedSoFar
  BY <1>1, <1>2 DEF SweptSoFar, SearchedSoFar, Swept, Sweeping
<1>11. PathKept
  <2>1. Cardinality(Preserving(0)) = 0 /\ Len(accepted) = 0
    BY <1>1, <1>3, FS_EmptySet
  <2> QED
    BY <1>1, <1>2, <1>3, <2>1 DEF PathKept, PathParses
<1>12. LimitsTold
  BY <1>1, <1>2 DEF LimitsTold, LimitsHaveEntries, UnresolvedIsLimited
<1> QED
  BY <1>5, <1>6, <1>7, <1>8, <1>9, <1>10, <1>11, <1>12 DEF EngineInv

LEMMA StepKeeps == EngineInv /\ [Next]_vars => EngineInv'
BY ClockKeeps, SearchTurnKeeps, EnumerateKeeps, BeginSweepKeeps, SweepEnumerateKeeps,
  BeginEvaluationKeeps, EvaluationEndsKeeps, CompleteSweepKeeps DEF Next, EngineSteps

LEMMA Invariance == Spec => []EngineInv
BY InitKeeps, StepKeeps, PTL DEF Spec

\* Type correctness of a run, and that it keeps to its proposal budget, for
\* every stimulus set, measure and budget.
THEOREM EngineTypeOK == Spec => []TypeOK
BY Typing, Invariance, PTL

\* The record a run finishes with is accepted when it is parsed back, whatever
\* the evaluator and the enumerator answered and whenever the run was stopped.
THEOREM FinishedRecordsParse == Spec => []RecordParses
<1>1. ASSUME EngineInv, pc = "done"
      PROVE  ParseTranscriptRecord /\ ParseReductionRunRecord
  <2> USE DEF EngineInv
  <2>1. Len(entries) <= ProposalLimit
    <3>1. Len(entries) = proposalsUsed /\ proposalsUsed \in 0 .. ProposalLimit
      BY <1>1 DEF ProgressTyped
    <3> QED
      BY <3>1
  <2>2. \A i \in 1 .. Len(entries) : Counted(i) /\ Chained(i) /\ Decided(i) /\ Evidenced(i)
    BY <1>1 DEF RecordSound, Written
  <2>3. LimitsHaveEntries /\ PathParses
    BY <1>1 DEF LimitsTold, PathKept
  <2>4. SweepParses
    <3>1. finalState = "COMPLETE" => round = {entries[i].neighbor : i \in Swept}
      BY <1>1 DEF Phases, SweptSoFar
    <3>2. finalState = "NOT_RUN" => Swept = {}
      BY <1>1 DEF SweptSoFar, Sweeping
    <3> QED
      BY <3>1, <3>2 DEF SweepParses, FinalNeighbors, Swept, Written
  <2>5. (accepted = <<>>) = (current = Original)
    <3>1. accepted # <<>> => current # Original
      <4>1. Size[Original] \in Nat
        OBVIOUS
      <4> QED
        BY <1>1, <4>1 DEF PathKept
    <3> QED
      BY <1>1, <3>1 DEF PathKept
  <2>6. ParseReductionRunRecord
    BY <1>1, <2>5 DEF PathKept, ParseReductionRunRecord
  <2> QED
    BY <2>1, <2>2, <2>3, <2>4, <2>6 DEF ParseTranscriptRecord
<1>2. EngineInv => RecordParses
  BY <1>1 DEF RecordParses
<1> QED
  BY <1>2, Invariance, PTL

\* What an entry changed the map on, and that two such entries share none of it.
LEMMA EvidenceIsItsOwn ==
  ASSUME EngineInv, NEW i \in Written, NEW j \in Written, i # j
  PROVE  entries[i].evidence \cap entries[j].evidence = {}
<1>1. i \in Nat /\ j \in Nat /\ i >= 1 /\ j >= 1
  BY DEF Written
<1>2. Evidenced(i) /\ Evidenced(j)
  BY DEF EngineInv, RecordSound
<1>3. CASE i < j
  <2>1. i \in 1 .. j - 1
    BY <1>1, <1>3
  <2>2. entries[i].evidence \subseteq EvidenceBefore(j)
    BY <2>1 DEF EvidenceBefore
  <2> QED
    BY <1>2, <2>2 DEF Evidenced
<1>4. CASE j < i
  <2>1. j \in 1 .. i - 1
    BY <1>1, <1>4
  <2>2. entries[j].evidence \subseteq EvidenceBefore(i)
    BY <2>1 DEF EvidenceBefore
  <2> QED
    BY <1>2, <2>2 DEF Evidenced
<1> QED
  BY <1>1, <1>3, <1>4

\* A completed draft has tried every neighbour of its minimum twice, on evidence
\* of its own, and no evaluation of the run was left unresolved.
THEOREM DraftsAreMinimal == Spec => []DraftIsMinimal
<1>1. ASSUME EngineInv, Draft
      PROVE  /\ \A i \in Written : entries[i].decision # "UNRESOLVED"
             /\ \A n \in round : \E i, j \in Written :
                  /\ entries[i].purpose = "REDUCTION" /\ entries[j].purpose = "FINAL_SWEEP"
                  /\ \A k \in {i, j} : /\ entries[k].parent = current
                                       /\ entries[k].neighbor = n
                                       /\ entries[k].decision = "CHANGES"
                                       /\ entries[k].evidence # {}
                  /\ entries[i].evidence \cap entries[j].evidence = {}
  <2> USE DEF EngineInv
  <2>1. pc = "done" /\ finalState = "COMPLETE" /\ limits = {}
    BY <1>1 DEF Draft
  <2>2. \A i \in Written : entries[i].decision # "UNRESOLVED"
    BY <1>1, <2>1 DEF LimitsTold, UnresolvedIsLimited
  <2>3. ASSUME NEW k \in Written, entries[k].decision = "CHANGES"
        PROVE  entries[k].evidence # {}
    <3>1. entries[k].mapped /\ entries[k].trials > 0
          /\ entries[k].trials = Cardinality(entries[k].evidence)
      <4>1. Decided(k) /\ Evidenced(k)
        BY <1>1 DEF RecordSound
      <4>2. entries[k].mapped
        BY <2>3, <4>1 DEF Decided
      <4> QED
        BY <4>1, <4>2 DEF Evidenced
    <3> QED
      BY <3>1, FS_EmptySet
  <2>4. ASSUME NEW n \in round
        PROVE  \E i, j \in Written :
                  /\ entries[i].purpose = "REDUCTION" /\ entries[j].purpose = "FINAL_SWEEP"
                  /\ \A k \in {i, j} : /\ entries[k].parent = current
                                       /\ entries[k].neighbor = n
                                       /\ entries[k].decision = "CHANGES"
                                       /\ entries[k].evidence # {}
                  /\ entries[i].evidence \cap entries[j].evidence = {}
    <3>1. PICK i \in Written : /\ entries[i].purpose = "REDUCTION"
                               /\ entries[i].parent = current /\ entries[i].neighbor = n
                               /\ entries[i].decision = "CHANGES"
      BY <1>1, <2>1, <2>2 DEF SearchedSoFar, Sweeping, Tried
    <3>2. PICK j \in Swept : entries[j].neighbor = n
      BY <1>1, <2>1 DEF SweptSoFar, Phases
    <3>3. /\ j \in Written /\ entries[j].purpose = "FINAL_SWEEP"
          /\ entries[j].parent = current
      BY <1>1, <3>2 DEF Swept, SweptSoFar
    <3>4. entries[j].decision = "CHANGES"
      <4>1. Decided(j)
        BY <1>1, <3>3 DEF RecordSound
      <4> QED
        BY <2>1, <3>3, <4>1 DEF Decided
    <3>5. entries[i].evidence \cap entries[j].evidence = {}
      BY <1>1, <3>1, <3>3, EvidenceIsItsOwn
    <3> QED
      BY <2>3, <3>1, <3>2, <3>3, <3>4, <3>5
  <2> QED
    BY <2>2, <2>4
<1>2. EngineInv => DraftIsMinimal
  BY <1>1 DEF DraftIsMinimal, Written
<1> QED
  BY <1>2, Invariance, PTL
=============================================================================
