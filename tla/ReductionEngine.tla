--------------------------- MODULE ReductionEngine ---------------------------
(***************************************************************************)
(* One run of the reduction engine (internal/reduce): a greedy search for  *)
(* a smaller stimulus that preserves the baseline's outcome map, then a    *)
(* final sweep over the direct neighbours of what was found, under a       *)
(* proposal, a trial and a wall budget, with an evaluator and an           *)
(* enumerator that may answer anything and a caller that may cancel at any *)
(* moment.                                                                 *)
(*                                                                         *)
(* Stimuli are numbers in the order in which their proposals are sorted.   *)
(* The four kinds of evidence digests are one set of tokens per result: 0  *)
(* is the original baseline's, the others are counted up as they are used. *)
(***************************************************************************)
EXTENDS Integers, Sequences, FiniteSets, FiniteSetsExt

CONSTANTS
  Stimuli,        \* stimuli, numbered in proposal order
  Original,       \* the stimulus the run starts from
  Size,           \* the measure of each stimulus
  ProposalLimit, TrialLimit,  \* the budget
  MaxTrials,      \* maxTrialLimit: the largest trial count there may ever be
  Reported        \* bound: trials an evaluator reports for one proposal

ASSUME ReductionAssumption ==
  /\ Stimuli \subseteq Nat /\ IsFiniteSet(Stimuli)
  /\ Original \in Stimuli
  /\ Size \in [Stimuli -> Nat]
  /\ ProposalLimit \in Nat \ {0} /\ TrialLimit \in 1 .. MaxTrials
  /\ MaxTrials \in Nat /\ Reported \subseteq Nat /\ IsFiniteSet(Reported)

VARIABLES
  pc,
  current,        \* the smallest stimulus accepted so far
  round, todo,    \* proposals enumerated for it, and those not yet evaluated
  proposalsUsed, trialsUsed,
  entries,        \* the transcript: every evaluation recorded
  accepted,       \* its accepted path, <<parent, neighbour>> for a proposal
  ledger,         \* evidence admitted so far
  limits,         \* the run's limitations
  finalState,     \* the final sweep
  expired, cancelled

progress == <<current, round, todo, proposalsUsed, trialsUsed, entries, accepted, ledger>>
vars == <<pc, progress, limits, finalState, expired, cancelled>>

Refusals == {"EVALUATOR_EXCEEDED_CANDIDATE_TRIAL_BUDGET",
             "OBSERVED_MAP_WITHOUT_CANDIDATE_TRIALS",
             "UNRESOLVED_EVALUATION_MISSING_EVIDENCE",
             "INVALID_EVALUATOR_RESULT", "REUSED_EVALUATION_EVIDENCE"}

Init ==
  /\ pc = "turn"
  /\ current = Original
  /\ round = {} /\ todo = {}
  /\ proposalsUsed = 0 /\ trialsUsed = 0
  /\ entries = <<>> /\ accepted = <<>>
  /\ ledger = {0}
  /\ limits = {}
  /\ finalState = "NOT_RUN"
  /\ expired = FALSE /\ cancelled = FALSE

Stopped == expired \/ cancelled
StopReason == IF expired THEN "WALL_BUDGET_EXHAUSTED" ELSE "REDUCTION_CANCELLED"

\* The wall budget ends, or the caller cancels, at any moment.
Expire ==
  /\ pc \notin {"done", "failed"}
  /\ ~expired
  /\ expired' = TRUE
  /\ UNCHANGED <<pc, progress, limits, finalState, cancelled>>

Cancel ==
  /\ pc \notin {"done", "failed"}
  /\ ~cancelled
  /\ cancelled' = TRUE
  /\ UNCHANGED <<pc, progress, limits, finalState, expired>>

\* The run ends with a limitation; of says what the reason limits.
EndLimited(of, reason) ==
  /\ limits' = limits \cup {<<of, reason>>}
  /\ pc' = "done"

StopIfStopped ==
  /\ Stopped
  /\ EndLimited("", StopReason)
  /\ UNCHANGED <<progress, finalState, expired, cancelled>>

(***************************************************************************)
(* The search.                                                             *)
(***************************************************************************)
Sweeping == finalState # "NOT_RUN"
Smaller(s) == {n \in Stimuli : Size[n] < Size[s]}

SearchTurn ==
  /\ pc = "turn"
  /\ \/ StopIfStopped
     \/ /\ ~Stopped
        /\ pc' = "enumerate"
        /\ UNCHANGED <<progress, limits, finalState, expired, cancelled>>

\* The enumerator answers, or fails, or answers what enumerate refuses.
Enumerate ==
  /\ pc = "enumerate"
  /\ \/ StopIfStopped
     \/ /\ ~Stopped
        /\ EndLimited("", "NEIGHBOR_ENUMERATION_FAILED")
        /\ UNCHANGED <<progress, finalState, expired, cancelled>>
     \/ /\ ~Stopped
        /\ round' \in SUBSET Smaller(current)
        /\ todo' = round'
        /\ pc' = "try"
        /\ UNCHANGED <<current, proposalsUsed, trialsUsed, entries, accepted, ledger, limits,
                       finalState, expired, cancelled>>

\* No proposal of the round preserved the map: the final sweep enumerates again.
BeginSweep ==
  /\ pc = "try"
  /\ todo = {} /\ ~Sweeping
  /\ finalState' = "INCOMPLETE"
  /\ pc' = "sweepEnumerate"
  /\ UNCHANGED <<progress, limits, expired, cancelled>>

\* Mutant of SweepEnumerate: a stale enumeration starts the search over.
SweepStartsOver ==
  /\ pc = "sweepEnumerate"
  /\ \/ StopIfStopped
     \/ /\ ~Stopped
        /\ \/ EndLimited("", "FINAL_SWEEP_ENUMERATION_FAILED")
           \/ /\ \E proposals \in SUBSET Smaller(current) : proposals # round
              /\ pc' = "turn" /\ UNCHANGED limits
        /\ finalState' = "NOT_RUN"
        /\ UNCHANGED <<progress, expired, cancelled>>
     \/ /\ ~Stopped
        /\ todo' = round
        /\ pc' = "try"
        /\ UNCHANGED <<current, round, proposalsUsed, trialsUsed, entries, accepted, ledger,
                       limits, finalState, expired, cancelled>>

SweepEnumerate ==
  /\ pc = "sweepEnumerate"
  /\ \/ StopIfStopped
     \/ /\ ~Stopped
        /\ \/ EndLimited("", "FINAL_SWEEP_ENUMERATION_FAILED")
           \/ /\ \E proposals \in SUBSET Smaller(current) : proposals # round
              /\ EndLimited("", "FINAL_SWEEP_ENUMERATION_STALE")
        /\ UNCHANGED <<progress, finalState, expired, cancelled>>
     \/ /\ ~Stopped
        /\ todo' = round
        /\ pc' = "try"
        /\ UNCHANGED <<current, round, proposalsUsed, trialsUsed, entries, accepted, ledger,
                       limits, finalState, expired, cancelled>>

(***************************************************************************)
(* One evaluation.                                                         *)
(***************************************************************************)
\* Mutant of BeginEvaluation: a budget that is used up is not yet exhausted.
BeginBeyondBudget ==
  /\ pc = "try"
  /\ todo # {}
  /\ \/ StopIfStopped
     \/ /\ ~Stopped
        /\ proposalsUsed > ProposalLimit \/ trialsUsed > TrialLimit
        /\ EndLimited("", "PROPOSAL_BUDGET_EXHAUSTED")
        /\ UNCHANGED <<progress, finalState, expired, cancelled>>
     \/ /\ ~Stopped
        /\ proposalsUsed <= ProposalLimit /\ trialsUsed <= TrialLimit
        /\ proposalsUsed' = proposalsUsed + 1
        /\ pc' = "evaluate"
        /\ UNCHANGED <<current, round, todo, trialsUsed, entries, accepted, ledger, limits,
                       finalState, expired, cancelled>>

BeginEvaluation ==
  /\ pc = "try"
  /\ todo # {}
  /\ \/ StopIfStopped
     \/ /\ ~Stopped
        /\ \/ /\ proposalsUsed >= ProposalLimit
              /\ EndLimited("", "PROPOSAL_BUDGET_EXHAUSTED")
           \/ /\ proposalsUsed < ProposalLimit
              /\ trialsUsed >= TrialLimit
              /\ EndLimited("", "CANDIDATE_TRIAL_BUDGET_EXHAUSTED")
        /\ UNCHANGED <<progress, finalState, expired, cancelled>>
     \/ /\ ~Stopped
        /\ proposalsUsed < ProposalLimit /\ trialsUsed < TrialLimit
        /\ proposalsUsed' = proposalsUsed + 1
        /\ pc' = "evaluate"
        /\ UNCHANGED <<current, round, todo, trialsUsed, entries, accepted, ledger, limits,
                       finalState, expired, cancelled>>

\* An evaluator may hand back trials with evidence that is fresh, used before, or
\* none, and an outcome map (well formed for this proposal and purpose, or not), a
\* reason why there is none (a legal one, or not), or an error.
Maps == {"PRESERVES", "CHANGES", "UNRESOLVED", "MALFORMED"}
Fresh(n) == Max(ledger) + 1 .. Max(ledger) + n
Observations ==
  {o \in [outcome : Maps \cup {"NONE", "NO_REASON", "ERROR"},
          trials : Reported,
          evidence : {Fresh(n) : n \in Reported} \cup {{e} : e \in ledger}] :
     o.outcome \in Maps => o.evidence # {}}

\* Mutant of Reuses: only the baseline's evidence is looked up.
ReusesOriginal(evidence) == 0 \in evidence
Reuses(evidence) == evidence \cap ledger # {}

\* What is recorded of an observation.
Result(decision, reason, mapped, evidence) ==
  [decision |-> decision, reason |-> reason, mapped |-> mapped, evidence |-> evidence]

\* A result that breaks the protocol keeps the evidence that can be admitted.
ProtocolRefusal(reason, o) ==
  Result("UNRESOLVED", reason, FALSE, IF Reuses(o.evidence) THEN {} ELSE o.evidence)

MapReason(decision) ==
  CASE decision = "PRESERVES" -> "EXACT_PRESERVATION_MAP_MATCH"
    [] decision = "CHANGES" -> "EXACT_PRESERVATION_MAP_CHANGED"
    [] decision = "UNRESOLVED" -> "CANDIDATE_ELIGIBILITY_OR_ADMISSION_CHANGED"

\* The refusals in their order. A stop drops the map, never the trials.
Evaluation(o) ==
  LET mapped == o.outcome \in Maps /\ ~Stopped
      refusal ==
        IF o.trials > TrialLimit - trialsUsed THEN "EVALUATOR_EXCEEDED_CANDIDATE_TRIAL_BUDGET"
        ELSE IF mapped /\ o.trials = 0 THEN "OBSERVED_MAP_WITHOUT_CANDIDATE_TRIALS"
        ELSE IF mapped /\ o.trials # Cardinality(o.evidence) THEN "INVALID_EVALUATOR_RESULT"
        ELSE IF ~mapped /\ o.trials > 0 /\ o.evidence = {}
        THEN "UNRESOLVED_EVALUATION_MISSING_EVIDENCE"
        ELSE IF ~Stopped /\ o.outcome \in {"MALFORMED", "NO_REASON"}
        THEN "INVALID_EVALUATOR_RESULT"
        ELSE IF Reuses(o.evidence) THEN "REUSED_EVALUATION_EVIDENCE" ELSE ""
  IN IF refusal # "" THEN ProtocolRefusal(refusal, o)
     ELSE IF mapped THEN Result(o.outcome, MapReason(o.outcome), TRUE, o.evidence)
     ELSE Result("UNRESOLVED", IF Stopped THEN StopReason
                               ELSE IF o.outcome = "ERROR" THEN "EVALUATOR_ERROR"
                               ELSE "NO_OBSERVATION", FALSE, o.evidence)

Entry(o, result) ==
  [parent |-> current, neighbor |-> Min(todo),
   purpose |-> IF Sweeping THEN "FINAL_SWEEP" ELSE "REDUCTION",
   decision |-> result.decision, reason |-> result.reason, mapped |-> result.mapped,
   evidence |-> result.evidence, count |-> proposalsUsed,
   trials |-> o.trials, total |-> trialsUsed + o.trials]

\* What the search, and the final sweep, do with a recorded result that is not a
\* refusal.
SearchContinues(result) ==
  \/ /\ result.decision = "PRESERVES"
     /\ current' = Min(todo)
     /\ accepted' = Append(accepted, <<current, Min(todo)>>)
     /\ pc' = "turn"
     /\ UNCHANGED limits
  \/ /\ result.decision = "CHANGES"
     /\ pc' = "try"
     /\ UNCHANGED <<current, accepted, limits>>
  \/ /\ result.decision = "UNRESOLVED"
     /\ limits' = limits \cup {<<"UNRESOLVED", result.reason>>}
     /\ pc' = "try"
     /\ UNCHANGED <<current, accepted>>

SweepContinues(result) ==
  /\ \/ result.decision = "CHANGES" /\ pc' = "try" /\ UNCHANGED limits
     \/ result.decision = "UNRESOLVED" /\ EndLimited("FINAL_SWEEP", result.reason)
     \/ result.decision = "PRESERVES" /\ EndLimited("", "FINAL_SWEEP_PRESERVING_NEIGHBOR")
  /\ UNCHANGED <<current, accepted>>

\* The evaluator returns.
EvaluationEnds ==
  /\ pc = "evaluate"
  /\ \E o \in Observations :
       \/ /\ o.trials > MaxTrials - trialsUsed
          /\ pc' = "failed"
          /\ UNCHANGED <<progress, limits>>
       \/ LET result == Evaluation(o) IN
          /\ o.trials <= MaxTrials - trialsUsed
          /\ trialsUsed' = trialsUsed + o.trials
          /\ entries' = Append(entries, Entry(o, result))
          /\ ledger' = ledger \cup result.evidence
          /\ todo' = todo \ {Min(todo)}
          /\ UNCHANGED <<round, proposalsUsed>>
          /\ \/ /\ result.reason \in Refusals
                /\ EndLimited("", result.reason)
                /\ UNCHANGED <<current, accepted>>
             \/ result.reason \notin Refusals /\ ~Sweeping /\ SearchContinues(result)
             \/ result.reason \notin Refusals /\ Sweeping /\ SweepContinues(result)
  /\ UNCHANGED <<finalState, expired, cancelled>>

CompleteSweep ==
  /\ pc = "try"
  /\ todo = {} /\ Sweeping
  /\ \/ StopIfStopped
     \/ /\ ~Stopped
        /\ finalState' = "COMPLETE"
        /\ pc' = "done"
        /\ UNCHANGED <<progress, limits, expired, cancelled>>

EngineSteps ==
  \/ SearchTurn \/ Enumerate \/ BeginSweep \/ SweepEnumerate
  \/ BeginEvaluation \/ EvaluationEnds \/ CompleteSweep
Next == EngineSteps \/ Expire \/ Cancel

Spec == Init /\ [][Next]_vars
\* The enumerator and the evaluator return: both are handed the wall context.
FairSpec == Spec /\ WF_vars(EngineSteps)

\* CompletedSweepDraft: what claims that no direct neighbour preserves the map.
\* Mutant of Draft: the sweep alone decides.
DraftOfSweep == pc = "done" /\ finalState = "COMPLETE"
Draft == pc = "done" /\ finalState = "COMPLETE" /\ limits = {}

(***************************************************************************)
(* What is parsed back: ParseTranscriptRecord and ParseReductionRunRecord. *)
(***************************************************************************)
FinalNeighbors == IF finalState = "COMPLETE" THEN round ELSE {}
Total(i) == IF i = 0 THEN 0 ELSE entries[i].total
EvidenceBefore(i) == {0} \cup UNION {entries[j].evidence : j \in 1 .. i - 1}
Preserving(i) ==
  {j \in 1 .. i : entries[j].purpose = "REDUCTION" /\ entries[j].decision = "PRESERVES"}
\* The stimulus the first i entries lead to.
Reached(i) ==
  IF Preserving(i) = {} THEN Original ELSE entries[Max(Preserving(i))].neighbor

Counted(i) ==
  LET e == entries[i] IN
  /\ Total(i - 1) < TrialLimit
  /\ e.count = i
  /\ e.total = Total(i - 1) + e.trials
  /\ e.total <= MaxTrials

Chained(i) ==
  LET e == entries[i] IN
  /\ Size[e.neighbor] < Size[e.parent]
  /\ e.parent = Reached(i - 1)
  /\ e.purpose = "REDUCTION" => \A j \in 1 .. i : entries[j].purpose = "REDUCTION"

Decided(i) ==
  LET e == entries[i] IN
  /\ e.decision \in {"PRESERVES", "CHANGES"} => e.mapped
  /\ e.mapped => e.reason = MapReason(e.decision)
  /\ (e.total > TrialLimit) = (e.reason = "EVALUATOR_EXCEEDED_CANDIDATE_TRIAL_BUDGET")
  /\ e.reason \in Refusals =>
       /\ e.decision = "UNRESOLVED" /\ ~e.mapped
       /\ i = Len(entries)
       /\ finalState # "COMPLETE" /\ <<"", e.reason>> \in limits
  /\ e.purpose = "FINAL_SWEEP" /\ e.decision # "CHANGES" =>
       /\ i = Len(entries) /\ finalState = "INCOMPLETE"
       /\ e.reason \notin Refusals =>
            (IF e.decision = "UNRESOLVED" THEN <<"FINAL_SWEEP", e.reason>>
             ELSE <<"", "FINAL_SWEEP_PRESERVING_NEIGHBOR">>) \in limits

Evidenced(i) ==
  LET e == entries[i] IN
  /\ e.evidence \cap EvidenceBefore(i) = {}
  /\ e.mapped => e.trials > 0 /\ e.trials = Cardinality(e.evidence)
  /\ ~e.mapped /\ e.trials > 0 /\ e.reason \notin Refusals => e.evidence # {}
  /\ e.reason = "OBSERVED_MAP_WITHOUT_CANDIDATE_TRIALS" => e.trials = 0
  /\ e.reason = "UNRESOLVED_EVALUATION_MISSING_EVIDENCE" => e.trials > 0 /\ e.evidence = {}
  /\ e.reason = "REUSED_EVALUATION_EVIDENCE" => e.evidence = {}

LimitsHaveEntries ==
  \A limit \in limits :
    /\ limit[1] = "" /\ limit[2] \in Refusals =>
         \E i \in 1 .. Len(entries) : entries[i].reason = limit[2]
    /\ limit[1] = "FINAL_SWEEP" =>
         \E i \in 1 .. Len(entries) :
           entries[i].purpose = "FINAL_SWEEP" /\ entries[i].reason = limit[2]
    /\ limit[2] = "FINAL_SWEEP_PRESERVING_NEIGHBOR" =>
         \E i \in 1 .. Len(entries) :
           entries[i].purpose = "FINAL_SWEEP" /\ entries[i].decision = "PRESERVES"

\* The k-th accepted proposal is the k-th reduction that preserves the map.
PathParses ==
  /\ Len(accepted) = Cardinality(Preserving(Len(entries)))
  /\ \A i \in Preserving(Len(entries)) :
       accepted[Cardinality(Preserving(i))] = <<entries[i].parent, entries[i].neighbor>>

SweepParses ==
  LET swept == {i \in 1 .. Len(entries) : entries[i].purpose = "FINAL_SWEEP"} IN
  /\ finalState = "COMPLETE" => FinalNeighbors = {entries[i].neighbor : i \in swept}
  /\ finalState = "NOT_RUN" => swept = {}

ParseTranscriptRecord ==
  /\ Len(entries) <= ProposalLimit
  /\ \A i \in 1 .. Len(entries) : Counted(i) /\ Chained(i) /\ Decided(i) /\ Evidenced(i)
  /\ LimitsHaveEntries
  /\ PathParses
  /\ SweepParses

ParseReductionRunRecord ==
  /\ current = Reached(Len(entries))
  /\ (accepted = <<>>) = (current = Original)
  /\ accepted # <<>> => Size[current] < Size[Original]

(***************************************************************************)
(* Properties.                                                             *)
(***************************************************************************)
\* Types, and no run evaluates more proposals than its budget.
TypeOK ==
  /\ pc \in {"turn", "enumerate", "try", "sweepEnumerate", "evaluate", "done", "failed"}
  /\ current \in Stimuli /\ round \subseteq Stimuli /\ todo \subseteq round
  /\ proposalsUsed \in 0 .. ProposalLimit /\ trialsUsed \in 0 .. MaxTrials
  /\ Len(entries) = proposalsUsed - (IF pc \in {"evaluate", "failed"} THEN 1 ELSE 0)
  /\ accepted \in Seq(Stimuli \X Stimuli)
  /\ 0 \in ledger
  /\ finalState \in {"NOT_RUN", "INCOMPLETE", "COMPLETE"}
  /\ expired \in BOOLEAN /\ cancelled \in BOOLEAN

\* Whatever the evaluator and the enumerator answered and whenever the run was
\* stopped, the record finish writes is one that parsing accepts: a run is never
\* paid for and then unreadable.
RecordParses == pc = "done" => ParseTranscriptRecord /\ ParseReductionRunRecord

\* A completed sweep draft says that the minimized stimulus has no neighbour that
\* preserves the map: each proposal of the last round was tried twice, in the
\* search and again in the sweep, changed the map both times, on evidence of its
\* own, and no evaluation of the whole run was left unresolved.
DraftIsMinimal ==
  Draft =>
    /\ \A i \in 1 .. Len(entries) : entries[i].decision # "UNRESOLVED"
    /\ \A n \in round : \E i, j \in 1 .. Len(entries) :
         /\ entries[i].purpose = "REDUCTION" /\ entries[j].purpose = "FINAL_SWEEP"
         /\ \A k \in {i, j} : /\ entries[k].parent = current /\ entries[k].neighbor = n
                              /\ entries[k].decision = "CHANGES"
                              /\ entries[k].evidence # {}
         /\ entries[i].evidence \cap entries[j].evidence = {}

\* Every run ends, whatever the evaluator answers and the enumerator proposes.
RunEnds == <>(pc \in {"done", "failed"})

=============================================================================
