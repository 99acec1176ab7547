---------------------- MODULE ProcessSupervisionProofs ----------------------
(***************************************************************************)
(* Theorems of the supervision of one process, for every number of output  *)
(* streams (at least one), every capture limit, every amount of output and *)
(* every number of faults: its type invariant, that a clean close left     *)
(* nobody behind, that a result without a control is the whole behaviour   *)
(* and an exit of the child's own, and that the arbitration keeps its      *)
(* priority.                                                               *)
(*                                                                         *)
(* None of the last four is inductive: each is about the closed process,   *)
(* and what the close reports then was found many steps before.  What is   *)
(* inductive (SuperviseInv) says of each finding that the world can no     *)
(* longer undo it: an absent group stays absent, a drain that ended on its *)
(* own has read all there will be, a polled source was not visible when    *)
(* the turn began.                                                         *)
(***************************************************************************)
EXTENDS ProcessSupervision, TLAPS

----------------------------------------------------------------------------
(* The type invariant, by the actors whose steps can disturb its parts.    *)

ProcessTyped ==
  /\ leader \in {"running", "zombie", "reaped"}
  /\ descendant \in {"none", "member", "escaped"}
  /\ piped \in BOOLEAN /\ own \in BOOLEAN
  /\ doomed \subseteq {"leader", "descendant"}

OutputTyped ==
  /\ sent \in Counts /\ read \in Counts
  /\ \A s \in Streams : read[s] <= sent[s]
  /\ drain \in [Streams -> {"reading", "done", "late"}]
  /\ shut \subseteq Streams

GoroutinesTyped ==
  /\ writer \in {"absent", "writing", "complete", "failed"}
  /\ waitC \in {"none", "exited", "error", "taken"}
  /\ waited \in {"none", "exited", "error"}
  /\ stdinSeen \in {"none", "complete", "failed"}
  /\ reaped \in BOOLEAN
  /\ cancelled \in BOOLEAN /\ fired \in BOOLEAN /\ late \in BOOLEAN /\ aborting \in BOOLEAN

OwnerTyped ==
  /\ pc \in {"running", "closed"} \cup Arbitrating \cup TearingDown
  /\ visible \subseteq DOMAIN Rank
  /\ faults \in 0 .. MaxFaults

ResultTyped ==
  /\ result \in Results
  /\ result.termSent => result.preTerm = "PRESENT"
  /\ result.killSent => result.termSent

TypeInv ==
  /\ ProcessTyped /\ OutputTyped /\ GoroutinesTyped /\ OwnerTyped /\ ResultTyped

LEMMA Typing == TypeOK <=> TypeInv
BY DEF TypeOK, TypeInv, ProcessTyped, OutputTyped, GoroutinesTyped, OwnerTyped, ResultTyped

Closing == TearingDown \cup {"closed"}

(***************************************************************************)
(* The strengthening that makes the properties of the result inductive.    *)
(***************************************************************************)
\* Signals follow their authorisation, one after the other.
SignalsInOrder ==
  /\ pc \in {"running", "preTerm", "term"} \cup Arbitrating => ~result.termSent /\ ~result.killSent
  /\ pc = "term" => result.preTerm = "PRESENT"
  /\ pc \in {"grace", "kill"} => result.termSent

\* A wait result is of a reaped child, and a seen stdin result is the writer's.
ResultsAreFacts ==
  /\ waitC # "none" \/ waited # "none" \/ result.childWaited => leader = "reaped"
  /\ stdinSeen # "none" => stdinSeen = writer

\* A drain that ended on its own has read everything there will ever be.
DrainedIsDry ==
  /\ pc \notin {"snapshot", "finalProbe", "closed"} => shut = {}
  /\ \A s \in Streams : drain[s] = "done" /\ s \notin shut => ~HoldsPipes /\ read[s] = sent[s]
  /\ result.drained \subseteq Drained \ shut

\* An observed absence of the group is for good.
ProbedIsGone ==
  /\ result.probeClean => leader = "reaped" /\ descendant # "member"
  /\ ~result.owned => result.orphanRisk
  /\ pc = "closed" /\ ~result.orphanRisk =>
       result.childWaited /\ result.drained = Streams /\ result.probeClean

\* Without a primary control nobody has signalled the child, and once the
\* arbitration is over its exit is known.
UndecidedIsOwn ==
  /\ aborting => result.primary # ""
  /\ pc \in Arbitrating => result.primary = ""
  /\ result.primary = "" =>
       /\ pc \in Arbitrating \cup {"running"} =>
            "leader" \notin doomed /\ (leader # "running" => own)
       /\ pc \in Closing => leader = "reaped" /\ own

\* What the last steps of the close found complete stays complete.
WholeSoFar ==
  result.primary = "" =>
    /\ pc \in {"drains", "snapshot", "finalProbe", "closed"} => writer \in {"absent", "complete"}
    /\ pc \in {"finalProbe", "closed"} => \A s \in result.drained : read[s] <= Limit

\* What was visible when the turn began and is not yet polled is still there to
\* be found; what was polled was not visible.
TurnsPollAll ==
  /\ pc = "running" => visible = {}
  /\ pc = "output" =>
       /\ "OUTPUT_LIMIT" \in visible => \E s \in Streams : Overflowed(s)
       /\ "PROBE_TRANSPORT_ERROR" \in visible => stdinSeen = "failed"
  /\ pc \in {"cancel", "deadline", "select"} =>
       visible \subseteq {"CANCELLED", "TIMEOUT"}
  /\ pc \in {"output", "cancel"} => ("CANCELLED" \in visible => cancelled)
  /\ pc \in {"output", "cancel", "deadline"} => ("TIMEOUT" \in visible => fired)
  /\ pc = "deadline" => visible \subseteq {"TIMEOUT"}
  /\ pc = "select" => visible = {}

SuperviseInv ==
  /\ SignalsInOrder
  /\ ResultsAreFacts
  /\ DrainedIsDry
  /\ ProbedIsGone
  /\ UndecidedIsOwn
  /\ WholeSoFar
  /\ TurnsPollAll
  /\ PriorityKept

----------------------------------------------------------------------------
(* The ranks of the facts, and what an update of the result leaves alone.  *)

LEMMA Ranks ==
  /\ DOMAIN Rank = {"OUTPUT_LIMIT", "PROBE_TRANSPORT_ERROR", "CANCELLED", "TIMEOUT"}
  /\ Rank["OUTPUT_LIMIT"] = 1 /\ Rank["PROBE_TRANSPORT_ERROR"] = 2
  /\ Rank["CANCELLED"] = 3 /\ Rank["TIMEOUT"] = 4
BY DEF Rank

\* A result whose primary cause is set.
LEMMA PrimarySet ==
  ASSUME result \in Results, NEW cause \in {"", "START_ERROR"} \cup DOMAIN Rank,
         result' = [result EXCEPT !.primary = cause]
  PROVE  /\ result' \in Results /\ result'.primary = cause
         /\ UNCHANGED <<result.owned, result.preTerm, result.termSent, result.killSent,
                        result.childWaited, result.drained, result.probeClean,
                        result.orphanRisk>>
BY DEF Results

LEMMA ResultUncertain ==
  ASSUME result \in Results, result' = Uncertain
  PROVE  /\ result' \in Results /\ result'.orphanRisk
         /\ UNCHANGED <<result.primary, result.owned, result.preTerm, result.termSent,
                        result.killSent, result.childWaited, result.drained,
                        result.probeClean>>
BY DEF Results, Uncertain

\* The observation of the group before its first signal.
LEMMA Observed ==
  ASSUME result \in Results, NEW seen \in {"PRESENT", "ABSENT", "UNCERTAIN"},
         \/ result' = [result EXCEPT !.preTerm = seen]
         \/ result' = [Uncertain EXCEPT !.preTerm = seen]
  PROVE  /\ result' \in Results /\ result'.preTerm = seen
         /\ result.orphanRisk => result'.orphanRisk
         /\ UNCHANGED <<result.primary, result.owned, result.termSent, result.killSent,
                        result.childWaited, result.drained, result.probeClean>>
BY DEF Results, Uncertain

LEMMA Signalled ==
  ASSUME result \in Results
  PROVE  /\ result' = [result EXCEPT !.termSent = TRUE] =>
              /\ result' \in Results /\ result'.termSent
              /\ UNCHANGED <<result.primary, result.owned, result.preTerm, result.killSent,
                             result.childWaited, result.drained, result.probeClean,
                             result.orphanRisk>>
         /\ result' = [result EXCEPT !.killSent = TRUE] =>
              /\ result' \in Results /\ result'.killSent
              /\ UNCHANGED <<result.primary, result.owned, result.preTerm, result.termSent,
                             result.childWaited, result.drained, result.probeClean,
                             result.orphanRisk>>
BY DEF Results

LEMMA Waited ==
  ASSUME result \in Results, result' = [result EXCEPT !.childWaited = TRUE]
  PROVE  /\ result' \in Results /\ result'.childWaited
         /\ UNCHANGED <<result.primary, result.owned, result.preTerm, result.termSent,
                        result.killSent, result.drained, result.probeClean,
                        result.orphanRisk>>
BY DEF Results

\* An incomplete delivery is a control, unless there is one already.
LEMMA Collected ==
  ASSUME result \in Results, NEW complete \in BOOLEAN,
         \/ result' = StdinCollected(complete)
         \/ result' = [StdinCollected(complete) EXCEPT !.teardownError = TRUE,
                                                      !.orphanRisk = TRUE]
  PROVE  /\ result' \in Results
         /\ result'.primary = IF result.primary = "" /\ ~complete
                              THEN "PROBE_TRANSPORT_ERROR" ELSE result.primary
         /\ result.orphanRisk => result'.orphanRisk
         /\ UNCHANGED <<result.owned, result.preTerm, result.termSent, result.killSent,
                        result.childWaited, result.drained, result.probeClean>>
<1> DEFINE cause == IF result.primary = "" /\ ~complete
                    THEN "PROBE_TRANSPORT_ERROR" ELSE result.primary
<1>1. cause \in {"", "START_ERROR"} \cup DOMAIN Rank
  BY Ranks DEF Results
<1>2. StdinCollected(complete) = [result EXCEPT !.stdinComplete = complete, !.primary = cause]
  BY DEF StdinCollected, Results
<1> HIDE DEF cause
<1>3. CASE result' = StdinCollected(complete)
  BY <1>1, <1>2, <1>3 DEF Results, cause
<1>4. CASE result' = [StdinCollected(complete) EXCEPT !.teardownError = TRUE,
                                                     !.orphanRisk = TRUE]
  BY <1>1, <1>2, <1>4 DEF Results, cause
<1> QED
  BY <1>3, <1>4

LEMMA DrainsRecorded ==
  ASSUME result \in Results, CollectDrains
  PROVE  /\ result' \in Results /\ result'.drained = Drained
         /\ result.orphanRisk => result'.orphanRisk
         /\ UNCHANGED <<result.primary, result.owned, result.preTerm, result.termSent,
                        result.killSent, result.childWaited, result.probeClean>>
<1>1. Drained \in SUBSET Streams
  BY DEF Drained
<1> DEFINE error == result.teardownError \/ Drained # Streams
           risk == result.orphanRisk \/ Drained # Streams
<1>2. result' = [result EXCEPT !.drained = Drained, !.teardownError = error, !.orphanRisk = risk]
  BY DEF CollectDrains
<1>3. error \in BOOLEAN /\ risk \in BOOLEAN /\ (result.orphanRisk => risk)
  OBVIOUS
<1> HIDE DEF error, risk
<1> QED
  BY <1>1, <1>2, <1>3 DEF Results

LEMMA SnapshotTaken ==
  ASSUME result \in Results, Snapshot
  PROVE  /\ result' \in Results
         /\ result'.primary = IF result.primary = "" /\ \E s \in Streams : Overflowed(s)
                              THEN "OUTPUT_LIMIT" ELSE result.primary
         /\ UNCHANGED <<result.owned, result.preTerm, result.termSent, result.killSent,
                        result.childWaited, result.drained, result.probeClean,
                        result.orphanRisk>>
<1> DEFINE cause == IF result.primary = "" /\ \E s \in Streams : Overflowed(s)
                    THEN "OUTPUT_LIMIT" ELSE result.primary
<1>1. cause \in {"", "START_ERROR"} \cup DOMAIN Rank
  BY Ranks DEF Results
<1>2. result' = [result EXCEPT !.primary = cause]
  BY DEF Snapshot
<1> HIDE DEF cause
<1>3. result'.primary = cause
  BY <1>1, <1>2, PrimarySet
<1> QED
  BY <1>1, <1>2, <1>3, PrimarySet DEF cause

LEMMA AbortMarks ==
  ASSUME result \in Results, Abort
  PROVE  /\ result' \in Results
         /\ result'.primary = IF result.primary = "" THEN "START_ERROR" ELSE result.primary
         /\ UNCHANGED <<result.owned, result.preTerm, result.termSent, result.killSent,
                        result.childWaited, result.drained, result.probeClean,
                        result.orphanRisk>>
BY DEF Abort, Results

\* What a probe of the group shows: absence only of a group that is gone.
LEMMA ProbeShows ==
  ASSUME TypeInv, NEW outcome \in ProbeOutcomes, Seen(outcome)
  PROVE  /\ faults' \in 0 .. MaxFaults
         /\ outcome = "absent" => leader = "reaped" /\ descendant # "member"
BY BoundAssumption DEF TypeInv, ProcessTyped, OwnerTyped, Seen, GroupRuns

\* What the last probe concludes.
LEMMA ProbeConcludes ==
  ASSUME TypeInv, FinalProbe
  PROVE  /\ result' \in Results
         /\ result'.probeClean =>
              result.probeClean \/ (leader = "reaped" /\ descendant # "member")
         /\ result.orphanRisk => result'.orphanRisk
         /\ pc' = "closed" /\ ~result'.orphanRisk =>
              result'.childWaited /\ result'.drained = Streams /\ result'.probeClean
         /\ UNCHANGED <<result.primary, result.owned, result.preTerm, result.termSent,
                        result.killSent, result.childWaited, result.drained>>
<1>1. result \in Results
  BY DEF TypeInv, ResultTyped
<1>2. PICK outcome \in ProbeOutcomes :
        /\ Seen(outcome)
        /\ \/ /\ outcome = "absent"
              /\ Closed([result EXCEPT !.probeClean = TRUE])
           \/ /\ outcome \in {"present", "eperm"} /\ ~late
              /\ UNCHANGED <<result, pc>>
           \/ /\ outcome = "error" \/ (late /\ outcome \in {"present", "eperm"})
              /\ Closed([result EXCEPT !.teardownError = @ \/ outcome # "present"])
  BY DEF FinalProbe
<1>3. CASE outcome = "absent" /\ Closed([result EXCEPT !.probeClean = TRUE])
  <2>1. leader = "reaped" /\ descendant # "member"
    BY <1>2, <1>3, ProbeShows
  <2> QED
    BY ONLY <1>1, <1>3, <2>1 DEF Closed, Results
<1>4. CASE UNCHANGED <<result, pc>>
  BY <1>1, <1>4 DEF FinalProbe
<1>5. CASE Closed([result EXCEPT !.teardownError = @ \/ outcome # "present"])
  BY ONLY <1>1, <1>5 DEF Closed, Results
<1> QED
  BY <1>2, <1>3, <1>4, <1>5

----------------------------------------------------------------------------
(* What each part of the invariant is about.                               *)

LEMMA Undisturbed ==
  ASSUME TypeInv, SuperviseInv
  PROVE  /\ UNCHANGED group => ProcessTyped'
         /\ UNCHANGED output => OutputTyped'
         /\ UNCHANGED <<writer, waitC, clocks, received, aborting>> => GoroutinesTyped'
         /\ UNCHANGED <<pc, visible, faults>> => OwnerTyped'
         /\ UNCHANGED result => ResultTyped'
         /\ UNCHANGED <<pc, result>> => SignalsInOrder'
         /\ UNCHANGED <<leader, writer, waitC, waited, stdinSeen, result>> => ResultsAreFacts'
         /\ UNCHANGED <<leader, descendant, piped, output, pc, result>> => DrainedIsDry'
         /\ UNCHANGED <<leader, descendant, pc, result>> => ProbedIsGone'
         /\ UNCHANGED <<leader, doomed, own, aborting, pc, result>> => UndecidedIsOwn'
         /\ UNCHANGED <<read, writer, pc, result>> => WholeSoFar'
         /\ UNCHANGED <<read, cancelled, fired, stdinSeen, pc, visible>> => TurnsPollAll'
         /\ UNCHANGED <<pc, result, visible>> => PriorityKept'
<1>1. UNCHANGED group => ProcessTyped'
  BY DEF TypeInv, ProcessTyped, group
<1>2. UNCHANGED output => OutputTyped'
  BY DEF TypeInv, OutputTyped, output
<1>3. UNCHANGED <<writer, waitC, clocks, received, aborting>> => GoroutinesTyped'
  BY DEF TypeInv, GoroutinesTyped, clocks, received
<1>4. UNCHANGED <<pc, visible, faults>> => OwnerTyped'
  BY DEF TypeInv, OwnerTyped
<1>5. UNCHANGED result => ResultTyped'
  BY DEF TypeInv, ResultTyped
<1>6. UNCHANGED <<pc, result>> => SignalsInOrder'
  BY DEF SuperviseInv, SignalsInOrder
<1>7. UNCHANGED <<leader, writer, waitC, waited, stdinSeen, result>> => ResultsAreFacts'
  BY DEF SuperviseInv, ResultsAreFacts
<1>8. UNCHANGED <<leader, descendant, piped, output, pc, result>> => DrainedIsDry'
  BY DEF SuperviseInv, DrainedIsDry, Drained, HoldsPipes, output
<1>9. UNCHANGED <<leader, descendant, pc, result>> => ProbedIsGone'
  BY DEF SuperviseInv, ProbedIsGone
<1>10. UNCHANGED <<leader, doomed, own, aborting, pc, result>> => UndecidedIsOwn'
  <2>1. ASSUME UNCHANGED <<leader, doomed, own, aborting, pc, result>> PROVE UndecidedIsOwn'
    BY <2>1 DEF TypeInv, ProcessTyped, GoroutinesTyped, SuperviseInv, UndecidedIsOwn
  <2> QED
    BY <2>1
<1>11. UNCHANGED <<read, writer, pc, result>> => WholeSoFar'
  BY DEF SuperviseInv, WholeSoFar
<1>12. UNCHANGED <<read, cancelled, fired, stdinSeen, pc, visible>> => TurnsPollAll'
  BY DEF SuperviseInv, TurnsPollAll, Overflowed
<1>13. UNCHANGED <<pc, result, visible>> => PriorityKept'
  BY DEF SuperviseInv, PriorityKept
<1> QED
  BY <1>1, <1>2, <1>3, <1>4, <1>5, <1>6, <1>7, <1>8, <1>9, <1>10, <1>11, <1>12, <1>13

----------------------------------------------------------------------------
(* The steps.                                                              *)

USE DEF TypeInv, SuperviseInv, group, output, clocks, received, Arbitrating, TearingDown,
        Closing

\* A turn ends by a decision that nothing visible at its beginning outranks.
LEMMA DecisionKeeps ==
  ASSUME TypeInv, SuperviseInv, NEW cause \in DOMAIN Rank,
         pc \in {"output", "cancel", "deadline"}, Decide(cause),
         \A fact \in visible : Rank[cause] <= Rank[fact],
         UNCHANGED <<group, output, writer, waitC, clocks, aborting, stdinSeen, reaped,
                     visible, faults>>
  PROVE  (TypeInv /\ SuperviseInv)'
<1>a. /\ result' \in Results /\ result'.primary = cause
      /\ UNCHANGED <<result.owned, result.preTerm, result.termSent,
                     result.killSent, result.childWaited, result.drained,
                     result.probeClean, result.orphanRisk>>
  BY PrimarySet DEF Decide, ResultTyped
<1>b. /\ pc \in {"output", "cancel", "deadline"}
      /\ cause \in DOMAIN Rank
      /\ \A fact \in visible : Rank[cause] <= Rank[fact]
      /\ waited' = "none"
      /\ pc' = IF result.owned THEN "preTerm" ELSE "wait"
      /\ UNCHANGED <<group, output, writer, waitC, clocks, aborting, stdinSeen,
                     reaped, visible, faults>>
  BY DEF Decide, Teardown
<1>1. ProcessTyped' /\ OutputTyped'
  BY <1>a, <1>b, Undisturbed
<1>2. GoroutinesTyped'
  BY <1>a, <1>b DEF GoroutinesTyped
<1>3. OwnerTyped'
  BY <1>a, <1>b, Ranks DEF OwnerTyped
<1>4. ResultTyped'
  BY <1>a, <1>b, Ranks DEF ResultTyped, SignalsInOrder
<1>5. SignalsInOrder'
  BY <1>a, <1>b DEF OwnerTyped, ResultTyped, SignalsInOrder
<1>6. ResultsAreFacts'
  BY <1>a, <1>b DEF ProcessTyped, GoroutinesTyped, ResultsAreFacts
<1>7. ProbedIsGone'
  BY <1>a, <1>b DEF ProcessTyped, OwnerTyped, ResultTyped, ResultsAreFacts, ProbedIsGone
<1>8. UndecidedIsOwn'
  BY <1>a, <1>b, Ranks
    DEF ProcessTyped, GoroutinesTyped, OwnerTyped, SignalsInOrder, ResultsAreFacts,
      UndecidedIsOwn
<1>9. DrainedIsDry'
  BY <1>a, <1>b
    DEF ProcessTyped, OutputTyped, OwnerTyped, DrainedIsDry, Drained, HoldsPipes,
      Counts
<1>10. WholeSoFar'
  BY <1>a, <1>b
    DEF OutputTyped, OwnerTyped, GoroutinesTyped, ResultsAreFacts, DrainedIsDry,
      WholeSoFar, Overflowed, Counts, Drained
<1>11. TurnsPollAll'
  BY <1>a, <1>b
    DEF OutputTyped, OwnerTyped, GoroutinesTyped, TurnsPollAll, Overflowed,
      UndecidedIsOwn
<1>12. PriorityKept'
  BY <1>a, <1>b, Ranks DEF OwnerTyped, PriorityKept, TurnsPollAll
<1> QED
  BY <1>1, <1>2, <1>3, <1>4, <1>5, <1>6, <1>7, <1>8, <1>9, <1>10, <1>11, <1>12

\* The arbitration, and the abort it may race with.
LEMMA ArbitrationStep ==
  ASSUME TypeInv, SuperviseInv,
         LatchStdin \/ PollOutput \/ PollCancel \/ PollDeadline \/ SelectWait \/
         SelectOther \/ BeginClose \/ Abort
  PROVE  (TypeInv /\ SuperviseInv)'
<1>1. CASE LatchStdin
  <2>1. ProcessTyped' /\ OutputTyped' /\ ResultTyped'
    BY <1>1, Undisturbed DEF LatchStdin, StdinResult, Visible
  <2>2. GoroutinesTyped'
    BY <1>1 DEF LatchStdin, StdinResult, Visible, GoroutinesTyped
  <2>3. OwnerTyped' /\ SignalsInOrder'
    BY <1>1, Ranks
      DEF LatchStdin, StdinResult, Visible, OwnerTyped, ResultTyped, SignalsInOrder
  <2>4. ResultsAreFacts' /\ ProbedIsGone' /\ UndecidedIsOwn'
    BY <1>1
      DEF LatchStdin, StdinResult, Visible, ProcessTyped, GoroutinesTyped,
        ResultsAreFacts, OwnerTyped, ResultTyped, ProbedIsGone, SignalsInOrder,
        UndecidedIsOwn
  <2>5. DrainedIsDry' /\ WholeSoFar'
    BY <1>1
      DEF LatchStdin, StdinResult, Visible, ProcessTyped, OutputTyped, OwnerTyped,
        DrainedIsDry, Drained, HoldsPipes, Counts, GoroutinesTyped, ResultsAreFacts,
        WholeSoFar, Overflowed
  <2>6. TurnsPollAll' /\ PriorityKept'
    BY <1>1, Ranks
      DEF LatchStdin, StdinResult, Visible, OutputTyped, OwnerTyped,
        GoroutinesTyped, TurnsPollAll, Overflowed, UndecidedIsOwn, ResultsAreFacts,
        PriorityKept
  <2> QED
    BY <2>1, <2>2, <2>3, <2>4, <2>5, <2>6
<1>2. CASE PollOutput
  <2>1. CASE \E s \in Streams : Overflowed(s)
    <3>1. "OUTPUT_LIMIT" \in DOMAIN Rank /\ \A fact \in visible : Rank["OUTPUT_LIMIT"] <= Rank[fact]
      BY <1>2, <2>1, Ranks DEF PollOutput, OwnerTyped, TurnsPollAll
    <3>2. Decide("OUTPUT_LIMIT")
      BY <1>2, <2>1 DEF PollOutput
    <3> QED
      BY <1>2, <3>1, <3>2, DecisionKeeps DEF PollOutput
  <2>2. CASE ~(\E s \in Streams : Overflowed(s)) /\ stdinSeen = "failed"
    <3>1. "PROBE_TRANSPORT_ERROR" \in DOMAIN Rank /\ \A fact \in visible : Rank["PROBE_TRANSPORT_ERROR"] <= Rank[fact]
      BY <1>2, <2>2, Ranks DEF PollOutput, OwnerTyped, TurnsPollAll
    <3>2. Decide("PROBE_TRANSPORT_ERROR")
      BY <1>2, <2>2 DEF PollOutput
    <3> QED
      BY <1>2, <3>1, <3>2, DecisionKeeps DEF PollOutput
  <2>3. CASE ~(\E s \in Streams : Overflowed(s)) /\ stdinSeen # "failed"
    <3>a. /\ pc = "output" /\ pc' = "cancel"
          /\ ~(\E s \in Streams : Overflowed(s)) /\ stdinSeen # "failed"
          /\ UNCHANGED <<group, output, writer, waitC, clocks, aborting, received,
                         visible, faults, result>>
      BY <1>2, <2>3 DEF PollOutput
    <3>1. ProcessTyped' /\ OutputTyped' /\ GoroutinesTyped' /\ ResultTyped' /\
      ResultsAreFacts'
      BY <3>a, Undisturbed
    <3>2. OwnerTyped' /\ SignalsInOrder'
      BY <3>a, Ranks DEF OwnerTyped, ResultTyped, SignalsInOrder
    <3>3. ProbedIsGone' /\ UndecidedIsOwn'
      BY <3>a
        DEF ProcessTyped, OwnerTyped, ResultTyped, ResultsAreFacts, ProbedIsGone,
          GoroutinesTyped, SignalsInOrder, UndecidedIsOwn
    <3>4. DrainedIsDry' /\ WholeSoFar'
      BY <3>a
        DEF ProcessTyped, OutputTyped, OwnerTyped, DrainedIsDry, Drained,
          HoldsPipes, Counts, GoroutinesTyped, ResultsAreFacts, WholeSoFar,
          Overflowed
    <3>5. TurnsPollAll' /\ PriorityKept'
      BY <3>a, Ranks
        DEF OutputTyped, OwnerTyped, GoroutinesTyped, TurnsPollAll, Overflowed,
          UndecidedIsOwn, PriorityKept
    <3> QED
      BY <3>1, <3>2, <3>3, <3>4, <3>5
  <2> QED
    BY <2>1, <2>2, <2>3
<1>3. CASE PollCancel
  <2>1. CASE cancelled
    <3>1. "CANCELLED" \in DOMAIN Rank /\ \A fact \in visible : Rank["CANCELLED"] <= Rank[fact]
      BY <1>3, <2>1, Ranks DEF PollCancel, OwnerTyped, TurnsPollAll
    <3>2. Decide("CANCELLED")
      BY <1>3, <2>1 DEF PollCancel
    <3> QED
      BY <1>3, <3>1, <3>2, DecisionKeeps DEF PollCancel
  <2>2. CASE ~cancelled
    <3>a. /\ pc = "cancel" /\ pc' = "deadline" /\ ~cancelled
          /\ UNCHANGED <<group, output, writer, waitC, clocks, aborting, received,
                         visible, faults, result>>
      BY <1>3, <2>2 DEF PollCancel
    <3>1. ProcessTyped' /\ OutputTyped' /\ GoroutinesTyped' /\ ResultTyped' /\
      ResultsAreFacts'
      BY <3>a, Undisturbed
    <3>2. OwnerTyped' /\ SignalsInOrder'
      BY <3>a, Ranks DEF OwnerTyped, ResultTyped, SignalsInOrder
    <3>3. ProbedIsGone' /\ UndecidedIsOwn'
      BY <3>a
        DEF ProcessTyped, OwnerTyped, ResultTyped, ResultsAreFacts, ProbedIsGone,
          GoroutinesTyped, SignalsInOrder, UndecidedIsOwn
    <3>4. DrainedIsDry' /\ WholeSoFar'
      BY <3>a
        DEF ProcessTyped, OutputTyped, OwnerTyped, DrainedIsDry, Drained,
          HoldsPipes, Counts, GoroutinesTyped, ResultsAreFacts, WholeSoFar,
          Overflowed
    <3>5. TurnsPollAll' /\ PriorityKept'
      BY <3>a, Ranks
        DEF OutputTyped, OwnerTyped, GoroutinesTyped, TurnsPollAll, Overflowed,
          UndecidedIsOwn, PriorityKept
    <3> QED
      BY <3>1, <3>2, <3>3, <3>4, <3>5
  <2> QED
    BY <2>1, <2>2
<1>4. CASE PollDeadline
  <2>1. CASE fired
    <3>1. "TIMEOUT" \in DOMAIN Rank /\ \A fact \in visible : Rank["TIMEOUT"] <= Rank[fact]
      BY <1>4, <2>1, Ranks DEF PollDeadline, OwnerTyped, TurnsPollAll
    <3>2. Decide("TIMEOUT")
      BY <1>4, <2>1 DEF PollDeadline
    <3> QED
      BY <1>4, <3>1, <3>2, DecisionKeeps DEF PollDeadline
  <2>2. CASE ~fired
    <3>a. /\ pc = "deadline" /\ ~fired
          /\ \/ waited = "none" /\ pc' = "select"
             \/ waited # "none" /\ pc' \in {"preTerm", "wait"}
          /\ UNCHANGED <<group, output, writer, waitC, clocks, aborting, received,
                         visible, faults, result>>
      BY <1>4, <2>2 DEF PollDeadline, Teardown
    <3>1. ProcessTyped' /\ OutputTyped' /\ GoroutinesTyped' /\ ResultTyped' /\
      ResultsAreFacts'
      BY <3>a, Undisturbed
    <3>2. OwnerTyped' /\ SignalsInOrder'
      BY <3>a, Ranks DEF OwnerTyped, ResultTyped, SignalsInOrder
    <3>3. ProbedIsGone' /\ UndecidedIsOwn'
      BY <3>a
        DEF ProcessTyped, OwnerTyped, ResultTyped, ResultsAreFacts, ProbedIsGone,
          GoroutinesTyped, SignalsInOrder, UndecidedIsOwn
    <3>4. DrainedIsDry' /\ WholeSoFar'
      BY <3>a
        DEF ProcessTyped, OutputTyped, OwnerTyped, DrainedIsDry, Drained,
          HoldsPipes, Counts, GoroutinesTyped, ResultsAreFacts, WholeSoFar,
          Overflowed
    <3>5. TurnsPollAll'
      BY <3>a
        DEF OutputTyped, OwnerTyped, GoroutinesTyped, TurnsPollAll, Overflowed,
          UndecidedIsOwn
    <3>6. PriorityKept'
      BY <3>a, Ranks DEF OwnerTyped, PriorityKept, TurnsPollAll
    <3> QED
      BY <3>1, <3>2, <3>3, <3>4, <3>5, <3>6
  <2> QED
    BY <2>1, <2>2
<1>5. CASE SelectWait
  <2>1. ProcessTyped' /\ OutputTyped' /\ ResultTyped'
    BY <1>5, Undisturbed DEF SelectWait, TakeWait
  <2>2. GoroutinesTyped'
    BY <1>5 DEF SelectWait, TakeWait, GoroutinesTyped
  <2>3. OwnerTyped' /\ SignalsInOrder'
    BY <1>5 DEF SelectWait, TakeWait, OwnerTyped, ResultTyped, SignalsInOrder
  <2>4. ResultsAreFacts' /\ ProbedIsGone' /\ UndecidedIsOwn'
    BY <1>5
      DEF SelectWait, TakeWait, ProcessTyped, GoroutinesTyped, ResultsAreFacts,
        OwnerTyped, ResultTyped, ProbedIsGone, SignalsInOrder, UndecidedIsOwn
  <2>5. DrainedIsDry' /\ WholeSoFar'
    BY <1>5
      DEF SelectWait, TakeWait, ProcessTyped, OutputTyped, OwnerTyped, DrainedIsDry,
        Drained, HoldsPipes, Counts, GoroutinesTyped, ResultsAreFacts, WholeSoFar,
        Overflowed
  <2>6. TurnsPollAll' /\ PriorityKept'
    BY <1>5
      DEF SelectWait, TakeWait, OutputTyped, OwnerTyped, GoroutinesTyped,
        TurnsPollAll, Overflowed, UndecidedIsOwn, PriorityKept
  <2> QED
    BY <2>1, <2>2, <2>3, <2>4, <2>5, <2>6
<1>6. CASE SelectOther
  <2>1. ProcessTyped' /\ OutputTyped' /\ GoroutinesTyped' /\ ResultTyped' /\
    ResultsAreFacts'
    BY <1>6, Undisturbed DEF SelectOther
  <2>2. OwnerTyped' /\ SignalsInOrder'
    BY <1>6 DEF SelectOther, OwnerTyped, ResultTyped, SignalsInOrder
  <2>3. ProbedIsGone' /\ UndecidedIsOwn'
    BY <1>6
      DEF SelectOther, ProcessTyped, OwnerTyped, ResultTyped, ResultsAreFacts,
        ProbedIsGone, GoroutinesTyped, SignalsInOrder, UndecidedIsOwn
  <2>4. DrainedIsDry' /\ WholeSoFar'
    BY <1>6
      DEF SelectOther, ProcessTyped, OutputTyped, OwnerTyped, DrainedIsDry, Drained,
        HoldsPipes, Counts, GoroutinesTyped, ResultsAreFacts, WholeSoFar, Overflowed
  <2>5. TurnsPollAll' /\ PriorityKept'
    BY <1>6
      DEF SelectOther, OutputTyped, OwnerTyped, GoroutinesTyped, TurnsPollAll,
        Overflowed, UndecidedIsOwn, PriorityKept
  <2> QED
    BY <2>1, <2>2, <2>3, <2>4, <2>5
<1>7. CASE BeginClose
  <2>1. ProcessTyped' /\ OutputTyped' /\ GoroutinesTyped' /\ ResultTyped' /\
    ResultsAreFacts'
    BY <1>7, Undisturbed DEF BeginClose, Teardown
  <2>2. OwnerTyped' /\ SignalsInOrder'
    BY <1>7 DEF BeginClose, Teardown, OwnerTyped, ResultTyped, SignalsInOrder
  <2>3. ProbedIsGone' /\ UndecidedIsOwn'
    BY <1>7
      DEF BeginClose, Teardown, ProcessTyped, OwnerTyped, ResultTyped,
        ResultsAreFacts, ProbedIsGone, GoroutinesTyped, SignalsInOrder,
        UndecidedIsOwn
  <2>4. DrainedIsDry' /\ WholeSoFar'
    BY <1>7
      DEF BeginClose, Teardown, ProcessTyped, OutputTyped, OwnerTyped, DrainedIsDry,
        Drained, HoldsPipes, Counts, GoroutinesTyped, ResultsAreFacts, WholeSoFar,
        Overflowed
  <2>5. TurnsPollAll' /\ PriorityKept'
    BY <1>7
      DEF BeginClose, Teardown, OutputTyped, OwnerTyped, GoroutinesTyped,
        TurnsPollAll, Overflowed, UndecidedIsOwn, PriorityKept
  <2> QED
    BY <2>1, <2>2, <2>3, <2>4, <2>5
<1>8. CASE Abort
  <2>a. /\ pc = "running" /\ aborting' = TRUE
        /\ UNCHANGED <<group, output, writer, waitC, clocks, received, visible,
                       faults, pc>>
    BY <1>8 DEF Abort
  <2>b. /\ result' \in Results
        /\ result'.primary = IF result.primary = "" THEN "START_ERROR" ELSE result.primary
        /\ UNCHANGED <<result.owned, result.preTerm, result.termSent,
                       result.killSent, result.childWaited, result.drained,
                       result.probeClean, result.orphanRisk>>
    BY <1>8, AbortMarks DEF ResultTyped
  <2>1. ProcessTyped' /\ OutputTyped' /\ OwnerTyped' /\ TurnsPollAll'
    BY <2>a, <2>b, Undisturbed
  <2>2. GoroutinesTyped'
    BY <2>a, <2>b DEF GoroutinesTyped
  <2>3. ResultTyped' /\ SignalsInOrder'
    BY <2>a, <2>b, Ranks DEF ResultTyped, SignalsInOrder, OwnerTyped
  <2>4. ResultsAreFacts' /\ ProbedIsGone' /\ UndecidedIsOwn'
    BY <2>a, <2>b
      DEF ProcessTyped, GoroutinesTyped, ResultsAreFacts, OwnerTyped, ResultTyped,
        ProbedIsGone, SignalsInOrder, UndecidedIsOwn
  <2>5. DrainedIsDry' /\ WholeSoFar'
    BY <2>a, <2>b
      DEF ProcessTyped, OutputTyped, OwnerTyped, DrainedIsDry, Drained, HoldsPipes,
        Counts, GoroutinesTyped, ResultsAreFacts, WholeSoFar, Overflowed
  <2>6. PriorityKept'
    BY <2>a, <2>b, Ranks DEF OwnerTyped, PriorityKept, TurnsPollAll
  <2> QED
    BY <2>1, <2>2, <2>3, <2>4, <2>5, <2>6
<1> QED
  BY <1>1, <1>2, <1>3, <1>4, <1>5, <1>6, <1>7, <1>8

\* The teardown of the process group.
LEMMA TeardownStep ==
  ASSUME TypeInv, SuperviseInv,
         PreTermProbe \/ SignalTerm \/ GraceProbe \/ SignalKill
  PROVE  (TypeInv /\ SuperviseInv)'
<1>1. CASE PreTermProbe
  <2>a. PICK outcome \in ProbeOutcomes :
        /\ Seen(outcome)
        /\ \/ /\ outcome = "absent"
              /\ result' = [result EXCEPT !.preTerm = "ABSENT"] /\ pc' = "wait"
           \/ /\ outcome = "present"
              /\ result' = [result EXCEPT !.preTerm = "PRESENT"] /\ pc' = "term"
           \/ /\ outcome \in {"eperm", "error"}
              /\ result' = [Uncertain EXCEPT !.preTerm = "UNCERTAIN"] /\ pc' = "wait"
           \/ /\ outcome = "eperm" /\ ~late
              /\ UNCHANGED <<result, pc>>
    BY <1>1 DEF PreTermProbe
  <2>b. /\ pc = "preTerm"
        /\ faults' \in 0 .. MaxFaults
        /\ UNCHANGED <<group, output, writer, waitC, clocks, aborting, received,
                       visible>>
    BY <1>1, <2>a, ProbeShows DEF PreTermProbe, OwnerUnchanged
  <2>c. /\ pc' \in {"preTerm", "term", "wait"}
        /\ pc' = "term" => result'.preTerm = "PRESENT"
        /\ result' \in Results
        /\ result.orphanRisk => result'.orphanRisk
        /\ UNCHANGED <<result.primary, result.owned, result.termSent,
                       result.killSent, result.childWaited, result.drained,
                       result.probeClean>>
    BY <2>a, <2>b, Observed DEF ResultTyped
  <2>1. ProcessTyped' /\ OutputTyped' /\ GoroutinesTyped'
    BY <2>a, <2>b, <2>c, Undisturbed
  <2>2. OwnerTyped' /\ ResultTyped' /\ SignalsInOrder'
    BY <2>a, <2>b, <2>c, Ranks DEF OwnerTyped, ResultTyped, SignalsInOrder
  <2>3. ResultsAreFacts' /\ ProbedIsGone' /\ UndecidedIsOwn'
    BY <2>a, <2>b, <2>c
      DEF ProcessTyped, GoroutinesTyped, ResultsAreFacts, OwnerTyped, ResultTyped,
        ProbedIsGone, SignalsInOrder, UndecidedIsOwn
  <2>4. DrainedIsDry' /\ WholeSoFar'
    BY <2>a, <2>b, <2>c
      DEF ProcessTyped, OutputTyped, OwnerTyped, DrainedIsDry, Drained, HoldsPipes,
        Counts, GoroutinesTyped, ResultsAreFacts, WholeSoFar, Overflowed
  <2>5. TurnsPollAll' /\ PriorityKept'
    BY <2>a, <2>b, <2>c, Ranks
      DEF OutputTyped, OwnerTyped, GoroutinesTyped, TurnsPollAll, Overflowed,
        UndecidedIsOwn, PriorityKept
  <2> QED
    BY <2>1, <2>2, <2>3, <2>4, <2>5
<1>2. CASE SignalTerm
  <2>a. /\ pc = "term"
        /\ UNCHANGED <<group, output, writer, waitC, clocks, aborting, received,
                       visible, faults>>
    BY <1>2 DEF SignalTerm, OwnerUnchanged
  <2>b. /\ \/ pc' = "grace" /\ result'.termSent
           \/ pc' = "wait" /\ result'.termSent = result.termSent
        /\ result' \in Results
        /\ result.orphanRisk => result'.orphanRisk
        /\ UNCHANGED <<result.primary, result.owned, result.preTerm,
                       result.killSent, result.childWaited, result.drained,
                       result.probeClean>>
    BY <1>2, Signalled, ResultUncertain DEF SignalTerm, ResultTyped
  <2>1. ProcessTyped' /\ OutputTyped' /\ GoroutinesTyped'
    BY <2>a, <2>b, Undisturbed
  <2>2. OwnerTyped' /\ ResultTyped' /\ SignalsInOrder'
    BY <2>a, <2>b, Ranks DEF OwnerTyped, ResultTyped, SignalsInOrder
  <2>3. ResultsAreFacts' /\ ProbedIsGone' /\ UndecidedIsOwn'
    BY <2>a, <2>b
      DEF ProcessTyped, GoroutinesTyped, ResultsAreFacts, OwnerTyped, ResultTyped,
        ProbedIsGone, SignalsInOrder, UndecidedIsOwn
  <2>4. DrainedIsDry' /\ WholeSoFar'
    BY <2>a, <2>b
      DEF ProcessTyped, OutputTyped, OwnerTyped, DrainedIsDry, Drained, HoldsPipes,
        Counts, GoroutinesTyped, ResultsAreFacts, WholeSoFar, Overflowed
  <2>5. TurnsPollAll' /\ PriorityKept'
    BY <2>a, <2>b, Ranks
      DEF OutputTyped, OwnerTyped, GoroutinesTyped, TurnsPollAll, Overflowed,
        UndecidedIsOwn, PriorityKept
  <2> QED
    BY <2>1, <2>2, <2>3, <2>4, <2>5
<1>3. CASE GraceProbe
  <2>a. PICK outcome \in ProbeOutcomes :
        /\ Seen(outcome)
        /\ \/ result' = Uncertain /\ pc' = "wait"
           \/ UNCHANGED result /\ pc' \in {"grace", "kill", "wait"}
    BY <1>3 DEF GraceProbe
  <2>b. /\ pc = "grace"
        /\ faults' \in 0 .. MaxFaults
        /\ UNCHANGED <<group, output, writer, waitC, clocks, aborting, received,
                       visible>>
    BY <1>3, <2>a, ProbeShows DEF GraceProbe, OwnerUnchanged
  <2>c. /\ pc' \in {"grace", "kill", "wait"}
        /\ result' \in Results
        /\ result.orphanRisk => result'.orphanRisk
        /\ UNCHANGED <<result.primary, result.owned, result.preTerm,
                       result.termSent, result.killSent, result.childWaited,
                       result.drained, result.probeClean>>
    BY <2>a, ResultUncertain DEF ResultTyped
  <2>1. ProcessTyped' /\ OutputTyped' /\ GoroutinesTyped'
    BY <2>a, <2>b, <2>c, Undisturbed
  <2>2. OwnerTyped' /\ ResultTyped' /\ SignalsInOrder'
    BY <2>a, <2>b, <2>c, Ranks DEF OwnerTyped, ResultTyped, SignalsInOrder
  <2>3. ResultsAreFacts' /\ ProbedIsGone' /\ UndecidedIsOwn'
    BY <2>a, <2>b, <2>c
      DEF ProcessTyped, GoroutinesTyped, ResultsAreFacts, OwnerTyped, ResultTyped,
        ProbedIsGone, SignalsInOrder, UndecidedIsOwn
  <2>4. DrainedIsDry' /\ WholeSoFar'
    BY <2>a, <2>b, <2>c
      DEF ProcessTyped, OutputTyped, OwnerTyped, DrainedIsDry, Drained, HoldsPipes,
        Counts, GoroutinesTyped, ResultsAreFacts, WholeSoFar, Overflowed
  <2>5. TurnsPollAll' /\ PriorityKept'
    BY <2>a, <2>b, <2>c, Ranks
      DEF OutputTyped, OwnerTyped, GoroutinesTyped, TurnsPollAll, Overflowed,
        UndecidedIsOwn, PriorityKept
  <2> QED
    BY <2>1, <2>2, <2>3, <2>4, <2>5
<1>4. CASE SignalKill
  <2>a. /\ pc = "kill" /\ pc' = "wait"
        /\ doomed' \subseteq doomed \cup {"leader", "descendant"}
        /\ UNCHANGED <<leader, descendant, piped, own, output, writer, waitC,
                       clocks, aborting, received, visible, faults>>
    BY <1>4 DEF SignalKill, Running
  <2>b. /\ result' \in Results
        /\ result.orphanRisk => result'.orphanRisk
        /\ UNCHANGED <<result.primary, result.owned, result.preTerm,
                       result.termSent, result.childWaited, result.drained,
                       result.probeClean>>
    BY <1>4, Signalled, ResultUncertain DEF SignalKill, ResultTyped
  <2>1. OutputTyped' /\ GoroutinesTyped'
    BY <2>a, <2>b, Undisturbed
  <2>2. ProcessTyped'
    BY <2>a, <2>b DEF ProcessTyped
  <2>3. OwnerTyped' /\ ResultTyped' /\ SignalsInOrder'
    BY <2>a, <2>b, Ranks DEF OwnerTyped, ResultTyped, SignalsInOrder
  <2>4. ResultsAreFacts' /\ ProbedIsGone' /\ UndecidedIsOwn'
    BY <2>a, <2>b
      DEF ProcessTyped, GoroutinesTyped, ResultsAreFacts, OwnerTyped, ResultTyped,
        ProbedIsGone, SignalsInOrder, UndecidedIsOwn
  <2>5. DrainedIsDry' /\ WholeSoFar'
    BY <2>a, <2>b
      DEF ProcessTyped, OutputTyped, OwnerTyped, DrainedIsDry, Drained, HoldsPipes,
        Counts, GoroutinesTyped, ResultsAreFacts, WholeSoFar, Overflowed
  <2>6. TurnsPollAll' /\ PriorityKept'
    BY <2>a, <2>b, Ranks
      DEF OutputTyped, OwnerTyped, GoroutinesTyped, TurnsPollAll, Overflowed,
        UndecidedIsOwn, PriorityKept
  <2> QED
    BY <2>1, <2>2, <2>3, <2>4, <2>5, <2>6
<1> QED
  BY <1>1, <1>2, <1>3, <1>4

\* The rest of the close.
LEMMA CollectStep ==
  ASSUME TypeInv, SuperviseInv,
         BeginWait \/ ReceiveWait \/ ClassifyWait \/ WaitDeadline \/ CollectStdin \/
         CloseStdin \/ StdinDeadline \/ CollectDrains \/ Snapshot \/ FinalProbe
  PROVE  (TypeInv /\ SuperviseInv)'
<1>1. CASE BeginWait
  <2>1. ProcessTyped' /\ OutputTyped' /\ GoroutinesTyped' /\ ResultTyped' /\
    ResultsAreFacts'
    BY <1>1, Undisturbed DEF BeginWait, OwnerUnchanged
  <2>2. OwnerTyped' /\ SignalsInOrder'
    BY <1>1 DEF BeginWait, OwnerUnchanged, OwnerTyped, ResultTyped, SignalsInOrder
  <2>3. ProbedIsGone' /\ UndecidedIsOwn'
    BY <1>1
      DEF BeginWait, OwnerUnchanged, ProcessTyped, OwnerTyped, ResultTyped,
        ResultsAreFacts, ProbedIsGone, GoroutinesTyped, SignalsInOrder,
        UndecidedIsOwn
  <2>4. DrainedIsDry' /\ WholeSoFar'
    BY <1>1
      DEF BeginWait, OwnerUnchanged, ProcessTyped, OutputTyped, OwnerTyped,
        DrainedIsDry, Drained, HoldsPipes, Counts, GoroutinesTyped, ResultsAreFacts,
        WholeSoFar, Overflowed
  <2>5. TurnsPollAll' /\ PriorityKept'
    BY <1>1
      DEF BeginWait, OwnerUnchanged, OutputTyped, OwnerTyped, GoroutinesTyped,
        TurnsPollAll, Overflowed, UndecidedIsOwn, PriorityKept
  <2> QED
    BY <2>1, <2>2, <2>3, <2>4, <2>5
<1>2. CASE ReceiveWait
  <2>1. ProcessTyped' /\ OutputTyped' /\ ResultTyped'
    BY <1>2, Undisturbed DEF ReceiveWait, TakeWait
  <2>2. GoroutinesTyped'
    BY <1>2 DEF ReceiveWait, TakeWait, GoroutinesTyped
  <2>3. OwnerTyped' /\ SignalsInOrder'
    BY <1>2 DEF ReceiveWait, TakeWait, OwnerTyped, ResultTyped, SignalsInOrder
  <2>4. ResultsAreFacts' /\ ProbedIsGone' /\ UndecidedIsOwn'
    BY <1>2
      DEF ReceiveWait, TakeWait, ProcessTyped, GoroutinesTyped, ResultsAreFacts,
        OwnerTyped, ResultTyped, ProbedIsGone, SignalsInOrder, UndecidedIsOwn
  <2>5. DrainedIsDry' /\ WholeSoFar'
    BY <1>2
      DEF ReceiveWait, TakeWait, ProcessTyped, OutputTyped, OwnerTyped,
        DrainedIsDry, Drained, HoldsPipes, Counts, GoroutinesTyped, ResultsAreFacts,
        WholeSoFar, Overflowed
  <2>6. TurnsPollAll' /\ PriorityKept'
    BY <1>2
      DEF ReceiveWait, TakeWait, OutputTyped, OwnerTyped, GoroutinesTyped,
        TurnsPollAll, Overflowed, UndecidedIsOwn, PriorityKept
  <2> QED
    BY <2>1, <2>2, <2>3, <2>4, <2>5, <2>6
<1>3. CASE ClassifyWait
  <2>a. /\ pc = "wait" /\ pc' = "stdin" /\ waited # "none"
        /\ UNCHANGED <<group, output, writer, waitC, clocks, aborting, received,
                       visible, faults>>
    BY <1>3 DEF ClassifyWait, OwnerUnchanged
  <2>b. /\ result' \in Results
        /\ result.orphanRisk => result'.orphanRisk
        /\ UNCHANGED <<result.primary, result.owned, result.preTerm,
                       result.termSent, result.killSent, result.drained,
                       result.probeClean>>
    BY <1>3, Waited, ResultUncertain DEF ClassifyWait, ResultTyped
  <2>1. ProcessTyped' /\ OutputTyped' /\ GoroutinesTyped'
    BY <2>a, <2>b, Undisturbed
  <2>2. OwnerTyped' /\ ResultTyped' /\ SignalsInOrder'
    BY <2>a, <2>b, Ranks DEF OwnerTyped, ResultTyped, SignalsInOrder
  <2>3. ResultsAreFacts' /\ ProbedIsGone' /\ UndecidedIsOwn'
    BY <2>a, <2>b
      DEF ProcessTyped, GoroutinesTyped, ResultsAreFacts, OwnerTyped, ResultTyped,
        ProbedIsGone, SignalsInOrder, UndecidedIsOwn
  <2>4. DrainedIsDry' /\ WholeSoFar'
    BY <2>a, <2>b
      DEF ProcessTyped, OutputTyped, OwnerTyped, DrainedIsDry, Drained, HoldsPipes,
        Counts, GoroutinesTyped, ResultsAreFacts, WholeSoFar, Overflowed
  <2>5. TurnsPollAll' /\ PriorityKept'
    BY <2>a, <2>b, Ranks
      DEF OutputTyped, OwnerTyped, GoroutinesTyped, TurnsPollAll, Overflowed,
        UndecidedIsOwn, PriorityKept
  <2> QED
    BY <2>1, <2>2, <2>3, <2>4, <2>5
<1>4. CASE WaitDeadline
  <2>a. /\ pc \in {"waitTimer", "waitOnce"} /\ pc' = "stdin"
        /\ doomed' \subseteq doomed \cup {"leader"}
        /\ UNCHANGED <<leader, descendant, piped, own, output, writer, waitC,
                       clocks, aborting, received, visible, faults>>
    BY <1>4 DEF WaitDeadline
  <2>b. /\ result' \in Results
        /\ result'.orphanRisk
        /\ UNCHANGED <<result.primary, result.owned, result.preTerm,
                       result.termSent, result.killSent, result.childWaited,
                       result.drained, result.probeClean>>
    BY <1>4, ResultUncertain DEF WaitDeadline, ResultTyped
  <2>1. OutputTyped' /\ GoroutinesTyped'
    BY <2>a, <2>b, Undisturbed
  <2>2. ProcessTyped'
    BY <2>a, <2>b DEF ProcessTyped
  <2>3. OwnerTyped' /\ ResultTyped' /\ SignalsInOrder'
    BY <2>a, <2>b, Ranks DEF OwnerTyped, ResultTyped, SignalsInOrder
  <2>4. ResultsAreFacts' /\ ProbedIsGone' /\ UndecidedIsOwn'
    BY <2>a, <2>b
      DEF ProcessTyped, GoroutinesTyped, ResultsAreFacts, OwnerTyped, ResultTyped,
        ProbedIsGone, SignalsInOrder, UndecidedIsOwn
  <2>5. DrainedIsDry' /\ WholeSoFar'
    BY <2>a, <2>b
      DEF ProcessTyped, OutputTyped, OwnerTyped, DrainedIsDry, Drained, HoldsPipes,
        Counts, GoroutinesTyped, ResultsAreFacts, WholeSoFar, Overflowed
  <2>6. TurnsPollAll' /\ PriorityKept'
    BY <2>a, <2>b, Ranks
      DEF OutputTyped, OwnerTyped, GoroutinesTyped, TurnsPollAll, Overflowed,
        UndecidedIsOwn, PriorityKept
  <2> QED
    BY <2>1, <2>2, <2>3, <2>4, <2>5, <2>6
<1>5. CASE CollectStdin
  <2>a. /\ pc \in {"stdin", "stdinClose"} /\ pc' = "drains"
        /\ writer # "writing"
        /\ UNCHANGED <<group, output, writer, waitC, clocks, aborting, received,
                       visible, faults>>
    BY <1>5 DEF CollectStdin, OwnerUnchanged
  <2>b. PICK complete \in BOOLEAN :
        /\ complete = (writer \in {"absent", "complete"})
        /\ \/ result' = StdinCollected(complete)
           \/ result' = [StdinCollected(complete) EXCEPT !.teardownError = TRUE,
                                                        !.orphanRisk = TRUE]
    BY <1>5, (writer \in {"absent", "complete"}) \in BOOLEAN DEF CollectStdin
  <2>c. /\ result' \in Results
        /\ result'.primary = IF result.primary = "" /\ ~(writer \in {"absent", "complete"})
                             THEN "PROBE_TRANSPORT_ERROR" ELSE result.primary
        /\ result.orphanRisk => result'.orphanRisk
        /\ UNCHANGED <<result.owned, result.preTerm, result.termSent,
                       result.killSent, result.childWaited, result.drained,
                       result.probeClean>>
    BY <2>b, Collected DEF ResultTyped
  <2>1. ProcessTyped' /\ OutputTyped' /\ GoroutinesTyped'
    BY <2>a, <2>b, <2>c, Undisturbed
  <2>2. OwnerTyped' /\ ResultTyped' /\ SignalsInOrder'
    BY <2>a, <2>b, <2>c, Ranks DEF OwnerTyped, ResultTyped, SignalsInOrder
  <2>3. ResultsAreFacts' /\ ProbedIsGone' /\ UndecidedIsOwn'
    BY <2>a, <2>b, <2>c
      DEF ProcessTyped, GoroutinesTyped, ResultsAreFacts, OwnerTyped, ResultTyped,
        ProbedIsGone, SignalsInOrder, UndecidedIsOwn
  <2>4. DrainedIsDry' /\ WholeSoFar'
    BY <2>a, <2>b, <2>c
      DEF ProcessTyped, OutputTyped, OwnerTyped, DrainedIsDry, Drained, HoldsPipes,
        Counts, GoroutinesTyped, ResultsAreFacts, WholeSoFar, Overflowed
  <2>5. TurnsPollAll' /\ PriorityKept'
    BY <2>a, <2>b, <2>c, Ranks
      DEF OutputTyped, OwnerTyped, GoroutinesTyped, TurnsPollAll, Overflowed,
        UndecidedIsOwn, PriorityKept
  <2> QED
    BY <2>1, <2>2, <2>3, <2>4, <2>5
<1>6. CASE CloseStdin
  <2>1. ProcessTyped' /\ OutputTyped' /\ GoroutinesTyped' /\ ResultTyped' /\
    ResultsAreFacts'
    BY <1>6, Undisturbed DEF CloseStdin, OwnerUnchanged
  <2>2. OwnerTyped' /\ SignalsInOrder'
    BY <1>6 DEF CloseStdin, OwnerUnchanged, OwnerTyped, ResultTyped, SignalsInOrder
  <2>3. ProbedIsGone' /\ UndecidedIsOwn'
    BY <1>6
      DEF CloseStdin, OwnerUnchanged, ProcessTyped, OwnerTyped, ResultTyped,
        ResultsAreFacts, ProbedIsGone, GoroutinesTyped, SignalsInOrder,
        UndecidedIsOwn
  <2>4. DrainedIsDry' /\ WholeSoFar'
    BY <1>6
      DEF CloseStdin, OwnerUnchanged, ProcessTyped, OutputTyped, OwnerTyped,
        DrainedIsDry, Drained, HoldsPipes, Counts, GoroutinesTyped, ResultsAreFacts,
        WholeSoFar, Overflowed
  <2>5. TurnsPollAll' /\ PriorityKept'
    BY <1>6
      DEF CloseStdin, OwnerUnchanged, OutputTyped, OwnerTyped, GoroutinesTyped,
        TurnsPollAll, Overflowed, UndecidedIsOwn, PriorityKept
  <2> QED
    BY <2>1, <2>2, <2>3, <2>4, <2>5
<1>7. CASE StdinDeadline
  <2>a. /\ pc \in {"stdin", "stdinClose"} /\ pc' = "drains"
        /\ UNCHANGED <<group, output, writer, waitC, clocks, aborting, received,
                       visible, faults>>
    BY <1>7 DEF StdinDeadline, OwnerUnchanged
  <2>b. PICK complete \in BOOLEAN :
        /\ complete = (FALSE)
        /\ \/ result' = StdinCollected(complete)
           \/ result' = [StdinCollected(complete) EXCEPT !.teardownError = TRUE,
                                                        !.orphanRisk = TRUE]
    BY <1>7, (FALSE) \in BOOLEAN DEF StdinDeadline
  <2>c. /\ result' \in Results
        /\ result'.primary = IF result.primary = ""
                             THEN "PROBE_TRANSPORT_ERROR" ELSE result.primary
        /\ result.orphanRisk => result'.orphanRisk
        /\ UNCHANGED <<result.owned, result.preTerm, result.termSent,
                       result.killSent, result.childWaited, result.drained,
                       result.probeClean>>
    BY <2>b, Collected DEF ResultTyped
  <2>1. ProcessTyped' /\ OutputTyped' /\ GoroutinesTyped'
    BY <2>a, <2>b, <2>c, Undisturbed
  <2>2. OwnerTyped' /\ ResultTyped' /\ SignalsInOrder'
    BY <2>a, <2>b, <2>c, Ranks DEF OwnerTyped, ResultTyped, SignalsInOrder
  <2>3. ResultsAreFacts' /\ ProbedIsGone' /\ UndecidedIsOwn'
    BY <2>a, <2>b, <2>c
      DEF ProcessTyped, GoroutinesTyped, ResultsAreFacts, OwnerTyped, ResultTyped,
        ProbedIsGone, SignalsInOrder, UndecidedIsOwn
  <2>4. DrainedIsDry' /\ WholeSoFar'
    BY <2>a, <2>b, <2>c
      DEF ProcessTyped, OutputTyped, OwnerTyped, DrainedIsDry, Drained, HoldsPipes,
        Counts, GoroutinesTyped, ResultsAreFacts, WholeSoFar, Overflowed
  <2>5. TurnsPollAll' /\ PriorityKept'
    BY <2>a, <2>b, <2>c, Ranks
      DEF OutputTyped, OwnerTyped, GoroutinesTyped, TurnsPollAll, Overflowed,
        UndecidedIsOwn, PriorityKept
  <2> QED
    BY <2>1, <2>2, <2>3, <2>4, <2>5
<1>8. CASE CollectDrains
  <2>a. /\ pc = "drains" /\ pc' = "snapshot"
        /\ shut' = shut \cup {s \in Streams : drain[s] = "reading"}
        /\ UNCHANGED <<group, sent, read, drain, writer, waitC, clocks, aborting,
                       received, visible, faults>>
    BY <1>8 DEF CollectDrains
  <2>b. /\ result' \in Results
        /\ result'.drained = Drained
        /\ result.orphanRisk => result'.orphanRisk
        /\ UNCHANGED <<result.primary, result.owned, result.preTerm,
                       result.termSent, result.killSent, result.childWaited,
                       result.probeClean>>
    BY <1>8, DrainsRecorded DEF CollectDrains, ResultTyped
  <2>1. ProcessTyped' /\ GoroutinesTyped'
    BY <2>a, <2>b, Undisturbed
  <2>2. OutputTyped'
    BY <2>a, <2>b, BoundAssumption DEF OutputTyped, Counts
  <2>3. OwnerTyped' /\ ResultTyped' /\ SignalsInOrder'
    BY <2>a, <2>b, Ranks DEF OwnerTyped, ResultTyped, SignalsInOrder
  <2>4. ResultsAreFacts' /\ ProbedIsGone' /\ UndecidedIsOwn'
    BY <2>a, <2>b
      DEF ProcessTyped, GoroutinesTyped, ResultsAreFacts, OwnerTyped, ResultTyped,
        ProbedIsGone, SignalsInOrder, UndecidedIsOwn
  <2>5. DrainedIsDry' /\ WholeSoFar'
    BY <2>a, <2>b
      DEF ProcessTyped, OutputTyped, OwnerTyped, DrainedIsDry, Drained, HoldsPipes,
        Counts, GoroutinesTyped, ResultsAreFacts, WholeSoFar, Overflowed
  <2>6. TurnsPollAll' /\ PriorityKept'
    BY <2>a, <2>b, Ranks
      DEF OutputTyped, OwnerTyped, GoroutinesTyped, TurnsPollAll, Overflowed,
        UndecidedIsOwn, PriorityKept
  <2> QED
    BY <2>1, <2>2, <2>3, <2>4, <2>5, <2>6
<1>9. CASE Snapshot
  <2>a. /\ pc = "snapshot"
        /\ pc' = IF result.owned THEN "finalProbe" ELSE "closed"
        /\ UNCHANGED <<group, output, writer, waitC, clocks, aborting, received,
                       visible, faults>>
    BY <1>9 DEF Snapshot, OwnerUnchanged
  <2>b. /\ result' \in Results
        /\ result'.primary = IF result.primary = "" /\ \E s \in Streams : Overflowed(s)
                             THEN "OUTPUT_LIMIT" ELSE result.primary
        /\ UNCHANGED <<result.owned, result.preTerm, result.termSent,
                       result.killSent, result.childWaited, result.drained,
                       result.probeClean, result.orphanRisk>>
    BY <1>9, SnapshotTaken DEF ResultTyped
  <2>1. ProcessTyped' /\ OutputTyped' /\ GoroutinesTyped'
    BY <2>a, <2>b, Undisturbed
  <2>2. OwnerTyped' /\ ResultTyped' /\ SignalsInOrder'
    BY <2>a, <2>b, Ranks DEF OwnerTyped, ResultTyped, SignalsInOrder
  <2>3. ResultsAreFacts' /\ ProbedIsGone' /\ UndecidedIsOwn'
    BY <2>a, <2>b
      DEF ProcessTyped, GoroutinesTyped, ResultsAreFacts, OwnerTyped, ResultTyped,
        ProbedIsGone, SignalsInOrder, UndecidedIsOwn
  <2>4. DrainedIsDry'
    BY <2>a, <2>b
      DEF ProcessTyped, OutputTyped, OwnerTyped, DrainedIsDry, Drained, HoldsPipes,
        Counts
  <2>5. WholeSoFar'
    <3>1. \A s \in Streams : read[s] \in Nat
      BY BoundAssumption DEF OutputTyped, Counts
    <3>2. result'.primary = "" => \A s \in Streams : read'[s] <= Limit
      <4>1. result'.primary = "" => ~ \E s \in Streams : Overflowed(s)
        BY <2>b
      <4>2. \A s \in Streams : ~Overflowed(s) => read[s] <= Limit
        BY <3>1, BoundAssumption DEF Overflowed
      <4>3. read' = read
        BY <2>a
      <4> QED
        BY ONLY <4>1, <4>2, <4>3
    <3>3. result'.drained \subseteq Streams
      BY <2>b DEF Results
    <3> QED
      BY <2>a, <2>b, <3>2, <3>3 DEF WholeSoFar
  <2>6. TurnsPollAll' /\ PriorityKept'
    BY <2>a, <2>b, Ranks
      DEF OutputTyped, OwnerTyped, GoroutinesTyped, TurnsPollAll, Overflowed,
        UndecidedIsOwn, PriorityKept
  <2> QED
    BY <2>1, <2>2, <2>3, <2>4, <2>5, <2>6
<1>10. CASE FinalProbe
  <2>a. /\ pc = "finalProbe" /\ pc' \in {"finalProbe", "closed"}
        /\ faults' \in 0 .. MaxFaults
        /\ UNCHANGED <<group, output, writer, waitC, clocks, aborting, received,
                       visible>>
    BY <1>10, ProbeShows DEF FinalProbe, Closed, OwnerUnchanged
  <2>b. /\ result' \in Results
        /\ result'.probeClean => result.probeClean \/ (leader = "reaped" /\ descendant # "member")
        /\ result.orphanRisk => result'.orphanRisk
        /\ pc' = "closed" /\ ~result'.orphanRisk =>
             result'.childWaited /\ result'.drained = Streams /\ result'.probeClean
        /\ UNCHANGED <<result.primary, result.owned, result.preTerm,
                       result.termSent, result.killSent, result.childWaited,
                       result.drained>>
    BY <1>10, ProbeConcludes DEF ResultTyped
  <2>1. ProcessTyped' /\ OutputTyped' /\ GoroutinesTyped'
    BY <2>a, <2>b, Undisturbed
  <2>2. OwnerTyped' /\ ResultTyped' /\ SignalsInOrder'
    BY <2>a, <2>b, Ranks DEF OwnerTyped, ResultTyped, SignalsInOrder
  <2>3. ResultsAreFacts' /\ ProbedIsGone' /\ UndecidedIsOwn'
    BY <2>a, <2>b
      DEF ProcessTyped, GoroutinesTyped, ResultsAreFacts, OwnerTyped, ResultTyped,
        ProbedIsGone, SignalsInOrder, UndecidedIsOwn
  <2>4. DrainedIsDry' /\ WholeSoFar'
    BY <2>a, <2>b
      DEF ProcessTyped, OutputTyped, OwnerTyped, DrainedIsDry, Drained, HoldsPipes,
        Counts, GoroutinesTyped, ResultsAreFacts, WholeSoFar, Overflowed
  <2>5. TurnsPollAll' /\ PriorityKept'
    BY <2>a, <2>b, Ranks
      DEF OutputTyped, OwnerTyped, GoroutinesTyped, TurnsPollAll, Overflowed,
        UndecidedIsOwn, PriorityKept
  <2> QED
    BY <2>1, <2>2, <2>3, <2>4, <2>5
<1> QED
  BY <1>1, <1>2, <1>3, <1>4, <1>5, <1>6, <1>7, <1>8, <1>9, <1>10

\* The process group.
LEMMA ProcessStep ==
  ASSUME TypeInv, SuperviseInv,
         Fork \/ ClosePipes \/ Escape \/ DescendantExits \/ LeaderExits \/
         (\E s \in Streams : Write(s))
  PROVE  (TypeInv /\ SuperviseInv)'
<1>1. CASE Fork
  <2>1. OutputTyped' /\ GoroutinesTyped' /\ OwnerTyped' /\ ResultTyped' /\
    SignalsInOrder' /\ ResultsAreFacts' /\ UndecidedIsOwn' /\ WholeSoFar' /\
    TurnsPollAll' /\ PriorityKept'
    BY <1>1, Undisturbed DEF Fork, Acts
  <2>2. ProcessTyped'
    BY <1>1 DEF Fork, Acts, ProcessTyped
  <2>3. ProbedIsGone'
    BY <1>1
      DEF Fork, Acts, ProcessTyped, OwnerTyped, ResultTyped, ResultsAreFacts,
        ProbedIsGone
  <2>4. DrainedIsDry'
    BY <1>1
      DEF Fork, Acts, ProcessTyped, OutputTyped, OwnerTyped, DrainedIsDry, Drained,
        HoldsPipes, Counts
  <2> QED
    BY <2>1, <2>2, <2>3, <2>4
<1>2. CASE ClosePipes
  <2>1. OutputTyped' /\ GoroutinesTyped' /\ OwnerTyped' /\ ResultTyped' /\
    SignalsInOrder' /\ ResultsAreFacts' /\ ProbedIsGone' /\ UndecidedIsOwn' /\
    WholeSoFar' /\ TurnsPollAll' /\ PriorityKept'
    BY <1>2, Undisturbed DEF ClosePipes, Acts
  <2>2. ProcessTyped'
    BY <1>2 DEF ClosePipes, Acts, ProcessTyped
  <2>3. DrainedIsDry'
    BY <1>2
      DEF ClosePipes, Acts, ProcessTyped, OutputTyped, OwnerTyped, DrainedIsDry,
        Drained, HoldsPipes, Counts
  <2> QED
    BY <2>1, <2>2, <2>3
<1>3. CASE Escape
  <2>1. OutputTyped' /\ GoroutinesTyped' /\ OwnerTyped' /\ ResultTyped' /\
    SignalsInOrder' /\ ResultsAreFacts' /\ UndecidedIsOwn' /\ WholeSoFar' /\
    TurnsPollAll' /\ PriorityKept'
    BY <1>3, Undisturbed DEF Escape, Acts
  <2>2. ProcessTyped'
    BY <1>3 DEF Escape, Acts, ProcessTyped
  <2>3. ProbedIsGone'
    BY <1>3
      DEF Escape, Acts, ProcessTyped, OwnerTyped, ResultTyped, ResultsAreFacts,
        ProbedIsGone
  <2>4. DrainedIsDry'
    BY <1>3
      DEF Escape, Acts, ProcessTyped, OutputTyped, OwnerTyped, DrainedIsDry,
        Drained, HoldsPipes, Counts
  <2> QED
    BY <2>1, <2>2, <2>3, <2>4
<1>4. CASE DescendantExits
  <2>1. OutputTyped' /\ GoroutinesTyped' /\ OwnerTyped' /\ ResultTyped' /\
    SignalsInOrder' /\ ResultsAreFacts' /\ WholeSoFar' /\ TurnsPollAll' /\
    PriorityKept'
    BY <1>4, Undisturbed DEF DescendantExits
  <2>2. ProcessTyped'
    BY <1>4 DEF DescendantExits, ProcessTyped
  <2>3. ProbedIsGone' /\ UndecidedIsOwn'
    BY <1>4
      DEF DescendantExits, ProcessTyped, OwnerTyped, ResultTyped, ResultsAreFacts,
        ProbedIsGone, GoroutinesTyped, SignalsInOrder, UndecidedIsOwn
  <2>4. DrainedIsDry'
    BY <1>4
      DEF DescendantExits, ProcessTyped, OutputTyped, OwnerTyped, DrainedIsDry,
        Drained, HoldsPipes, Counts
  <2> QED
    BY <2>1, <2>2, <2>3, <2>4
<1>5. CASE LeaderExits
  <2>1. OutputTyped' /\ GoroutinesTyped' /\ OwnerTyped' /\ ResultTyped' /\
    SignalsInOrder' /\ WholeSoFar' /\ TurnsPollAll' /\ PriorityKept'
    BY <1>5, Undisturbed DEF LeaderExits
  <2>2. ProcessTyped'
    BY <1>5 DEF LeaderExits, ProcessTyped
  <2>3. ResultsAreFacts' /\ ProbedIsGone' /\ UndecidedIsOwn'
    BY <1>5
      DEF LeaderExits, ProcessTyped, GoroutinesTyped, ResultsAreFacts, OwnerTyped,
        ResultTyped, ProbedIsGone, SignalsInOrder, UndecidedIsOwn
  <2>4. DrainedIsDry'
    BY <1>5
      DEF LeaderExits, ProcessTyped, OutputTyped, OwnerTyped, DrainedIsDry, Drained,
        HoldsPipes, Counts
  <2> QED
    BY <2>1, <2>2, <2>3, <2>4
<1>6. ASSUME NEW s \in Streams, Write(s) PROVE (TypeInv /\ SuperviseInv)'
  <2>1. ProcessTyped' /\ GoroutinesTyped' /\ OwnerTyped' /\ ResultTyped' /\
    SignalsInOrder' /\ ResultsAreFacts' /\ ProbedIsGone' /\ UndecidedIsOwn' /\
    WholeSoFar' /\ TurnsPollAll' /\ PriorityKept'
    BY <1>6, Undisturbed DEF Write, Acts
  <2>2. OutputTyped'
    BY <1>6, BoundAssumption DEF Write, Acts, OutputTyped, Counts
  <2>3. DrainedIsDry'
    BY <1>6
      DEF Write, Acts, ProcessTyped, OutputTyped, OwnerTyped, DrainedIsDry, Drained,
        HoldsPipes, Counts
  <2> QED
    BY <2>1, <2>2, <2>3
<1> QED
  BY <1>1, <1>2, <1>3, <1>4, <1>5, <1>6

\* The goroutines, the kill of an abort, the context and the timers.
LEMMA GoroutineStep ==
  ASSUME TypeInv, SuperviseInv,
         (\E s \in Streams : DrainRead(s)) \/ (\E s \in Streams : DrainEnds(s)) \/
         WriteStdin \/ Reap \/ WaitReturns \/ AbortKills \/ Cancel \/
         ExecutionTimer \/ TeardownDeadline
  PROVE  (TypeInv /\ SuperviseInv)'
<1>1. ASSUME NEW s \in Streams, DrainRead(s) PROVE (TypeInv /\ SuperviseInv)'
  <2>1. ProcessTyped' /\ GoroutinesTyped' /\ OwnerTyped' /\ ResultTyped' /\
    SignalsInOrder' /\ ResultsAreFacts' /\ ProbedIsGone' /\ UndecidedIsOwn' /\
    PriorityKept'
    BY <1>1, Undisturbed DEF DrainRead
  <2>2. OutputTyped'
    BY <1>1, BoundAssumption DEF DrainRead, OutputTyped, Counts
  <2>3. DrainedIsDry' /\ WholeSoFar'
    BY <1>1
      DEF DrainRead, ProcessTyped, OutputTyped, OwnerTyped, DrainedIsDry, Drained,
        HoldsPipes, Counts, GoroutinesTyped, ResultsAreFacts, WholeSoFar, Overflowed
  <2>4. TurnsPollAll'
    <3>1. \A q \in Streams : read[q] \in Nat /\ read'[q] \in Nat /\ read'[q] >= read[q]
      BY <1>1, BoundAssumption DEF DrainRead, OutputTyped, Counts
    <3>2. \A q \in Streams : Overflowed(q) => Overflowed(q)'
      BY <3>1, BoundAssumption DEF Overflowed
    <3> QED
      BY ONLY <1>1, <3>2, TurnsPollAll DEF DrainRead, TurnsPollAll, group, clocks, received
  <2> QED
    BY <2>1, <2>2, <2>3, <2>4
<1>2. ASSUME NEW s \in Streams, DrainEnds(s) PROVE (TypeInv /\ SuperviseInv)'
  <2>1. ProcessTyped' /\ GoroutinesTyped' /\ OwnerTyped' /\ ResultTyped' /\
    SignalsInOrder' /\ ResultsAreFacts' /\ ProbedIsGone' /\ UndecidedIsOwn' /\
    WholeSoFar' /\ TurnsPollAll' /\ PriorityKept'
    BY <1>2, Undisturbed DEF DrainEnds
  <2>2. OutputTyped'
    BY <1>2, BoundAssumption DEF DrainEnds, OutputTyped, Counts
  <2>3. DrainedIsDry'
    BY <1>2
      DEF DrainEnds, ProcessTyped, OutputTyped, OwnerTyped, DrainedIsDry, Drained,
        HoldsPipes, Counts
  <2> QED
    BY <2>1, <2>2, <2>3
<1>3. CASE WriteStdin
  <2>1. ProcessTyped' /\ OutputTyped' /\ OwnerTyped' /\ ResultTyped' /\
    SignalsInOrder' /\ DrainedIsDry' /\ ProbedIsGone' /\ UndecidedIsOwn' /\
    TurnsPollAll' /\ PriorityKept'
    BY <1>3, Undisturbed DEF WriteStdin
  <2>2. GoroutinesTyped'
    BY <1>3 DEF WriteStdin, GoroutinesTyped
  <2>3. ResultsAreFacts'
    BY <1>3 DEF WriteStdin, ProcessTyped, GoroutinesTyped, ResultsAreFacts
  <2>4. WholeSoFar'
    BY <1>3
      DEF WriteStdin, OutputTyped, OwnerTyped, GoroutinesTyped, ResultsAreFacts,
        DrainedIsDry, WholeSoFar, Overflowed, Counts, Drained
  <2> QED
    BY <2>1, <2>2, <2>3, <2>4
<1>4. CASE Reap
  <2>1. OutputTyped' /\ GoroutinesTyped' /\ OwnerTyped' /\ ResultTyped' /\
    SignalsInOrder' /\ WholeSoFar' /\ TurnsPollAll' /\ PriorityKept'
    BY <1>4, Undisturbed DEF Reap
  <2>2. ProcessTyped'
    BY <1>4 DEF Reap, ProcessTyped
  <2>3. ResultsAreFacts' /\ ProbedIsGone' /\ UndecidedIsOwn'
    BY <1>4
      DEF Reap, ProcessTyped, GoroutinesTyped, ResultsAreFacts, OwnerTyped,
        ResultTyped, ProbedIsGone, SignalsInOrder, UndecidedIsOwn
  <2>4. DrainedIsDry'
    BY <1>4
      DEF Reap, ProcessTyped, OutputTyped, OwnerTyped, DrainedIsDry, Drained,
        HoldsPipes, Counts
  <2> QED
    BY <2>1, <2>2, <2>3, <2>4
<1>5. CASE WaitReturns
  <2>1. ProcessTyped' /\ OutputTyped' /\ ResultTyped' /\ SignalsInOrder' /\
    DrainedIsDry' /\ ProbedIsGone' /\ UndecidedIsOwn' /\ WholeSoFar' /\
    TurnsPollAll' /\ PriorityKept'
    BY <1>5, Undisturbed DEF WaitReturns
  <2>2. GoroutinesTyped'
    BY <1>5 DEF WaitReturns, GoroutinesTyped
  <2>3. OwnerTyped'
    BY <1>5, BoundAssumption DEF WaitReturns, OwnerTyped
  <2>4. ResultsAreFacts'
    BY <1>5 DEF WaitReturns, ProcessTyped, GoroutinesTyped, ResultsAreFacts
  <2> QED
    BY <2>1, <2>2, <2>3, <2>4
<1>6. CASE AbortKills
  <2>1. OutputTyped' /\ OwnerTyped' /\ ResultTyped' /\ SignalsInOrder' /\
    ResultsAreFacts' /\ DrainedIsDry' /\ ProbedIsGone' /\ WholeSoFar' /\
    TurnsPollAll' /\ PriorityKept'
    BY <1>6, Undisturbed DEF AbortKills
  <2>2. ProcessTyped'
    BY <1>6 DEF AbortKills, ProcessTyped
  <2>3. GoroutinesTyped'
    BY <1>6 DEF AbortKills, GoroutinesTyped
  <2>4. UndecidedIsOwn'
    BY <1>6
      DEF AbortKills, ProcessTyped, GoroutinesTyped, OwnerTyped, SignalsInOrder,
        ResultsAreFacts, UndecidedIsOwn
  <2> QED
    BY <2>1, <2>2, <2>3, <2>4
<1>7. CASE Cancel
  <2>1. ProcessTyped' /\ OutputTyped' /\ OwnerTyped' /\ ResultTyped' /\
    SignalsInOrder' /\ ResultsAreFacts' /\ DrainedIsDry' /\ ProbedIsGone' /\
    UndecidedIsOwn' /\ WholeSoFar' /\ PriorityKept'
    BY <1>7, Undisturbed DEF Cancel
  <2>2. GoroutinesTyped'
    BY <1>7 DEF Cancel, GoroutinesTyped
  <2>3. TurnsPollAll'
    BY <1>7
      DEF Cancel, OutputTyped, OwnerTyped, GoroutinesTyped, TurnsPollAll,
        Overflowed, UndecidedIsOwn
  <2> QED
    BY <2>1, <2>2, <2>3
<1>8. CASE ExecutionTimer
  <2>1. ProcessTyped' /\ OutputTyped' /\ OwnerTyped' /\ ResultTyped' /\
    SignalsInOrder' /\ ResultsAreFacts' /\ DrainedIsDry' /\ ProbedIsGone' /\
    UndecidedIsOwn' /\ WholeSoFar' /\ PriorityKept'
    BY <1>8, Undisturbed DEF ExecutionTimer
  <2>2. GoroutinesTyped'
    BY <1>8 DEF ExecutionTimer, GoroutinesTyped
  <2>3. TurnsPollAll'
    BY <1>8
      DEF ExecutionTimer, OutputTyped, OwnerTyped, GoroutinesTyped, TurnsPollAll,
        Overflowed, UndecidedIsOwn
  <2> QED
    BY <2>1, <2>2, <2>3
<1>9. CASE TeardownDeadline
  <2>1. ProcessTyped' /\ OutputTyped' /\ OwnerTyped' /\ ResultTyped' /\
    SignalsInOrder' /\ ResultsAreFacts' /\ DrainedIsDry' /\ ProbedIsGone' /\
    UndecidedIsOwn' /\ WholeSoFar' /\ TurnsPollAll' /\ PriorityKept'
    BY <1>9, Undisturbed DEF TeardownDeadline
  <2>2. GoroutinesTyped'
    BY <1>9 DEF TeardownDeadline, GoroutinesTyped
  <2> QED
    BY <2>1, <2>2
<1> QED
  BY <1>1, <1>2, <1>3, <1>4, <1>5, <1>6, <1>7, <1>8, <1>9

----------------------------------------------------------------------------
(* The theorems.                                                           *)

LEMMA InitHolds == Init => TypeInv /\ SuperviseInv
<1> SUFFICES ASSUME Init PROVE TypeInv /\ SuperviseInv
  OBVIOUS
<1>1. PICK owned \in BOOLEAN :
        /\ result = InitialResult(owned)
        /\ doomed = IF owned THEN {} ELSE {"leader"}
  BY DEF Init
<1>2. /\ result.primary = (IF owned THEN "" ELSE "START_ERROR") /\ result.owned = owned
      /\ ~result.termSent /\ ~result.killSent /\ ~result.childWaited /\ ~result.probeClean
      /\ result.drained = {} /\ result.orphanRisk = ~owned
  BY <1>1 DEF InitialResult
<1>3. ProcessTyped /\ GoroutinesTyped
  BY <1>1 DEF Init, ProcessTyped, GoroutinesTyped
<1>4. OutputTyped
  BY BoundAssumption DEF Init, OutputTyped, Counts
<1>5. OwnerTyped
  BY BoundAssumption DEF Init, OwnerTyped
<1>6. ResultTyped
  BY <1>1, <1>2 DEF ResultTyped, Results, InitialResult
<1>7. SignalsInOrder /\ ResultsAreFacts /\ UndecidedIsOwn /\ WholeSoFar
  BY <1>1, <1>2 DEF Init, SignalsInOrder, ResultsAreFacts, UndecidedIsOwn, WholeSoFar
<1>8. DrainedIsDry
  BY <1>2 DEF Init, DrainedIsDry
<1>9. ProbedIsGone
  BY <1>2 DEF Init, ProbedIsGone
<1>10. TurnsPollAll /\ PriorityKept
  BY DEF Init, TurnsPollAll, PriorityKept
<1> QED
  BY <1>3, <1>4, <1>5, <1>6, <1>7, <1>8, <1>9, <1>10

LEMMA NextKeeps ==
  ASSUME TypeInv, SuperviseInv, [Next]_vars
  PROVE  (TypeInv /\ SuperviseInv)'
<1>1. CASE OwnerSteps
  BY <1>1, ArbitrationStep, TeardownStep, CollectStep DEF OwnerSteps
<1>2. CASE ProcessSteps
  BY <1>2, ProcessStep DEF ProcessSteps
<1>3. CASE GoroutineSteps \/ AbortKills \/ Cancel \/ ExecutionTimer \/ TeardownDeadline
  BY <1>3, GoroutineStep DEF GoroutineSteps
<1>4. CASE BeginClose \/ Abort
  BY <1>4, ArbitrationStep
<1>5. CASE UNCHANGED vars
  BY <1>5, Undisturbed DEF vars
<1> QED
  BY <1>1, <1>2, <1>3, <1>4, <1>5 DEF Next

LEMMA Supervised == Spec => [](TypeInv /\ SuperviseInv)
<1>1. TypeInv /\ SuperviseInv /\ [Next]_vars => (TypeInv /\ SuperviseInv)'
  BY NextKeeps
<1> QED
  BY InitHolds, <1>1, PTL DEF Spec

\* Every variable keeps its type, a drain reads no more than was written, and
\* every signal a result reports was authorised (teardownOwnedProcessGroup).
THEOREM SupervisionTypeOK == Spec => []TypeOK
BY Supervised, Typing, PTL

\* A closed process without an orphan risk is gone: the child was reaped, its
\* group is empty and nobody holds the output pipes (closePhysical).
THEOREM CleanCloseIsGone == Spec => []CleanMeansGone
<1>1. TypeInv /\ SuperviseInv => CleanMeansGone
  <2> SUFFICES ASSUME TypeInv, SuperviseInv, pc = "closed", ~result.orphanRisk
               PROVE  leader = "reaped" /\ descendant # "member" /\ ~HoldsPipes
    BY DEF CleanMeansGone
  <2>1. result.childWaited /\ result.drained = Streams /\ result.probeClean
    BY DEF ProbedIsGone
  <2>2. leader = "reaped" /\ descendant # "member"
    BY <2>1 DEF ProbedIsGone
  <2>3. PICK s \in Streams : drain[s] = "done" /\ s \notin shut
    BY <2>1, BoundAssumption DEF DrainedIsDry, Drained
  <2> QED
    BY <2>2, <2>3 DEF DrainedIsDry
<1> QED
  BY Supervised, <1>1, PTL

\* A result without a control holds all of the output, within the limits, and
\* its input was delivered exactly (closePhysical, cappedCapture.drain).
THEOREM ClosedBehaviourIsWhole == Spec => []BehaviourIsWhole
<1>1. TypeInv /\ SuperviseInv => BehaviourIsWhole
  <2> SUFFICES ASSUME TypeInv, SuperviseInv, pc = "closed", result.primary = "",
                      ~result.orphanRisk
               PROVE  /\ \A s \in Streams : read[s] = sent[s] /\ sent[s] <= Limit
                      /\ writer \in {"absent", "complete"}
    BY DEF BehaviourIsWhole
  <2>1. result.drained = Streams
    BY DEF ProbedIsGone
  <2>2. \A s \in Streams : read[s] = sent[s]
    BY <2>1 DEF DrainedIsDry, Drained
  <2>3. \A s \in Streams : read[s] <= Limit
    BY <2>1 DEF WholeSoFar
  <2> QED
    BY <2>2, <2>3 DEF WholeSoFar
<1> QED
  BY Supervised, <1>1, PTL

\* A result without a primary control shows an exit the child chose itself,
\* before any signal of the close or of an abort (abortBeforeClose).
THEOREM UndecidedExitsAreOwn == Spec => []ExitIsOwn
<1>1. SuperviseInv => ExitIsOwn
  BY DEF UndecidedIsOwn, ExitIsOwn
<1> QED
  BY Supervised, <1>1, PTL

\* The decision of the arbitration is not outranked by a fact that was visible
\* when its last turn began (pollTerminalPriority).
THEOREM DecisionsKeepPriority == Spec => []PriorityKept
<1>1. SuperviseInv => PriorityKept
  OBVIOUS
<1> QED
  BY Supervised, <1>1, PTL
=============================================================================
