------------------------- MODULE ProcessSupervision -------------------------
(***************************************************************************)
(* One supervised process of internal/processmechanics on Darwin: the      *)
(* goroutine that owns it and calls Close, its wait, drain and stdin       *)
(* goroutines, an abort racing the close, the timers, and the process      *)
(* group the kernel runs in the meantime.                                  *)
(*                                                                         *)
(* The group is its leader (the direct child) and one descendant, which    *)
(* may close the output pipes it inherited or leave the group.  Output is  *)
(* counted in units of one capture limit's granularity; what a capture     *)
(* retains, and whether it overflowed, follows from the count read.        *)
(* A timer may go off at any moment after it was armed.                    *)
(***************************************************************************)
EXTENDS Naturals, FiniteSets

CONSTANTS
  Streams,     \* stdout and stderr
  Limit,       \* capture limit of each stream
  MaxOutput,   \* bound: output written to each stream
  MaxFaults    \* bound: unexpected errors of group probes and of the wait

ASSUME BoundAssumption ==
  /\ IsFiniteSet(Streams) /\ Streams # {}
  /\ Limit \in Nat \ {0} /\ MaxOutput \in Nat /\ MaxFaults \in Nat

VARIABLES
  leader,      \* the direct child
  descendant,  \* a descendant in its group, or one that left the group
  piped,       \* whether the descendant holds the output pipes
  doomed,      \* processes a KILL signal has reached
  sent, read,  \* per stream: output written, and output its drain has read
  drain,       \* per stream: the drain goroutine, "late" if it ended too late
  shut,        \* output pipes the owner has closed
  writer,      \* the stdin goroutine
  waitC,       \* the channel of the wait goroutine: one result, taken once
  cancelled, fired, late,  \* context, execution timer, teardown deadline
  aborting,    \* an abort has marked the result and not yet killed the child
  pc,          \* the next step of the owner
  waited, stdinSeen,  \* results the owner has received
  result,
  visible,     \* history: terminal facts visible when the last poll began
  own,         \* history: the leader exited before any signal of the owner
  reaped,      \* history: the owner received an ordinary exit
  faults

group == <<leader, descendant, piped, doomed, own>>
output == <<sent, read, drain, shut>>
clocks == <<cancelled, fired, late>>
received == <<waited, stdinSeen, reaped>>
vars == <<group, output, writer, waitC, clocks, aborting, pc, received, result,
          visible, faults>>

Arbitrating == {"latch", "output", "cancel", "deadline", "select"}
TearingDown == {"preTerm", "term", "grace", "kill", "wait", "waitTimer", "waitOnce",
                "stdin", "stdinClose", "drains", "snapshot", "finalProbe"}

InitialResult(owned) ==
  [primary |-> IF owned THEN "" ELSE "START_ERROR",
   owned |-> owned, preTerm |-> "NOT_APPLICABLE",
   termSent |-> FALSE, killSent |-> FALSE, childWaited |-> FALSE,
   stdinComplete |-> FALSE, drained |-> {}, probeClean |-> FALSE,
   teardownError |-> ~owned, orphanRisk |-> ~owned]

\* A started process.  One whose group could not be confirmed has been killed.
Init ==
  /\ \E owned \in BOOLEAN :
       /\ result = InitialResult(owned)
       /\ doomed = IF owned THEN {} ELSE {"leader"}
  /\ writer \in {"absent", "writing"}
  /\ leader = "running" /\ descendant = "none" /\ piped = FALSE /\ own = FALSE
  /\ sent = [s \in Streams |-> 0] /\ read = [s \in Streams |-> 0]
  /\ drain = [s \in Streams |-> "reading"] /\ shut = {}
  /\ waitC = "none" /\ waited = "none" /\ stdinSeen = "none" /\ reaped = FALSE
  /\ cancelled = FALSE /\ fired = FALSE /\ late = FALSE
  /\ aborting = FALSE
  /\ pc = "running"
  /\ visible = {}
  /\ faults = 0

(***************************************************************************)
(* The process group.                                                      *)
(***************************************************************************)
Acts(process) ==
  /\ process \notin doomed
  /\ IF process = "leader" THEN leader = "running" ELSE descendant # "none"

HoldsPipes == leader = "running" \/ (descendant # "none" /\ piped)
GroupRuns == leader = "running" \/ descendant = "member"

Fork ==
  /\ Acts("leader")
  /\ descendant = "none"
  /\ descendant' = "member"
  /\ piped' = TRUE
  /\ UNCHANGED <<leader, doomed, own, output, writer, waitC, clocks, aborting, pc,
                 received, result, visible, faults>>

\* The descendant closes its output, or leaves the group by setsid or setpgid.
ClosePipes ==
  /\ Acts("descendant")
  /\ piped' = FALSE
  /\ UNCHANGED <<leader, descendant, doomed, own, output, writer, waitC, clocks,
                 aborting, pc, received, result, visible, faults>>

Escape ==
  /\ Acts("descendant")
  /\ descendant' = "escaped"
  /\ UNCHANGED <<leader, piped, doomed, own, output, writer, waitC, clocks, aborting,
                 pc, received, result, visible, faults>>

DescendantExits ==
  /\ descendant # "none"
  /\ descendant' = "none"
  /\ piped' = FALSE
  /\ doomed' = doomed \ {"descendant"}
  /\ UNCHANGED <<leader, own, output, writer, waitC, clocks, aborting, pc, received,
                 result, visible, faults>>

LeaderExits ==
  /\ leader = "running"
  /\ leader' = "zombie"
  /\ own' = ("leader" \notin doomed /\ ~result.termSent)
  /\ UNCHANGED <<descendant, piped, doomed, output, writer, waitC, clocks, aborting,
                 pc, received, result, visible, faults>>

Write(s) ==
  /\ Acts("leader") \/ (Acts("descendant") /\ piped)
  /\ sent[s] < MaxOutput
  /\ sent' = [sent EXCEPT ![s] = @ + 1]
  /\ UNCHANGED <<group, read, drain, shut, writer, waitC, clocks, aborting, pc, received,
                 result, visible, faults>>

(***************************************************************************)
(* The goroutines of the started process, and its timers.                  *)
(***************************************************************************)
Overflowed(s) == read[s] > Limit

\* cappedCapture.drain
DrainRead(s) ==
  /\ drain[s] = "reading"
  /\ s \notin shut
  /\ read[s] < sent[s]
  /\ read' = [read EXCEPT ![s] = @ + 1]
  /\ UNCHANGED <<group, sent, drain, shut, writer, waitC, clocks, aborting, pc, received,
                 result, visible, faults>>

DrainEnds(s) ==
  /\ drain[s] = "reading"
  /\ s \in shut \/ (~HoldsPipes /\ read[s] = sent[s])
  /\ drain' = [drain EXCEPT ![s] = IF late THEN "late" ELSE "done"]
  /\ UNCHANGED <<group, sent, read, shut, writer, waitC, clocks, aborting, pc, received,
                 result, visible, faults>>

\* writeExactStdin: everything is written and the pipe closed while a process
\* that kept its pipes may read it, or the pipe breaks, or is closed by the wait
\* or by the owner.
WriteStdin ==
  /\ writer = "writing"
  /\ \/ /\ HoldsPipes
        /\ writer' = "complete"
     \/ /\ ~HoldsPipes \/ leader = "reaped" \/ pc = "stdinClose"
        /\ writer' = "failed"
  /\ UNCHANGED <<group, output, waitC, clocks, aborting, pc, received, result, visible,
                 faults>>

\* command.Wait reaps the child and its result is sent.
Reap ==
  /\ leader = "zombie"
  /\ leader' = "reaped"
  /\ UNCHANGED <<descendant, piped, doomed, own, output, writer, waitC, clocks, aborting,
                 pc, received, result, visible, faults>>

WaitReturns ==
  /\ leader = "reaped"
  /\ waitC = "none"
  /\ \/ /\ waitC' = "exited"
        /\ UNCHANGED faults
     \/ /\ faults < MaxFaults
        /\ faults' = faults + 1
        /\ waitC' = "error"
  /\ UNCHANGED <<group, output, writer, clocks, aborting, pc, received, result, visible>>

Cancel ==
  /\ pc \in Arbitrating \cup {"running"}
  /\ ~cancelled
  /\ cancelled' = TRUE
  /\ UNCHANGED <<group, output, writer, waitC, fired, late, aborting, pc, received,
                 result, visible, faults>>

ExecutionTimer ==
  /\ pc \in Arbitrating \cup {"running"}
  /\ ~fired
  /\ fired' = TRUE
  /\ UNCHANGED <<group, output, writer, waitC, cancelled, late, aborting, pc, received,
                 result, visible, faults>>

TeardownDeadline ==
  /\ pc \in TearingDown
  /\ ~late
  /\ late' = TRUE
  /\ UNCHANGED <<group, output, writer, waitC, cancelled, fired, aborting, pc, received,
                 result, visible, faults>>

(***************************************************************************)
(* abortBeforeClose: the result is marked under the lock, the child killed *)
(* after it was dropped.                                                   *)
(***************************************************************************)
\* Mutant of Abort: the primary cause is left for the close to find.
AbortUnmarked ==
  /\ pc = "running"
  /\ ~aborting
  /\ result' = [result EXCEPT !.teardownError = TRUE]
  /\ aborting' = TRUE
  /\ UNCHANGED <<group, output, writer, waitC, clocks, pc, received, visible, faults>>

Abort ==
  /\ pc = "running"
  /\ ~aborting
  /\ result' = [result EXCEPT !.teardownError = TRUE,
                  !.primary = IF @ = "" THEN "START_ERROR" ELSE @]
  /\ aborting' = TRUE
  /\ UNCHANGED <<group, output, writer, waitC, clocks, pc, received, visible, faults>>

AbortKills ==
  /\ aborting
  /\ aborting' = FALSE
  /\ doomed' = IF leader = "running" THEN doomed \cup {"leader"} ELSE doomed
  /\ UNCHANGED <<leader, descendant, piped, own, output, writer, waitC, clocks, pc,
                 received, result, visible, faults>>

(***************************************************************************)
(* arbitrateTerminalWithStdin and pollTerminalPriority.  Every wake leads  *)
(* back to a poll that reads the sources one after the other.              *)
(***************************************************************************)
Rank == [OUTPUT_LIMIT |-> 1, PROBE_TRANSPORT_ERROR |-> 2, CANCELLED |-> 3, TIMEOUT |-> 4]

Visible ==
  (IF \E s \in Streams : Overflowed(s) THEN {"OUTPUT_LIMIT"} ELSE {})
    \cup (IF writer = "failed" \/ stdinSeen = "failed" THEN {"PROBE_TRANSPORT_ERROR"} ELSE {})
    \cup (IF cancelled THEN {"CANCELLED"} ELSE {})
    \cup (IF fired THEN {"TIMEOUT"} ELSE {})

Teardown == IF result.owned THEN "preTerm" ELSE "wait"

BeginClose ==
  /\ pc = "running"
  /\ pc' = IF result.primary = "" THEN "latch" ELSE Teardown
  /\ UNCHANGED <<group, output, writer, waitC, clocks, aborting, received, result, visible,
                 faults>>

StdinResult == IF writer \in {"complete", "failed"} THEN writer ELSE "none"

\* Each turn first latches a stdin result that is ready.
LatchStdin ==
  /\ pc = "latch"
  /\ stdinSeen' = StdinResult
  /\ visible' = Visible
  /\ pc' = "output"
  /\ UNCHANGED <<group, output, writer, waitC, clocks, aborting, waited, reaped, result,
                 faults>>

\* Only a decision for the child's own exit takes the wait result along.
Decide(primary) ==
  /\ result' = [result EXCEPT !.primary = primary]
  /\ waited' = "none"
  /\ pc' = Teardown

\* Mutant of PollOutput: a wait that was received is honoured without a new poll.
PollWaitFirst ==
  /\ pc = "output"
  /\ IF waited # "none"
     THEN pc' = Teardown /\ UNCHANGED <<result, waited>>
     ELSE IF \E s \in Streams : Overflowed(s)
     THEN Decide("OUTPUT_LIMIT")
     ELSE IF stdinSeen = "failed"
     THEN Decide("PROBE_TRANSPORT_ERROR")
     ELSE pc' = "cancel" /\ UNCHANGED <<result, waited>>
  /\ UNCHANGED <<group, output, writer, waitC, clocks, aborting, stdinSeen, reaped,
                 visible, faults>>

PollOutput ==
  /\ pc = "output"
  /\ IF \E s \in Streams : Overflowed(s)
     THEN Decide("OUTPUT_LIMIT")
     ELSE IF stdinSeen = "failed"
     THEN Decide("PROBE_TRANSPORT_ERROR")
     ELSE pc' = "cancel" /\ UNCHANGED <<result, waited>>
  /\ UNCHANGED <<group, output, writer, waitC, clocks, aborting, stdinSeen, reaped,
                 visible, faults>>

PollCancel ==
  /\ pc = "cancel"
  /\ IF cancelled THEN Decide("CANCELLED")
     ELSE pc' = "deadline" /\ UNCHANGED <<result, waited>>
  /\ UNCHANGED <<group, output, writer, waitC, clocks, aborting, stdinSeen, reaped,
                 visible, faults>>

\* A wait received on an earlier turn is honoured only after every higher
\* source was polled once more.
PollDeadline ==
  /\ pc = "deadline"
  /\ IF fired THEN Decide("TIMEOUT")
     ELSE /\ pc' = IF waited # "none" THEN Teardown ELSE "select"
          /\ UNCHANGED <<result, waited>>
  /\ UNCHANGED <<group, output, writer, waitC, clocks, aborting, stdinSeen, reaped,
                 visible, faults>>

TakeWait ==
  /\ waitC \in {"exited", "error"}
  /\ waited' = waitC
  /\ waitC' = "taken"
  /\ reaped' = (waitC = "exited")

SelectWait ==
  /\ pc = "select"
  /\ TakeWait
  /\ pc' = "latch"
  /\ UNCHANGED <<group, output, writer, clocks, aborting, stdinSeen, result, visible,
                 faults>>

\* Any other source that is ready wakes the owner.
SelectOther ==
  /\ pc = "select"
  /\ \/ Visible # {}
     \/ StdinResult # stdinSeen
  /\ pc' = "latch"
  /\ UNCHANGED <<group, output, writer, waitC, clocks, aborting, received, result,
                 visible, faults>>

(***************************************************************************)
(* teardownOwnedProcessGroup.  A zero-signal probe of a group of which     *)
(* only a zombie is left reports it present with EPERM, and so may a group *)
(* that changed its credentials; any other error is reported as such.      *)
(***************************************************************************)
Seen(outcome) ==
  \/ /\ outcome = IF GroupRuns THEN "present"
                  ELSE IF leader = "zombie" THEN "eperm" ELSE "absent"
     /\ UNCHANGED faults
  \/ /\ faults < MaxFaults
     /\ faults' = faults + 1
     /\ outcome = "error" \/ (outcome = "eperm" /\ GroupRuns)

ProbeOutcomes == {"present", "absent", "eperm", "error"}

Uncertain == [result EXCEPT !.teardownError = TRUE, !.orphanRisk = TRUE]

OwnerUnchanged ==
  UNCHANGED <<group, output, writer, waitC, clocks, aborting, received, visible>>

\* Mutant of PreTermProbe: a group that is not seen absent is signalled.
ProbeAuthorizesBlindly ==
  /\ pc = "preTerm"
  /\ \E outcome \in ProbeOutcomes :
       /\ Seen(outcome)
       /\ CASE outcome = "absent" ->
                 result' = [result EXCEPT !.preTerm = "ABSENT"] /\ pc' = "wait"
            [] outcome = "present" ->
                 result' = [result EXCEPT !.preTerm = "PRESENT"] /\ pc' = "term"
            [] OTHER ->
                 result' = [Uncertain EXCEPT !.preTerm = "UNCERTAIN"] /\ pc' = "term"
  /\ OwnerUnchanged

PreTermProbe ==
  /\ pc = "preTerm"
  /\ \E outcome \in ProbeOutcomes :
       /\ Seen(outcome)
       /\ \/ /\ outcome = "absent"
             /\ result' = [result EXCEPT !.preTerm = "ABSENT"]
             /\ pc' = "wait"
          \/ /\ outcome = "present"
             /\ result' = [result EXCEPT !.preTerm = "PRESENT"]
             /\ pc' = "term"
          \/ /\ outcome \in {"eperm", "error"}
             /\ result' = [Uncertain EXCEPT !.preTerm = "UNCERTAIN"]
             /\ pc' = "wait"
          \/ /\ outcome = "eperm" /\ ~late    \* probed again within its budget
             /\ UNCHANGED <<result, pc>>
  /\ OwnerUnchanged

SignalTerm ==
  /\ pc = "term"
  /\ \/ /\ GroupRuns
        /\ result' = [result EXCEPT !.termSent = TRUE]
        /\ pc' = "grace"
     \/ /\ ~GroupRuns    \* ESRCH is no failure, EPERM of a zombie is one
        /\ result' = IF leader = "zombie" THEN Uncertain ELSE result
        /\ pc' = "wait"
  /\ UNCHANGED faults
  /\ OwnerUnchanged

\* waitForGroupAbsence within the grace period: the group is gone, or it is
\* probed again, or the period is over.
GraceProbe ==
  /\ pc = "grace"
  /\ \E outcome \in ProbeOutcomes :
       /\ Seen(outcome)
       /\ \/ /\ outcome = "absent"
             /\ UNCHANGED result
             /\ pc' = "wait"
          \/ /\ outcome \in {"present", "eperm"} /\ ~late
             /\ UNCHANGED <<result, pc>>
          \/ /\ outcome = "present"
             /\ UNCHANGED result
             /\ pc' = "kill"
          \/ /\ outcome \in {"eperm", "error"}
             /\ result' = Uncertain
             /\ pc' = "wait"
  /\ OwnerUnchanged

Running ==
  (IF leader = "running" THEN {"leader"} ELSE {})
    \cup (IF descendant = "member" THEN {"descendant"} ELSE {})

SignalKill ==
  /\ pc = "kill"
  /\ \/ /\ GroupRuns
        /\ doomed' = doomed \cup Running
        /\ result' = [result EXCEPT !.killSent = TRUE]
     \/ /\ ~GroupRuns
        /\ result' = IF leader = "zombie" THEN Uncertain ELSE result
        /\ UNCHANGED doomed
  /\ pc' = "wait"
  /\ UNCHANGED <<leader, descendant, piped, own, output, writer, waitC, clocks, aborting,
                 received, visible, faults>>

(***************************************************************************)
(* The rest of closePhysical: the direct child, stdin, the drains, the     *)
(* capture and the last probe of the group, each until the one deadline.   *)
(***************************************************************************)
BeginWait ==
  /\ pc = "wait"
  /\ waited = "none"
  /\ pc' = IF late THEN "waitOnce" ELSE "waitTimer"
  /\ UNCHANGED <<result, faults>>
  /\ OwnerUnchanged

ReceiveWait ==
  /\ pc \in {"waitTimer", "waitOnce"}
  /\ TakeWait
  /\ pc' = "wait"
  /\ UNCHANGED <<group, output, writer, clocks, aborting, stdinSeen, result, visible,
                 faults>>

\* classifyWait: an ordinary exit completes the wait, another error does not.
ClassifyWait ==
  /\ pc = "wait"
  /\ waited # "none"
  /\ result' = IF waited = "exited" THEN [result EXCEPT !.childWaited = TRUE] ELSE Uncertain
  /\ pc' = "stdin"
  /\ UNCHANGED faults
  /\ OwnerUnchanged

\* Mutant of WaitDeadline: the owner waits for the child whatever the time.
WaitForever ==
  /\ pc = "waitOnce"
  /\ waitC \notin {"exited", "error"}
  /\ result' = Uncertain
  /\ pc' = "stdin"
  /\ doomed' = IF leader = "running" THEN doomed \cup {"leader"} ELSE doomed
  /\ UNCHANGED <<leader, descendant, piped, own, output, writer, waitC, clocks, aborting,
                 received, visible, faults>>

WaitDeadline ==
  /\ \/ pc = "waitTimer" /\ late
     \/ pc = "waitOnce" /\ waitC \notin {"exited", "error"}
  /\ result' = Uncertain
  /\ pc' = "stdin"
  /\ doomed' = IF leader = "running" THEN doomed \cup {"leader"} ELSE doomed
  /\ UNCHANGED <<leader, descendant, piped, own, output, writer, waitC, clocks, aborting,
                 received, visible, faults>>

StdinCollected(complete) ==
  [result EXCEPT !.stdinComplete = complete,
                 !.primary = IF @ = "" /\ ~complete THEN "PROBE_TRANSPORT_ERROR" ELSE @]

\* Mutant of CollectStdin: the delivery is recorded, its failure is not a control.
CollectStdinQuietly ==
  /\ pc \in {"stdin", "stdinClose"}
  /\ writer # "writing"
  /\ result' = [result EXCEPT !.stdinComplete = (writer \in {"absent", "complete"})]
  /\ pc' = "drains"
  /\ UNCHANGED faults
  /\ OwnerUnchanged

\* collectStdinDelivery, and the control for an incomplete delivery.
CollectStdin ==
  /\ pc \in {"stdin", "stdinClose"}
  /\ writer # "writing"
  /\ result' = StdinCollected(writer \in {"absent", "complete"})
  /\ pc' = "drains"
  /\ UNCHANGED faults
  /\ OwnerUnchanged

CloseStdin ==
  /\ pc = "stdin"
  /\ late
  /\ pc' = "stdinClose"
  /\ UNCHANGED <<result, faults>>
  /\ OwnerUnchanged

StdinDeadline ==
  /\ pc = "stdinClose"
  /\ result' = [StdinCollected(FALSE) EXCEPT !.teardownError = TRUE, !.orphanRisk = TRUE]
  /\ pc' = "drains"
  /\ UNCHANGED faults
  /\ OwnerUnchanged

Drained == {s \in Streams : drain[s] = "done"}

\* collectDrainCompletions: both drains ended, or the deadline is over and the
\* pipes of those that have not are closed.
CollectDrains ==
  LET open == {s \in Streams : drain[s] = "reading"} IN
  /\ pc = "drains"
  /\ open = {} \/ late
  /\ shut' = shut \cup open
  /\ result' = [result EXCEPT !.drained = Drained,
                  !.teardownError = @ \/ Drained # Streams,
                  !.orphanRisk = @ \/ Drained # Streams]
  /\ pc' = "snapshot"
  /\ UNCHANGED <<group, sent, read, drain, writer, waitC, clocks, aborting, received,
                 visible, faults>>

\* An overflow that was not seen by the arbitration is a control all the same.
Snapshot ==
  /\ pc = "snapshot"
  /\ result' = [result EXCEPT !.primary =
                  IF @ = "" /\ \E s \in Streams : Overflowed(s) THEN "OUTPUT_LIMIT" ELSE @]
  /\ pc' = IF result.owned THEN "finalProbe" ELSE "closed"
  /\ UNCHANGED faults
  /\ OwnerUnchanged

Closed(final) ==
  /\ result' = [final EXCEPT !.orphanRisk = @ \/ ~final.childWaited
                                \/ final.drained # Streams \/ ~final.probeClean]
  /\ pc' = "closed"

\* Mutant of FinalProbe: the group is taken to be gone.
FinalProbeSkipped ==
  /\ pc = "finalProbe"
  /\ Closed([result EXCEPT !.probeClean = TRUE])
  /\ UNCHANGED faults
  /\ OwnerUnchanged

\* performFinalGroupProbe: absence has to be observed before the deadline is over.
FinalProbe ==
  /\ pc = "finalProbe"
  /\ \E outcome \in ProbeOutcomes :
       /\ Seen(outcome)
       /\ \/ /\ outcome = "absent"
             /\ Closed([result EXCEPT !.probeClean = TRUE])
          \/ /\ outcome \in {"present", "eperm"} /\ ~late
             /\ UNCHANGED <<result, pc>>
          \/ /\ outcome = "error" \/ (late /\ outcome \in {"present", "eperm"})
             /\ Closed([result EXCEPT !.teardownError = @ \/ outcome # "present"])
  /\ OwnerUnchanged

(***************************************************************************)
(* Specification.                                                          *)
(***************************************************************************)
OwnerSteps ==
  \/ LatchStdin \/ PollOutput \/ PollCancel \/ PollDeadline
  \/ SelectWait \/ SelectOther
  \/ PreTermProbe \/ SignalTerm \/ GraceProbe \/ SignalKill
  \/ BeginWait \/ ReceiveWait \/ ClassifyWait \/ WaitDeadline
  \/ CollectStdin \/ CloseStdin \/ StdinDeadline
  \/ CollectDrains \/ Snapshot \/ FinalProbe

ProcessSteps ==
  \/ Fork \/ ClosePipes \/ Escape \/ DescendantExits \/ LeaderExits
  \/ \E s \in Streams : Write(s)

GoroutineSteps ==
  \/ \E s \in Streams : DrainRead(s) \/ DrainEnds(s)
  \/ WriteStdin \/ Reap \/ WaitReturns

Next ==
  \/ OwnerSteps \/ ProcessSteps \/ GoroutineSteps
  \/ BeginClose \/ Abort \/ AbortKills
  \/ Cancel \/ ExecutionTimer \/ TeardownDeadline

Spec == Init /\ [][Next]_vars

\* The owner goes on and armed timers go off.  Nothing is asked of the child, of
\* the drains or of the other goroutines: they may all be stuck.
FairSpec ==
  /\ Spec
  /\ WF_vars(OwnerSteps)
  /\ WF_vars(ExecutionTimer)
  /\ WF_vars(TeardownDeadline)

(***************************************************************************)
(* Properties.                                                             *)
(***************************************************************************)
Counts == [Streams -> 0 .. MaxOutput]
Results ==
  [primary : {"", "START_ERROR"} \cup DOMAIN Rank, owned : BOOLEAN,
   preTerm : {"NOT_APPLICABLE", "PRESENT", "ABSENT", "UNCERTAIN"},
   termSent : BOOLEAN, killSent : BOOLEAN, childWaited : BOOLEAN,
   stdinComplete : BOOLEAN, drained : SUBSET Streams, probeClean : BOOLEAN,
   teardownError : BOOLEAN, orphanRisk : BOOLEAN]

\* Every variable has its type; a drain has read no more than was written, and
\* the signals a result reports were authorised by a clean observation of the
\* group (teardownOwnedProcessGroup).
TypeOK ==
  /\ leader \in {"running", "zombie", "reaped"}
  /\ descendant \in {"none", "member", "escaped"}
  /\ piped \in BOOLEAN /\ own \in BOOLEAN /\ reaped \in BOOLEAN
  /\ doomed \subseteq {"leader", "descendant"}
  /\ sent \in Counts /\ read \in Counts
  /\ \A s \in Streams : read[s] <= sent[s]
  /\ drain \in [Streams -> {"reading", "done", "late"}]
  /\ shut \subseteq Streams
  /\ writer \in {"absent", "writing", "complete", "failed"}
  /\ waitC \in {"none", "exited", "error", "taken"}
  /\ waited \in {"none", "exited", "error"}
  /\ stdinSeen \in {"none", "complete", "failed"}
  /\ cancelled \in BOOLEAN /\ fired \in BOOLEAN /\ late \in BOOLEAN /\ aborting \in BOOLEAN
  /\ pc \in {"running", "closed"} \cup Arbitrating \cup TearingDown
  /\ result \in Results
  /\ result.termSent => result.preTerm = "PRESENT"
  /\ result.killSent => result.termSent
  /\ visible \subseteq DOMAIN Rank
  /\ faults \in 0 .. MaxFaults

\* A closed process that carries no orphan risk is really gone: the child was
\* reaped, nobody is left in its group, and nobody who could still write to its
\* output is left anywhere.  (A descendant that left the group and closed the
\* pipes is the exclusion the code states as EscapeExclusion.)
CleanMeansGone ==
  pc = "closed" /\ ~result.orphanRisk =>
    /\ leader = "reaped"
    /\ descendant # "member"
    /\ ~HoldsPipes

\* A result without any control is the program's whole behaviour: every unit of
\* output was captured within the limits, and its input was delivered exactly.
BehaviourIsWhole ==
  pc = "closed" /\ result.primary = "" /\ ~result.teardownError /\ ~result.orphanRisk =>
    /\ \A s \in Streams : read[s] = sent[s] /\ sent[s] <= Limit
    /\ writer \in {"absent", "complete"}

\* A result without a primary control shows an exit of the child's own: it ended
\* before the owner or an abort signalled anything (the abort's mark, made under
\* the lock before its kill, reaches a close that begins in between).
ExitIsOwn == pc = "closed" /\ result.primary = "" => own

\* OWNER_OBSERVED_PRIORITY_OUTPUT_PROBE_TRANSPORT_CANCEL_DEADLINE_WAIT: no fact
\* that was visible when the deciding turn of the arbitration began is outranked
\* by the decision, whichever channel woke the owner and in whatever order they
\* became ready; a child's exit outranks none of them.
PriorityKept ==
  pc \in TearingDown \cup {"closed"} =>
    \A fact \in visible :
      result.primary \in DOMAIN Rank /\ Rank[result.primary] <= Rank[fact]

\* Close returns within its budgets although the child may ignore every signal,
\* the drains and the stdin writer may hang and the wait may never report.
CloseReturns == (pc \notin {"running", "closed"}) ~> (pc = "closed")

\* docs/decisions/0002-u2-impure-boundary.md:53, "Only nil wait error or ordinary
\* ExitError completes the direct wait edge": an ordinary exit that the owner
\* received is the wait edge of the result it reports.
ReceivedWaitCompletesEdge == pc = "closed" /\ reaped => result.childWaited
=============================================================================
