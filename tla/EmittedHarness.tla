--------------------------- MODULE EmittedHarness ---------------------------
(***************************************************************************)
(* harness.mjs, the program emitted beside every contract: it copies the   *)
(* target's sources into a private root, runs them once as a child of its  *)
(* own, and says CONFORMS, CONTRADICTS or why it cannot say.               *)
(*                                                                         *)
(* The program is one JavaScript thread: what it does between two awaits   *)
(* is one action, and the listeners of the child and its pipes run only    *)
(* while it waits.  The child, the kernel's process group, the clock and   *)
(* whoever edits the two roots go on at any time.                          *)
(*                                                                         *)
(* A deadline is running or past, and an event is the set of the deadlines *)
(* that were past when its listener ran: observedBefore(event, deadline).  *)
(***************************************************************************)
EXTENDS Integers

CONSTANTS
  Captures,   \* the output pipes: stdout and stderr in the code
  MaxFaults   \* BOUND: pipes that break by themselves, changes of the roots

ASSUME CapturesAssumption ==
  Captures \cap {"stdin", "readiness", "socket"} = {}
ASSUME FaultsAssumption == MaxFaults \in Nat

VARIABLES
  adapter,    \* CLI or HTTP
  pc,         \* the await the program is at, or its next step
  facts,      \* what selectDirectResult judges
  verdict,
  running, past,     \* deadlines set, and those of them that are over
  leader,     \* the child: none, running, zombie, reaped
  helper,     \* a process it left in its group: none, running, gone
  status,     \* how the leader died
  owner,      \* childOwner: what the child's listeners have seen
  sent,       \* signals the kernel took
  used,       \* resources the run opened
  res,        \* what their listeners have seen
  phase,      \* the deadline that bounds the behaviour: behavioralDeadline
  terminal,   \* pollCLIPhase's decision
  response,   \* whether rawHTTPExchange's bytes are a response
  target, record,    \* content of the target, and as scanned
  root,       \* the private execution root
  replaced, edited,  \* roots swapped for another directory, or changed inside
  faults,
  ran         \* history: whether the run was whole, and ended as judged

process == <<leader, helper, status>>
child == <<owner, sent, used, res, phase, terminal, response>>
clock == <<running, past>>
files == <<target, record, root, replaced, edited>>
vars == <<adapter, pc, facts, verdict, clock, process, child, files, faults, ran>>

Resources == Captures \cup {"stdin", "readiness", "socket"}
Deadlines == {"spawn", "ready", "probe", "natural", "grace", "final"}
Roots == {"bundle", "target"}

Remaining ==
  <<"OUTPUT_LIMIT", "TIMEOUT", "TRANSPORT_FAILED", "CAPTURE_FAILED",
    "RESPONSE_PARSE_FAILED", "PROJECTION_FAILED", "READINESS_FAILED",
    "START_FAILED", "ENVIRONMENT_INVALID", "FIXTURE_OVERLAY_FAILED",
    "SOURCE_COPY_FAILED", "EXECUTION_ROOT_FAILED", "SOURCE_INVENTORY_INVALID">>
Unclean == <<"ORPHAN_RISK", "CLEANUP_FAILED", "TEARDOWN_FAILED">>
ReasonsOf(list) == {list[i] : i \in DOMAIN list}
Reasons == ReasonsOf(Unclean) \cup ReasonsOf(Remaining)

----------------------------------------------------------------------------
(* Facts and the verdict.                                                  *)

NoFacts ==
  [reasons |-> {}, internal |-> FALSE, match |-> FALSE, tamper |-> FALSE]
Add(f, why) == [f EXCEPT !.reasons = @ \cup why]
Internal(f) == [f EXCEPT !.internal = TRUE]

\* Mutant: an uncertain teardown is not held against the group.
UncertainOfTeardown(f) == Add(f, {"TEARDOWN_FAILED"})

\* addUncertainTeardown
Uncertain(f) == Add(f, {"TEARDOWN_FAILED", "ORPHAN_RISK"})
Clean(f) == f.reasons = {} /\ ~f.internal

Says(outcome, reason) == [outcome |-> outcome, reason |-> reason]
NoVerdict == Says("NONE", "NONE")
FirstIn(list, S) ==
  list[CHOOSE i \in DOMAIN list :
         list[i] \in S /\ \A j \in 1..(i - 1) : list[j] \notin S]

\* selectDirectResult
Result(f) ==
  IF f.reasons \cap ReasonsOf(Unclean) # {}
  THEN Says("INELIGIBLE_EXECUTION", FirstIn(Unclean, f.reasons))
  ELSE IF f.tamper THEN Says("TAMPER_DETECTED", "COMPANION_INTEGRITY_MISMATCH")
  ELSE IF f.internal THEN Says("HARNESS_FAILURE", "INTERNAL_INVARIANT_FAILED")
  ELSE IF f.reasons # {}
  THEN Says("INELIGIBLE_EXECUTION", FirstIn(Remaining, f.reasons))
  ELSE IF f.match THEN Says("CONFORMS", "NONE")
  ELSE Says("CONTRADICTS", "PREDICATE_MISMATCH")

----------------------------------------------------------------------------
(* Events and deadlines.                                                   *)

Never == {"never"}
Seen(D) == past \cap D
Happened(e) == e # Never
Before(e, d) == Happened(e) /\ d \notin e

NoOwner ==
  [spawned |-> Never, error |-> Never, exit |-> Never,
   status |-> "none", signals |-> 0]
Silent ==
  [active |-> FALSE, over |-> Never, good |-> Never, fail |-> Never,
   settled |-> Never, destroyed |-> FALSE]
\* The pipes that were opened, closed by the program.
Destroyed ==
  [r \in Resources |-> IF r \in used /\ ~Happened(res[r].settled)
                       THEN [res[r] EXCEPT !.destroyed = TRUE] ELSE res[r]]

NotRun == [whole |-> FALSE, attributed |-> FALSE]

Waiting ==
  {"confirm", "observe", "ready", "exchange", "settle", "natural", "grace",
   "join", "absence"}
Places ==
  {"roots", "scan", "budgets", "allocate", "subroots", "copy", "overlay",
   "environment", "spawn", "group", "rescan", "identities", "done"}
  \cup Waiting

Init ==
  /\ adapter \in {"CLI", "HTTP"}
  /\ pc = "roots" /\ facts = NoFacts /\ verdict = NoVerdict
  /\ running = {} /\ past = {}
  /\ leader = "none" /\ helper = "none" /\ status = "none"
  /\ owner = NoOwner /\ sent = 0 /\ used = {}
  /\ res = [r \in Resources |-> Silent]
  /\ phase = "none" /\ terminal = "none" /\ response = FALSE
  /\ target = "A" /\ record = "none" /\ root = "none"
  /\ replaced = {} /\ edited = {} /\ faults = 0
  /\ ran = NotRun

----------------------------------------------------------------------------
(* executeContract up to the child.                                        *)

Finished(f) ==
  /\ verdict' = Result(f) /\ pc' = "done"
  /\ UNCHANGED facts

\* canonicalDirectory and rootIdentity of both roots, startRootWatcherPair.
OpenRoots ==
  /\ pc = "roots"
  /\ \/ pc' = "scan" /\ UNCHANGED <<facts, verdict>>
     \/ \E why \in {"ENVIRONMENT_INVALID", "EXECUTION_ROOT_FAILED"} :
          Finished(Add(facts, {why}))
     \/ Finished(Internal(facts))
  /\ UNCHANGED <<adapter, clock, process, child, files, faults, ran>>

Passes(from, to) == pc = from /\ pc' = to /\ UNCHANGED facts
Refuses(from, why) ==
  pc = from /\ pc' = "rescan" /\ facts' = Add(facts, {why})
Prepares(from, to, why) ==
  /\ Passes(from, to) \/ Refuses(from, why)
  /\ UNCHANGED <<adapter, verdict, clock, process, child, files, faults, ran>>

\* One step: a file that changes while it is read refuses the scan.
ScanTarget ==
  /\ \/ /\ Passes("scan", IF adapter = "HTTP" THEN "budgets" ELSE "allocate")
        /\ record' = target
     \/ Refuses("scan", "SOURCE_INVENTORY_INVALID") /\ UNCHANGED record
  /\ UNCHANGED <<adapter, verdict, clock, process, child, target, root,
                 replaced, edited, faults, ran>>

CheckBudgets == Prepares("budgets", "allocate", "FIXTURE_OVERLAY_FAILED")

\* A directory made and then not verified stays behind, owned by nobody.
AllocateRoot ==
  /\ \/ Passes("allocate", "subroots") /\ root' = "owned"
     \/ /\ Refuses("allocate", "EXECUTION_ROOT_FAILED")
        /\ root' \in {"none", "stray"}
  /\ UNCHANGED <<adapter, verdict, clock, process, child, target, record,
                 replaced, edited, faults, ran>>

CreateSubroots == Prepares("subroots", "copy", "EXECUTION_ROOT_FAILED")
CopyInventory == Prepares("copy", "overlay", "SOURCE_COPY_FAILED")
MaterializeOverlay == Prepares("overlay", "environment", "FIXTURE_OVERLAY_FAILED")
BuildEnvironment == Prepares("environment", "spawn", "ENVIRONMENT_INVALID")

----------------------------------------------------------------------------
(* The child and the kernel.                                               *)

Alive == leader = "running" \/ helper = "running"

\* What kill(-pid, 0) may say: Darwin tells a group of one zombie in any way.
Probes ==
  IF Alive THEN {"present", "error"}
  ELSE IF leader = "zombie" THEN {"present", "absent", "error"}
  ELSE {"absent"}

\* process.kill(-pid, signal)
Signalled(answer) ==
  /\ answer \in Probes
  /\ sent' = IF answer = "present" THEN sent + 1 ELSE sent

\* Until the program's last look at them.
Runs == pc \in Waiting \cup {"group"}

LeaderExits ==
  /\ leader = "running" /\ Runs
  /\ leader' = "zombie" /\ status' \in {"zero", "nonzero"}
  /\ UNCHANGED <<adapter, pc, facts, verdict, clock, helper, child, files, faults, ran>>

HelperStarts ==
  /\ leader = "running" /\ helper = "none" /\ Runs
  /\ helper' = "running"
  /\ UNCHANGED <<adapter, pc, facts, verdict, clock, leader, status, child, files, faults, ran>>

HelperExits ==
  /\ helper = "running" /\ Runs
  /\ helper' = "gone"
  /\ UNCHANGED <<adapter, pc, facts, verdict, clock, leader, status, child, files, faults, ran>>

\* Time.  No budget outlives the final one.
DeadlinePasses ==
  /\ Runs
  /\ \E d \in running \ past :
       past' = past \cup {d}
         \cup (IF d = "final" THEN running \cap {"natural", "grace"} ELSE {})
  /\ UNCHANGED <<adapter, pc, facts, verdict, running, process, child, files, faults, ran>>

\* Mutant: a deadline is forgotten and stays past.
ClockAfterKept(over, set) ==
  running' = (running \ over) \cup set /\ UNCHANGED past

ClockAfter(over, set) ==
  running' = (running \ over) \cup set /\ past' = past \ over

----------------------------------------------------------------------------
(* Listeners.                                                              *)

Heard ==
  /\ pc \in Waiting
  /\ UNCHANGED <<adapter, pc, facts, verdict, helper, status, sent, used,
                 phase, terminal, response, files, ran>>

\* markSpawned.  The behaviour's time runs from here.
SpawnHeard ==
  /\ Heard /\ leader # "none" /\ ~Happened(owner.spawned)
  /\ owner' = [owner EXCEPT !.spawned = Seen({"spawn", "final"})]
  /\ ClockAfter({}, IF pc # "confirm" THEN {}
                    ELSE IF adapter = "CLI" THEN {"probe"} ELSE {"ready"})
  /\ UNCHANGED <<leader, res, faults>>

\* markError.  Node raises no error after a spawn it has announced.
ErrorHeard ==
  /\ Heard /\ leader = "none" /\ ~Happened(owner.error)
  /\ owner' = [owner EXCEPT !.error = Seen({"spawn", "natural", "final"})]
  /\ UNCHANGED <<leader, clock, res, faults>>

\* markExit, in the turn that reaps the child.
ExitHeard ==
  /\ Heard /\ leader = "zombie" /\ Happened(owner.spawned)
  /\ leader' = "reaped"
  /\ owner' = [owner EXCEPT
       !.exit = Seen(IF phase # "none" /\ "final" \notin running THEN {phase}
                     ELSE {"natural", "final"}),
       !.status = status, !.signals = sent]
  /\ UNCHANGED <<clock, res, faults>>

Open(r) == r \in used /\ ~Happened(res[r].settled)
Told(r) == Happened(res[r].good) \/ Happened(res[r].fail)

\* The deadline that an end or an error of r is compared with.
Bounds(r) ==
  IF r \in Captures THEN {} ELSE IF r = "readiness" THEN {"ready"} ELSE {"probe"}

\* More bytes than the limit: cappedCapture, and markOverflow of runHTTP.
OverflowHeard(r) ==
  /\ Heard /\ r \in Captures \cup {"socket"}
  /\ Open(r) /\ ~Told(r) /\ ~res[r].destroyed /\ ~Happened(res[r].over)
  /\ res' = [res EXCEPT ![r].over = Seen({"ready", "probe"}),
                        !["socket"].destroyed = @ \/ "socket" \in used]
  /\ UNCHANGED <<leader, owner, clock, faults>>

\* finish of the pipe the child reads, end of the one it is ready on.
EndHeard(r) ==
  /\ Heard /\ r \in {"stdin", "readiness"}
  /\ Open(r) /\ ~Told(r) /\ ~res[r].destroyed
  /\ r = "stdin" => res[r].active
  /\ res' = [res EXCEPT ![r].good = Seen(Bounds(r))]
  /\ UNCHANGED <<leader, owner, clock, faults>>

\* error, where the program destroys the pipe itself.
FailureHeard(r) ==
  /\ Heard /\ r \in {"stdin", "socket"}
  /\ Open(r) /\ ~Happened(res[r].fail) /\ ~res[r].destroyed
  /\ faults < MaxFaults /\ faults' = faults + 1
  /\ res' = [res EXCEPT ![r].fail = Seen(Bounds(r)),
                        ![r].destroyed = TRUE]
  /\ UNCHANGED <<leader, owner, clock>>

\* close.  An output's end is told with the close it brings, and an error of an
\* output or of readiness too: nothing else follows from either.  A socket
\* succeeds when it closes after the request was written and the response ended.
CloseHeard(r) ==
  /\ Heard /\ Open(r)
  /\ \E whole \in BOOLEAN :
       LET s == res[r]
           spoke == Told(r) \/ (r = "stdin" /\ ~s.active)
                    \/ (r = "socket" /\ Happened(s.over))
           broken == ~(whole \/ spoke \/ s.destroyed)
       IN /\ whole => ~spoke /\ r \in Captures \cup {"socket"}
          /\ whole => r = "socket" \/ ~s.destroyed
          /\ broken => faults < MaxFaults
          /\ faults' = IF broken THEN faults + 1 ELSE faults
          /\ res' = [res EXCEPT
               ![r].settled = Seen({"final"}), ![r].destroyed = FALSE,
               ![r].good = IF whole THEN Seen(Bounds(r)) ELSE @,
               ![r].fail = IF whole \/ spoke THEN @ ELSE Seen(Bounds(r))]
  /\ UNCHANGED <<leader, owner, clock>>

----------------------------------------------------------------------------
(* runCLI and runHTTP up to finalizeChild.                                 *)

\* Where finalizeChild goes once it knows whether the child was started.
GracePlace ==
  IF adapter = "HTTP" /\ ~Happened(owner.exit) THEN "natural" ELSE "group"
StartKnown ==
  \E e \in {owner.spawned, owner.error, owner.exit} : Happened(e)
FinalPlace == IF StartKnown THEN GracePlace ELSE "settle"

\* finalizeChild up to its first await.
\* After a complete observation no output is too late to be too much.
BeginFinalizing(f, complete) ==
  /\ facts' = f /\ pc' = FinalPlace
  /\ ClockAfter({"spawn"} \cup (IF complete THEN {"probe"} ELSE {}),
       {"final"} \cup (IF FinalPlace = "natural" THEN {"natural"} ELSE {}))

StartSubject ==
  /\ pc = "spawn"
  /\ \/ \* spawn throws
        /\ facts' = Add(facts, {"START_FAILED"}) /\ pc' = "rescan"
        /\ UNCHANGED <<leader, running, used>>
     \/ \* a child, or pipes of a child that failed
        /\ leader' \in {"running", "none"}
        /\ running' = {"spawn"} /\ pc' = "confirm"
        /\ used' \in {Captures \cup x : x \in
                        IF adapter = "HTTP" THEN {{"readiness"}} ELSE {{}, {"stdin"}}}
        /\ UNCHANGED facts
     \/ \* no pipes: the first listener cannot be placed
        /\ facts' = Internal(facts) /\ pc' = "settle"
        /\ running' = {"final"}
        /\ UNCHANGED <<leader, used>>
  /\ UNCHANGED <<adapter, verdict, past, helper, status, owner, sent, res,
                 phase, terminal, response, files, faults, ran>>

\* activate of every resource; stdin refuses when its pipe has spoken already.
Activated ==
  [r \in Resources |->
     IF r \notin used THEN res[r]
     ELSE IF r = "stdin" /\ (Told(r) \/ Happened(res[r].settled))
     THEN [res[r] EXCEPT !.active = TRUE, !.fail = Seen(Bounds(r))]
     ELSE [res[r] EXCEPT !.active = TRUE]]

\* awaitSpawnConfirmation, and what follows it.
ConfirmSpawn ==
  /\ pc = "confirm"
  /\ \/ /\ Before(owner.spawned, "spawn")
        /\ res' = Activated
        /\ phase' = IF adapter = "CLI" THEN "probe" ELSE "ready"
        /\ pc' = IF adapter = "CLI" THEN "observe" ELSE "ready"
        /\ ClockAfter({"spawn"}, {})
        /\ UNCHANGED facts
     \/ /\ ~Before(owner.spawned, "spawn")
        /\ Before(owner.error, "spawn") \/ "spawn" \in past
        /\ BeginFinalizing(Add(facts, {"START_FAILED"}), FALSE)
        /\ UNCHANGED <<res, phase>>
  /\ UNCHANGED <<adapter, verdict, process, owner, sent, used, terminal,
                 response, files, faults, ran>>

\* The first row that holds; a phase polls until there is one.
Decide(rows) ==
  IF \A i \in DOMAIN rows : ~rows[i][1] THEN "wait"
  ELSE rows[CHOOSE i \in DOMAIN rows :
              rows[i][1] /\ \A j \in 1..(i - 1) : ~rows[j][1]][2]

OverflowBefore(d) == \E r \in Captures : Before(res[r].over, d)

PollCLIPhase ==
  Decide(<<
    <<OverflowBefore("probe"), "OUTPUT_LIMIT">>,
    <<"probe" \in past, "TIMEOUT">>,
    <<Before(res["stdin"].fail, "probe"), "TRANSPORT_FAILED">>,
    <<Before(owner.error, "probe"), "START_FAILED">>,
    <<Before(owner.exit, "probe")
        /\ ("stdin" \in used => Happened(res["stdin"].good)), "exit">> >>)

ObserveCLI ==
  /\ pc = "observe" /\ PollCLIPhase # "wait"
  /\ terminal' = PollCLIPhase
  /\ BeginFinalizing(
       IF terminal' = "exit" THEN facts ELSE Add(facts, {terminal'}),
       terminal' = "exit")
  /\ UNCHANGED <<adapter, verdict, process, owner, sent, used, res, phase,
                 response, files, faults, ran>>

PollReadinessPhase ==
  Decide(<<
    <<OverflowBefore("ready"), "OUTPUT_LIMIT">>,
    <<"ready" \in past, "READINESS_FAILED">>,
    <<Before(owner.error, "ready"), "START_FAILED">>,
    <<Before(owner.exit, "ready"), "READINESS_FAILED">>,
    <<Before(res["readiness"].fail, "ready"), "READINESS_FAILED">>,
    <<Before(res["readiness"].good, "ready"), "frame">> >>)

\* awaitHTTPReadiness; a good frame opens the socket.
AwaitReadiness ==
  /\ pc = "ready" /\ PollReadinessPhase # "wait"
  /\ \/ /\ PollReadinessPhase = "frame"
        /\ used' = used \cup {"socket"}
        /\ res' = [res EXCEPT !["socket"].active = TRUE]
        /\ phase' = "probe" /\ pc' = "exchange"
        /\ ClockAfter({"ready"}, {"probe"})
        /\ UNCHANGED facts
     \/ /\ BeginFinalizing(Add(facts,
             IF PollReadinessPhase = "frame" THEN {"READINESS_FAILED"}
             ELSE {PollReadinessPhase}), FALSE)
        /\ UNCHANGED <<used, res, phase>>
  /\ UNCHANGED <<adapter, verdict, process, owner, sent, terminal, response, files, faults, ran>>

PollHTTPProbePhase ==
  Decide(<<
    <<OverflowBefore("probe") \/ Before(res["socket"].over, "probe"), "OUTPUT_LIMIT">>,
    <<"probe" \in past, "TIMEOUT">>,
    <<Before(owner.error, "probe") \/ Before(res["socket"].fail, "probe"), "TRANSPORT_FAILED">>,
    <<Before(owner.exit, "probe") /\ owner.status = "nonzero", "TRANSPORT_FAILED">>,
    <<Before(res["socket"].good, "probe"), "success">> >>)

\* parseHTTPResponse
ResponseRefusals == {"OUTPUT_LIMIT", "RESPONSE_PARSE_FAILED"}

\* rawHTTPExchange, and the parsing of its bytes.
ExchangeHTTP ==
  /\ pc = "exchange" /\ PollHTTPProbePhase # "wait"
  /\ IF PollHTTPProbePhase = "success"
     THEN /\ \/ response' = TRUE /\ BeginFinalizing(facts, TRUE)
             \/ /\ \E why \in ResponseRefusals :
                     BeginFinalizing(Add(facts, {why}), FALSE)
                /\ UNCHANGED response
          /\ UNCHANGED res
     ELSE /\ res' = [res EXCEPT !["socket"].destroyed = TRUE]
          /\ BeginFinalizing(Add(facts, {PollHTTPProbePhase}), FALSE)
          /\ UNCHANGED response
  /\ UNCHANGED <<adapter, verdict, process, owner, sent, used, phase, terminal, files, faults, ran>>

----------------------------------------------------------------------------
(* finalizeChild.                                                          *)

AwaitStart ==
  /\ pc = "settle"
  /\ \/ \E e \in {owner.spawned, owner.error, owner.exit} : Before(e, "final")
     \/ "final" \in past
  /\ pc' = GracePlace
  /\ ClockAfter({}, IF GracePlace = "natural" THEN {"natural"} ELSE {})
  /\ UNCHANGED <<adapter, facts, verdict, process, child, files, faults, ran>>

\* A server may end by itself, in a quarter of the time.
AwaitNaturalExit ==
  /\ pc = "natural"
  /\ \/ Before(owner.exit, "natural") \/ Before(owner.error, "natural")
     \/ "natural" \in past
  /\ pc' = "group"
  /\ ClockAfter({"natural"}, {})
  /\ UNCHANGED <<adapter, facts, verdict, process, child, files, faults, ran>>

Joins(f) == pc' = "join" /\ facts' = f

\* The group of a confirmed child is probed, and signalled when it is there.
TerminateGroup ==
  /\ pc = "group" /\ Happened(owner.spawned)
  /\ IF "final" \in past
     THEN Joins(Uncertain(facts)) /\ UNCHANGED <<sent, running>>
     ELSE \/ "absent" \in Probes /\ Joins(facts) /\ UNCHANGED <<sent, running>>
          \/ "error" \in Probes /\ Joins(Uncertain(facts)) /\ UNCHANGED <<sent, running>>
          \/ /\ "present" \in Probes
             /\ \E answer \in Probes :
                  /\ Signalled(answer)
                  /\ CASE answer = "present" ->
                            /\ pc' = "grace" /\ running' = running \cup {"grace"}
                            /\ UNCHANGED facts
                       [] answer = "absent" -> Joins(facts) /\ UNCHANGED running
                       [] answer = "error" -> Joins(Uncertain(facts)) /\ UNCHANGED running
  /\ UNCHANGED <<adapter, verdict, past, process, owner, used, res, phase,
                 terminal, response, files, faults, ran>>

\* Without a confirmed child there is nothing to signal.
AbandonUnconfirmed ==
  /\ pc = "group" /\ ~Happened(owner.spawned)
  /\ Joins(IF Happened(owner.error) THEN facts ELSE Uncertain(facts))
  /\ res' = Destroyed
  /\ UNCHANGED <<adapter, verdict, clock, process, owner, sent, used, phase,
                 terminal, response, files, faults, ran>>

\* After SIGTERM: waitForGroupAbsence, and SIGKILL for what is still there.
AwaitGrace ==
  /\ pc = "grace"
  /\ \/ /\ "grace" \notin past /\ "absent" \in Probes
        /\ Joins(facts) /\ UNCHANGED sent
     \/ /\ "grace" \in past /\ "final" \in past
        /\ Joins(Uncertain(facts)) /\ UNCHANGED sent
     \/ /\ "grace" \in past /\ "final" \notin past
        /\ \/ "absent" \in Probes /\ Joins(facts) /\ UNCHANGED sent
           \/ "error" \in Probes /\ Joins(Uncertain(facts)) /\ UNCHANGED sent
           \/ /\ "present" \in Probes
              /\ \E answer \in Probes :
                   /\ Signalled(answer)
                   /\ Joins(IF answer = "error" THEN Uncertain(facts) ELSE facts)
  /\ ClockAfter({"grace"}, {})
  /\ UNCHANGED <<adapter, verdict, process, owner, used, res, phase, terminal,
                 response, files, faults, ran>>

ReasonOf(r) ==
  IF r \in Captures THEN "CAPTURE_FAILED"
  ELSE IF r = "readiness" THEN "READINESS_FAILED" ELSE "TRANSPORT_FAILED"

\* recordResourceFailure, for the failures seen and for those of Late.
Failures(Late) ==
  {ReasonOf(r) : r \in {x \in used :
     res[x].active /\ (Happened(res[x].fail) \/ x \in Late)}}

ChildCompleted ==
  Before(IF Happened(owner.spawned) THEN owner.exit ELSE owner.error, "final")
Unsettled == {r \in used : ~Before(res[r].settled, "final")}
\* Mutant: the pipes are not joined.
JoinCompleteByChild == ChildCompleted

JoinComplete == ChildCompleted /\ Unsettled = {}

\* Mutant: the join has no deadline.
JoinForever ==
  /\ pc = "join" /\ JoinComplete
  /\ facts' = Add(facts, Failures({}))
  /\ pc' = "absence"
  /\ UNCHANGED <<adapter, verdict, clock, process, owner, sent, used, res, phase,
                 terminal, response, files, faults, ran>>

Join ==
  /\ pc = "join"
  /\ \/ /\ JoinComplete
        /\ facts' = Add(facts, Failures({}))
        /\ UNCHANGED res
     \/ /\ ~JoinComplete /\ "final" \in past
        /\ facts' = Add(Uncertain(facts), Failures(Unsettled))
        /\ res' = Destroyed
  /\ pc' = "absence"
  /\ UNCHANGED <<adapter, verdict, clock, process, owner, sent, used, phase,
                 terminal, response, files, faults, ran>>

NaturalExit ==
  Before(owner.exit, "final") /\ owner.signals = 0

\* recordFinalOutputOverflow
LateOverflow(complete) ==
  /\ phase # "none"
  /\ OverflowBefore(phase) \/ (complete /\ \E r \in Captures : Happened(res[r].over))

\* Mutant: a server's own end is not looked at.
JudgedByOutput(f) ==
  Add(f, IF LateOverflow(terminal = "exit" \/ response)
         THEN {"OUTPUT_LIMIT"} ELSE {})

\* runCLI and runHTTP after finalizeChild, up to the projection.
Judged(f) ==
  LET complete == terminal = "exit" \/ response
      own == adapter = "HTTP" /\ "socket" \in used
             /\ NaturalExit /\ owner.status = "nonzero"
  IN Add(f, (IF own THEN {"TRANSPORT_FAILED"} ELSE {})
            \cup (IF LateOverflow(complete) THEN {"OUTPUT_LIMIT"} ELSE {}))

\* projectCLI or projectHTTP, and predicateMatches.
Projects(f) ==
  IF Clean(f) /\ (IF adapter = "HTTP" THEN response
                  ELSE terminal = "exit" /\ Happened(owner.exit))
  THEN {f, [f EXCEPT !.match = TRUE], Add(f, {"PROJECTION_FAILED"})}
  ELSE {f}

\* What the verdict will speak of: the child is reaped and its group empty,
\* every pipe ended by itself and closed, and no output was cut.
Whole ==
  /\ leader = "reaped" /\ ~Alive
  /\ \A r \in used : /\ Happened(res[r].settled) /\ Happened(res[r].good)
                     /\ ~Happened(res[r].fail) /\ ~Happened(res[r].over)

\* A command ended before the first signal; a server did not fail before it.
Attributed ==
  IF adapter = "CLI" THEN owner.signals = 0
  ELSE owner.signals = 0 => owner.status = "zero"

\* The rest of finalizeChild, and the end of the run, whose record is dropped.
\* A probe that failed on the way is told too.
Finish ==
  /\ pc = "absence"
  /\ \E f \in
       IF ~Happened(owner.spawned) THEN {facts}
       ELSE IF "final" \in past THEN {Add(facts, {"ORPHAN_RISK"}), Uncertain(facts)}
       ELSE IF "absent" \in Probes THEN {facts} ELSE {} :
       LET g == IF Happened(owner.spawned) /\ ~Happened(owner.exit)
                THEN Uncertain(f) ELSE f
       IN facts' \in Projects(Judged(Add(g, Failures({}))))
  /\ ran' = [whole |-> Whole, attributed |-> Attributed]
  /\ pc' = "rescan"
  /\ running' = {} /\ past' = {}
  /\ owner' = NoOwner /\ sent' = 0 /\ used' = {}
  /\ res' = [r \in Resources |-> Silent]
  /\ phase' = "none" /\ terminal' = "none" /\ response' = FALSE
  /\ UNCHANGED <<adapter, verdict, process, files, faults>>

----------------------------------------------------------------------------
(* executeContract after the child.                                        *)

\* The second scan of the target.
Rescanned(f) ==
  (IF record \in {"none", target} THEN {f} ELSE {})
  \cup (IF record = "none" THEN {} ELSE {Add(f, {"SOURCE_INVENTORY_INVALID"})})

\* The second scan, and in the same turn the removal of the private root.
WindUp ==
  /\ pc = "rescan" /\ pc' = "identities"
  /\ \E f \in Rescanned(facts) :
       \/ /\ root' = IF root = "owned" THEN "removed" ELSE root
          /\ facts' = f
       \/ /\ root = "owned" /\ UNCHANGED root
          /\ facts' \in {Add(f, {"CLEANUP_FAILED"}), Internal(f)}
  /\ UNCHANGED <<adapter, verdict, clock, process, child, target, record,
                 replaced, edited, faults, ran>>

\* The identities of the roots, what the watchers have reported by now, and
\* their closing.  A root swapped away to nothing is a failure of the harness.
CheckRoots ==
  /\ pc = "identities"
  /\ \E gone \in SUBSET replaced, noticed \in SUBSET (edited \cup replaced),
        deaf, stuck \in BOOLEAN :
       LET changed == (replaced \ gone) \cup noticed
           why == (IF "target" \in changed THEN {"SOURCE_INVENTORY_INVALID"} ELSE {})
                  \cup (IF deaf THEN {"ENVIRONMENT_INVALID"} ELSE {})
       IN Finished([Add(facts, why) EXCEPT
            !.tamper = "bundle" \in changed,
            !.internal = @ \/ gone # {} \/ stuck])
  /\ UNCHANGED <<adapter, clock, process, child, files, faults, ran>>

----------------------------------------------------------------------------
(* Whoever works in the two roots meanwhile.  The program looks at the      *)
(* start and when the child has gone: a change between is one made just     *)
(* before it looks again, and one before the first look another target.    *)

EditRoot(r) ==
  /\ pc \in {"rescan", "identities"}
  /\ faults < MaxFaults /\ faults' = faults + 1
  /\ \/ /\ edited' = edited \cup {r}
        /\ target' = IF r = "bundle" THEN target ELSE IF target = "A" THEN "B" ELSE "A"
        /\ UNCHANGED replaced
     \/ replaced' = replaced \cup {r} /\ UNCHANGED <<edited, target>>
  /\ UNCHANGED <<adapter, pc, facts, verdict, clock, process, child, record, root, ran>>

HarnessStep ==
  \/ OpenRoots \/ ScanTarget \/ CheckBudgets \/ AllocateRoot \/ CreateSubroots
  \/ CopyInventory \/ MaterializeOverlay \/ BuildEnvironment \/ StartSubject
  \/ ConfirmSpawn \/ ObserveCLI \/ AwaitReadiness \/ ExchangeHTTP
  \/ AwaitStart \/ AwaitNaturalExit \/ TerminateGroup \/ AbandonUnconfirmed
  \/ AwaitGrace \/ Join \/ Finish \/ WindUp \/ CheckRoots

Listens ==
  \/ SpawnHeard \/ ErrorHeard \/ ExitHeard
  \/ \E r \in Resources :
       OverflowHeard(r) \/ EndHeard(r) \/ FailureHeard(r) \/ CloseHeard(r)

Environment ==
  \/ LeaderExits \/ HelperStarts \/ HelperExits
  \/ \E r \in Roots : EditRoot(r)

Next == HarnessStep \/ DeadlinePasses \/ Listens \/ Environment

Spec == Init /\ [][Next]_vars

\* The program goes on when it can and time passes.  Nothing is asked of the
\* child, of its pipes or of the kernel's answers.
FairSpec == Spec /\ WF_vars(HarnessStep) /\ WF_vars(DeadlinePasses)

----------------------------------------------------------------------------
(* Properties.                                                             *)

Events == {Never} \cup SUBSET Deadlines

TypeOK ==
  /\ adapter \in {"CLI", "HTTP"} /\ pc \in Places
  /\ facts \in [reasons : SUBSET Reasons, internal : BOOLEAN,
                match : BOOLEAN, tamper : BOOLEAN]
  /\ running \subseteq Deadlines /\ past \subseteq running
  /\ leader \in {"none", "running", "zombie", "reaped"}
  /\ helper \in {"none", "running", "gone"}
  /\ status \in {"none", "zero", "nonzero"}
  /\ owner \in [spawned : Events, error : Events, exit : Events,
                status : {"none", "zero", "nonzero"}, signals : 0..2]
  /\ sent \in 0..2 /\ used \subseteq Resources
  /\ res \in [Resources -> [active : BOOLEAN, over : Events, good : Events,
               fail : Events, settled : Events, destroyed : BOOLEAN]]
  /\ phase \in {"none", "ready", "probe"}
  /\ terminal \in {"none", "exit"} \cup Reasons /\ response \in BOOLEAN
  /\ target \in {"A", "B"} /\ record \in {"none", "A", "B"}
  /\ root \in {"none", "owned", "stray", "removed"}
  /\ replaced \subseteq Roots /\ edited \subseteq Roots
  /\ faults \in 0..MaxFaults /\ ran \in [whole : BOOLEAN, attributed : BOOLEAN]

SpeaksOfBehaviour == verdict.outcome \in {"CONFORMS", "CONTRADICTS"}

\* A verdict on behaviour rests on a whole run: nobody of the child's group is
\* left, every pipe was read to its end and closed in time, no output was cut,
\* and nothing is left of the private root.
VerdictIsWhole == SpeaksOfBehaviour => ran.whole /\ root = "removed"

\* A process of the child's group that outlives the harness is always told, as
\* the first reason, whatever else went wrong: also of a child whose start was
\* never confirmed.
OrphansAreTold ==
  verdict # NoVerdict /\ Alive => verdict.reason = "ORPHAN_RISK"

\* The harness's own signals never pass for behaviour, nor a server's own
\* failure for the end the harness put to it: a judged command ended before any
\* signal, and a judged server did not fail before the first.
EndIsAttributed == SpeaksOfBehaviour => ran.attributed

\* The harness says something in the end, with a child that never exits, pipes
\* that never close and a kernel that answers with errors.
EndsWithVerdict == <>(verdict # NoVerdict)
=============================================================================
