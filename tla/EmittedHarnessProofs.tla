------------------------ MODULE EmittedHarnessProofs ------------------------
(***************************************************************************)
(* Theorems of the emitted harness, for every set of output pipes and      *)
(* every number of faults: its type invariant, that a verdict on behaviour *)
(* rests on a whole run, that a surviving process of the child's group is  *)
(* always told, that a judged end is the subject's own, and that a signal  *)
(* goes to a group the child still holds.                                  *)
(*                                                                         *)
(* The three properties of the verdict speak of a program that has         *)
(* forgotten the child: what they need is found while it runs and is       *)
(* carried by facts alone.  HarnessInv says what clean facts stand for at  *)
(* every place between: a phase that was completed (CleanIsComplete), then *)
(* pipes that were joined (JoinedIsSettled), then a record of a whole run  *)
(* (CleanIsWhole), and a private root that is removed (RootIsOwned).       *)
(***************************************************************************)
EXTENDS EmittedHarness, TLAPS

----------------------------------------------------------------------------
(* The type invariant, by the actors whose steps can disturb its parts.    *)

Facts == [reasons : SUBSET Reasons, internal : BOOLEAN, match : BOOLEAN, tamper : BOOLEAN]
Owners ==
  [spawned : Events, error : Events, exit : Events,
   status : {"none", "zero", "nonzero"}, signals : 0..2]
Streams ==
  [active : BOOLEAN, over : Events, good : Events, fail : Events, settled : Events,
   destroyed : BOOLEAN]

ProgramTyped ==
  /\ adapter \in {"CLI", "HTTP"} /\ pc \in Places
  /\ facts \in Facts
  /\ ran \in [whole : BOOLEAN, attributed : BOOLEAN]

ClockTyped == running \subseteq Deadlines /\ past \subseteq running

ProcessTyped ==
  /\ leader \in {"none", "running", "zombie", "reaped"}
  /\ helper \in {"none", "running", "gone"}
  /\ status \in {"none", "zero", "nonzero"}

OwnerTyped == owner \in Owners /\ sent \in 0..2

PipesTyped == used \subseteq Resources /\ res \in [Resources -> Streams]

PhaseTyped ==
  /\ phase \in {"none", "ready", "probe"}
  /\ terminal \in {"none", "exit"} \cup Reasons /\ response \in BOOLEAN

FilesTyped ==
  /\ target \in {"A", "B"} /\ record \in {"none", "A", "B"}
  /\ root \in {"none", "owned", "stray", "removed"}
  /\ replaced \subseteq Roots /\ edited \subseteq Roots

FaultsTyped == faults \in 0..MaxFaults

TypeInv ==
  /\ ProgramTyped /\ ClockTyped /\ ProcessTyped /\ OwnerTyped /\ PipesTyped
  /\ PhaseTyped /\ FilesTyped /\ FaultsTyped

LEMMA Typing == TypeOK <=> TypeInv
BY DEF TypeOK, TypeInv, ProgramTyped, ClockTyped, ProcessTyped, OwnerTyped, PipesTyped,
       PhaseTyped, FilesTyped, FaultsTyped, Facts, Owners, Streams

----------------------------------------------------------------------------
(* The strengthening that makes the properties of the verdict inductive.   *)

Unrooted == {"roots", "scan", "budgets", "allocate"}
Rooted == {"subroots", "copy", "overlay", "environment", "spawn"}
Early == Unrooted \cup Rooted
Finalizing == {"settle", "natural", "group", "grace", "join", "absence"}
WithChild == {"confirm", "observe", "ready", "exchange"} \cup Finalizing

\* Without a child there is nothing of one.
NothingWithout ==
  /\ pc \in Early => leader = "none" /\ helper = "none"
  /\ pc \notin WithChild =>
       /\ running = {} /\ past = {} /\ owner = NoOwner /\ sent = 0 /\ used = {}
       /\ res = [r \in Resources |-> Silent]
       /\ phase = "none" /\ terminal = "none" /\ response = FALSE

\* What the child's listeners have seen is so.
HeardIsSo ==
  /\ leader = "none" => helper = "none" /\ ~Happened(owner.spawned)
  /\ leader # "none" => ~Happened(owner.error)
  /\ leader = "zombie" => status # "none"
  /\ Happened(owner.exit) =>
       leader = "reaped" /\ Happened(owner.spawned) /\ owner.status # "none"

\* Nobody is signalled before the group is looked at, nor more than twice, nor
\* without a confirmed start.
SignalsCounted ==
  /\ pc \notin {"grace", "join", "absence"} => sent = 0
  /\ pc = "grace" => sent = 1 /\ Happened(owner.spawned)
  /\ owner.signals <= sent

\* A pipe that closed has said how it ended, or was never listened to, or was
\* closed for its size.
PipesSpeak ==
  \A r \in Resources :
    /\ r \notin used => res[r] = Silent
    /\ Happened(res[r].settled) =>
         Told(r) \/ (r = "stdin" /\ ~res[r].active)
         \/ (r = "socket" /\ Happened(res[r].over))
    /\ r \in {"stdin", "readiness"} => res[r].over = Never
    /\ phase # "none" /\ r \in used => res[r].active

\* The phase the program is in is the one it has opened.
PhaseIsOpen ==
  /\ phase # "none" => Happened(owner.spawned)
  /\ pc = "confirm" => phase = "none"
  /\ pc = "observe" => adapter = "CLI" /\ phase = "probe"
  /\ pc = "ready" => adapter = "HTTP" /\ phase = "ready"
  /\ pc = "exchange" => adapter = "HTTP" /\ phase = "probe" /\ "socket" \in used
  /\ pc \in {"confirm", "observe", "ready"} => "socket" \notin used
  /\ pc = "exchange" => ("probe" \in res["socket"].over => "probe" \in past)

\* Clean facts while the child is finalized: the phase was completed, a command
\* by its own exit, a server by a response.
CleanIsComplete ==
  pc \in Finalizing /\ Clean(facts) =>
    /\ phase = "probe"
    /\ adapter = "CLI" =>
         terminal = "exit" /\ Happened(owner.exit) /\ owner.signals = 0
         /\ "socket" \notin used
    /\ adapter = "HTTP" =>
         /\ response /\ "socket" \in used
         /\ Happened(res["socket"].good) /\ ~Happened(res["socket"].over)

\* Clean facts after the join: the child and every pipe ended in time.
JoinedIsSettled ==
  pc = "absence" /\ Clean(facts) =>
    Before(owner.exit, "final") /\ \A r \in used : Happened(res[r].settled)

\* A child whose start was never confirmed is a risk that is told.
UnconfirmedIsTold ==
  pc \in {"join", "absence"} /\ ~Happened(owner.spawned) /\ leader # "none" =>
    "ORPHAN_RISK" \in facts.reasons

\* The child is forgotten: what is known of it is in the facts.
OrphansAreFacts ==
  pc \in {"rescan", "identities"} /\ Alive => "ORPHAN_RISK" \in facts.reasons
CleanIsWhole ==
  pc \in {"rescan", "identities"} /\ Clean(facts) => ran.whole /\ ran.attributed

RootIsOwned ==
  /\ pc \in Unrooted => root = "none"
  /\ pc \in Rooted \cup WithChild => root = "owned"
  /\ pc = "rescan" /\ facts.reasons = {} => root = "owned"
  /\ pc = "identities" /\ Clean(facts) => root = "removed"

\* The verdict is the program's last word.
VerdictIsLast ==
  /\ pc # "done" => verdict = NoVerdict
  /\ VerdictIsWhole /\ OrphansAreTold /\ EndIsAttributed

HarnessInv ==
  /\ NothingWithout
  /\ HeardIsSo
  /\ SignalsCounted
  /\ PipesSpeak
  /\ PhaseIsOpen
  /\ CleanIsComplete
  /\ JoinedIsSettled
  /\ UnconfirmedIsTold
  /\ OrphansAreFacts
  /\ CleanIsWhole
  /\ RootIsOwned
  /\ VerdictIsLast

----------------------------------------------------------------------------
(* Facts and verdicts.                                                     *)

LEMMA ReasonsAre ==
  /\ ReasonsOf(Unclean) = {"ORPHAN_RISK", "CLEANUP_FAILED", "TEARDOWN_FAILED"}
  /\ ReasonsOf(Remaining) =
       {"OUTPUT_LIMIT", "TIMEOUT", "TRANSPORT_FAILED", "CAPTURE_FAILED",
        "RESPONSE_PARSE_FAILED", "PROJECTION_FAILED", "READINESS_FAILED", "START_FAILED",
        "ENVIRONMENT_INVALID", "FIXTURE_OVERLAY_FAILED", "SOURCE_COPY_FAILED",
        "EXECUTION_ROOT_FAILED", "SOURCE_INVENTORY_INVALID"}
<1>1. /\ DOMAIN Unclean = 1..3
      /\ Unclean[1] = "ORPHAN_RISK" /\ Unclean[2] = "CLEANUP_FAILED"
      /\ Unclean[3] = "TEARDOWN_FAILED"
  BY DEF Unclean
<1>2. /\ DOMAIN Remaining = 1..13
      /\ Remaining[1] = "OUTPUT_LIMIT" /\ Remaining[2] = "TIMEOUT"
      /\ Remaining[3] = "TRANSPORT_FAILED" /\ Remaining[4] = "CAPTURE_FAILED"
      /\ Remaining[5] = "RESPONSE_PARSE_FAILED" /\ Remaining[6] = "PROJECTION_FAILED"
      /\ Remaining[7] = "READINESS_FAILED" /\ Remaining[8] = "START_FAILED"
      /\ Remaining[9] = "ENVIRONMENT_INVALID" /\ Remaining[10] = "FIXTURE_OVERLAY_FAILED"
      /\ Remaining[11] = "SOURCE_COPY_FAILED" /\ Remaining[12] = "EXECUTION_ROOT_FAILED"
      /\ Remaining[13] = "SOURCE_INVENTORY_INVALID"
  BY DEF Remaining
<1> QED
  BY <1>1, <1>2 DEF ReasonsOf

LEMMA Added ==
  ASSUME NEW f \in Facts, NEW why \in SUBSET Reasons
  PROVE  /\ Add(f, why) \in Facts
         /\ Add(f, why).reasons = f.reasons \cup why
         /\ Add(f, why).internal = f.internal
BY DEF Add, Facts

LEMMA Uncertainty ==
  ASSUME NEW f \in Facts
  PROVE  Uncertain(f) \in Facts /\ "ORPHAN_RISK" \in Uncertain(f).reasons
<1>1. {"TEARDOWN_FAILED", "ORPHAN_RISK"} \in SUBSET Reasons
  BY ReasonsAre DEF Reasons
<1> QED
  BY <1>1, Added DEF Uncertain

LEMMA UncertainKeeps ==
  ASSUME NEW f \in Facts, NEW g \in {f, Uncertain(f)}
  PROVE  g \in Facts /\ f.reasons \subseteq g.reasons /\ g.internal = f.internal
<1>1. {"TEARDOWN_FAILED", "ORPHAN_RISK"} \in SUBSET Reasons
  BY ReasonsAre DEF Reasons
<1> QED
  BY <1>1, Added DEF Uncertain

LEMMA FailuresAreReasons ==
  ASSUME NEW Late
  PROVE  Failures(Late) \in SUBSET Reasons
<1>1. {"CAPTURE_FAILED", "READINESS_FAILED", "TRANSPORT_FAILED"} \subseteq Reasons
  BY ReasonsAre DEF Reasons
<1> QED
  BY <1>1 DEF Failures, ReasonOf

LEMMA Internally ==
  ASSUME NEW f \in Facts
  PROVE  Internal(f) \in Facts /\ Internal(f).reasons = f.reasons /\ Internal(f).internal
BY DEF Internal, Facts

\* A first reason is told first.
LEMMA OrphanFirst ==
  ASSUME NEW S, "ORPHAN_RISK" \in S
  PROVE  FirstIn(Unclean, S) = "ORPHAN_RISK"
<1>1. /\ DOMAIN Unclean = 1..3
      /\ Unclean[1] = "ORPHAN_RISK"
  BY DEF Unclean
<1>2. \A i \in DOMAIN Unclean :
        (Unclean[i] \in S /\ \A j \in 1..(i - 1) : Unclean[j] \notin S) <=> i = 1
  BY <1>1
<1>3. (CHOOSE i \in DOMAIN Unclean :
         Unclean[i] \in S /\ \A j \in 1..(i - 1) : Unclean[j] \notin S) = 1
  BY <1>1, <1>2
<1> QED
  BY <1>1, <1>3 DEF FirstIn

LEMMA ResultSays ==
  ASSUME NEW f \in Facts
  PROVE  /\ Result(f) # NoVerdict
         /\ Result(f).outcome \in {"CONFORMS", "CONTRADICTS"} => Clean(f)
         /\ "ORPHAN_RISK" \in f.reasons => Result(f).reason = "ORPHAN_RISK"
<1>1. Result(f).outcome # "NONE"
  BY DEF Result, Says
<1>2. Result(f).outcome \in {"CONFORMS", "CONTRADICTS"} => Clean(f)
  BY DEF Result, Says, Clean
<1>3. "ORPHAN_RISK" \in f.reasons => Result(f).reason = "ORPHAN_RISK"
  BY OrphanFirst, ReasonsAre DEF Result, Says
<1> QED
  BY <1>1, <1>2, <1>3 DEF NoVerdict, Says

----------------------------------------------------------------------------
(* Events and the clock.                                                   *)

LEMMA SeenHappened ==
  ASSUME ClockTyped, NEW D \in SUBSET Deadlines
  PROVE  Seen(D) \in Events /\ Happened(Seen(D))
BY DEF ClockTyped, Seen, Events, Happened, Never, Deadlines

LEMMA ClockKept ==
  ASSUME ClockTyped, NEW over \in SUBSET Deadlines, NEW set \in SUBSET Deadlines,
         ClockAfter(over, set)
  PROVE  ClockTyped'
BY DEF ClockTyped, ClockAfter

LEMMA SilentTellsNothing ==
  Silent \in Streams /\ Silent.over = Never /\ ~Happened(Silent.settled)
BY DEF Silent, Happened, Streams, Events

\* No pipe has seen anything but its destruction.
PipesKept ==
  /\ res' \in [Resources -> Streams]
  /\ \A q \in Resources :
       /\ res'[q].active = res[q].active /\ res'[q].over = res[q].over
       /\ res'[q].good = res[q].good /\ res'[q].fail = res[q].fail
       /\ res'[q].settled = res[q].settled
       /\ q \notin used => res'[q] = res[q]

LEMMA DestroyedKeeps ==
  ASSUME PipesTyped, res' \in {res, Destroyed}
  PROVE  PipesKept
<1>1. CASE res' = res
  BY <1>1 DEF PipesTyped, PipesKept
<1>2. CASE res' = Destroyed
  <2>1. \A q \in Resources :
          res'[q] = IF q \in used /\ ~Happened(res[q].settled)
                    THEN [res[q] EXCEPT !.destroyed = TRUE] ELSE res[q]
    BY <1>2 DEF Destroyed
  <2>2. res' = [q \in Resources |-> res'[q]]
    BY <1>2 DEF Destroyed
  <2>3. \A q \in Resources : res[q] \in Streams
    BY DEF PipesTyped
  <2>4. \A q \in Resources : res'[q] \in Streams
    BY <2>1, <2>3 DEF Streams
  <2> HIDE <1>2
  <2>5. res' \in [Resources -> Streams]
    BY <2>2, <2>4
  <2> QED
    BY <2>1, <2>3, <2>5 DEF PipesKept, Streams
<1> QED
  BY <1>1, <1>2

----------------------------------------------------------------------------
(* The polls of the three phases.                                          *)

\* A phase that stops waiting does so for its first row that holds.
LEMMA DecidesFirst ==
  ASSUME NEW n \in {5, 6}, NEW rows, DOMAIN rows = 1..n,
         \A i \in 1..n : rows[i][1] \in BOOLEAN
  PROVE  \/ Decide(rows) = "wait"
         \/ \E i \in 1..n : /\ rows[i][1] /\ Decide(rows) = rows[i][2]
                            /\ \A j \in 1..(i - 1) : ~rows[j][1]
<1>1. CASE \A i \in 1..n : ~rows[i][1]
  BY <1>1 DEF Decide
<1>2. CASE \E i \in 1..n : rows[i][1]
  <2> DEFINE First(i) == rows[i][1] /\ \A j \in 1..(i - 1) : ~rows[j][1]
  <2>1. \E i \in 1..n : First(i)
    BY <1>2
  <2>2. Decide(rows) = rows[CHOOSE i \in 1..n : First(i)][2]
    BY <1>2 DEF Decide
  <2> HIDE DEF First
  <2>3. First(CHOOSE i \in 1..n : First(i)) /\ (CHOOSE i \in 1..n : First(i)) \in 1..n
    BY <2>1
  <2> QED
    BY <2>2, <2>3 DEF First
<1> QED
  BY <1>1, <1>2

LEMMA PollsCLI ==
  /\ PollCLIPhase \in {"wait", "exit", "OUTPUT_LIMIT", "TIMEOUT", "TRANSPORT_FAILED",
                       "START_FAILED"}
  /\ PollCLIPhase = "exit" => Before(owner.exit, "probe")
<1> DEFINE a == OverflowBefore("probe")
           b == "probe" \in past
           c == Before(res["stdin"].fail, "probe")
           d == Before(owner.error, "probe")
           e == Before(owner.exit, "probe")
                  /\ ("stdin" \in used => Happened(res["stdin"].good))
           rows == << <<a, "OUTPUT_LIMIT">>, <<b, "TIMEOUT">>, <<c, "TRANSPORT_FAILED">>,
                      <<d, "START_FAILED">>, <<e, "exit">> >>
<1>1. PollCLIPhase = Decide(rows)
  BY DEF PollCLIPhase
<1>2. a \in BOOLEAN /\ b \in BOOLEAN /\ c \in BOOLEAN /\ d \in BOOLEAN /\ e \in BOOLEAN
  BY DEF OverflowBefore, Before, Happened
<1>3. e => Before(owner.exit, "probe")
  OBVIOUS
<1> HIDE DEF a, b, c, d, e
<1>4. /\ DOMAIN rows = 1..5
      /\ rows[1][1] = a /\ rows[2][1] = b /\ rows[3][1] = c /\ rows[4][1] = d
      /\ rows[5][1] = e
      /\ rows[1][2] = "OUTPUT_LIMIT" /\ rows[2][2] = "TIMEOUT"
      /\ rows[3][2] = "TRANSPORT_FAILED" /\ rows[4][2] = "START_FAILED"
      /\ rows[5][2] = "exit"
  OBVIOUS
<1> HIDE DEF rows
<1>5. \A i \in 1..5 : rows[i][1] \in BOOLEAN
  BY <1>2, <1>4
<1> QED
  BY <1>1, <1>3, <1>4, <1>5, DecidesFirst

LEMMA PollsReadiness ==
  PollReadinessPhase \in {"wait", "frame", "OUTPUT_LIMIT", "READINESS_FAILED", "START_FAILED"}
<1> DEFINE a == OverflowBefore("ready")
           b == "ready" \in past
           c == Before(owner.error, "ready")
           d == Before(owner.exit, "ready")
           e == Before(res["readiness"].fail, "ready")
           f == Before(res["readiness"].good, "ready")
           rows == << <<a, "OUTPUT_LIMIT">>, <<b, "READINESS_FAILED">>, <<c, "START_FAILED">>,
                      <<d, "READINESS_FAILED">>, <<e, "READINESS_FAILED">>, <<f, "frame">> >>
<1>1. PollReadinessPhase = Decide(rows)
  BY DEF PollReadinessPhase
<1>2. /\ a \in BOOLEAN /\ b \in BOOLEAN /\ c \in BOOLEAN /\ d \in BOOLEAN /\ e \in BOOLEAN
      /\ f \in BOOLEAN
  BY DEF OverflowBefore, Before, Happened
<1> HIDE DEF a, b, c, d, e, f
<1>3. /\ DOMAIN rows = 1..6
      /\ rows[1][1] = a /\ rows[2][1] = b /\ rows[3][1] = c /\ rows[4][1] = d
      /\ rows[5][1] = e /\ rows[6][1] = f
      /\ rows[1][2] = "OUTPUT_LIMIT" /\ rows[2][2] = "READINESS_FAILED"
      /\ rows[3][2] = "START_FAILED" /\ rows[4][2] = "READINESS_FAILED"
      /\ rows[5][2] = "READINESS_FAILED" /\ rows[6][2] = "frame"
  OBVIOUS
<1> HIDE DEF rows
<1>4. \A i \in 1..6 : rows[i][1] \in BOOLEAN
  BY <1>2, <1>3
<1> QED
  BY <1>1, <1>3, <1>4, DecidesFirst

LEMMA PollsProbe ==
  /\ PollHTTPProbePhase \in {"wait", "success", "OUTPUT_LIMIT", "TIMEOUT", "TRANSPORT_FAILED"}
  /\ PollHTTPProbePhase = "success" =>
       /\ Happened(res["socket"].good) /\ "probe" \notin past
       /\ ~Before(res["socket"].over, "probe")
<1> DEFINE a == OverflowBefore("probe") \/ Before(res["socket"].over, "probe")
           b == "probe" \in past
           c == Before(owner.error, "probe") \/ Before(res["socket"].fail, "probe")
           d == Before(owner.exit, "probe") /\ owner.status = "nonzero"
           e == Before(res["socket"].good, "probe")
           rows == << <<a, "OUTPUT_LIMIT">>, <<b, "TIMEOUT">>, <<c, "TRANSPORT_FAILED">>,
                      <<d, "TRANSPORT_FAILED">>, <<e, "success">> >>
<1>1. PollHTTPProbePhase = Decide(rows)
  BY DEF PollHTTPProbePhase
<1>2. a \in BOOLEAN /\ b \in BOOLEAN /\ c \in BOOLEAN /\ d \in BOOLEAN /\ e \in BOOLEAN
  BY DEF OverflowBefore, Before, Happened
<1>3. /\ e => Happened(res["socket"].good)
      /\ ~b => "probe" \notin past
      /\ ~a => ~Before(res["socket"].over, "probe")
  BY DEF Before
<1> HIDE DEF a, b, c, d, e
<1>4. /\ DOMAIN rows = 1..5
      /\ rows[1][1] = a /\ rows[2][1] = b /\ rows[3][1] = c /\ rows[4][1] = d
      /\ rows[5][1] = e
      /\ rows[1][2] = "OUTPUT_LIMIT" /\ rows[2][2] = "TIMEOUT"
      /\ rows[3][2] = "TRANSPORT_FAILED" /\ rows[4][2] = "TRANSPORT_FAILED"
      /\ rows[5][2] = "success"
  OBVIOUS
<1> HIDE DEF rows
<1>5. \A i \in 1..5 : rows[i][1] \in BOOLEAN
  BY <1>2, <1>4
<1> QED
  BY <1>1, <1>3, <1>4, <1>5, DecidesFirst

----------------------------------------------------------------------------
(* What the steps of one kind have in common.                              *)

USE DEF TypeInv, HarnessInv, process, child, clock, files

\* Before the child: a refused preparation goes on with a reason.
LEMMA EarlyStep ==
  ASSUME TypeInv, HarnessInv, pc \in Early, pc' \in Early \cup {"rescan"},
         facts' \in Facts, pc' = "rescan" => facts'.reasons # {},
         pc' \in Unrooted => root' = "none", pc' \in Rooted => root' = "owned",
         FilesTyped',
         UNCHANGED <<adapter, verdict, clock, process, child, faults, ran>>
  PROVE  (TypeInv /\ HarnessInv)'
<1>1. pc' \in Places /\ pc' \notin WithChild \cup {"identities", "done"}
      /\ pc \notin WithChild \cup {"done"}
  BY DEF Places, Early, Unrooted, Rooted, WithChild, Finalizing
<1>2. TypeInv'
  BY <1>1 DEF ProgramTyped, ClockTyped, ProcessTyped, OwnerTyped, PipesTyped, PhaseTyped,
              FaultsTyped
<1>3. NothingWithout' /\ HeardIsSo'
  BY <1>1 DEF NothingWithout, HeardIsSo
<1>4. SignalsCounted' /\ PipesSpeak'
  BY <1>1 DEF SignalsCounted, PipesSpeak, Told, NothingWithout, WithChild, Finalizing
<1>5. PhaseIsOpen' /\ CleanIsComplete' /\ JoinedIsSettled' /\ UnconfirmedIsTold'
  BY <1>1 DEF PhaseIsOpen, CleanIsComplete, JoinedIsSettled, UnconfirmedIsTold,
              NothingWithout, WithChild, Finalizing
<1>6. OrphansAreFacts' /\ CleanIsWhole' /\ RootIsOwned'
  BY <1>1 DEF OrphansAreFacts, CleanIsWhole, RootIsOwned, NothingWithout, Alive, Clean,
              Unrooted, Rooted, WithChild, Finalizing
<1>7. VerdictIsLast'
  BY <1>1 DEF VerdictIsLast, VerdictIsWhole, OrphansAreTold, EndIsAttributed,
              SpeaksOfBehaviour, NoVerdict, Says
<1> QED
  BY <1>2, <1>3, <1>4, <1>5, <1>6, <1>7

\* A phase ends and the child is finalized.
LEMMA FinalizingBegins ==
  ASSUME TypeInv, HarnessInv, pc \in {"confirm", "observe", "ready", "exchange"},
         NEW f \in Facts, NEW complete \in BOOLEAN, BeginFinalizing(f, complete),
         PipesKept, PhaseTyped', CleanIsComplete',
         UNCHANGED <<adapter, verdict, process, owner, sent, used, phase, files, faults, ran>>
  PROVE  (TypeInv /\ HarnessInv)'
<1>1. /\ facts' = f /\ pc' \in {"settle", "natural", "group"}
      /\ ClockAfter({"spawn"} \cup (IF complete THEN {"probe"} ELSE {}),
           {"final"} \cup (IF FinalPlace = "natural" THEN {"natural"} ELSE {}))
  BY DEF BeginFinalizing, FinalPlace, GracePlace
<1>2. ClockTyped'
  BY <1>1, ClockKept, ({"spawn"} \cup (IF complete THEN {"probe"} ELSE {})) \in SUBSET Deadlines,
     ({"final"} \cup (IF FinalPlace = "natural" THEN {"natural"} ELSE {})) \in SUBSET Deadlines
  DEF Deadlines
<1>3. pc' \in Places
  BY <1>1 DEF Places, Waiting
<1>4. TypeInv'
  BY <1>1, <1>2, <1>3
  DEF ProgramTyped, ProcessTyped, OwnerTyped, PipesTyped, FilesTyped, FaultsTyped, PipesKept
<1>5. NothingWithout' /\ HeardIsSo' /\ SignalsCounted'
  BY <1>1 DEF NothingWithout, HeardIsSo, SignalsCounted, Early, Unrooted, Rooted, WithChild,
              Finalizing
<1>6. PipesSpeak'
  BY DEF PipesSpeak, PipesKept, Told
<1>7. PhaseIsOpen'
  BY <1>1 DEF PhaseIsOpen
<1>8. JoinedIsSettled' /\ UnconfirmedIsTold' /\ OrphansAreFacts' /\ CleanIsWhole'
  BY <1>1 DEF JoinedIsSettled, UnconfirmedIsTold, OrphansAreFacts, CleanIsWhole
<1>9. RootIsOwned'
  BY <1>1 DEF RootIsOwned, Unrooted, Rooted, WithChild, Finalizing
<1>10. VerdictIsLast'
  BY <1>1 DEF VerdictIsLast, VerdictIsWhole, OrphansAreTold, EndIsAttributed,
              SpeaksOfBehaviour, NoVerdict, Says
<1> QED
  BY <1>4, <1>5, <1>6, <1>7, <1>8, <1>9, <1>10

\* The child is being finalized: nothing that was found is forgotten.
LEMMA FinalizingGoesOn ==
  ASSUME TypeInv, HarnessInv, pc \in Finalizing, pc' \in Finalizing,
         facts' \in Facts, facts.reasons \subseteq facts'.reasons,
         facts'.internal = facts.internal,
         PipesKept, ClockTyped', sent' \in 0..2, SignalsCounted', JoinedIsSettled',
         UnconfirmedIsTold',
         UNCHANGED <<adapter, verdict, process, owner, used, phase, terminal, response,
                     files, faults, ran>>
  PROVE  (TypeInv /\ HarnessInv)'
<1>1. /\ pc' \in Places /\ pc' \in WithChild /\ pc' \notin Early
      /\ pc' \notin {"rescan", "identities", "done", "confirm", "observe", "ready", "exchange"}
      /\ pc # "done" /\ pc \in WithChild
  BY DEF Places, Waiting, WithChild, Finalizing, Early, Unrooted, Rooted
<1>2. TypeInv'
  BY <1>1 DEF ProgramTyped, ProcessTyped, OwnerTyped, PipesTyped, PhaseTyped, FilesTyped,
              FaultsTyped, PipesKept
<1>3. NothingWithout' /\ HeardIsSo'
  BY <1>1 DEF NothingWithout, HeardIsSo
<1>4. PipesSpeak'
  BY DEF PipesSpeak, PipesKept, Told
<1>5. PhaseIsOpen'
  BY <1>1 DEF PhaseIsOpen
<1>6. CleanIsComplete'
  BY "socket" \in Resources DEF CleanIsComplete, Clean, PipesKept, Resources
<1>7. OrphansAreFacts' /\ CleanIsWhole'
  BY <1>1 DEF OrphansAreFacts, CleanIsWhole
<1>8. RootIsOwned'
  BY <1>1 DEF RootIsOwned, Early
<1>9. VerdictIsLast'
  BY <1>1 DEF VerdictIsLast, VerdictIsWhole, OrphansAreTold, EndIsAttributed,
              SpeaksOfBehaviour, NoVerdict, Says
<1> QED
  BY <1>2, <1>3, <1>4, <1>5, <1>6, <1>7, <1>8, <1>9

\* A listener of a pipe ran: what the pipe had told stays told.
LEMMA PipesHeard ==
  ASSUME TypeInv, HarnessInv, pc \in Waiting, PipesTyped', FaultsTyped', PipesSpeak',
         \A q \in Resources :
           /\ Happened(res[q].good) => Happened(res'[q].good)
           /\ Happened(res[q].settled) => Happened(res'[q].settled)
           /\ \/ res'[q].over = res[q].over
              \/ ~Told(q) /\ res'[q].over = Seen({"ready", "probe"}),
         UNCHANGED <<adapter, pc, facts, verdict, clock, process, owner, sent, used, phase,
                     terminal, response, files, ran>>
  PROVE  (TypeInv /\ HarnessInv)'
<1>1. /\ pc \in WithChild /\ pc \notin Early \cup {"rescan", "identities", "done"}
      /\ "socket" \in Resources
  BY DEF Waiting, WithChild, Finalizing, Early, Unrooted, Rooted, Resources
<1>2. TypeInv'
  BY DEF ProgramTyped, ClockTyped, ProcessTyped, OwnerTyped, PhaseTyped, FilesTyped
<1>3. NothingWithout' /\ HeardIsSo' /\ SignalsCounted'
  BY <1>1 DEF NothingWithout, HeardIsSo, SignalsCounted
<1>4. PhaseIsOpen'
  BY <1>1 DEF PhaseIsOpen, Seen
<1>5. CleanIsComplete'
  BY <1>1 DEF CleanIsComplete, Clean, Told
<1>6. JoinedIsSettled'
  BY DEF JoinedIsSettled, Clean, PipesTyped
<1>7. UnconfirmedIsTold' /\ OrphansAreFacts' /\ CleanIsWhole' /\ RootIsOwned'
  BY DEF UnconfirmedIsTold, OrphansAreFacts, CleanIsWhole, RootIsOwned, Alive, Clean
<1>8. VerdictIsLast'
  BY DEF VerdictIsLast, VerdictIsWhole, OrphansAreTold, EndIsAttributed,
         SpeaksOfBehaviour, Alive
<1> QED
  BY <1>2, <1>3, <1>4, <1>5, <1>6, <1>7, <1>8

\* The program says its last word.
LEMMA VerdictFalls ==
  ASSUME TypeInv, HarnessInv, pc \notin WithChild, NEW f \in Facts, Finished(f),
         Clean(f) => ran.whole /\ ran.attributed /\ root = "removed",
         Alive => "ORPHAN_RISK" \in f.reasons,
         UNCHANGED <<adapter, clock, process, child, files, faults, ran>>
  PROVE  (TypeInv /\ HarnessInv)'
<1>1. verdict' = Result(f) /\ pc' = "done" /\ facts' = facts
  BY DEF Finished
<1>2. "done" \notin WithChild \cup Early /\ "done" \in Places
  BY DEF WithChild, Early, Unrooted, Rooted, Finalizing, Places
<1>3. TypeInv'
  BY <1>1, <1>2 DEF ProgramTyped, ClockTyped, ProcessTyped, OwnerTyped, PipesTyped,
                    PhaseTyped, FilesTyped, FaultsTyped
<1>4. NothingWithout' /\ HeardIsSo'
  BY <1>1, <1>2 DEF NothingWithout, HeardIsSo
<1>5. SignalsCounted' /\ PipesSpeak' /\ PhaseIsOpen'
  BY <1>1, <1>2 DEF SignalsCounted, PipesSpeak, PhaseIsOpen, Told, NothingWithout
<1>6. CleanIsComplete' /\ JoinedIsSettled' /\ UnconfirmedIsTold' /\ OrphansAreFacts'
      /\ CleanIsWhole' /\ RootIsOwned'
  BY <1>1, <1>2 DEF CleanIsComplete, JoinedIsSettled, UnconfirmedIsTold, OrphansAreFacts,
                    CleanIsWhole, RootIsOwned, Early, WithChild
<1>7. VerdictIsLast'
  BY <1>1, ResultSays DEF VerdictIsLast, VerdictIsWhole, OrphansAreTold, EndIsAttributed,
                          SpeaksOfBehaviour, Alive
<1> QED
  BY <1>3, <1>4, <1>5, <1>6, <1>7

----------------------------------------------------------------------------
(* The steps of the program before the child.                              *)

LEMMA RefusesKeeps ==
  ASSUME TypeInv, HarnessInv, NEW from \in Early, NEW why \in Reasons, Refuses(from, why),
         FilesTyped', UNCHANGED <<adapter, verdict, clock, process, child, faults, ran>>
  PROVE  (TypeInv /\ HarnessInv)'
<1>1. pc \in Early /\ pc' = "rescan" /\ facts' = Add(facts, {why})
  BY DEF Refuses
<1>2. facts' \in Facts /\ facts'.reasons # {}
  BY <1>1, Added DEF ProgramTyped
<1>3. "rescan" \notin Unrooted \cup Rooted
  BY DEF Unrooted, Rooted
<1> QED
  BY <1>1, <1>2, <1>3, EarlyStep

LEMMA PassesKeeps ==
  ASSUME TypeInv, HarnessInv, NEW from \in Early, NEW to \in Early, Passes(from, to),
         to \in Unrooted => root' = "none", to \in Rooted => root' = "owned", FilesTyped',
         UNCHANGED <<adapter, verdict, clock, process, child, faults, ran>>
  PROVE  (TypeInv /\ HarnessInv)'
<1>1. pc \in Early /\ pc' = to /\ facts' = facts /\ to # "rescan"
  BY DEF Passes, Early, Unrooted, Rooted
<1> QED
  BY <1>1, EarlyStep DEF ProgramTyped

LEMMA PreparesKeeps ==
  ASSUME TypeInv, HarnessInv, NEW from \in Early, NEW to \in Early, NEW why \in Reasons,
         Prepares(from, to, why), from \in Rooted <=> to \in Rooted
  PROVE  (TypeInv /\ HarnessInv)'
<1>1. FilesTyped'
  BY DEF Prepares, FilesTyped
<1>2. pc = from /\ UNCHANGED root
  BY DEF Prepares, Passes, Refuses
<1>3. /\ to \in Unrooted => root' = "none"
      /\ to \in Rooted => root' = "owned"
  BY <1>2 DEF RootIsOwned, Early, Unrooted, Rooted
<1> QED
  BY <1>1, <1>3, RefusesKeeps, PassesKeeps DEF Prepares

LEMMA Refusals ==
  {"ENVIRONMENT_INVALID", "EXECUTION_ROOT_FAILED", "SOURCE_INVENTORY_INVALID", "START_FAILED",
   "FIXTURE_OVERLAY_FAILED", "SOURCE_COPY_FAILED", "CLEANUP_FAILED", "OUTPUT_LIMIT",
   "RESPONSE_PARSE_FAILED", "TIMEOUT", "TRANSPORT_FAILED", "READINESS_FAILED",
   "CAPTURE_FAILED", "PROJECTION_FAILED", "ORPHAN_RISK"} \subseteq Reasons
BY ReasonsAre DEF Reasons

LEMMA PreparationStep ==
  ASSUME TypeInv, HarnessInv,
         OpenRoots \/ ScanTarget \/ CheckBudgets \/ AllocateRoot \/ CreateSubroots
         \/ CopyInventory \/ MaterializeOverlay \/ BuildEnvironment
  PROVE  (TypeInv /\ HarnessInv)'
<1>0. /\ {"scan", "budgets", "allocate", "roots"} \subseteq Early \ Rooted
      /\ {"subroots", "copy", "overlay", "environment", "spawn"} \subseteq Rooted
      /\ Rooted \subseteq Early
      /\ Unrooted \cap Rooted = {}
  BY DEF Early, Unrooted, Rooted
<1>1. CASE OpenRoots
  <2>1. /\ pc = "roots"
        /\ UNCHANGED <<adapter, clock, process, child, files, faults, ran>>
    BY <1>1 DEF OpenRoots
  <2>2. CASE pc' = "scan" /\ UNCHANGED <<facts, verdict>>
    <3>1. root' = "none"
      BY <2>1 DEF RootIsOwned, Unrooted
    <3> QED
      BY <1>0, <2>1, <2>2, <3>1, PassesKeeps DEF Passes, FilesTyped
  <2>3. ASSUME NEW f \in Facts, Finished(f), ~Clean(f) PROVE (TypeInv /\ HarnessInv)'
    <3>1. ~Alive
      BY <1>0, <2>1 DEF NothingWithout, Alive
    <3>2. pc \notin WithChild
      BY <2>1 DEF WithChild, Finalizing
    <3> QED
      BY <2>1, <2>3, <3>1, <3>2, VerdictFalls
  <2>4. \A why \in Reasons : Add(facts, {why}) \in Facts /\ ~Clean(Add(facts, {why}))
    BY Added DEF ProgramTyped, Clean
  <2>5. Internal(facts) \in Facts /\ ~Clean(Internal(facts))
    BY Internally DEF ProgramTyped, Clean
  <2> QED
    BY <1>1, <2>2, <2>3, <2>4, <2>5, Refusals DEF OpenRoots
<1>2. CASE ScanTarget
  <2>1. /\ pc = "scan" /\ FilesTyped' /\ UNCHANGED root
        /\ UNCHANGED <<adapter, verdict, clock, process, child, faults, ran>>
    BY <1>2 DEF ScanTarget, Passes, Refuses, FilesTyped
  <2>2. root' = "none"
    BY <2>1 DEF RootIsOwned, Unrooted
  <2> QED
    BY <1>0, <1>2, <2>1, <2>2, Refusals, RefusesKeeps, PassesKeeps DEF ScanTarget
<1>3. CASE CheckBudgets
  BY <1>0, <1>3, Refusals, PreparesKeeps DEF CheckBudgets
<1>4. CASE AllocateRoot
  <2>1. /\ FilesTyped'
        /\ UNCHANGED <<adapter, verdict, clock, process, child, faults, ran>>
    BY <1>4 DEF AllocateRoot, FilesTyped
  <2> QED
    BY <1>0, <1>4, <2>1, Refusals, RefusesKeeps, PassesKeeps DEF AllocateRoot
<1>5. CASE CreateSubroots
  BY <1>0, <1>5, Refusals, PreparesKeeps DEF CreateSubroots
<1>6. CASE CopyInventory
  BY <1>0, <1>6, Refusals, PreparesKeeps DEF CopyInventory
<1>7. CASE MaterializeOverlay
  BY <1>0, <1>7, Refusals, PreparesKeeps DEF MaterializeOverlay
<1>8. CASE BuildEnvironment
  BY <1>0, <1>8, Refusals, PreparesKeeps DEF BuildEnvironment
<1> QED
  BY <1>1, <1>2, <1>3, <1>4, <1>5, <1>6, <1>7, <1>8

LEMMA StartSubjectKeeps ==
  ASSUME TypeInv, HarnessInv, StartSubject
  PROVE  (TypeInv /\ HarnessInv)'
<1>1. /\ pc = "spawn" /\ pc \in Rooted /\ pc \in Early /\ pc \notin WithChild
      /\ UNCHANGED <<adapter, verdict, past, helper, status, owner, sent, res,
                     phase, terminal, response, files, faults, ran>>
  BY DEF StartSubject, Early, Rooted, WithChild, Finalizing
<1>2. CASE /\ facts' = Add(facts, {"START_FAILED"}) /\ pc' = "rescan"
           /\ UNCHANGED <<leader, running, used>>
  <2>1. Refuses("spawn", "START_FAILED") /\ FilesTyped'
    BY <1>1, <1>2 DEF Refuses, FilesTyped
  <2> QED
    BY <1>1, <1>2, <2>1, RefusesKeeps, Refusals
<1>3. CASE /\ leader' \in {"running", "none"}
           /\ running' \in {{"spawn"}, {"final"}}
           /\ used' \in SUBSET (Resources \ {"socket"})
           /\ facts' \in Facts
           /\ \/ pc' = "confirm"
              \/ pc' = "settle" /\ ~Clean(facts')
  <2>1. /\ pc' \in WithChild /\ pc' \in Places
        /\ pc' \notin Early \cup {"observe", "ready", "exchange", "join", "absence", "grace",
                                  "rescan", "identities", "done"}
    BY <1>3 DEF WithChild, Finalizing, Places, Waiting, Early, Unrooted, Rooted
  <2>2. /\ leader = "none" /\ helper = "none" /\ running = {} /\ past = {} /\ owner = NoOwner
        /\ sent = 0 /\ used = {} /\ phase = "none" /\ terminal = "none" /\ response = FALSE
        /\ \A r \in Resources : res[r] = Silent
    BY <1>1 DEF NothingWithout
  <2>3. TypeInv'
    BY <1>1, <1>3, <2>1, <2>2
    DEF ProgramTyped, ClockTyped, ProcessTyped, OwnerTyped, PipesTyped, PhaseTyped,
        FilesTyped, FaultsTyped, Deadlines
  <2>4. NothingWithout' /\ HeardIsSo' /\ SignalsCounted'
    BY <1>1, <1>3, <2>1, <2>2
    DEF NothingWithout, HeardIsSo, SignalsCounted, NoOwner, Happened
  <2>5. PipesSpeak'
    <3>1. \A r \in Resources : /\ res'[r] = Silent /\ res'[r].over = Never
                               /\ ~Happened(res'[r].settled)
      BY <1>1, <2>2, SilentTellsNothing
    <3> QED
      BY <1>1, <2>2, <3>1 DEF PipesSpeak
  <2>8. PhaseIsOpen'
    BY <1>1, <1>3, <2>1, <2>2 DEF PhaseIsOpen
  <2>6. /\ CleanIsComplete' /\ JoinedIsSettled' /\ UnconfirmedIsTold' /\ OrphansAreFacts'
        /\ CleanIsWhole'
    BY <1>3, <2>1 DEF CleanIsComplete, JoinedIsSettled, UnconfirmedIsTold, OrphansAreFacts,
                CleanIsWhole, Clean, Finalizing
  <2>7. RootIsOwned' /\ VerdictIsLast'
    BY <1>1, <1>3, <2>1 DEF RootIsOwned, Early, VerdictIsLast, VerdictIsWhole, OrphansAreTold,
                EndIsAttributed, SpeaksOfBehaviour, NoVerdict, Says
  <2> QED
    BY <2>3, <2>4, <2>5, <2>6, <2>7, <2>8
<1>4. facts \in Facts /\ Internal(facts) \in Facts /\ ~Clean(Internal(facts))
  BY Internally DEF ProgramTyped, Clean
<1>5. /\ Captures \cup {"readiness"} \in SUBSET (Resources \ {"socket"})
      /\ Captures \cup {} \in SUBSET (Resources \ {"socket"})
      /\ Captures \cup {"stdin"} \in SUBSET (Resources \ {"socket"})
  BY CapturesAssumption DEF Resources
<1>6. leader = "none" /\ used = {}
  BY <1>1 DEF NothingWithout
<1>7. CASE /\ leader' \in {"running", "none"}
           /\ running' = {"spawn"} /\ pc' = "confirm"
           /\ used' \in {Captures \cup x : x \in
                           IF adapter = "HTTP" THEN {{"readiness"}} ELSE {{}, {"stdin"}}}
           /\ UNCHANGED facts
  <2>1. used' \in SUBSET (Resources \ {"socket"})
    BY <1>5, <1>7
  <2> QED
    BY <1>3, <1>4, <1>7, <2>1
<1>8. CASE /\ facts' = Internal(facts) /\ pc' = "settle"
           /\ running' = {"final"}
           /\ UNCHANGED <<leader, used>>
  BY <1>3, <1>4, <1>6, <1>8
<1> QED
  BY <1>2, <1>7, <1>8 DEF StartSubject

----------------------------------------------------------------------------
(* The steps of the program with the child.                                *)

LEMMA BoundsAre == \A r \in Resources : Bounds(r) \in SUBSET Deadlines
BY DEF Bounds, Deadlines

LEMMA ConfirmSpawnKeeps ==
  ASSUME TypeInv, HarnessInv, ConfirmSpawn
  PROVE  (TypeInv /\ HarnessInv)'
<1>1. /\ pc = "confirm"
      /\ UNCHANGED <<adapter, verdict, process, owner, sent, used, terminal,
                     response, files, faults, ran>>
  BY DEF ConfirmSpawn
<1>2. CASE /\ Before(owner.spawned, "spawn")
           /\ res' = Activated
           /\ phase' = IF adapter = "CLI" THEN "probe" ELSE "ready"
           /\ pc' = IF adapter = "CLI" THEN "observe" ELSE "ready"
           /\ ClockAfter({"spawn"}, {})
           /\ UNCHANGED facts
  <2>1. /\ pc' \in WithChild /\ pc' \in Places /\ pc' \in {"observe", "ready"}
        /\ pc' \notin Early \cup Finalizing \cup {"rescan", "identities", "done"}
        /\ "confirm" \in WithChild
    BY <1>2 DEF WithChild, Finalizing, Places, Waiting, Early, Unrooted, Rooted
  <2>2. /\ \A r \in Resources \ used : res'[r] = res[r]
        /\ \A r \in used : res'[r] =
             IF r = "stdin" /\ (Told(r) \/ Happened(res[r].settled))
             THEN [res[r] EXCEPT !.active = TRUE, !.fail = Seen(Bounds(r))]
             ELSE [res[r] EXCEPT !.active = TRUE]
    BY <1>2 DEF Activated, PipesTyped
  <2>3. ASSUME NEW r \in used
        PROVE  /\ res'[r] \in Streams /\ res'[r].active
               /\ res'[r].over = res[r].over /\ res'[r].settled = res[r].settled
               /\ Told(r) => Told(r)'
               /\ r = "stdin" /\ Happened(res[r].settled) => Told(r)'
    <3>1. res[r] \in Streams /\ Seen(Bounds(r)) \in Events /\ Happened(Seen(Bounds(r)))
      BY SeenHappened, BoundsAre DEF PipesTyped
    <3>2. CASE r = "stdin" /\ (Told(r) \/ Happened(res[r].settled))
      <4>1. res'[r] = [res[r] EXCEPT !.active = TRUE, !.fail = Seen(Bounds(r))]
        BY <2>2, <3>2
      <4>2. /\ res'[r] \in Streams /\ res'[r].active /\ res'[r].fail = Seen(Bounds(r))
            /\ res'[r].over = res[r].over /\ res'[r].settled = res[r].settled
        BY <3>1, <4>1 DEF Streams
      <4> QED
        BY <3>1, <4>2 DEF Told
    <3>3. CASE ~(r = "stdin" /\ (Told(r) \/ Happened(res[r].settled)))
      <4>1. res'[r] = [res[r] EXCEPT !.active = TRUE]
        BY <2>2, <3>3
      <4>2. /\ res'[r] \in Streams /\ res'[r].active
            /\ res'[r].fail = res[r].fail /\ res'[r].good = res[r].good
            /\ res'[r].over = res[r].over /\ res'[r].settled = res[r].settled
        BY <3>1, <4>1 DEF Streams
      <4> QED
        BY <3>3, <4>2 DEF Told
    <3> QED
      BY <3>2, <3>3
  <2>4. PipesTyped'
    <3>1. \A r \in Resources : res'[r] \in Streams
      BY <2>2, <2>3 DEF PipesTyped
    <3>2. res' = [r \in Resources |-> res'[r]]
      BY <1>2 DEF Activated
    <3> QED
      BY <1>1, <3>1, <3>2 DEF PipesTyped
  <2>5. ClockTyped'
    BY <1>2, ClockKept, {"spawn"} \in SUBSET Deadlines, {} \in SUBSET Deadlines DEF Deadlines
  <2>6. TypeInv'
    BY <1>1, <1>2, <2>1, <2>4, <2>5
    DEF ProgramTyped, ProcessTyped, OwnerTyped, PhaseTyped, FilesTyped, FaultsTyped
  <2>7. NothingWithout' /\ HeardIsSo' /\ SignalsCounted'
    BY <1>1, <2>1 DEF NothingWithout, HeardIsSo, SignalsCounted
  <2>8. PipesSpeak'
    <3>1. used' = used /\ "socket" \notin used
      BY <1>1 DEF PhaseIsOpen
    <3>2. ASSUME NEW r \in Resources \ used
          PROVE  res'[r] = Silent /\ res'[r].over = Never /\ ~Happened(res'[r].settled)
      BY <2>2, SilentTellsNothing DEF PipesSpeak
    <3>3. ASSUME NEW r \in used
          PROVE  /\ Happened(res'[r].settled) => Told(r)'
                 /\ r \in {"stdin", "readiness"} => res'[r].over = Never
      BY <2>3, <3>1 DEF PipesSpeak, PipesTyped
    <3> QED
      BY <2>3, <3>1, <3>2, <3>3 DEF PipesSpeak
  <2>9. PhaseIsOpen'
    BY <1>1, <1>2, <2>1 DEF PhaseIsOpen, Before, ProgramTyped
  <2>10. /\ CleanIsComplete' /\ JoinedIsSettled' /\ UnconfirmedIsTold' /\ OrphansAreFacts'
         /\ CleanIsWhole'
    BY <2>1 DEF CleanIsComplete, JoinedIsSettled, UnconfirmedIsTold, OrphansAreFacts,
                CleanIsWhole
  <2>11. RootIsOwned' /\ VerdictIsLast'
    BY <1>1, <2>1 DEF RootIsOwned, Early, VerdictIsLast, VerdictIsWhole, OrphansAreTold,
                EndIsAttributed, SpeaksOfBehaviour, NoVerdict, Says
  <2> QED
    BY <2>6, <2>7, <2>8, <2>9, <2>10, <2>11
<1>3. CASE /\ BeginFinalizing(Add(facts, {"START_FAILED"}), FALSE)
           /\ UNCHANGED <<res, phase>>
  <2>1. Add(facts, {"START_FAILED"}) \in Facts /\ ~Clean(Add(facts, {"START_FAILED"}))
    BY Added, Refusals DEF ProgramTyped, Clean
  <2>2. CleanIsComplete'
    BY <1>3, <2>1 DEF CleanIsComplete, BeginFinalizing
  <2>3. PipesKept /\ PhaseTyped'
    BY <1>1, <1>3, DestroyedKeeps DEF PhaseTyped
  <2> QED
    BY <1>1, <1>3, <2>1, <2>2, <2>3, FinalizingBegins
<1> QED
  BY <1>2, <1>3 DEF ConfirmSpawn

LEMMA ObserveCLIKeeps ==
  ASSUME TypeInv, HarnessInv, ObserveCLI
  PROVE  (TypeInv /\ HarnessInv)'
<1> DEFINE f == IF terminal' = "exit" THEN facts ELSE Add(facts, {terminal'})
           complete == terminal' = "exit"
<1>1. /\ pc = "observe" /\ PollCLIPhase # "wait" /\ terminal' = PollCLIPhase
      /\ BeginFinalizing(f, complete)
      /\ UNCHANGED <<adapter, verdict, process, owner, sent, used, res, phase,
                     response, files, faults, ran>>
  BY DEF ObserveCLI
<1>2. terminal' \in {"exit", "OUTPUT_LIMIT", "TIMEOUT", "TRANSPORT_FAILED", "START_FAILED"}
      /\ (terminal' = "exit" => Happened(owner.exit))
  BY <1>1, PollsCLI DEF Before
<1>3. /\ f \in Facts /\ complete \in BOOLEAN
      /\ terminal' # "exit" => ~Clean(f)
  BY <1>2, Added, Refusals DEF ProgramTyped, Clean
<1>4. facts' = f
  BY <1>1 DEF BeginFinalizing
<1>5. PipesKept /\ PhaseTyped'
  BY <1>1, <1>2, DestroyedKeeps, Refusals DEF PhaseTyped
<1> HIDE DEF f, complete
<1>6. owner.signals = 0
  BY <1>1 DEF SignalsCounted, OwnerTyped, Owners
<1>7. CleanIsComplete'
  BY <1>1, <1>2, <1>3, <1>4, <1>6 DEF CleanIsComplete, PhaseIsOpen
<1> QED
  BY <1>1, <1>3, <1>5, <1>7, FinalizingBegins

LEMMA AwaitReadinessKeeps ==
  ASSUME TypeInv, HarnessInv, AwaitReadiness
  PROVE  (TypeInv /\ HarnessInv)'
<1>1. /\ pc = "ready"
      /\ UNCHANGED <<adapter, verdict, process, owner, sent, terminal, response, files,
                     faults, ran>>
  BY DEF AwaitReadiness
<1>2. CASE /\ used' = used \cup {"socket"}
           /\ res' = [res EXCEPT !["socket"].active = TRUE]
           /\ phase' = "probe" /\ pc' = "exchange"
           /\ ClockAfter({"ready"}, {"probe"})
           /\ UNCHANGED facts
  <2>1. /\ "exchange" \in WithChild /\ "exchange" \in Places /\ "ready" \in WithChild
        /\ "exchange" \notin Early \cup Finalizing \cup {"rescan", "identities", "done"}
        /\ "socket" \in Resources
    BY DEF WithChild, Finalizing, Places, Waiting, Early, Unrooted, Rooted, Resources
  <2>2. /\ \A r \in Resources \ {"socket"} : res'[r] = res[r]
        /\ res'["socket"] = [Silent EXCEPT !.active = TRUE]
    BY <1>1, <1>2, <2>1 DEF PipesTyped, PhaseIsOpen, PipesSpeak
  <2>3. /\ res'["socket"] \in Streams /\ res'["socket"].active
        /\ res'["socket"].over = Never /\ ~Happened(res'["socket"].settled)
    BY <2>2 DEF Silent, Streams, Events, Happened
  <2>4. PipesTyped'
    <3>1. \A r \in Resources : res'[r] \in Streams
      BY <2>2, <2>3 DEF PipesTyped
    <3>2. res' = [r \in Resources |-> res'[r]]
      BY <1>2 DEF PipesTyped
    <3> QED
      BY <1>2, <2>1, <3>1, <3>2 DEF PipesTyped
  <2>5. ClockTyped'
    BY <1>2, ClockKept, {"ready"} \in SUBSET Deadlines, {"probe"} \in SUBSET Deadlines
    DEF Deadlines
  <2>6. TypeInv'
    BY <1>1, <1>2, <2>1, <2>4, <2>5
    DEF ProgramTyped, ProcessTyped, OwnerTyped, PhaseTyped, FilesTyped, FaultsTyped
  <2>7. NothingWithout' /\ HeardIsSo' /\ SignalsCounted'
    BY <1>1, <1>2, <2>1 DEF NothingWithout, HeardIsSo, SignalsCounted
  <2>8. PipesSpeak'
    <3>1. phase # "none"
      BY <1>1 DEF PhaseIsOpen
    <3>2. \A r \in Resources \ {"socket"} : Told(r) => Told(r)'
      BY <2>2 DEF Told
    <3> QED
      BY <1>2, <2>2, <2>3, <3>1, <3>2 DEF PipesSpeak
  <2>9. PhaseIsOpen'
    BY <1>1, <1>2, <2>3 DEF PhaseIsOpen, Never
  <2>10. /\ CleanIsComplete' /\ JoinedIsSettled' /\ UnconfirmedIsTold' /\ OrphansAreFacts'
         /\ CleanIsWhole'
    BY <1>2, <2>1 DEF CleanIsComplete, JoinedIsSettled, UnconfirmedIsTold, OrphansAreFacts,
                CleanIsWhole
  <2>11. RootIsOwned' /\ VerdictIsLast'
    BY <1>1, <1>2, <2>1 DEF RootIsOwned, Early, VerdictIsLast, VerdictIsWhole, OrphansAreTold,
                EndIsAttributed, SpeaksOfBehaviour, NoVerdict, Says
  <2> QED
    BY <2>6, <2>7, <2>8, <2>9, <2>10, <2>11
<1> DEFINE why == IF PollReadinessPhase = "frame" THEN {"READINESS_FAILED"}
                  ELSE {PollReadinessPhase}
<1>3. CASE BeginFinalizing(Add(facts, why), FALSE) /\ UNCHANGED <<used, res, phase>>
  <2>1. why \in SUBSET Reasons /\ why # {}
    BY PollsReadiness, Refusals DEF AwaitReadiness
  <2> HIDE DEF why
  <2>2. Add(facts, why) \in Facts /\ ~Clean(Add(facts, why))
    BY <2>1, Added DEF ProgramTyped, Clean
  <2>3. CleanIsComplete'
    BY <1>3, <2>2 DEF CleanIsComplete, BeginFinalizing
  <2>4. PipesKept /\ PhaseTyped'
    BY <1>1, <1>3, DestroyedKeeps DEF PhaseTyped
  <2> QED
    BY <1>1, <1>3, <2>2, <2>3, <2>4, FinalizingBegins
<1> QED
  BY <1>2, <1>3, PollsReadiness DEF AwaitReadiness

LEMMA ExchangeHTTPKeeps ==
  ASSUME TypeInv, HarnessInv, ExchangeHTTP
  PROVE  (TypeInv /\ HarnessInv)'
<1>1. /\ pc = "exchange" /\ PollHTTPProbePhase # "wait"
      /\ UNCHANGED <<adapter, verdict, process, owner, sent, used, phase, terminal, files,
                     faults, ran>>
  BY DEF ExchangeHTTP
<1>2. facts \in Facts
  BY DEF ProgramTyped
<1>3. CASE /\ PollHTTPProbePhase = "success" /\ response' = TRUE
           /\ BeginFinalizing(facts, TRUE) /\ UNCHANGED res
  <2>1. Happened(res["socket"].good) /\ ~Happened(res["socket"].over)
    BY <1>1, <1>3, PollsProbe DEF PhaseIsOpen, Before
  <2>2. CleanIsComplete'
    BY <1>1, <1>3, <2>1 DEF CleanIsComplete, PhaseIsOpen
  <2>3. PipesKept /\ PhaseTyped'
    BY <1>1, <1>3, DestroyedKeeps DEF PhaseTyped
  <2> QED
    BY <1>1, <1>2, <1>3, <2>2, <2>3, FinalizingBegins
<1>4. ASSUME NEW why \in Reasons, BeginFinalizing(Add(facts, {why}), FALSE),
             UNCHANGED response, PipesKept
      PROVE  (TypeInv /\ HarnessInv)'
  <2>1. Add(facts, {why}) \in Facts /\ ~Clean(Add(facts, {why}))
    BY <1>2, Added DEF Clean
  <2>2. CleanIsComplete'
    BY <1>4, <2>1 DEF CleanIsComplete, BeginFinalizing
  <2>3. PhaseTyped'
    BY <1>1, <1>4 DEF PhaseTyped
  <2> QED
    BY <1>1, <1>4, <2>1, <2>2, <2>3, FinalizingBegins
<1>5. CASE /\ PollHTTPProbePhase = "success" /\ UNCHANGED <<response, res>>
           /\ \E why \in ResponseRefusals : BeginFinalizing(Add(facts, {why}), FALSE)
  BY <1>4, <1>5, DestroyedKeeps, Refusals DEF ResponseRefusals
<1>6. CASE /\ PollHTTPProbePhase # "success" /\ UNCHANGED response
           /\ res' = [res EXCEPT !["socket"].destroyed = TRUE]
           /\ BeginFinalizing(Add(facts, {PollHTTPProbePhase}), FALSE)
  <2>1. PollHTTPProbePhase \in Reasons
    BY <1>1, <1>6, PollsProbe, Refusals
  <2>2. PipesKept
    <3>1. "socket" \in Resources /\ "socket" \in used
      BY <1>1 DEF Resources, PhaseIsOpen
    <3>2. \A r \in Resources :
            /\ res[r] \in Streams
            /\ res'[r] = IF r = "socket" THEN [res[r] EXCEPT !.destroyed = TRUE] ELSE res[r]
      BY <1>6, <3>1 DEF PipesTyped
    <3>3. \A r \in Resources : res'[r] \in Streams
      BY <3>2 DEF Streams
    <3>4. res' \in [Resources -> Streams]
      BY <1>6, <3>3 DEF PipesTyped
    <3> QED
      BY <3>1, <3>2, <3>4 DEF PipesKept, Streams
  <2> QED
    BY <1>4, <1>6, <2>1, <2>2
<1> QED
  BY <1>3, <1>5, <1>6 DEF ExchangeHTTP

----------------------------------------------------------------------------
(* finalizeChild.                                                          *)

LEMMA AwaitsKeep ==
  ASSUME TypeInv, HarnessInv, AwaitStart \/ AwaitNaturalExit
  PROVE  (TypeInv /\ HarnessInv)'
<1>1. /\ pc \in {"settle", "natural"} /\ pc' \in {"natural", "group"}
      /\ UNCHANGED <<adapter, facts, verdict, process, child, files, faults, ran>>
  BY DEF AwaitStart, AwaitNaturalExit, GracePlace
<1>2. ClockTyped'
  <2>1. \/ ClockAfter({}, {"natural"}) \/ ClockAfter({}, {}) \/ ClockAfter({"natural"}, {})
    BY DEF AwaitStart, AwaitNaturalExit
  <2> QED
    BY <2>1, ClockKept, {} \in SUBSET Deadlines, {"natural"} \in SUBSET Deadlines
    DEF Deadlines
<1>3. pc \in Finalizing /\ pc' \in Finalizing
  BY <1>1 DEF Finalizing
<1>4. PipesKept /\ facts' \in Facts
  BY <1>1, DestroyedKeeps DEF ProgramTyped
<1>5. SignalsCounted' /\ JoinedIsSettled' /\ UnconfirmedIsTold' /\ sent' \in 0..2
  BY <1>1 DEF SignalsCounted, JoinedIsSettled, UnconfirmedIsTold, OwnerTyped
<1> QED
  BY <1>1, <1>2, <1>3, <1>4, <1>5, FinalizingGoesOn

LEMMA TerminateGroupKeeps ==
  ASSUME TypeInv, HarnessInv, TerminateGroup
  PROVE  (TypeInv /\ HarnessInv)'
<1>1. /\ pc = "group" /\ Happened(owner.spawned)
      /\ UNCHANGED <<adapter, verdict, past, process, owner, used, res, phase,
                     terminal, response, files, faults, ran>>
  BY DEF TerminateGroup
<1>2. /\ sent' \in {sent, sent + 1}
      /\ \/ pc' = "join" /\ UNCHANGED running
         \/ pc' = "grace" /\ sent' = sent + 1 /\ running' = running \cup {"grace"}
      /\ facts' \in {facts, Uncertain(facts)}
  BY DEF TerminateGroup, Signalled, Joins, Probes
<1>3. /\ facts' \in Facts /\ facts.reasons \subseteq facts'.reasons
      /\ facts'.internal = facts.internal
  BY <1>2, UncertainKeeps DEF ProgramTyped
<1>4. pc \in Finalizing /\ pc' \in Finalizing
  BY <1>1, <1>2 DEF Finalizing
<1>5. PipesKept /\ ClockTyped'
  BY <1>1, <1>2, DestroyedKeeps DEF ClockTyped, Deadlines
<1>6. sent = 0
  BY <1>1 DEF SignalsCounted
<1>7. SignalsCounted' /\ sent' \in 0..2
  BY <1>1, <1>2, <1>6 DEF SignalsCounted, OwnerTyped, Owners
<1>8. JoinedIsSettled' /\ UnconfirmedIsTold'
  BY <1>1, <1>2 DEF JoinedIsSettled, UnconfirmedIsTold
<1> QED
  BY <1>1, <1>3, <1>4, <1>5, <1>7, <1>8, FinalizingGoesOn

LEMMA AwaitGraceKeeps ==
  ASSUME TypeInv, HarnessInv, AwaitGrace
  PROVE  (TypeInv /\ HarnessInv)'
<1>1. /\ pc = "grace" /\ pc' = "join"
      /\ UNCHANGED <<adapter, verdict, process, owner, used, res, phase, terminal,
                     response, files, faults, ran>>
      /\ ClockAfter({"grace"}, {})
  BY DEF AwaitGrace, Joins
<1>2. sent' \in {sent, sent + 1} /\ facts' \in {facts, Uncertain(facts)}
  BY DEF AwaitGrace, Signalled, Joins
<1>3. /\ facts' \in Facts /\ facts.reasons \subseteq facts'.reasons
      /\ facts'.internal = facts.internal
  BY <1>2, UncertainKeeps DEF ProgramTyped
<1>4. pc \in Finalizing /\ pc' \in Finalizing
  BY <1>1 DEF Finalizing
<1>5. PipesKept /\ ClockTyped'
  BY <1>1, DestroyedKeeps, ClockKept, {"grace"} \in SUBSET Deadlines, {} \in SUBSET Deadlines
  DEF Deadlines
<1>6. sent = 1 /\ Happened(owner.spawned)
  BY <1>1 DEF SignalsCounted
<1>7. SignalsCounted' /\ sent' \in 0..2
  BY <1>1, <1>2, <1>6 DEF SignalsCounted, OwnerTyped, Owners
<1>8. JoinedIsSettled' /\ UnconfirmedIsTold'
  BY <1>1, <1>6 DEF JoinedIsSettled, UnconfirmedIsTold
<1> QED
  BY <1>1, <1>3, <1>4, <1>5, <1>7, <1>8, FinalizingGoesOn

LEMMA AbandonUnconfirmedKeeps ==
  ASSUME TypeInv, HarnessInv, AbandonUnconfirmed
  PROVE  (TypeInv /\ HarnessInv)'
<1>1. /\ pc = "group" /\ pc' = "join" /\ ~Happened(owner.spawned)
      /\ facts' = IF Happened(owner.error) THEN facts ELSE Uncertain(facts)
      /\ res' = Destroyed
      /\ UNCHANGED <<adapter, verdict, clock, process, owner, sent, used, phase,
                     terminal, response, files, faults, ran>>
  BY DEF AbandonUnconfirmed, Joins
<1>2. /\ facts' \in Facts /\ facts.reasons \subseteq facts'.reasons
      /\ facts'.internal = facts.internal
      /\ ~Happened(owner.error) => "ORPHAN_RISK" \in facts'.reasons
  BY <1>1, UncertainKeeps, Uncertainty DEF ProgramTyped
<1>3. pc \in Finalizing /\ pc' \in Finalizing
  BY <1>1 DEF Finalizing
<1>4. PipesKept /\ ClockTyped'
  BY <1>1, DestroyedKeeps DEF ClockTyped
<1>5. SignalsCounted' /\ sent' \in 0..2 /\ JoinedIsSettled'
  BY <1>1 DEF SignalsCounted, OwnerTyped, JoinedIsSettled
<1>6. UnconfirmedIsTold'
  BY <1>1, <1>2 DEF UnconfirmedIsTold, HeardIsSo
<1> QED
  BY <1>1, <1>2, <1>3, <1>4, <1>5, <1>6, FinalizingGoesOn

LEMMA JoinKeeps ==
  ASSUME TypeInv, HarnessInv, Join
  PROVE  (TypeInv /\ HarnessInv)'
<1>1. /\ pc = "join" /\ pc' = "absence" /\ res' \in {res, Destroyed}
      /\ \/ JoinComplete /\ facts' = Add(facts, Failures({}))
         \/ facts' = Add(Uncertain(facts), Failures(Unsettled))
      /\ UNCHANGED <<adapter, verdict, clock, process, owner, sent, used, phase,
                     terminal, response, files, faults, ran>>
  BY DEF Join
<1>2. facts \in Facts /\ Uncertain(facts) \in Facts
  BY Uncertainty DEF ProgramTyped
<1>3. /\ facts' \in Facts /\ facts.reasons \subseteq facts'.reasons
      /\ facts'.internal = facts.internal
      /\ JoinComplete \/ ~Clean(facts')
  BY <1>1, <1>2, UncertainKeeps, Uncertainty, Added, FailuresAreReasons DEF Clean
<1>4. pc \in Finalizing /\ pc' \in Finalizing
  BY <1>1 DEF Finalizing
<1>5. PipesKept /\ ClockTyped'
  BY <1>1, DestroyedKeeps DEF ClockTyped
<1>6. SignalsCounted' /\ sent' \in 0..2
  BY <1>1 DEF SignalsCounted, OwnerTyped
<1>7. UnconfirmedIsTold'
  BY <1>1, <1>3 DEF UnconfirmedIsTold
<1>8. JoinedIsSettled'
  <2> SUFFICES ASSUME Clean(facts')
               PROVE  Before(owner.exit, "final") /\ \A r \in used : Happened(res'[r].settled)
    BY <1>1 DEF JoinedIsSettled, Clean
  <2>1. Clean(facts)
    BY <1>3 DEF Clean
  <2>2. Happened(owner.spawned)
    BY <1>4, <2>1 DEF CleanIsComplete, PhaseIsOpen
  <2>3. ChildCompleted /\ Unsettled = {}
    BY <1>3 DEF JoinComplete
  <2>4. \A r \in used : Happened(res[r].settled)
    BY <2>3 DEF Unsettled, Before
  <2> QED
    BY <1>5, <2>2, <2>3, <2>4 DEF ChildCompleted, PipesKept, PipesTyped
<1> QED
  BY <1>1, <1>3, <1>4, <1>5, <1>6, <1>7, <1>8, FinalizingGoesOn

\* What the end of the run adds to the facts, and what clean facts then say.
LEMMA JudgedKeeps ==
  ASSUME NEW f \in Facts, PhaseTyped
  PROVE  /\ Judged(f) \in Facts /\ f.reasons \subseteq Judged(f).reasons
         /\ Judged(f).internal = f.internal
         /\ Clean(Judged(f)) =>
              /\ ~LateOverflow(terminal = "exit" \/ response)
              /\ ~(adapter = "HTTP" /\ "socket" \in used /\ NaturalExit
                   /\ owner.status = "nonzero")
<1> DEFINE late == LateOverflow(terminal = "exit" \/ response)
           own == adapter = "HTTP" /\ "socket" \in used
                  /\ NaturalExit /\ owner.status = "nonzero"
           why == (IF own THEN {"TRANSPORT_FAILED"} ELSE {})
                  \cup (IF late THEN {"OUTPUT_LIMIT"} ELSE {})
<1>1. Judged(f) = Add(f, why)
  BY DEF Judged
<1> HIDE DEF late, own
<1>2. why \in SUBSET Reasons
  BY Refusals
<1>3. /\ Judged(f) \in Facts /\ Judged(f).reasons = f.reasons \cup why
      /\ Judged(f).internal = f.internal
  BY <1>1, <1>2, Added
<1>4. Clean(Judged(f)) => ~late /\ ~own
  BY <1>3 DEF Clean
<1> QED
  BY <1>3, <1>4 DEF late, own

LEMMA ProjectsKeeps ==
  ASSUME NEW f \in Facts, NEW g \in Projects(f)
  PROVE  g \in Facts /\ f.reasons \subseteq g.reasons /\ g.internal = f.internal
<1>1. g \in {f, [f EXCEPT !.match = TRUE], Add(f, {"PROJECTION_FAILED"})}
  BY DEF Projects
<1>2. CASE g = f
  BY <1>2
<1>3. CASE g = [f EXCEPT !.match = TRUE]
  BY <1>3 DEF Facts
<1>4. CASE g = Add(f, {"PROJECTION_FAILED"})
  BY <1>4, Added, Refusals
<1> QED
  BY <1>1, <1>2, <1>3, <1>4

LEMMA FinishKeeps ==
  ASSUME TypeInv, HarnessInv, Finish
  PROVE  (TypeInv /\ HarnessInv)'
<1> DEFINE spawned == Happened(owner.spawned)
           Recorded(f) == IF spawned /\ ~Happened(owner.exit) THEN Uncertain(f) ELSE f
<1>1. /\ pc = "absence" /\ pc' = "rescan"
      /\ ran' = [whole |-> Whole, attributed |-> Attributed]
      /\ running' = {} /\ past' = {}
      /\ owner' = NoOwner /\ sent' = 0 /\ used' = {}
      /\ res' = [r \in Resources |-> Silent]
      /\ phase' = "none" /\ terminal' = "none" /\ response' = FALSE
      /\ UNCHANGED <<adapter, verdict, process, files, faults>>
  BY DEF Finish
<1>2. PICK f \in {facts, Add(facts, {"ORPHAN_RISK"}), Uncertain(facts)} :
        /\ ~spawned => f = facts
        /\ spawned => "ORPHAN_RISK" \in f.reasons \/ ("final" \notin past /\ "absent" \in Probes)
        /\ facts' \in Projects(Judged(Add(Recorded(f), Failures({}))))
  <2>1. PICK f \in IF ~spawned THEN {facts}
                   ELSE IF "final" \in past
                   THEN {Add(facts, {"ORPHAN_RISK"}), Uncertain(facts)}
                   ELSE IF "absent" \in Probes THEN {facts} ELSE {} :
          facts' \in Projects(Judged(Add(Recorded(f), Failures({}))))
    BY DEF Finish
  <2>2. /\ "ORPHAN_RISK" \in Add(facts, {"ORPHAN_RISK"}).reasons
        /\ "ORPHAN_RISK" \in Uncertain(facts).reasons
    BY Added, Uncertainty, Refusals DEF ProgramTyped
  <2> HIDE DEF spawned, Recorded
  <2> QED
    BY <2>1, <2>2
<1>3. /\ f \in Facts /\ facts.reasons \subseteq f.reasons /\ f.internal = facts.internal
  BY UncertainKeeps, Added, Refusals DEF ProgramTyped
<1>4. /\ Recorded(f) \in Facts /\ f.reasons \subseteq Recorded(f).reasons
      /\ Recorded(f).internal = f.internal
      /\ spawned /\ ~Happened(owner.exit) => Recorded(f).reasons # {}
  BY <1>3, UncertainKeeps, Uncertainty
<1> DEFINE g == Add(Recorded(f), Failures({}))
<1>5. /\ g \in Facts /\ g.reasons = Recorded(f).reasons \cup Failures({})
      /\ g.internal = Recorded(f).internal
  BY <1>4, Added, FailuresAreReasons
<1>6. facts' \in Projects(Judged(g))
  BY <1>2
<1> HIDE DEF Recorded, g
<1>7. /\ facts' \in Facts /\ g.reasons \subseteq facts'.reasons
      /\ facts'.internal = facts.internal
      /\ Clean(facts') => Clean(Judged(g))
  BY <1>3, <1>4, <1>5, <1>6, JudgedKeeps, ProjectsKeeps DEF Clean
<1>8. /\ "absence" \in Finalizing /\ "absence" \in WithChild
      /\ "rescan" \notin Early \cup WithChild \cup {"identities", "done"} /\ "rescan" \in Places
  BY DEF Finalizing, WithChild, Early, Unrooted, Rooted, Places
<1>9. ASSUME Clean(facts') PROVE Whole /\ Attributed
  <2>1. /\ Clean(facts) /\ Clean(f) /\ Failures({}) = {}
        /\ ~(spawned /\ ~Happened(owner.exit))
    BY <1>3, <1>4, <1>5, <1>7, <1>9 DEF Clean
  <2>2. phase = "probe" /\ spawned /\ Happened(owner.exit)
    BY <1>1, <1>8, <2>1 DEF CleanIsComplete, PhaseIsOpen
  <2>3. leader = "reaped" /\ ~Alive
    <3>1. "absent" \in Probes
      BY <1>2, <2>1, <2>2 DEF Clean
    <3> QED
      BY <2>2, <3>1 DEF Probes, HeardIsSo
  <2>4. terminal = "exit" \/ response
    BY <1>1, <1>8, <2>1 DEF CleanIsComplete, ProgramTyped
  <2>5. /\ ~LateOverflow(terminal = "exit" \/ response)
        /\ ~(adapter = "HTTP" /\ "socket" \in used /\ NaturalExit /\ owner.status = "nonzero")
    BY <1>5, <1>7, <1>9, JudgedKeeps
  <2>6. ASSUME NEW r \in used
        PROVE  /\ Happened(res[r].settled) /\ Happened(res[r].good)
               /\ ~Happened(res[r].fail) /\ ~Happened(res[r].over)
    <3>1. Happened(res[r].settled)
      BY <1>1, <2>1 DEF JoinedIsSettled
    <3>2. res[r].active /\ r \in Resources
      BY <2>2 DEF PipesSpeak, PipesTyped
    <3>3. ~Happened(res[r].fail)
      <4>1. Happened(res[r].fail) => ReasonOf(r) \in Failures({})
        BY <3>2 DEF Failures
      <4> QED
        BY <2>1, <4>1
    <3>4. ~Happened(res[r].over)
      <4>1. CASE r \in Captures
        BY <2>2, <2>4, <2>5, <4>1 DEF LateOverflow
      <4>2. CASE r = "socket"
        BY <1>1, <1>8, <2>1, <4>2 DEF CleanIsComplete, ProgramTyped
      <4>3. CASE r \in {"stdin", "readiness"}
        BY <3>2, <4>3 DEF PipesSpeak, Happened
      <4> QED
        BY <3>2, <4>1, <4>2, <4>3 DEF Resources
    <3>5. Happened(res[r].good)
      BY <3>1, <3>2, <3>3, <3>4 DEF PipesSpeak, Told
    <3> QED
      BY <3>1, <3>3, <3>4, <3>5
  <2>7. Whole
    BY <2>3, <2>6 DEF Whole
  <2>8. Attributed
    <3>1. CASE adapter = "CLI"
      BY <1>1, <1>8, <2>1, <3>1 DEF CleanIsComplete, Attributed
    <3>2. CASE adapter = "HTTP"
      <4>1. "socket" \in used /\ Before(owner.exit, "final")
        BY <1>1, <1>8, <2>1, <3>2 DEF CleanIsComplete, JoinedIsSettled
      <4>2. owner.status \in {"zero", "nonzero"}
        BY <2>2 DEF HeardIsSo, OwnerTyped, Owners
      <4> QED
        BY <2>5, <3>2, <4>1, <4>2 DEF Attributed, NaturalExit
    <3> QED
      BY <3>1, <3>2 DEF ProgramTyped
  <2> QED
    BY <2>7, <2>8
<1>10. ASSUME Alive PROVE "ORPHAN_RISK" \in facts'.reasons
  <2>1. "ORPHAN_RISK" \in f.reasons
    <3>1. CASE ~spawned
      BY <1>1, <1>2, <1>10, <3>1 DEF UnconfirmedIsTold, HeardIsSo, Alive
    <3>2. CASE spawned
      BY <1>2, <1>10, <3>2 DEF Probes
    <3> QED
      BY <3>1, <3>2
  <2> QED
    BY <1>4, <1>5, <1>7, <2>1
<1>11. /\ ran' \in [whole : BOOLEAN, attributed : BOOLEAN]
       /\ Clean(facts') => ran'.whole /\ ran'.attributed
  <2>1. Whole \in BOOLEAN /\ Attributed \in BOOLEAN
    BY DEF Whole, Attributed
  <2> QED
    BY <1>1, <1>9, <2>1
<1>12. TypeInv'
  <2>1. ProgramTyped'
    BY <1>1, <1>7, <1>8, <1>11 DEF ProgramTyped
  <2>2. OwnerTyped'
    BY <1>1 DEF OwnerTyped, Owners, NoOwner, Events
  <2>3. PipesTyped'
    BY <1>1, SilentTellsNothing DEF PipesTyped
  <2>4. ClockTyped' /\ ProcessTyped' /\ PhaseTyped' /\ FilesTyped' /\ FaultsTyped'
    BY <1>1 DEF ClockTyped, ProcessTyped, PhaseTyped, FilesTyped, FaultsTyped
  <2> QED
    BY <2>1, <2>2, <2>3, <2>4
<1>13. NothingWithout'
  BY <1>1, <1>8 DEF NothingWithout
<1>14. HeardIsSo' /\ SignalsCounted'
  BY <1>1 DEF HeardIsSo, SignalsCounted, NoOwner, Happened
<1>15. PipesSpeak' /\ PhaseIsOpen'
  BY <1>1, SilentTellsNothing DEF PipesSpeak, PhaseIsOpen
<1>16. CleanIsComplete' /\ JoinedIsSettled' /\ UnconfirmedIsTold'
  BY <1>1, <1>8 DEF CleanIsComplete, JoinedIsSettled, UnconfirmedIsTold, WithChild
<1>17. OrphansAreFacts' /\ CleanIsWhole'
  BY <1>1, <1>10, <1>11 DEF OrphansAreFacts, CleanIsWhole, Alive, Clean
<1>18. RootIsOwned' /\ VerdictIsLast'
  BY <1>1, <1>8 DEF RootIsOwned, Early, VerdictIsLast, VerdictIsWhole, OrphansAreTold,
              EndIsAttributed, SpeaksOfBehaviour, NoVerdict, Says
<1> QED
  BY <1>12, <1>13, <1>14, <1>15, <1>16, <1>17, <1>18

----------------------------------------------------------------------------
(* The steps of the program after the child.                               *)

LEMMA WindUpKeeps ==
  ASSUME TypeInv, HarnessInv, WindUp
  PROVE  (TypeInv /\ HarnessInv)'
<1>1. /\ pc = "rescan" /\ pc' = "identities"
      /\ UNCHANGED <<adapter, verdict, clock, process, child, target, record,
                     replaced, edited, faults, ran>>
  BY DEF WindUp
<1>2. PICK f \in Rescanned(facts) :
        \/ /\ root' = IF root = "owned" THEN "removed" ELSE root
           /\ facts' = f
        \/ /\ root = "owned" /\ UNCHANGED root
           /\ facts' \in {Add(f, {"CLEANUP_FAILED"}), Internal(f)}
  BY DEF WindUp
<1>3. f \in Facts /\ facts.reasons \subseteq f.reasons /\ f.internal = facts.internal
  BY Added, Refusals DEF Rescanned, ProgramTyped
<1>4. /\ facts' \in Facts /\ facts.reasons \subseteq facts'.reasons
      /\ Clean(facts') => Clean(facts) /\ (root = "owned" => root' = "removed")
      /\ root' \in {"none", "owned", "stray", "removed"}
  <2>1. Add(f, {"CLEANUP_FAILED"}) \in Facts
        /\ Add(f, {"CLEANUP_FAILED"}).reasons = f.reasons \cup {"CLEANUP_FAILED"}
    BY <1>3, Added, Refusals
  <2>2. Internal(f) \in Facts /\ Internal(f).reasons = f.reasons /\ Internal(f).internal
    BY <1>3, Internally
  <2> QED
    BY <1>2, <1>3, <2>1, <2>2 DEF Clean, FilesTyped
<1>5. /\ "rescan" \notin Early \cup WithChild \cup {"identities", "done"}
      /\ "identities" \notin Early \cup WithChild \cup {"done"} /\ "identities" \in Places
  BY DEF WithChild, Finalizing, Early, Unrooted, Rooted, Places
<1>6. TypeInv'
  BY <1>1, <1>4, <1>5
  DEF ProgramTyped, ClockTyped, ProcessTyped, OwnerTyped, PipesTyped, PhaseTyped, FilesTyped,
      FaultsTyped
<1>7. NothingWithout' /\ HeardIsSo' /\ SignalsCounted'
  BY <1>1, <1>5 DEF NothingWithout, HeardIsSo, SignalsCounted
<1>8. PipesSpeak' /\ PhaseIsOpen'
  BY <1>1, <1>5 DEF PipesSpeak, PhaseIsOpen, Told, NothingWithout
<1>9. CleanIsComplete' /\ JoinedIsSettled' /\ UnconfirmedIsTold'
  BY <1>1, <1>5 DEF CleanIsComplete, JoinedIsSettled, UnconfirmedIsTold, WithChild
<1>10. OrphansAreFacts' /\ CleanIsWhole'
  BY <1>1, <1>4 DEF OrphansAreFacts, CleanIsWhole, Alive, Clean
<1>11. RootIsOwned'
  BY <1>1, <1>4, <1>5 DEF RootIsOwned, Early, Clean
<1>12. VerdictIsLast'
  BY <1>1 DEF VerdictIsLast, VerdictIsWhole, OrphansAreTold, EndIsAttributed,
              SpeaksOfBehaviour, NoVerdict, Says
<1> QED
  BY <1>6, <1>7, <1>8, <1>9, <1>10, <1>11, <1>12

LEMMA CheckRootsKeeps ==
  ASSUME TypeInv, HarnessInv, CheckRoots
  PROVE  (TypeInv /\ HarnessInv)'
<1>1. /\ pc = "identities" /\ pc \notin WithChild
      /\ UNCHANGED <<adapter, clock, process, child, files, faults, ran>>
  BY DEF CheckRoots, WithChild, Finalizing
<1>2. PICK tampered \in BOOLEAN, failed \in BOOLEAN,
           why \in SUBSET {"SOURCE_INVENTORY_INVALID", "ENVIRONMENT_INVALID"} :
        Finished([Add(facts, why) EXCEPT !.tamper = tampered, !.internal = @ \/ failed])
  <2>1. PICK gone \in SUBSET replaced, noticed \in SUBSET (edited \cup replaced),
             deaf \in BOOLEAN, stuck \in BOOLEAN :
          Finished([Add(facts,
               (IF "target" \in (replaced \ gone) \cup noticed
                THEN {"SOURCE_INVENTORY_INVALID"} ELSE {})
               \cup (IF deaf THEN {"ENVIRONMENT_INVALID"} ELSE {})) EXCEPT
            !.tamper = "bundle" \in (replaced \ gone) \cup noticed,
            !.internal = @ \/ gone # {} \/ stuck])
    BY DEF CheckRoots
  <2> DEFINE tampered == "bundle" \in (replaced \ gone) \cup noticed
             failed == gone # {} \/ stuck
             why == (IF "target" \in (replaced \ gone) \cup noticed
                     THEN {"SOURCE_INVENTORY_INVALID"} ELSE {})
                    \cup (IF deaf THEN {"ENVIRONMENT_INVALID"} ELSE {})
  <2>2. tampered \in BOOLEAN /\ failed \in BOOLEAN
        /\ why \in SUBSET {"SOURCE_INVENTORY_INVALID", "ENVIRONMENT_INVALID"}
    OBVIOUS
  <2>3. [Add(facts, why) EXCEPT !.tamper = tampered,
                                !.internal = @ \/ gone # {} \/ stuck]
          = [Add(facts, why) EXCEPT !.tamper = tampered, !.internal = @ \/ failed]
    OBVIOUS
  <2> QED
    BY <2>1, <2>2, <2>3
<1> DEFINE f == [Add(facts, why) EXCEPT !.tamper = tampered, !.internal = @ \/ failed]
<1>3. f \in Facts /\ facts.reasons \subseteq f.reasons /\ (Clean(f) => Clean(facts))
  <2>1. /\ Add(facts, why) \in Facts
        /\ Add(facts, why).reasons = facts.reasons \cup why
        /\ Add(facts, why).internal = facts.internal
    BY Added, Refusals DEF ProgramTyped
  <2> DEFINE internal == Add(facts, why).internal \/ failed
  <2>2. internal \in BOOLEAN /\ (Add(facts, why).internal => internal)
    OBVIOUS
  <2>3. f = [Add(facts, why) EXCEPT !.tamper = tampered, !.internal = internal]
    OBVIOUS
  <2> HIDE DEF f, internal
  <2>4. f \in Facts /\ f.reasons = Add(facts, why).reasons /\ f.internal = internal
    BY <2>1, <2>2, <2>3 DEF Facts
  <2> QED
    BY <2>1, <2>2, <2>4 DEF Clean
<1>4. Clean(f) => ran.whole /\ ran.attributed /\ root = "removed"
  BY <1>1, <1>3 DEF CleanIsWhole, RootIsOwned
<1>5. Alive => "ORPHAN_RISK" \in f.reasons
  BY <1>1, <1>3 DEF OrphansAreFacts
<1> HIDE DEF f
<1>6. Finished(f)
  BY <1>2 DEF f
<1> QED
  BY <1>1, <1>3, <1>4, <1>5, <1>6, VerdictFalls

----------------------------------------------------------------------------
(* The listeners, the child and the clock.                                 *)

\* The child, its owner or the clock moves while the program waits.
LEMMA ChildMoves ==
  ASSUME TypeInv, HarnessInv, pc \in WithChild,
         ClockTyped', ProcessTyped', owner' \in Owners, HeardIsSo', owner'.signals <= sent,
         Happened(owner.spawned) => Happened(owner'.spawned),
         Happened(owner.exit) => owner'.exit = owner.exit /\ owner'.signals = owner.signals,
         leader' = "none" <=> leader = "none", past \subseteq past',
         UNCHANGED <<adapter, pc, facts, verdict, sent, used, res, phase, terminal,
                     response, files, faults, ran>>
  PROVE  (TypeInv /\ HarnessInv)'
<1>1. pc \notin Early \cup {"rescan", "identities", "done"}
  BY DEF WithChild, Finalizing, Early, Unrooted, Rooted
<1>2. TypeInv'
  BY DEF ProgramTyped, OwnerTyped, PipesTyped, PhaseTyped, FilesTyped, FaultsTyped
<1>3. NothingWithout' /\ SignalsCounted'
  BY <1>1 DEF NothingWithout, SignalsCounted
<1>4. PipesSpeak'
  BY DEF PipesSpeak, Told
<1>5. PhaseIsOpen'
  BY DEF PhaseIsOpen
<1>6. CleanIsComplete' /\ JoinedIsSettled'
  BY DEF CleanIsComplete, JoinedIsSettled, Clean, Before
<1>7. UnconfirmedIsTold' /\ RootIsOwned'
  BY <1>1 DEF UnconfirmedIsTold, RootIsOwned
<1>8. OrphansAreFacts' /\ CleanIsWhole'
  BY <1>1 DEF OrphansAreFacts, CleanIsWhole
<1>9. VerdictIsLast'
  BY <1>1 DEF VerdictIsLast, VerdictIsWhole, OrphansAreTold, EndIsAttributed,
              SpeaksOfBehaviour, NoVerdict, Says
<1> QED
  BY <1>2, <1>3, <1>4, <1>5, <1>6, <1>7, <1>8, <1>9

LEMMA OwnerStep ==
  ASSUME TypeInv, HarnessInv, SpawnHeard \/ ErrorHeard \/ ExitHeard
  PROVE  (TypeInv /\ HarnessInv)'
<1>1. /\ pc \in WithChild
      /\ UNCHANGED <<adapter, pc, facts, verdict, helper, status, sent, used, res, phase,
                     terminal, response, files, faults, ran>>
  BY DEF SpawnHeard, ErrorHeard, ExitHeard, Heard, Waiting, WithChild, Finalizing
<1>2. owner \in Owners /\ sent \in 0..2
  BY DEF OwnerTyped
<1>3. CASE SpawnHeard
  <2> DEFINE e == Seen({"spawn", "final"})
             set == IF pc # "confirm" THEN {}
                    ELSE IF adapter = "CLI" THEN {"probe"} ELSE {"ready"}
  <2>1. /\ leader # "none" /\ ~Happened(owner.spawned) /\ leader' = leader
        /\ owner' = [owner EXCEPT !.spawned = e]
        /\ ClockAfter({}, set)
    BY <1>3 DEF SpawnHeard
  <2>2. e \in Events /\ Happened(e)
    BY SeenHappened, {"spawn", "final"} \in SUBSET Deadlines DEF Deadlines
  <2>3. ClockTyped' /\ past \subseteq past'
    <3>1. set \in SUBSET Deadlines /\ {} \in SUBSET Deadlines
      BY DEF Deadlines
    <3> QED
      BY <2>1, <3>1, ClockKept DEF ClockAfter
  <2> HIDE DEF e, set
  <2>4. /\ owner' \in Owners /\ owner'.spawned = e
        /\ owner'.error = owner.error /\ owner'.exit = owner.exit
        /\ owner'.status = owner.status /\ owner'.signals = owner.signals
    BY <1>2, <2>1, <2>2 DEF Owners
  <2>5. HeardIsSo' /\ ProcessTyped' /\ owner'.signals <= sent
    BY <1>1, <2>1, <2>2, <2>4 DEF HeardIsSo, ProcessTyped, SignalsCounted
  <2> QED
    BY <1>1, <2>1, <2>2, <2>3, <2>4, <2>5, ChildMoves
<1>4. CASE ErrorHeard
  <2> DEFINE e == Seen({"spawn", "natural", "final"})
  <2>1. /\ leader = "none" /\ leader' = leader /\ UNCHANGED <<running, past>>
        /\ owner' = [owner EXCEPT !.error = e]
    BY <1>4 DEF ErrorHeard
  <2>2. e \in Events
    BY SeenHappened, {"spawn", "natural", "final"} \in SUBSET Deadlines DEF Deadlines
  <2> HIDE DEF e
  <2>3. /\ owner' \in Owners /\ owner'.spawned = owner.spawned
        /\ owner'.exit = owner.exit
        /\ owner'.status = owner.status /\ owner'.signals = owner.signals
    BY <1>2, <2>1, <2>2 DEF Owners
  <2>4. HeardIsSo' /\ ProcessTyped' /\ ClockTyped' /\ owner'.signals <= sent
    BY <1>1, <2>1, <2>3 DEF HeardIsSo, ProcessTyped, ClockTyped, SignalsCounted
  <2> QED
    BY <1>1, <2>1, <2>3, <2>4, ChildMoves
<1>5. CASE ExitHeard
  <2> DEFINE e == Seen(IF phase # "none" /\ "final" \notin running THEN {phase}
                       ELSE {"natural", "final"})
  <2>1. /\ leader = "zombie" /\ leader' = "reaped" /\ UNCHANGED <<running, past>>
        /\ Happened(owner.spawned)
        /\ owner' = [owner EXCEPT !.exit = e, !.status = status, !.signals = sent]
    BY <1>5 DEF ExitHeard
  <2>2. e \in Events
    <3>1. (IF phase # "none" /\ "final" \notin running THEN {phase}
           ELSE {"natural", "final"}) \in SUBSET Deadlines
      BY DEF PhaseTyped, Deadlines
    <3> QED
      BY <3>1, SeenHappened
  <2> HIDE DEF e
  <2>3. /\ owner' \in Owners /\ owner'.spawned = owner.spawned
        /\ owner'.error = owner.error /\ owner'.status = status /\ owner'.signals = sent
    BY <1>2, <2>1, <2>2 DEF Owners, ProcessTyped
  <2>4. ~Happened(owner.exit)
    BY <2>1 DEF HeardIsSo
  <2>5. HeardIsSo' /\ ProcessTyped' /\ ClockTyped' /\ owner'.signals <= sent
    BY <1>1, <1>2, <2>1, <2>3 DEF HeardIsSo, ProcessTyped, ClockTyped
  <2> QED
    BY <1>1, <2>1, <2>3, <2>4, <2>5, ChildMoves
<1> QED
  BY <1>3, <1>4, <1>5

LEMMA ProcessStep ==
  ASSUME TypeInv, HarnessInv, LeaderExits \/ HelperStarts \/ HelperExits \/ DeadlinePasses
  PROVE  (TypeInv /\ HarnessInv)'
<1>1. /\ pc \in WithChild
      /\ UNCHANGED <<adapter, pc, facts, verdict, running, child, files, faults, ran>>
  BY DEF LeaderExits, HelperStarts, HelperExits, DeadlinePasses, Runs, Waiting, WithChild,
         Finalizing
<1>2. owner \in Owners /\ owner.signals <= sent
  BY DEF OwnerTyped, SignalsCounted
<1>3. CASE LeaderExits
  BY <1>1, <1>2, <1>3, ChildMoves DEF LeaderExits, HeardIsSo, ProcessTyped, ClockTyped
<1>4. CASE HelperStarts \/ HelperExits
  BY <1>1, <1>2, <1>4, ChildMoves
  DEF HelperStarts, HelperExits, HeardIsSo, ProcessTyped, ClockTyped
<1>5. CASE DeadlinePasses
  <2>1. UNCHANGED process /\ past \subseteq past' /\ past' \subseteq running
    BY <1>5 DEF DeadlinePasses, ClockTyped
  <2>2. ClockTyped' /\ HeardIsSo' /\ ProcessTyped'
    BY <1>1, <2>1 DEF ClockTyped, HeardIsSo, ProcessTyped
  <2> QED
    BY <1>1, <1>2, <2>1, <2>2, ChildMoves
<1> QED
  BY <1>3, <1>4, <1>5

\* One field of one pipe's record, or two, after a listener.
LEMMA PipeStep ==
  ASSUME TypeInv, HarnessInv, NEW r \in Resources,
         OverflowHeard(r) \/ EndHeard(r) \/ FailureHeard(r) \/ CloseHeard(r)
  PROVE  (TypeInv /\ HarnessInv)'
<1>1. /\ pc \in Waiting
      /\ UNCHANGED <<adapter, pc, facts, verdict, clock, process, owner, sent, used, phase,
                     terminal, response, files, ran>>
  BY DEF OverflowHeard, EndHeard, FailureHeard, CloseHeard, Heard
<1>2. /\ r \in used /\ ~Happened(res[r].settled) /\ "socket" \in Resources
      /\ \A q \in Resources : res[q] \in Streams
  BY DEF OverflowHeard, EndHeard, FailureHeard, CloseHeard, Open, PipesTyped, Resources
<1>3. Seen(Bounds(r)) \in Events /\ Happened(Seen(Bounds(r)))
  BY SeenHappened, BoundsAre
<1>4. /\ Seen({"ready", "probe"}) \in Events
      /\ Seen({"final"}) \in Events /\ Happened(Seen({"final"}))
  BY SeenHappened, {"ready", "probe"} \in SUBSET Deadlines, {"final"} \in SUBSET Deadlines
  DEF Deadlines
<1>5. ASSUME NEW x \in Streams,
             \A q \in Resources \ {r} :
               \/ res'[q] = res[q]
               \/ q = "socket" /\ q \in used
                  /\ \E b \in BOOLEAN : res'[q] = [res[q] EXCEPT !.destroyed = b],
             res'[r] = x, res' = [q \in Resources |-> res'[q]],
             faults' \in 0..MaxFaults,
             x.active = res[r].active,
             Happened(res[r].good) => Happened(x.good),
             \/ x.over = res[r].over
             \/ ~Told(r) /\ x.over = Seen({"ready", "probe"})
                /\ r \notin {"stdin", "readiness"},
             Happened(x.settled) =>
               \/ Happened(x.good) \/ Happened(x.fail)
               \/ r = "stdin" /\ ~x.active
               \/ r = "socket" /\ Happened(x.over)
      PROVE  (TypeInv /\ HarnessInv)'
  <2>1. ASSUME NEW q \in Resources \ {r}
        PROVE  /\ res'[q] \in Streams /\ res'[q].active = res[q].active
               /\ res'[q].over = res[q].over /\ res'[q].good = res[q].good
               /\ res'[q].fail = res[q].fail /\ res'[q].settled = res[q].settled
               /\ q \notin used => res'[q] = res[q]
    BY <1>2, <1>5 DEF Streams
  <2>2. PipesTyped' /\ FaultsTyped'
    BY <1>1, <1>5, <2>1 DEF PipesTyped, FaultsTyped
  <2>3. PipesSpeak'
    <3>1. ASSUME NEW q \in Resources \ {r}
          PROVE  /\ q \notin used => res'[q] = Silent
                 /\ Happened(res'[q].settled) =>
                      Told(q)' \/ (q = "stdin" /\ ~res'[q].active)
                      \/ (q = "socket" /\ Happened(res'[q].over))
                 /\ q \in {"stdin", "readiness"} => res'[q].over = Never
                 /\ phase # "none" /\ q \in used => res'[q].active
      BY <2>1 DEF PipesSpeak, Told
    <3>2. /\ Happened(res'[r].settled) =>
               Told(r)' \/ (r = "stdin" /\ ~res'[r].active)
               \/ (r = "socket" /\ Happened(res'[r].over))
          /\ r \in {"stdin", "readiness"} => res'[r].over = Never
          /\ phase # "none" /\ r \in used => res'[r].active
      BY <1>5 DEF PipesSpeak, Told
    <3> QED
      BY <1>1, <1>2, <3>1, <3>2 DEF PipesSpeak
  <2>4. \A q \in Resources :
          /\ Happened(res[q].good) => Happened(res'[q].good)
          /\ Happened(res[q].settled) => Happened(res'[q].settled)
          /\ \/ res'[q].over = res[q].over
             \/ ~Told(q) /\ res'[q].over = Seen({"ready", "probe"})
    BY <1>2, <1>5, <2>1
  <2> QED
    BY <1>1, <2>2, <2>3, <2>4, PipesHeard
<1>6. res[r] \in Streams /\ faults \in 0..MaxFaults
  BY <1>2 DEF FaultsTyped
<1>7. CASE OverflowHeard(r)
  <2> DEFINE b == res["socket"].destroyed \/ "socket" \in used
             d == IF r = "socket" THEN b ELSE res[r].destroyed
             x == [res[r] EXCEPT !.over = Seen({"ready", "probe"}), !.destroyed = d]
  <2>1. /\ r \in Captures \cup {"socket"} /\ ~Told(r) /\ UNCHANGED faults
        /\ res' = [res EXCEPT ![r].over = Seen({"ready", "probe"}),
                              !["socket"].destroyed = @ \/ "socket" \in used]
    BY <1>7 DEF OverflowHeard
  <2>2. b \in BOOLEAN /\ d \in BOOLEAN
    BY <1>2 DEF Streams
  <2>3. /\ r = "socket" => res'[r] = [res[r] EXCEPT !.over = Seen({"ready", "probe"}),
                                                    !.destroyed = b]
        /\ r # "socket" => res'[r] = [res[r] EXCEPT !.over = Seen({"ready", "probe"})]
        /\ \A q \in Resources \ {r} :
             IF q = "socket" THEN res'[q] = [res[q] EXCEPT !.destroyed = b]
             ELSE res'[q] = res[q]
    BY <1>2, <2>1 DEF PipesTyped
  <2> HIDE DEF b, d
  <2>4. res'[r] = x
    <3>1. CASE r = "socket"
      BY <2>3, <3>1 DEF d
    <3>2. CASE r # "socket"
      <4>1. d = res[r].destroyed
        BY <3>2 DEF d
      <4> QED
        BY <1>6, <2>3, <3>2, <4>1 DEF Streams
    <3> QED
      BY <3>1, <3>2
  <2>5. \A q \in Resources \ {r} :
          \/ res'[q] = res[q]
          \/ q = "socket" /\ q \in used
             /\ \E c \in BOOLEAN : res'[q] = [res[q] EXCEPT !.destroyed = c]
    <3>1. "socket" \notin used => b = res["socket"].destroyed
      BY <1>2 DEF b, Streams
    <3>2. "socket" \notin used => [res["socket"] EXCEPT !.destroyed = b] = res["socket"]
      BY <1>2, <3>1 DEF Streams
    <3> QED
      BY <2>2, <2>3, <3>2
  <2>6. res' = [q \in Resources |-> res'[q]]
    BY <2>1 DEF PipesTyped
  <2>7. /\ x \in Streams /\ x.active = res[r].active /\ x.good = res[r].good
        /\ x.over = Seen({"ready", "probe"}) /\ x.settled = res[r].settled
    BY <1>4, <1>6, <2>2 DEF Streams
  <2>8. r \notin {"stdin", "readiness"}
    BY <2>1, CapturesAssumption
  <2> HIDE DEF x
  <2> QED
    BY <1>2, <1>5, <1>6, <2>1, <2>4, <2>5, <2>6, <2>7, <2>8
<1>8. CASE EndHeard(r)
  <2> DEFINE x == [res[r] EXCEPT !.good = Seen(Bounds(r))]
  <2>1. /\ UNCHANGED faults /\ res' = [res EXCEPT ![r].good = Seen(Bounds(r))]
    BY <1>8 DEF EndHeard
  <2>2. /\ res'[r] = x /\ res' = [q \in Resources |-> res'[q]]
        /\ \A q \in Resources \ {r} : res'[q] = res[q]
    BY <2>1 DEF PipesTyped
  <2>3. /\ x \in Streams /\ x.active = res[r].active /\ x.good = Seen(Bounds(r))
        /\ x.over = res[r].over /\ x.settled = res[r].settled
    BY <1>3, <1>6 DEF Streams
  <2> HIDE DEF x
  <2> QED
    BY <1>2, <1>3, <1>5, <1>6, <2>1, <2>2, <2>3
<1>9. CASE FailureHeard(r)
  <2> DEFINE x == [res[r] EXCEPT !.fail = Seen(Bounds(r)), !.destroyed = TRUE]
  <2>1. /\ faults < MaxFaults /\ faults' = faults + 1
        /\ res' = [res EXCEPT ![r].fail = Seen(Bounds(r)), ![r].destroyed = TRUE]
    BY <1>9 DEF FailureHeard
  <2>2. /\ res'[r] = x /\ res' = [q \in Resources |-> res'[q]]
        /\ \A q \in Resources \ {r} : res'[q] = res[q]
    BY <2>1 DEF PipesTyped
  <2>3. /\ x \in Streams /\ x.active = res[r].active /\ x.good = res[r].good
        /\ x.over = res[r].over /\ x.settled = res[r].settled
    BY <1>3, <1>6 DEF Streams
  <2>4. faults' \in 0..MaxFaults
    BY <1>6, <2>1, FaultsAssumption
  <2> HIDE DEF x
  <2> QED
    BY <1>2, <1>5, <2>2, <2>3, <2>4
<1>10. CASE CloseHeard(r)
  <2> DEFINE s == res[r]
             spoke == Told(r) \/ (r = "stdin" /\ ~s.active)
                      \/ (r = "socket" /\ Happened(s.over))
  <2>1. PICK whole \in BOOLEAN :
          /\ LET broken == ~(whole \/ spoke \/ s.destroyed)
             IN /\ broken => faults < MaxFaults
                /\ faults' = IF broken THEN faults + 1 ELSE faults
          /\ res' = [res EXCEPT
               ![r].settled = Seen({"final"}), ![r].destroyed = FALSE,
               ![r].good = IF whole THEN Seen(Bounds(r)) ELSE @,
               ![r].fail = IF whole \/ spoke THEN @ ELSE Seen(Bounds(r))]
    BY <1>10 DEF CloseHeard
  <2> HIDE DEF spoke
  <2> DEFINE good == IF whole THEN Seen(Bounds(r)) ELSE s.good
             fail == IF whole \/ spoke THEN s.fail ELSE Seen(Bounds(r))
             x == [res[r] EXCEPT !.settled = Seen({"final"}), !.destroyed = FALSE,
                                 !.good = good, !.fail = fail]
  <2>2. /\ res'[r] = x /\ res' = [q \in Resources |-> res'[q]]
        /\ \A q \in Resources \ {r} : res'[q] = res[q]
    BY <2>1 DEF PipesTyped
  <2>3. faults' \in 0..MaxFaults
    BY <1>6, <2>1, FaultsAssumption
  <2>4. good \in Events /\ fail \in Events
    BY <1>3, <1>6 DEF Streams
  <2>5. /\ whole => Happened(good)
        /\ ~whole => good = s.good
        /\ whole \/ spoke => fail = s.fail
        /\ ~(whole \/ spoke) => Happened(fail)
    BY <1>3
  <2> HIDE DEF good, fail
  <2>6. /\ x \in Streams /\ x.active = s.active /\ x.good = good /\ x.fail = fail
        /\ x.over = s.over
    BY <1>4, <1>6, <2>4 DEF Streams
  <2> HIDE DEF x
  <2>7. Happened(x.good) \/ Happened(x.fail) \/ (r = "stdin" /\ ~x.active)
        \/ (r = "socket" /\ Happened(x.over))
    <3>1. CASE whole
      BY <2>5, <2>6, <3>1
    <3>2. CASE ~whole /\ spoke
      BY <2>5, <2>6, <3>2 DEF spoke, Told
    <3>3. CASE ~whole /\ ~spoke
      BY <2>5, <2>6, <3>3
    <3> QED
      BY <3>1, <3>2, <3>3
  <2> QED
    BY <1>5, <2>2, <2>3, <2>5, <2>6, <2>7
<1> QED
  BY <1>7, <1>8, <1>9, <1>10

LEMMA EditRootKeeps ==
  ASSUME TypeInv, HarnessInv, NEW r \in Roots, EditRoot(r)
  PROVE  (TypeInv /\ HarnessInv)'
<1>1. /\ faults' \in 0..MaxFaults
      /\ UNCHANGED <<adapter, pc, facts, verdict, clock, process, child, record, root, ran>>
  BY FaultsAssumption DEF EditRoot, FaultsTyped
<1>2. TypeInv'
  BY <1>1 DEF EditRoot, ProgramTyped, ClockTyped, ProcessTyped, OwnerTyped, PipesTyped,
              PhaseTyped, FilesTyped, FaultsTyped
<1>3. NothingWithout' /\ HeardIsSo' /\ SignalsCounted'
  BY <1>1 DEF NothingWithout, HeardIsSo, SignalsCounted
<1>4. PipesSpeak' /\ PhaseIsOpen'
  BY <1>1 DEF PipesSpeak, PhaseIsOpen, Told
<1>5. CleanIsComplete' /\ JoinedIsSettled' /\ UnconfirmedIsTold'
  BY <1>1 DEF CleanIsComplete, JoinedIsSettled, UnconfirmedIsTold, Clean
<1>6. OrphansAreFacts' /\ CleanIsWhole' /\ RootIsOwned'
  BY <1>1 DEF OrphansAreFacts, CleanIsWhole, RootIsOwned, Alive, Clean
<1>7. VerdictIsLast'
  BY <1>1 DEF VerdictIsLast, VerdictIsWhole, OrphansAreTold, EndIsAttributed,
              SpeaksOfBehaviour, Alive
<1> QED
  BY <1>2, <1>3, <1>4, <1>5, <1>6, <1>7

----------------------------------------------------------------------------
(* The inductive invariant.                                                *)

LEMMA InitHolds ==
  ASSUME Init
  PROVE  TypeInv /\ HarnessInv
<1>1. /\ "roots" \in Places /\ "roots" \in Unrooted /\ "roots" \in Early
      /\ "roots" \notin WithChild \cup Rooted
      /\ pc = "roots"
  BY DEF Init, Places, Unrooted, Rooted, Early, WithChild, Finalizing
<1>2. \A r \in Resources : res[r] = Silent
  BY DEF Init
<1>3. NoFacts \in Facts /\ NoOwner \in Owners
  BY DEF NoFacts, Facts, NoOwner, Owners, Events
<1>4. TypeInv
  <2>1. ProgramTyped
    BY <1>1, <1>3 DEF Init, ProgramTyped, NotRun
  <2>2. ClockTyped /\ ProcessTyped /\ OwnerTyped
    BY <1>3 DEF Init, ClockTyped, ProcessTyped, OwnerTyped
  <2>3. PipesTyped
    <3>1. used = {} /\ res = [r \in Resources |-> Silent]
      BY DEF Init
    <3> QED
      BY <3>1, SilentTellsNothing DEF PipesTyped
  <2>4. PhaseTyped /\ FilesTyped
    BY DEF Init, PhaseTyped, FilesTyped
  <2>5. FaultsTyped
    <3>1. faults = 0
      BY DEF Init
    <3> QED
      BY <3>1, FaultsAssumption DEF FaultsTyped
  <2> QED
    BY <2>1, <2>2, <2>3, <2>4, <2>5
<1>5. NothingWithout /\ HeardIsSo /\ SignalsCounted
  BY <1>1 DEF Init, NothingWithout, HeardIsSo, SignalsCounted, NoOwner, Happened
<1>6. PipesSpeak /\ PhaseIsOpen
  BY <1>1, <1>2, SilentTellsNothing DEF Init, PipesSpeak, PhaseIsOpen
<1>7. CleanIsComplete /\ JoinedIsSettled /\ UnconfirmedIsTold /\ OrphansAreFacts
      /\ CleanIsWhole
  BY <1>1 DEF CleanIsComplete, JoinedIsSettled, UnconfirmedIsTold, OrphansAreFacts,
              CleanIsWhole, WithChild
<1>8. RootIsOwned /\ VerdictIsLast
  BY <1>1 DEF Init, RootIsOwned, VerdictIsLast, VerdictIsWhole, OrphansAreTold,
              EndIsAttributed, SpeaksOfBehaviour, NoVerdict, Says
<1> QED
  BY <1>4, <1>5, <1>6, <1>7, <1>8

LEMMA StutterHolds ==
  ASSUME TypeInv, HarnessInv, UNCHANGED vars
  PROVE  (TypeInv /\ HarnessInv)'
<1>1. TypeInv'
  BY DEF vars, ProgramTyped, ClockTyped, ProcessTyped, OwnerTyped, PipesTyped, PhaseTyped,
         FilesTyped, FaultsTyped
<1>2. NothingWithout' /\ HeardIsSo' /\ SignalsCounted'
  BY DEF vars, NothingWithout, HeardIsSo, SignalsCounted
<1>3. PipesSpeak' /\ PhaseIsOpen'
  BY DEF vars, PipesSpeak, PhaseIsOpen, Told
<1>4. CleanIsComplete' /\ JoinedIsSettled' /\ UnconfirmedIsTold'
  BY DEF vars, CleanIsComplete, JoinedIsSettled, UnconfirmedIsTold, Clean
<1>5. OrphansAreFacts' /\ CleanIsWhole' /\ RootIsOwned'
  BY DEF vars, OrphansAreFacts, CleanIsWhole, RootIsOwned, Alive, Clean
<1>6. VerdictIsLast'
  BY DEF vars, VerdictIsLast, VerdictIsWhole, OrphansAreTold, EndIsAttributed,
         SpeaksOfBehaviour, Alive
<1> QED
  BY <1>1, <1>2, <1>3, <1>4, <1>5, <1>6

LEMMA InductiveInvariant == Spec => [](TypeInv /\ HarnessInv)
<1>1. Init => TypeInv /\ HarnessInv
  BY InitHolds
<1>2. TypeInv /\ HarnessInv /\ [Next]_vars => (TypeInv /\ HarnessInv)'
  <2> SUFFICES ASSUME TypeInv, HarnessInv, [Next]_vars
               PROVE  (TypeInv /\ HarnessInv)'
    OBVIOUS
  <2> USE DEF TypeInv, HarnessInv
  <2>1. CASE HarnessStep
    <3>1. CASE OpenRoots \/ ScanTarget \/ CheckBudgets \/ AllocateRoot \/ CreateSubroots
               \/ CopyInventory \/ MaterializeOverlay \/ BuildEnvironment
      BY <3>1, PreparationStep
    <3>2. CASE StartSubject
      BY <3>2, StartSubjectKeeps
    <3>3. CASE ConfirmSpawn \/ ObserveCLI
      BY <3>3, ConfirmSpawnKeeps, ObserveCLIKeeps
    <3>4. CASE AwaitReadiness \/ ExchangeHTTP
      BY <3>4, AwaitReadinessKeeps, ExchangeHTTPKeeps
    <3>5. CASE AwaitStart \/ AwaitNaturalExit
      BY <3>5, AwaitsKeep
    <3>6. CASE TerminateGroup \/ AbandonUnconfirmed \/ AwaitGrace
      BY <3>6, TerminateGroupKeeps, AbandonUnconfirmedKeeps, AwaitGraceKeeps
    <3>7. CASE Join \/ Finish
      BY <3>7, JoinKeeps, FinishKeeps
    <3>8. CASE WindUp \/ CheckRoots
      BY <3>8, WindUpKeeps, CheckRootsKeeps
    <3> QED
      BY <2>1, <3>1, <3>2, <3>3, <3>4, <3>5, <3>6, <3>7, <3>8 DEF HarnessStep
  <2>2. CASE DeadlinePasses \/ Environment
    BY <2>2, ProcessStep, EditRootKeeps DEF Environment
  <2>3. CASE Listens
    BY <2>3, OwnerStep, PipeStep DEF Listens
  <2>4. CASE UNCHANGED vars
    BY <2>4, StutterHolds
  <2> QED
    BY <2>1, <2>2, <2>3, <2>4 DEF Next
<1> QED
  BY <1>1, <1>2, PTL DEF Spec

----------------------------------------------------------------------------
(* Theorems.                                                               *)

\* The type invariant: among other things the harness never signals the group
\* more than twice (harness.mjs, terminateGroup).
THEOREM HarnessTypeOK == Spec => []TypeOK
BY InductiveInvariant, Typing, PTL

\* A verdict on behaviour rests on a whole run: the child is reaped, nobody of its
\* group is left, every pipe was read to its end and closed in time, no output was
\* cut, and nothing is left of the private root.
THEOREM VerdictsAreWhole == Spec => []VerdictIsWhole
<1>1. TypeInv /\ HarnessInv => VerdictIsWhole
  BY DEF VerdictIsLast
<1> QED
  BY <1>1, InductiveInvariant, PTL

\* A process of the child's group that outlives the harness is always told, as the
\* first reason, also of a child whose start was never confirmed.
THEOREM SurvivorsAreTold == Spec => []OrphansAreTold
<1>1. TypeInv /\ HarnessInv => OrphansAreTold
  BY DEF VerdictIsLast
<1> QED
  BY <1>1, InductiveInvariant, PTL

\* A judged command ended before any signal of the harness, and a judged server
\* did not fail before the first.
THEOREM EndsAreTheSubjects == Spec => []EndIsAttributed
<1>1. TypeInv /\ HarnessInv => EndIsAttributed
  BY DEF VerdictIsLast
<1> QED
  BY <1>1, InductiveInvariant, PTL
=============================================================================
