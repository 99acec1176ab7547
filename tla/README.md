# Countershape: a verification project

Countershape runs one stimulus against several candidate git trees in isolated
worlds, compares what it observed, reduces the stimulus while the outcome map
stays the same, puts the result through a blind decision, and emits a standalone
contract bundle that can later be executed under a store-wide interlock. The
program is Go for Darwin (`internal/`, `cmd/`), with a small web client
(`web/`), a Node program that is emitted with every contract
(`internal/emit/node/program/v1/harness.mjs`), and repository tools (`tools/`).

Paths below are relative to `src/`; `internal/` stands for `src/internal/`.

## 1. Inventory

| component | state it keeps | operations | hard behaviour | what makes it correct |
|---|---|---|---|---|
| execution interlock (`store/execution_interlock.go`, `contract_run_bridge.go`) | interlock file, start claims, release links, clear receipts, run relation; in memory a one-shot winner | acquire, consume, finalize, resume, release, reset after a boot change | two processes racing; a process killed or the power lost between any two of about a dozen writes; retries of what was half done | a target starts at most once; nobody starts while another may run; admission only on proof |
| study heads (`store/head.go`) | one head file per study under the study's flock | create, open, seven advances, confirm residue | compare-and-swap between processes; rename that was not synced; a winner whose error was ambiguous | acknowledged heads are never taken back; one line of history; losers write nothing |
| object store (`store/object_store.go`) | create-once objects in shard directories | publish, open | the same object published twice; directory entries that were never synced | a head names only objects that are there |
| contract records (`store/nonhead_contract.go`) | create-once private files and hard links | persist, open | as above | as above |
| private run evidence (`store/private_contract_run.go`) | manifest, pack, purge intent, tombstone | record, purge | purge racing a release; interrupted purge | evidence is either whole or declared purged |
| process supervision (`processmechanics`) | the supervised group, two captures, the arbitration of one terminal fact | start, close, abort | child, descendants, drains, waiter, stdin writer, timers and an abort, all at once | the result claims no more than the kernel bears out; Close returns |
| world runtime, HTTP lifecycles (`world`, `contractexec/http`) | a served candidate | readiness, probe, teardown | readiness against exit and deadline | as above |
| contract execution runners (`contractexec`) | the order of the calls above | execute | an error on any path | a child that may be running leaves the interlock held |
| observation, comparison (`observe`, `compare`) | a trial matrix, budgets | run a batch, classify | late results after cancellation | every admitted trial was in its budget |
| reduction engine (`reduce`) | current stimulus, transcript, evidence ledger, budgets | run, parse back | evaluators that report too much, too late, or twice; budgets inside the sweep | a completed sweep means a direct-neighbour minimum; the record can be read back |
| confirmation (`confirmation`) | fresh observations and their ledger | confirm | evidence reused | freshness |
| decision session, promotion (`choice`) | blind decision, its revisions | visit, propose, reveal, revise, finalize | long legal sequences | no ruling without the blind review it claims |
| studio server (`server`) | a session under a mutex and a revision digest | the same, by HTTP | two tabs, stale revisions | compare-and-swap |
| studio web client (`web/src`) | per tab: the bench on screen, the draft in the editor, one request under way | load, edit, five mutations, retry, reload | answers lost, late or crossing; a copy of the server's rules | nothing is decided on a screen that has moved on |
| emitted harness (`emit/node/program/v1/harness.mjs`) | a private root, one child, its pipes, deadlines, reasons | run a contract, as a command or as a server | listeners and deadlines in any order, a child or a helper that does not go, a start never confirmed | it ends, and never speaks of behaviour after a run that was not whole |
| final evidence artifacts (`tools/p07b-c/check-final-evidence.mjs`) | a directory of five files, a stage, a backup, a lock, a journal | write, with recovery and rollback | a kill, a power loss or a failing call between any two operations, also of the recovery | one whole generation stands |
| residue publication, contract emission (`emit/node`) | none of its own beyond the head | compile, publish, reopen | ambiguous publication | one residue per study |
| contract and candidate materialization | a staged directory, then an exclusive rename | materialize | failure after the rename | all or nothing |
| domain, host epoch, node runtime | the attempt state machine; boot identity | transitions, probes | boot change | identities |
| adapters, encodings, references, reports, command line, other tools | none, or presentation | pure functions and I/O | none beyond their data | content |

Interaction. A runner acquires the interlock, consumes the winner, starts a
supervised process, closes it, persists the run and releases. A study's result
moves through the heads by compare-and-swap, each advance publishing one object
first. The reduction engine calls an evaluator, which observes batches, which
run worlds, which supervise processes. The studio holds one decision session and
promotes its ruling to the head; residue publication makes the last advance. The
harness is emitted with the contract and runs without any of the rest; the
evidence writer runs the tests of the rest and keeps what they said.

`PROJECT.json` lists every component with its status, and under `hazards` the
places that are hard to test, each with the properties that watch it.

## 2. Modules

| module | what it is |
|---|---|
| `DurableFiles` | the file model: a directory is a pair of visible and durable entries, a replaced file the body seen and the bodies a power loss may bring back |
| `StartAdmission` | abstract promise of the interlock: one slot, each start spent once |
| `ExecutionInterlock` | the interlock, write by write |
| `ExecutionInterlockProofs` | its theorems |
| `StudyLineage` | abstract promise of the heads: each study has a line that grows by one object, and a settled prefix that never shrinks |
| `StudyHead` | study heads and the object store under them, write by write |
| `StudyHeadProofs` | their theorems |
| `ProcessSupervision` | one supervised process from its start to the return of Close |
| `ProcessSupervisionProofs` | its theorems |
| `ReductionEngine` | one run of the reduction engine and the parsers of its record |
| `ReductionEngineProofs` | its theorems |
| `BlindRuling` | abstract promise of the decision: sealed before the candidates were shown, recorded once, departed from only with a reason |
| `DecisionSession` | the session and the record as operators: what each operation refuses and what it makes of a session |
| `DecisionStudio` | the server over the session, and the tabs with their requests |
| `DecisionStudioProofs` | its theorems |
| `EmittedHarness` | one run of the emitted harness, from its roots to its verdict |
| `EmittedHarnessProofs` | its theorems |
| `EvidenceGenerations` | abstract promise of the evidence writer: a line of generations, and what was reported stays |
| `EvidenceGenerationsProofs` | that the promise means so |
| `EvidenceInstall` | the evidence writer, operation by operation |
| `EvidenceInstallProofs` | its theorems |
| `MC*` | values for the constants of each |

### Files

A directory entry is durable only after the directory that holds it was synced,
file contents after the file was (every writer of the stores syncs the contents
before it links or renames, so contents are not a separate step). `DurableFiles`
gives `Linked` (visible only), `Renamed` (old and new body may survive) and
`Synced`. A power loss keeps what is durable and any subset of what is only
visible; a subdirectory whose entry was not durable may take all of its files
with it. This is what POSIX promises and what the code's own comments rely on
when they sync parents; a file system that orders metadata more strictly shows
fewer behaviours.

Digests are names. A head or an interlock state carries its predecessor's digest,
so it is modelled as the sequence of everything that led to it, and two digests are equal
exactly when the sequences are.

### ExecutionInterlock

A process stands for one opened store. `lock` is the store-wide contract
namespace lock; an operation takes it in its first action and every later write
is an action of its own, named after the step in the code (`Admit`,
`HeldRename`, `HeldSync`, `ClaimLink`, `ClaimSync`, ...). `OperationFails` is any
failing call: the operation returns its error and drops the lock. (The one failure the
code reconciles itself, a fault injected before the claim is linked, is `ReconcileNoClaim`.) `Abandon` is a
killed process or a runner that returned. `PowerLoss` ends every process, keeps what
survives and begins a new boot session. `owner[p]` is the start authority in
memory; `starts`, `live`, `orphaned`, `released` and `forsaken` are history the code does not
have. `MakeDirectory` and `SyncMadeDirectory` are `ensureContractDirectoryLocked`,
which syncs a parent only in the call that created the directory.

The record of a run is three files in three directories, its *homes* (`HomesOf`): the object in
its shard, the witness in `publications/`, the relation in `run-by-target/`. Each is made by the first
call that needs it (`MakeHome`) and its parent synced by that call alone (`SyncHome`); a call that
fails in between leaves a home `forsaken`, used by everyone and synced by nobody, unless the
maker of another home syncs the same parent later (`SyncedUnder`). Object and witness are written and
synced before the relation is linked (`persistContractRecord`), so the relation stands for the run
(`RunLink`, `RunSync`), and a power loss that takes a home takes the runs in it (`RunsIn`).
Every target has a shard of its own; two runs that shared one would lose it together.
Taken as durable are `links/`, and what the publication of the target itself left in
`publications/` and the shards of other records; the manifest and spawn observation that are written
before the run are left out. They could make or sync a home earlier and so only close the window.

In `StartAdmission` a power loss leaves a slot whose holder has started alone; a slot whose holder has
not started may change hands with it, since an unsynced HELD may come back or go. `GiveUp` asks
only that the holder is finished, never started or of an earlier boot, not that the store
can tell: what an individual clear rests on is `NoTakeover`, not the refinement.

### StudyHead

The same discipline for `createStudyObject`, `advanceHead`, `publishLocked`,
`ensureObjectPath`, `ensureStudyPath`, `replaceHead` and
`ConfirmResiduePublication`. The seven Advance methods differ in the stage they
select and the kinds they admit; `Stages[o]` says at which revisions the kind of
an object is allowed, and `LegalSuccessor` is `permittedTransition` with
`kindAllowedForStage`. A token is the head a process read earlier, at any time.

### ProcessSupervision

One actor per goroutine: the owner that calls Close (`pc`), the wait goroutine
(`Reap`, `WaitReturns`), a drain per stream, the stdin writer, an abort, and the
kernel's group (leader, one descendant). The owner's polls are separate steps
because a fact may become ready between two of them. Timers go off at any moment
after they are armed. The environment: the child holds both output streams until it exits;
the reader of stdin is whoever holds the pipes; waiting for a command closes the
parent's end of its stdin pipe (`os/exec`); a group probe of a group with only a
zombie may answer EPERM. The code states two exclusions and the model keeps
them: a process group id is not reused, and a descendant that left the group
and closed the pipes is not seen.

### ReductionEngine

Stimuli are numbers in proposal order with a measure; the evaluator and the enumerator
answer anything their types allow: maps that fit or not, reasons that are legal
or not, errors, trials beyond the allowance, evidence fresh, reused or missing.
The wall budget may end and the caller may cancel at every step. The four kinds of
evidence digests of a result are one set of tokens, as the code admits them together.
`Evaluation` follows the order of the refusals in `evaluate`.
`ParseTranscriptRecord` and `ParseReductionRunRecord` are the conditions of the two parsers in
`wire.go`; digests and formats that a run fills in from its own inputs hold by
construction and are left out. The branches `PRESERVING_EVALUATION_MISSING_MAP`,
`PRESERVING_EVALUATION_LOST_DIVERGENCE` and `LOGICAL_FINAL_SWEEP_REJECTED` are
not modelled: each asks again what the evaluation before it established.

### DecisionStudio

The server handles one request at a time under its mutex (`ServeMutation`,
`ServeLoad`). A tab has at most one mutation under way, and two loads when the
page asked again. The client gives up on a request that is then an
`orphan`: it may still arrive, at any time, or never. `Digest` is the revision
digest, `Bench` the whole answer; a request carries the bench its tab showed.
`Offers*` are the conditions under which the client enables a control
(`DecisionBench.tsx`), `CanVisit` ... `CanRevise` the refusals of the session: they
are two translations of two files, and `OfferedFitsSession` compares them. Of a draft the client looks
at the shape (`ShapeReady`) and the server at what it says, so there are three kinds: `Blank` is
incomplete, `Drafts` are what every validation accepts, and `Flawed` are complete in shape and
refused: an authored expectation that repeats an observed card, as the editor prefills it
(`DecisionBench.tsx:516`, `CUSTOM_EXPECTATION_ALREADY_SEEN`), cards that separate nothing, a reviewer label
with spaces around it. The client does offer those, as it offers a rationale or an attribution that
the server then finds too long or not plain text (`why`). With `FreeEdits` the editor
may change at any time; without it, as in the run, only when a button is about to read the
draft, which loses nothing: an earlier edit is read by nobody in between and can be made then.
`blindVisits` and `disclosed` are history: the surfaces visited before, and
whether, an answer with the candidates' identities was made. Two things met on
the way are the code's choice and no property forbids them: the answer to a
visit replaces local edits of the draft, and a tab whose study was
finalized elsewhere is told so and keeps its old bench.

### EmittedHarness

One JavaScript thread: what runs between two awaits is one action, and
listeners run only while it waits (`Heard`). A deadline is running or past; an
event is the set of deadlines that were past when its listener ran, which is
all that `observedBefore` asks. The child, a helper it left in its group, the
pipes and the kernel go on at any time; a probe of a group with nothing but a zombie may answer
anything. `Finish` judges and forgets the run's locals, so `ran` keeps whether
the run was whole. Edits of the bundle or the target happen where they are
looked for again (`Rescanned`, `CheckRoots`): before that they commute. The
two output captures are written alike, so the run has one. Exclusions: process ids
are not given away anew while the harness runs; `lifecycleError` needs a throwing
listener and is left out; a server that fails by itself but whose exit is heard only after
the harness's SIGTERM cannot be told from one that was stopped
(`docs/STATE_MACHINES.md:252`).

### EvidenceInstall

A command holds the operations it has still to make (`todo`); each is one step,
and `Recover` puts the operations of a recovery before the rest, `Thrown` the
catch in their place. `dir` maps the names in `docs/captures` to what they hold: a
generation and whether all its files are there. The file model differs from
`DurableFiles`: this directory is one, its entries are changed by renames in one
order, and a power loss keeps any one state since its last sync (`may`). That is
less than POSIX allows and as much as the document claims: these are controls "under
sole-writer assumptions, not hostile same-user containment, universal power-loss durability"
(`docs/ARCHITECTURE.md:321`). A failing
operation may have been made or not (`Leaves`). The operator of the document's "exact operator
inspection and cleanup" (same line) removes what a command refuses to go on with, and only
while none is in the lock. That line also names "stale locks": the lock of a dead command refuses
every later one until it is removed by hand (`AcquireLock`), whatever else is there.

## 3. Runs

`tlc -workers 2 -config <run>.cfg MC<module>.tla`, each under three minutes on two workers.

| run | bounds | checks |
|---|---|---|
| `ExecutionInterlock` | 2 processes, targets of boots 1, 1, 2, two boot sessions, 5 revisions, 2 faults; processes symmetric; 2,577,327 states | the safety of the interlock and that it implements `StartAdmission` |
| `ExecutionInterlockLive` | the same with two targets, one boot, no resets; 203,156 states | `FinalizedIsReleased` |
| `ExecutionInterlockConverge` | two targets, one boot | counterexample to `ReleaseConverges` |
| `StudyHead` | 2 processes, 1 study, 5 objects in 2 shards, 3 revisions, 1 fault, 1 power loss; 1,708,745 states | the safety of heads and objects and that they implement `StudyLineage` |
| `StudyHeadMissing` | the same | counterexample to `HeadNamesPresentObject` |
| `ProcessSupervision` | one stream, limit 1, output 2, 1 fault; 7,710,538 states | the safety of a close |
| `ProcessSupervisionLive` | the same, no output | `CloseReturns` |
| `ProcessSupervisionWait` | small | counterexample to `ReceivedWaitCompletesEdge` |
| `ReductionEngine` | 4 stimuli of measures 2, 1, 1, 0, 4 proposals, 4 trials, at most 5; 430,863 states | the record, the draft and termination |
| `DecisionStudio` | 2 tabs, 2 surfaces to review blind, 2 drafts and a flawed one, 3 presentations, 1 lost or reloaded request, `FreeEdits` FALSE; tabs, surfaces and drafts symmetric; 3,672,287 states | the record, the client's rules, the compare-and-swap, and that the studio implements `BlindRuling` |
| `EmittedHarness` | one output capture, 1 fault; both adapters; 1,261,850 states | verdicts, orphans, attribution, and that the run ends |
| `EvidenceInstall` | 2 shells, 2 generations, 3 faults, 1 edit; shells symmetric; 1,715,593 states | that the writer implements `EvidenceGenerations`, and when an operator is needed |

Why the bounds are enough. Interlock: a second target is what must not start, a
third of the next boot is what a changed boot lets in; five revisions are two full
HELD/CLEAR rounds and a third HELD; two faults leave one operation half done and its retry too, or one home forsaken and a release that failed on the way.
Heads: a loser needs a second process, a shared shard a second object in it, a
conflict two rivals at one revision, and the terminal stage a third. A replaced body lost and an
entry never synced need one failed call and one power loss. Supervision: the second
stream behaves as the first; one unit of output is within the limit and two overflow it; one
descendant can stay, leave, hold or drop the pipes. Reduction: four proposals are an
unresolved one, a step down, a search and a sweep; five trials exceed the budget, six overflow.
Studio: a stale tab needs a second one, a partition a surface visited and one not, a departure a second
draft, a refusal for what was typed a flawed one; one fault loses an answer of an applied mutation, whose abandoned twin then arrives.
Harness: the listeners' order, the deadlines and the child are not bounded at all; a fault is a pipe that breaks or a
root that was edited. Evidence: two generations are a first and its successor, three faults a
command that dies, its recovery that dies, and the recovery of that.

Which state bounds are not the program's: `MaxRevision`, `LastBoot`, `MaxFaults`, `MaxPowerLosses`,
`MaxOutput`, `Reported`, `FreeEdits`, `LastGeneration`, `MaxEdits`, and `LastRevision` = 3 for 8 (the stages in
between are alike but for the kinds they admit). The trial cap of the engine is
`MaxTrials`.

Deadlock is checked where the system never stops (`StudyHead`). The
interlock may be held for ever by a dead boot session; a close, a run, a
finalized study and the harness end; evidence stops at the last generation. Those runs say
`CHECK_DEADLOCK FALSE`.

### Properties

- *Interlock.* `HeldWhileLive`: while a subject may run, the interlock is held
  for its target. `AtMostOneStart`. `WinnerIsDurable`: authority in
  memory rests on files no power loss takes. `ClaimsOnHistory`: a claim lies on every
  history a power loss may bring back. `ReceiptProvesRun`: behind a receipt there is a claim no
  power loss takes and a settled run: its file synced, each of its homes synced or forsaken. Only in
  a later boot may that run be gone, and only with a forsaken home. `AdmittedByReceipt`: an
  admission rests on a receipt no power loss takes. `NoTakeover`: a step of the program takes the slot only
  from a holder that is settled, never claimed or of an earlier boot. `ImplementsAdmission`. `FinalizedIsReleased`.
- *Heads.* `AckedIsSettled`, `ConfirmedIsFinal`, `HeadObjectsAreDurable`,
  `StaleLoserWritesNothing`, `ImplementsLineage`.
- *Supervision.* `CleanMeansGone`, `BehaviourIsWhole`, `ExitIsOwn`,
  `PriorityKept`, `CloseReturns`.
- *Reduction.* `RecordParses`: whatever was answered, the record of a finished run passes
  the parsers. `DraftIsMinimal`: a draft means that every proposal of the last round changed the
  map twice on disjoint evidence and nothing in the run was unresolved. `RunEnds`.
- *Studio.* `ActsOnWhatItSaw`: the session moves only on a request whose tab showed what
  the server would show now, whatever was lost or late. `PartitionIsTrue`: the record's
  split of the surfaces is by what had been shown, though the reveal itself may be applied
  unseen. `OfferedFitsSession`: on a screen that shows the present the client offers nothing the
  session's state forbids; what the server still refuses, it refuses for the draft or the text that was
  typed, and takes with another. `RulesBlind`: the studio implements `BlindRuling`.
- *Harness.* `VerdictIsWhole`, `OrphansAreTold`, `EndIsAttributed`, `EndsWithVerdict`.
- *Evidence.* `ImplementsGenerations`: whatever a recovery will find is one whole
  generation, replaced at the commit and by nothing else; one told to be written is kept.
  `OperatorOnlyWhereTold`: once the first journal is durable, the next command that gets the
  lock recovers by itself, unless a temporary journal is left. So what needs an operator is what the
  document names: a crash before the first durable journal or while replacing its temporary
  write, and a stale lock, which the property leaves aside.

Each property has a mutant in `PROJECT.json`: an operator beside the definition
it replaces, changed as a plausible bug would change it, under which TLC finds the property violated.

### Fairness

- Interlock (`FairSpec`): a call under way goes on (weak fairness). The lock is
  polled every few milliseconds without a queue, so a waiter may
  lose it to others; strong fairness on the owner's and the release's steps says
  that it does not lose for ever. Strong fairness on `Resume` of each target
  is the caller that retries a release. Nothing makes anyone acquire.
- Supervision: the owner goes on, the execution timer and the teardown deadline
  go off. Nothing is asked of the child, the drains, the wait or the stdin writer.
- Reduction: the engine goes on, which includes that the enumerator and the
  evaluator return. Both are handed a context that ends with the wall budget, and
  the engine calls them directly: if they never return, neither does the run.

- Harness: the program goes on and its deadlines pass. Nothing is asked of the child, the
  pipes or the kernel.

## 4. What is proved

Every theorem below is checked by TLAPS for every value of the constants that satisfies
the named assumptions of its module (`TargetAssumption`, `BoundAssumption`,
`ReductionAssumption`, ...), which say no more than that the sets are what the code
gives it, and TLC evaluates them on every run. Each
inductive invariant was an invariant of a TLC run before it was proved. In every module
`TypeOK` alone is not enough, and the proofs have the same layout: the invariant in named parts,
one lemma per action or actor, and theorems that combine them.

| module | theorems (property) |
|---|---|
| `ExecutionInterlockProofs` | `TypeCorrect`, `StartsAtMostOnce` (`AtMostOneStart`), `LiveIsHeld` (`HeldWhileLive`), `WinnersAreDurable` (`WinnerIsDurable`), `ClaimsStayOnHistory` (`ClaimsOnHistory`), `ReceiptsProveRuns` (`ReceiptProvesRun`), `OwnersAreAdmitted` (`AdmittedByReceipt`), `NoneTakesOver` (`NoTakeover`), `AdmissionImplemented` (`ImplementsAdmission`) |
| `StudyHeadProofs` | `StudyTypeOK`, `AcknowledgedHeadsStay` (`AckedIsSettled`), `ConfirmedResiduesAreFinal` (`ConfirmedIsFinal`), `HeadsNameDurableObjects` (`HeadObjectsAreDurable`), `StaleLosersWriteNothing` (`StaleLoserWritesNothing`), `LineageImplemented` (`ImplementsLineage`) |
| `ProcessSupervisionProofs` | `SupervisionTypeOK`, `CleanCloseIsGone` (`CleanMeansGone`), `ClosedBehaviourIsWhole` (`BehaviourIsWhole`), `UndecidedExitsAreOwn` (`ExitIsOwn`), `DecisionsKeepPriority` (`PriorityKept`) |
| `ReductionEngineProofs` | `EngineTypeOK`, `FinishedRecordsParse` (`RecordParses`), `DraftsAreMinimal` (`DraftIsMinimal`) |
| `DecisionStudioProofs` | `StudioTypeOK`, `TakenMutationsSawThePresent` (`ActsOnWhatItSaw`), `RecordTellsWhatWasBlind` (`PartitionIsTrue`), `StudioRulesBlind` (`RulesBlind`), `OfferedMutationsFit` (`OfferedFitsSession`) |
| `EmittedHarnessProofs` | `HarnessTypeOK`, `VerdictsAreWhole` (`VerdictIsWhole`), `SurvivorsAreTold` (`OrphansAreTold`), `EndsAreTheSubjects` (`EndIsAttributed`) |
| `EvidenceGenerationsProofs` | `ReportedStays` |
| `EvidenceInstallProofs` | `WriterTypeOK`, `GenerationsImplemented` (`ImplementsGenerations`), `WrittenStays`, `OperatorWhereTold` (`OperatorOnlyWhereTold`) |

### Interlock

The steps of an operation read what it left in its locals, so `TypeInv` adds that operations
and owners name targets. `AtMostOneStart` and `HeldWhileLive` need each other. A second
start could come from a second winner for the target, or from a winner consumed after the
slot changed hands; the first is excluded because an acquisition refuses a target that has
a claim and no claim of a started target can be lost, the second because the
winner's HELD state is still the current one. `SlotInv` says so in ten named
parts: writes happen under the lock (`LockHeld`); claims name their HELD state (`ClaimFiles`); a
spent start has a claim no power loss takes (`SpentIsClaimed`); an acquisition
under way is for an unclaimed target and holds the slot from its rename on
(`AcquiringFresh`); owners rest on claims and are unique (`OwnersClaimed`,
`OwnersExclusive`); children run in the slot (`LiveHolds`); runs come after a
close (`ClosuresRun`); whoever is about to clear found nobody in the slot
(`ClearedIsFree`); and `AtMostOneStart` itself. The power loss needs that what a
directory entry's durability says of the files under it survives (`SurvivingEntries`).

What is on disk, as opposed to who may start, needs `DurableInv` on top. An owner has the
slot until its run is there, and the interlock can then be read in one way only
(`OwnersInSlot`); a clear is justified when its rename is near (`ClearingJustified`), and a
release carries that justification through its four writes, each of which rests on the
one before (`ReleaseJustified`); what an acquisition found has a durable receipt in a
durable directory (`AdmissionProven`). A receipt outlives boots in which the run behind it
may have gone, so what is inductive of runs is apart (`HomesSettle`): a home that is neither
synced nor forsaken has its maker still at work in the lock, hence none is when a relation is linked,
and every visible run lies in homes that are one or the other. The claim behind a
receipt needs less, as the claim directory is synced with the file. The refinement maps each step to one of
`StartAdmission` or a stutter; that a power loss leaves a started holder alone is `SpentStays`, its HELD
state being the only one a power loss may leave.

### Study heads

`HeadInv` ties three things that are written apart: the lock with the comparison (a writer's
head is the one it compared with, until its rename: `WritersCompared`), the visible head with
the bodies a power loss may bring back (each a beginning of it, `HeadsOnLine`), and a head with
its object. `StaleLoserWritesNothing` speaks of a call that ended, and is not inductive: that a
loser's object is nowhere follows from `ObjectsAccounted`, that every object on disk is on
a head, is being written by a call past its comparison, was left by one that was cut off, or
is of a kind no head admits. `LineageImplemented` follows from what each rename does under the lock.

### Process supervision

The properties are about the closed process, and what its result reports was found many steps
before. `SuperviseInv` says of each finding that the world can no longer undo it: an absent group stays
absent, as only a member makes a member (`ProbedIsGone`); a drain that ended on its own has read
all there will be (`DrainedIsDry`); an undecided run was signalled by nobody
(`UndecidedIsOwn`); a source the turn has polled was not visible when it began, and one it
has not polled is still there to be found (`TurnsPollAll`, which is what priority needs). The
proof needs that there is at least one output stream: over none, the close would have no drain to wait
for. The code always has two, and `BoundAssumption` now asks for a non-empty set.

### Reduction

Parsing reads a record from its first entry to its last, and the run wrote it in that order, so
most of what the parser asks of an entry is settled when it is written (`RecordSound`). Two things are
not: that nothing follows a refusal or a failed sweep, hence `Underway`, that a run that goes on has
recorded neither; and that the sweep evaluated the whole round, hence `SweptSoFar` and
`SearchedSoFar`, which count what is still to do. A draft is minimal because at its end nothing is.
Evidence is disjoint because the ledger is what was recorded (`LedgerKept`).

Two definitions of the model were changed to be reasoned about. `Evaluation` chose among overlapping
guards with CASE, which in TLA+ leaves the choice open where the code's order of refusals does not; it
is now the chain of alternatives the code has. And the path of the parser was a selection from a
sequence, defined by recursion, of which nothing can be proved here; `PathParses` now
says the same by counting: the accepted step k is the k-th preserving reduction.

### Studio

The session alone carries neither `PartitionIsTrue` nor `RulesBlind`: a reveal may have been applied
for a request whose answer nobody received. What is inductive speaks of every bench on a
screen or on a wire. `Informed`: one with a digest of a revealed session left the server with
the candidates. `Dated`: one is of an earlier revision or is what the server would show now,
so that equal revision digests mean equal benches. Together a request the
server still takes after the reveal comes from a tab that was shown it.

`OfferedMutationsFit` compares two translations of two files. It needs of the session what
its screen waits for and the session itself does not ask (`SessionReviewed`): the session would reveal with fewer
surfaces visited and record a revision before the provenance was opened. It is held back by the
screens alone, so the invariant says of every request on a wire, late ones included, that a screen
offered it on the bench it carries (`AllOffered`), and needs `Dated` again to read that bench as the present.
The proof names the request that is taken in the place of the refused one, and needs for it that there is a
draft the server accepts: the code always has one, to reject all.

### Harness

A verdict is given by a program that has forgotten the child: it rests on facts. `HarnessInv` says what
clean facts stand for at every place between: a phase that was completed (`CleanIsComplete`), then pipes
that were joined (`JoinedIsSettled`), then the record of a whole run (`CleanIsWhole`), and a private
root that is removed (`RootIsOwned`). A survivor is told because a start that was never confirmed is a
risk whatever else happened (`UnconfirmedIsTold`). `SignalsCounted` and `HeardIsSo` say what is
known before each of the two signals and of an exit that was heard.

### Evidence

`ReportedStays`: the promise the writer implements keeps `ReportedIsKept` for any set of generations. It
needs that something stood there before a commit (`KeptInv`).

`GenerationsImplemented`: a command is a sequence of operations that a recovery prefixes and a
catch replaces, so what it knows of the directory cannot be told by its position. The proof ranks
the operations (`Rank`): whatever a command still has to do comes in the order of the ranks
(`Ordered`), a sync anywhere, and the set of the pending operations then says where it is.
`WriterInv` is stated over that set, for the four kinds of command there are. One without the
lock has yet to take it, or has only its report to give, and knows then that what it
reports stands in every state a power loss may leave (`OutsiderInv`). One that recovers has the
journal's own removals pending, and once none of them touches the place of the active
generation, the right one is there (`RecoversInv`, in `RecoveryInv`). One that installs owns the journal, and nothing
a power loss can bring back stands for its generation until the state `committed` is published
(`UncommittedInv`); from there its generation is in place until the end (`CommittedInv`).
`Exclusive` says that one command at a time is in the lock. A publication of `committed` is then
`Commit`, a report of a command that did not fail is `Report`, a sync is `Settle`, and every other step leaves
what stands as it is: a move or a removal of a generation because the journal that is there
names the copy the recovery would use.

`WrittenStays` carries `ReportedStays` over to the writer's own directory: the refinement is an
instance of the abstract module, and so is its theorem.

`OperatorWhereTold` is about all that is left on the disk, of which `WriterInv` says only what
decides which generation stands. `TidyInv` adds the rest, for every directory a power loss may leave
(`Tidy`): beside a journal there are only names of its generation, and once that journal was durable
they are such that a recovery goes through (`Recoverable`); without one there is nothing of a
generation that had a durable journal. For a directory this is no invariant, as it is made and taken apart name by
name by commands that may stop anywhere. So `TidyInv` also says of whoever is in the lock what
keeps it so. An installation finds what it has made where its pending operations expect
it (`InstallHolds`): the stage until the move forward, the old generation aside
from the move of it until its removal, a quarantine only with its purge pending. A recovery still
has to make an operation for every name there is (`RecoverySweeps`), so that the journal goes last of
all. And one that has staged without a journal is of a generation that no durable journal
names (`HolderTidy`), which is why its stage may stay behind without one. What remains is about
the recovery as a function of the directory: on a `Recoverable` one it refuses nothing, and each
of its removals finds a whole generation, or what is in quarantine of one, or nothing, and never
the first two together (`RecoverableRecovers`).

The model's `With` was written with `:>` and `@@`, of which the provers know nothing; it is now the
function it denotes.

### What is only model-checked

- Liveness under fairness: `FinalizedIsReleased`, `CloseReturns`, `RunEnds`, `EndsWithVerdict`. The
  prover does not reach fairness and ENABLED.
- The findings: each is a counterexample.

## 5. Findings

Four places where the code does something else than its documents say; each is an entry in
`PROJECT.json` with the run that exhibits it.

1. `ExecutionInterlockConverge`: a release that finds its CLEAR renamed by an
   earlier call that failed before the sync reports success without syncing the directory;
   power loss then brings HELD back. "Release converges both CLEAR state and its
   deterministic FINALIZED_RUN receipt" (`internal/store/contract_run_bridge.go:612`). Nothing starts
   that should not: a held store admits nobody. But the power loss began a new boot session, in
   which the target is not reopened (`internal/contractexec/target.go:331`) and the reset after a
   boot change has no caller, so the store stays held.
2. `ExecutionInterlockConverge` again: the directory of the receipts, created by a call that
   failed before syncing its parent, is used by later calls that never sync it.
   A reported release can lose its receipt (`docs/STATE_MACHINES.md:579`). The run asks of a
   reported release that one of the two be durable, so that its counterexample shows both at once.
   The directories of a run have the same shape; there it is no violation but the exception
   `ReceiptProvesRun` states. Both findings are to be read with `docs/ARCHITECTURE.md:342`, which
   says that forced power-loss recovery is not established.
3. `StudyHeadMissing`: the same shape in the object store's shards; a durable head
   can name an object that is gone (`docs/STATE_MACHINES.md:512`).
4. `ProcessSupervisionWait`: the one wait result is received by a turn of the
   arbitration and dropped when the next turn decides for a higher fact; a
   reaped child is reported as not waited for, with an orphan risk.

The safety properties above hold with these behaviours included: where one is an exception
to a property (a shard, study or relation directory a power loss took) the property names it.

## 6. Not modelled

Identity checks of opened directories and case aliases (the store refuses to
work, and changes nothing); byte formats, canonical JSON and digests (a digest is
a name); parsing, projection and rendering; the command line and drivers that call
modelled parts in a fixed order.

Private run evidence, observation, confirmation, the HTTP service lifecycles and
the materializers have state and failures of their own and are not modelled. They
repeat disciplines that are modelled elsewhere (create-once files with their
syncs, a staged directory and its rename, one owner of a process), but the hazards that name
them are not covered, and `PROJECT.json` says so at each.

Of the harness: the parsing of the contract's data, its parity operations and the
bytes of its projections. Of the evidence tool: what the evidence says, its readers
`--verify` and `--render` (they take no lock, and may accept a generation that is rolled back later), and its self-test.

The JavaScript of `tools/` is by far the largest part of the repository's JavaScript (one plan checker alone
has 32,908 lines) and is left out with the exception of the evidence writer. A
plan, architecture or scope checker is one pass over documents and source text: a long
list of comparisons with literals, without a state that a step changes, where a
property could only restate a comparison. The mutation gates edit a copy and run
a test; the verification runtime runs the checkers in order. So the map's share of the JavaScript
stays small however much of the system itself is modelled.

## 7. Plan

Done, in order: the interlock and its abstraction, the heads and theirs, process
supervision, the reduction engine, and the interlock's first theorems; then the decision
session with its server and tabs and their theorems, the emitted harness, and
the evidence writer; then the theorems of the heads, the supervision, the engine and the harness,
the rest of the interlock's, and the evidence writer's: every safety property a passing run checks
now has its theorem, and what is left to TLC is liveness.

Next, extending the model:

1. `PrivateRun`, extending `ExecutionInterlock`'s file model with the manifest,
   the spawn observation and the purge, and composing them with the release.
2. `ObservationRun` with the attempt state machine and the budgets, then
   confirmation on top of it.
3. Materialization: the staged directory and its exclusive rename, with
   `DurableFiles`; residue publication over `StudyHead`.
4. The HTTP service lifecycles over `ProcessSupervision`'s owner.
