------------------------- MODULE ExecutionInterlock -------------------------
(***************************************************************************)
(* The store-wide execution interlock of internal/store: which process may *)
(* start the subject program of which contract target, across process      *)
(* kills, failed syscalls, power losses and boots.                         *)
(*                                                                         *)
(* The interlock file carries a digest over its fields and a generation    *)
(* derived from the digest of the state it replaced, so one state names    *)
(* its whole past.  A state is therefore modelled as the sequence of       *)
(* transitions that led to it (a chain); the revision is its length, and   *)
(* two states have the same digest exactly when their chains are equal.    *)
(* A target record fixes its attempt and the boot session it was published *)
(* in, so a target stands for both; a finalized run is the only child of   *)
(* its target, so the target stands for its run too.  A run is three       *)
(* files: the object in its shard, a hard link to it in publications/, and *)
(* the relation that names it in links/.  The first two are synced before  *)
(* the third is linked, so a run is there as soon as its relation is, and  *)
(* what may still go is a directory one of the three is in.                *)
(*                                                                         *)
(* Every write to disk is a step of its own: between any two of them the   *)
(* operation may fail, its process be killed or the machine lose power.    *)
(***************************************************************************)
EXTENDS Integers, Sequences, DurableFiles

CONSTANTS
  Procs,        \* processes (each with its own opened store) that run contracts
  Targets,      \* published contract targets
  TargetBoot,   \* the boot session each target was published in
  LastBoot,     \* bound: boot sessions are 1..LastBoot
  MaxRevision,  \* bound: no acquisition once the interlock has this revision
  MaxFaults,    \* bound: failed operations and killed processes in a behaviour
  Resets,       \* whether the changed-boot reset (a test witness today) is used
  LinkFaults,   \* whether the fault injected before the claim link may fire
  NoTarget, NoProc

Boots == 1 .. LastBoot

ASSUME TargetAssumption ==
  /\ TargetBoot \in [Targets -> Boots]
  /\ NoTarget \notin Targets
  /\ NoProc \notin Procs

ASSUME BoundAssumption ==
  /\ LastBoot \in Nat \ {0}
  /\ MaxRevision \in Nat
  /\ MaxFaults \in Nat
  /\ Resets \in BOOLEAN
  /\ LinkFaults \in BOOLEAN

VARIABLES
  boot,       \* the boot session the host reports
  interlock,  \* execution-interlock.json: a replaced file holding a chain
  ops,        \* the subdirectories of the directory the interlock file is in
  claims,     \* start-claims/: one claim per target
  releases,   \* finalized-run-releases/: one release link per run
  receipts,   \* clear-receipts/: one receipt per CLEAR state
  runs,       \* run-by-target/: the relation, targets with a finalized run
  homes,      \* the directories made for the files of runs, see HomesOf
  lock,       \* holder of the store-wide contract namespace lock
  pc,         \* pc[p]: the next write of the operation p is executing
  op,         \* op[p]: the locals of that operation
  owner,      \* owner[p]: the in-memory start authority of p
  closure,    \* closure[p]: target whose terminal closure p holds
  starts,     \* history: how often each target's start was authorised
  live,       \* targets whose subject program may still be running
  orphaned,   \* targets finalized with an orphan-risk control
  released,   \* history: targets whose release was reported complete
  forsaken,   \* history: homes whose maker ended before it synced the parent
  faults      \* failed operations and kills so far

runTree == <<runs, homes>>
disk == <<interlock, ops, claims, releases, receipts, runTree>>
memory == <<lock, pc, op, owner, closure>>
history == <<starts, released, forsaken>>
children == <<live, orphaned>>
vars == <<boot, disk, memory, history, children, faults>>

(***************************************************************************)
(* Interlock states as chains of transitions.                              *)
(***************************************************************************)
Held(t, b) == [st |-> "HELD", boot |-> b, target |-> t]
Clear(b) == [st |-> "CLEAR", boot |-> b, target |-> NoTarget]
Entries ==
  [st : {"HELD"}, boot : Boots, target : Targets]
    \cup [st : {"CLEAR"}, boot : Boots, target : {NoTarget}]
Chains == Seq(Entries)

Current(chain) == chain[Len(chain)]
IsHeld(chain) == chain # <<>> /\ Current(chain).st = "HELD"
IsClear(chain) == chain # <<>> /\ Current(chain).st = "CLEAR"
Replaced(chain) == SubSeq(chain, 1, Len(chain) - 1)

(***************************************************************************)
(* File bodies.  A claim names the HELD state it was created under.        *)
(***************************************************************************)
Claim(t, chain) == [target |-> t, chain |-> chain]
Release(t, held, clear) == [run |-> t, claim |-> Claim(t, held), clear |-> clear]
Receipt(clear, cause, run) == [clear |-> clear, cause |-> cause, run |-> run]

Causes == {"FINALIZED_RUN", "CHANGED_BOOT", "KNOWN_NO_CLAIM"}

Claimed(t) == \E c \in claims.vis : c.target = t

(***************************************************************************)
(* The directories the files of a run are in, each made when it is first   *)
(* needed and named after the directory it is in: the one for runs among   *)
(* the publications, the shard of the run's own object (two digits of its  *)
(* digest), the one for runs among the relations.                          *)
(***************************************************************************)
Publications == <<"publications", "runs">>
Shard(t) == <<"digests", t>>
Relations == <<"links", "runs">>
HomesOf(t) == {Publications, Shard(t), Relations}
Homes == UNION {HomesOf(t) : t \in Targets}
Parent(home) == home[1]

\* syncDirectory of a parent: every home in it becomes durable.
SyncedUnder(parent) == {home \in homes.vis : Parent(home) = parent}

\* A CLEAR state reopens admission only with a receipt that reconstructs the
\* HELD state it replaced and, for a finalized run, with the claim and the
\* release link that join it.
ReceiptExact(clear) ==
  \E r \in receipts.vis :
    /\ r.clear = clear
    /\ Len(clear) > 1
    /\ IsHeld(Replaced(clear))
    /\ (r.cause = "CHANGED_BOOT") <=> (Current(clear).boot # Current(Replaced(clear)).boot)
    /\ (r.cause = "FINALIZED_RUN") =>
         LET held == Replaced(clear) IN
           /\ Claim(Current(held).target, held) \in claims.vis
           /\ Release(r.run, held, clear) \in releases.vis

\* validateFinalizedRunRelease before it syncs what it read.
ReleaseExact(t) ==
  \E c \in claims.vis : \E r \in releases.vis :
    /\ c.target = t
    /\ r = Release(t, c.chain, Append(c.chain, Clear(Current(c.chain).boot)))
    /\ Receipt(r.clear, "FINALIZED_RUN", t) \in receipts.vis

(***************************************************************************)
(* Operations of a process.                                                *)
(***************************************************************************)
NoOp == [target |-> NoTarget, chain |-> <<>>, cause |-> "none", made |-> "none"]
NoOwner == [target |-> NoTarget, chain |-> <<>>, phase |-> "none"]

Unlocked == {"idle", "validate"}
Steps == {"admit", "heldRename", "heldSync", "claimLink", "claimSync", "runLink", "runSync",
          "openRun", "reopen", "clearRename", "clearSync", "releaseLink", "releaseSync",
          "receiptLink", "receiptSync"}

Init ==
  /\ boot = 1
  /\ interlock = ReplaceableFile(<<>>)
  /\ ops = EmptyDirectory
  /\ claims = EmptyDirectory
  /\ releases = EmptyDirectory
  /\ receipts = EmptyDirectory
  /\ runs = EmptyDirectory
  /\ homes = EmptyDirectory
  /\ lock = NoProc
  /\ pc = [p \in Procs |-> "idle"]
  /\ op = [p \in Procs |-> NoOp]
  /\ owner = [p \in Procs |-> NoOwner]
  /\ closure = [p \in Procs |-> NoTarget]
  /\ starts = [t \in Targets |-> 0]
  /\ live = {}
  /\ orphaned = {}
  /\ released = {}
  /\ forsaken = {}
  /\ faults = 0

\* p takes the store-wide lock to run an operation whose first write is step.
Begin(p, step, locals) ==
  /\ lock = NoProc
  /\ lock' = p
  /\ pc' = [pc EXCEPT ![p] = step]
  /\ op' = [op EXCEPT ![p] = locals]

Continue(p, step) ==
  /\ pc' = [pc EXCEPT ![p] = step]
  /\ UNCHANGED <<lock, op>>

\* p returns from its operation and drops the lock.
Return(p) ==
  /\ lock' = NoProc
  /\ pc' = [pc EXCEPT ![p] = "idle"]
  /\ op' = [op EXCEPT ![p] = NoOp]

(***************************************************************************)
(* ensureContractDirectoryLocked.  The call that creates a subdirectory    *)
(* syncs its parent; a later call that finds it there does not.  The       *)
(* parent is also the directory of the interlock file, so that sync        *)
(* settles every earlier rename of it.                                     *)
(***************************************************************************)
Directories(p) ==
  CASE pc[p] = "admit" ->
         {"claims"} \cup IF IsClear(interlock.vis) THEN {"receipts"} ELSE {}
    [] pc[p] = "releaseLink" -> {"releases"}
    [] pc[p] = "reopen" ->
         {"releases"} \cup IF \E r \in releases.vis : r.run = op[p].target
                          THEN {"receipts"} ELSE {}
    [] pc[p] = "receiptLink" -> {"receipts"}
    [] OTHER -> {}

DirectoriesReady(p) == op[p].made = "none" /\ Directories(p) \subseteq ops.vis

\* Mutation: the sync does not reach the replaced interlock file.
SyncNamesOnly ==
  /\ ops' = Synced(ops)
  /\ UNCHANGED interlock

SyncOperations ==
  /\ interlock' = SyncedFile(interlock)
  /\ ops' = Synced(ops)

MakeDirectory(p) ==
  /\ op[p].made = "none"
  /\ \E name \in Directories(p) \ ops.vis : ops' = Linked(ops, name)
  /\ op' = [op EXCEPT ![p].made = "operations"]
  /\ UNCHANGED <<boot, interlock, claims, releases, receipts, runTree, lock, pc, owner,
                 closure, history, children, faults>>

SyncMadeDirectory(p) ==
  /\ op[p].made = "operations"
  /\ SyncOperations
  /\ op' = [op EXCEPT ![p].made = "none"]
  /\ UNCHANGED <<boot, claims, releases, receipts, runTree, lock, pc, owner, closure,
                 history, children, faults>>

\* What p needs to write or to read a run, in the order it makes what is missing
\* (persistContractRecord, openContractRecordByParent).
HomesFor(p) ==
  CASE pc[p] = "runLink" -> HomesOf(op[p].target)
    [] pc[p] = "openRun" -> {Relations}
    [] OTHER -> {}

HomesReady(p) == op[p].made = "none" /\ HomesFor(p) \subseteq homes.vis

NextHome(p) ==
  LET missing == HomesFor(p) \ homes.vis IN
  IF Publications \in missing THEN Publications
  ELSE IF Shard(op[p].target) \in missing THEN Shard(op[p].target) ELSE Relations

\* Mutation: the parent of a new directory is not synced by its maker either.
MakeHomeUnsynced(p) ==
  /\ op[p].made = "none"
  /\ ~(HomesFor(p) \subseteq homes.vis)
  /\ homes' = Linked(homes, NextHome(p))
  /\ UNCHANGED <<boot, interlock, ops, claims, releases, receipts, runs, lock, pc, op,
                 owner, closure, history, children, faults>>

MakeHome(p) ==
  /\ op[p].made = "none"
  /\ ~(HomesFor(p) \subseteq homes.vis)
  /\ homes' = Linked(homes, NextHome(p))
  /\ op' = [op EXCEPT ![p].made = Parent(NextHome(p))]
  /\ UNCHANGED <<boot, interlock, ops, claims, releases, receipts, runs, lock, pc, owner,
                 closure, history, children, faults>>

SyncHome(p) ==
  /\ op[p].made \in {Parent(home) : home \in HomesFor(p)}
  /\ homes' = [homes EXCEPT !.dur = @ \cup SyncedUnder(op[p].made)]
  /\ op' = [op EXCEPT ![p].made = "none"]
  /\ UNCHANGED <<boot, interlock, ops, claims, releases, receipts, runs, lock, pc, owner,
                 closure, history, children, faults>>

(***************************************************************************)
(* acquireInterlockAndStartClaim.  Every check is made under the lock and  *)
(* before the first write; an existing CLEAR is admitted only after its    *)
(* receipt was found exact and synced.                                     *)
(***************************************************************************)
\* Mutations: CLEAR without a receipt; a HELD state of an earlier boot.
AdmissibleUnproven(chain) == chain = <<>> \/ IsClear(chain)
AdmissibleTakeover(chain) ==
  \/ chain = <<>>
  \/ IsClear(chain) /\ ReceiptExact(chain)
  \/ IsHeld(chain) /\ Current(chain).boot # boot
Admissible(chain) == chain = <<>> \/ (IsClear(chain) /\ ReceiptExact(chain))

Acquire(p, t) ==
  /\ pc[p] = "idle"
  /\ owner[p] = NoOwner
  /\ closure[p] = NoTarget
  /\ TargetBoot[t] = boot
  /\ Len(interlock.vis) < MaxRevision
  /\ Begin(p, "admit", [NoOp EXCEPT !.target = t])
  /\ UNCHANGED <<boot, disk, owner, closure, history, children, faults>>

\* Mutation: no look at the claims that are already there.
AdmitAgain(p) ==
  LET t == op[p].target IN
  /\ pc[p] = "admit"
  /\ DirectoriesReady(p)
  /\ Admissible(interlock.vis)
  /\ receipts' = IF interlock.vis = <<>> THEN receipts ELSE Synced(receipts)
  /\ pc' = [pc EXCEPT ![p] = "heldRename"]
  /\ op' = [op EXCEPT ![p].chain = Append(interlock.vis, Held(t, boot))]
  /\ UNCHANGED <<boot, interlock, ops, claims, releases, runTree, lock, owner, closure,
                 history, children, faults>>

Admit(p) ==
  LET t == op[p].target IN
  /\ pc[p] = "admit"
  /\ DirectoriesReady(p)
  /\ ~Claimed(t)
  /\ Admissible(interlock.vis)
  /\ receipts' = IF interlock.vis = <<>> THEN receipts ELSE Synced(receipts)
  /\ pc' = [pc EXCEPT ![p] = "heldRename"]
  /\ op' = [op EXCEPT ![p].chain = Append(interlock.vis, Held(t, boot))]
  /\ UNCHANGED <<boot, interlock, ops, claims, releases, runTree, lock, owner, closure,
                 history, children, faults>>

Refuse(p) ==
  /\ pc[p] = "admit"
  /\ DirectoriesReady(p)
  /\ Claimed(op[p].target) \/ ~Admissible(interlock.vis)
  /\ Return(p)
  /\ UNCHANGED <<boot, disk, owner, closure, history, children, faults>>

\* Mutation: the claim is linked before the HELD state is synced.
HeldRenameUnsynced(p) ==
  /\ pc[p] = "heldRename"
  /\ interlock' = Renamed(interlock, op[p].chain)
  /\ Continue(p, "claimLink")
  /\ UNCHANGED <<boot, ops, claims, releases, receipts, runTree, owner, closure, history,
                 children, faults>>

HeldRename(p) ==
  /\ pc[p] = "heldRename"
  /\ interlock' = Renamed(interlock, op[p].chain)
  /\ Continue(p, "heldSync")
  /\ UNCHANGED <<boot, ops, claims, releases, receipts, runTree, owner, closure, history,
                 children, faults>>

HeldSync(p) ==
  /\ pc[p] = "heldSync"
  /\ SyncOperations
  /\ Continue(p, "claimLink")
  /\ UNCHANGED <<boot, claims, releases, receipts, runTree, owner, closure, history,
                 children, faults>>

ClaimLink(p) ==
  /\ pc[p] = "claimLink"
  /\ claims' = Linked(claims, Claim(op[p].target, op[p].chain))
  /\ Continue(p, "claimSync")
  /\ UNCHANGED <<boot, interlock, ops, releases, receipts, runTree, owner, closure, history,
                 children, faults>>

\* The claim is synced and reopened, the interlock reread, the winner issued.
ClaimSync(p) ==
  /\ pc[p] = "claimSync"
  /\ interlock.vis = op[p].chain
  /\ claims' = Synced(claims)
  /\ owner' = [owner EXCEPT ![p] =
                 [target |-> op[p].target, chain |-> op[p].chain, phase |-> "acquired"]]
  /\ Return(p)
  /\ UNCHANGED <<boot, interlock, ops, releases, receipts, runTree, closure, history,
                 children, faults>>

\* reconcileKnownNoClaimLocked, reached only by the fault injected between the
\* HELD state and the claim link.
ReconcileNoClaim(p) ==
  /\ LinkFaults
  /\ pc[p] = "claimLink"
  /\ interlock.vis = op[p].chain
  /\ pc' = [pc EXCEPT ![p] = "clearRename"]
  /\ op' = [op EXCEPT ![p].cause = "KNOWN_NO_CLAIM",
                      ![p].chain = Append(@, Clear(Current(@).boot))]
  /\ UNCHANGED <<boot, disk, lock, owner, closure, history, children, faults>>

(***************************************************************************)
(* The owner of a winning claim: consume the authority, start the subject, *)
(* close it, publish its finalized run.                                    *)
(***************************************************************************)
\* consumeStartClaimWinner: the exact HELD generation must still be current.
Consume(p) ==
  LET t == owner[p].target IN
  /\ pc[p] = "idle"
  /\ owner[p].phase = "acquired"
  /\ lock = NoProc
  /\ Claim(t, owner[p].chain) \in claims.vis
  /\ interlock.vis = owner[p].chain
  /\ owner' = [owner EXCEPT ![p].phase = "consumed"]
  /\ starts' = [starts EXCEPT ![t] = @ + 1]
  /\ UNCHANGED <<boot, disk, lock, pc, op, closure, released, forsaken, children,
                 faults>>

\* prepared.Start: a child, or a start error that closes without one.
StartSubject(p) ==
  /\ owner[p].phase = "consumed"
  /\ owner' = [owner EXCEPT ![p].phase = "started"]
  /\ live' = live \cup {owner[p].target}
  /\ UNCHANGED <<boot, disk, lock, pc, op, closure, history, orphaned, faults>>

StartError(p) ==
  /\ owner[p].phase = "consumed"
  /\ owner' = [owner EXCEPT ![p].phase = "closed"]
  /\ UNCHANGED <<boot, disk, lock, pc, op, closure, history, children, faults>>

\* running.Close: the process group is proven gone, or the run carries an
\* orphan-risk control.
CloseSubject(p) ==
  /\ owner[p].phase = "started"
  /\ owner' = [owner EXCEPT ![p].phase = "closed"]
  /\ \/ /\ live' = live \ {owner[p].target}
        /\ UNCHANGED orphaned
     \/ /\ orphaned' = orphaned \cup {owner[p].target}
        /\ UNCHANGED live
  /\ UNCHANGED <<boot, disk, lock, pc, op, closure, history, faults>>

\* Mutations: the run relation is written without its parent; a run is
\* published by an owner that never consumed its start authority.
PersistUnstartedRun(p) ==
  LET t == owner[p].target IN
  /\ pc[p] = "idle"
  /\ owner[p].phase # "none"
  /\ closure[p] = NoTarget
  /\ Claim(t, owner[p].chain) \in claims.vis
  /\ Begin(p, IF t \in runs.vis THEN "runSync" ELSE "runLink",
           [NoOp EXCEPT !.target = t])
  /\ UNCHANGED <<boot, disk, owner, closure, history, children, faults>>

PersistOrphanRun(p) ==
  /\ pc[p] = "idle"
  /\ owner[p].phase = "closed"
  /\ closure[p] = NoTarget
  /\ Claim(owner[p].target, owner[p].chain) \in claims.vis
  /\ Begin(p, "runLink", NoOp)
  /\ UNCHANGED <<boot, disk, owner, closure, history, children, faults>>

\* persistFinalizedRunRecord: a target has at most one run.
PersistRun(p) ==
  LET t == owner[p].target IN
  /\ pc[p] = "idle"
  /\ owner[p].phase = "closed"
  /\ closure[p] = NoTarget
  /\ Claim(t, owner[p].chain) \in claims.vis
  /\ Begin(p, IF t \in runs.vis THEN "runSync" ELSE "runLink",
           [NoOp EXCEPT !.target = t])
  /\ UNCHANGED <<boot, disk, owner, closure, history, children, faults>>

\* The object and its witness are synced, existing or not, before the relation is
\* linked; what happened to their directories is in homes.
RunLink(p) ==
  /\ pc[p] = "runLink"
  /\ HomesReady(p)
  /\ runs' = Linked(runs, op[p].target)
  /\ Continue(p, "runSync")
  /\ UNCHANGED <<boot, interlock, ops, claims, releases, receipts, homes, owner, closure,
                 history, children, faults>>

\* The relation is synced and reopened: p now holds the terminal closure.
RunSync(p) ==
  /\ pc[p] = "runSync"
  /\ runs' = Synced(runs)
  /\ closure' = [closure EXCEPT ![p] = op[p].target]
  /\ Return(p)
  /\ UNCHANGED <<boot, interlock, ops, claims, releases, receipts, homes, owner, history,
                 children, faults>>

\* A resume that comes before any run was ever published makes the directory of
\* the relations all the same, and is then refused.
ResumeEarly(p, t) ==
  /\ pc[p] = "idle"
  /\ owner[p] = NoOwner
  /\ closure[p] = NoTarget
  /\ TargetBoot[t] = boot
  /\ Relations \notin homes.vis
  /\ Begin(p, "openRun", [NoOp EXCEPT !.target = t])
  /\ UNCHANGED <<boot, disk, owner, closure, history, children, faults>>

ResumeAbsent(p) ==
  /\ pc[p] = "openRun"
  /\ HomesReady(p)
  /\ Return(p)
  /\ UNCHANGED <<boot, disk, owner, closure, history, children, faults>>

\* A resume in the boot of the target reopens its run and its claim, each synced
\* by the reopening, and then looks for an exact release.
Resume(p, t) ==
  /\ pc[p] = "idle"
  /\ owner[p] = NoOwner
  /\ closure[p] = NoTarget
  /\ TargetBoot[t] = boot
  /\ t \in runs.vis
  /\ Claimed(t)
  /\ runs' = Synced(runs)
  /\ claims' = Synced(claims)
  /\ Begin(p, "reopen", [NoOp EXCEPT !.target = t])
  /\ UNCHANGED <<boot, interlock, ops, releases, receipts, homes, owner, closure, history,
                 children, faults>>

\* OpenFinalizedRunRecord: the release is found exact, and synced once more.
ResumeReleased(p) ==
  /\ pc[p] = "reopen"
  /\ DirectoriesReady(p)
  /\ ReleaseExact(op[p].target)
  /\ releases' = Synced(releases)
  /\ receipts' = Synced(receipts)
  /\ released' = released \cup {op[p].target}
  /\ Return(p)
  /\ UNCHANGED <<boot, interlock, ops, claims, runTree, owner, closure, starts, forsaken,
                 children, faults>>

\* OpenTerminalClosure: without one, p takes the closure in order to release it.
OpenClosure(p) ==
  /\ pc[p] = "reopen"
  /\ DirectoriesReady(p)
  /\ ~ReleaseExact(op[p].target)
  /\ closure' = [closure EXCEPT ![p] = op[p].target]
  /\ Return(p)
  /\ UNCHANGED <<boot, disk, owner, history, children, faults>>

(***************************************************************************)
(* releaseInterlockAfterFinalizedRun, resetInterlockAfterBootChange and    *)
(* what they share with the reconciliation: replace HELD by its one CLEAR  *)
(* successor, then make that successor's receipt durable.                  *)
(***************************************************************************)
ReleaseHeld(p) ==
  /\ pc[p] = "idle"
  /\ closure[p] # NoTarget
  /\ Claim(closure[p], interlock.vis) \in claims.vis
  /\ Begin(p, "clearRename",
           [NoOp EXCEPT !.target = closure[p], !.cause = "FINALIZED_RUN",
              !.chain = Append(interlock.vis, Clear(Current(interlock.vis).boot))])
  /\ UNCHANGED <<boot, disk, owner, closure, history, children, faults>>

\* Mutation: the CLEAR state is recognised only once it has its receipt.
ReleaseProvenClear(p) ==
  /\ pc[p] = "idle"
  /\ closure[p] # NoTarget
  /\ \E c \in claims.vis :
       /\ c.target = closure[p]
       /\ interlock.vis = Append(c.chain, Clear(Current(c.chain).boot))
  /\ ReceiptExact(interlock.vis)
  /\ Begin(p, "releaseLink",
           [NoOp EXCEPT !.target = closure[p], !.chain = interlock.vis,
              !.cause = "FINALIZED_RUN"])
  /\ UNCHANGED <<boot, disk, owner, closure, history, children, faults>>

\* finalizedRunClearPredecessor: the interlock already shows the CLEAR that
\* succeeds this claim's HELD state; only the link and the receipt are redone.
ReleaseAlreadyClear(p) ==
  /\ pc[p] = "idle"
  /\ closure[p] # NoTarget
  /\ \E c \in claims.vis :
       /\ c.target = closure[p]
       /\ interlock.vis = Append(c.chain, Clear(Current(c.chain).boot))
  /\ Begin(p, "releaseLink",
           [NoOp EXCEPT !.target = closure[p], !.chain = interlock.vis,
              !.cause = "FINALIZED_RUN"])
  /\ UNCHANGED <<boot, disk, owner, closure, history, children, faults>>

\* The interlock shows neither state: the release is refused and the runner
\* returns the error, dropping what it held in memory.
ReleaseRefused(p) ==
  /\ pc[p] = "idle"
  /\ closure[p] # NoTarget
  /\ lock = NoProc
  /\ \A c \in claims.vis :
       c.target = closure[p] =>
         interlock.vis \notin {c.chain, Append(c.chain, Clear(Current(c.chain).boot))}
  /\ closure' = [closure EXCEPT ![p] = NoTarget]
  /\ owner' = [owner EXCEPT ![p] = NoOwner]
  /\ UNCHANGED <<boot, disk, lock, pc, op, history, children, faults>>

\* Mutation: a reset within the boot session of the holder.
ResetSameBoot(p) ==
  /\ Resets
  /\ pc[p] = "idle"
  /\ IsHeld(interlock.vis)
  /\ Begin(p, "clearRename",
           [NoOp EXCEPT !.target = Current(interlock.vis).target, !.cause = "CHANGED_BOOT",
              !.chain = Append(interlock.vis, Clear(boot))])
  /\ UNCHANGED <<boot, disk, owner, closure, history, children, faults>>

\* resetInterlockAfterBootChange: same-boot reset is always refused.
Reset(p) ==
  /\ Resets
  /\ pc[p] = "idle"
  /\ IsHeld(interlock.vis)
  /\ Current(interlock.vis).boot # boot
  /\ Begin(p, "clearRename",
           [NoOp EXCEPT !.target = Current(interlock.vis).target, !.cause = "CHANGED_BOOT",
              !.chain = Append(interlock.vis, Clear(boot))])
  /\ UNCHANGED <<boot, disk, owner, closure, history, children, faults>>

ClearRename(p) ==
  /\ pc[p] = "clearRename"
  /\ interlock' = Renamed(interlock, op[p].chain)
  /\ Continue(p, "clearSync")
  /\ UNCHANGED <<boot, ops, claims, releases, receipts, runTree, owner, closure, history,
                 children, faults>>

ClearSync(p) ==
  /\ pc[p] = "clearSync"
  /\ SyncOperations
  /\ Continue(p, IF op[p].cause = "FINALIZED_RUN" THEN "releaseLink" ELSE "receiptLink")
  /\ UNCHANGED <<boot, claims, releases, receipts, runTree, owner, closure, history,
                 children, faults>>

\* persistFinalizedRunReleaseLocked: one link per run, alternate bytes refused.
ReleaseLink(p) ==
  LET link == Release(op[p].target, Replaced(op[p].chain), op[p].chain) IN
  /\ pc[p] = "releaseLink"
  /\ DirectoriesReady(p)
  /\ \A r \in releases.vis : r.run = op[p].target => r = link
  /\ releases' = Linked(releases, link)
  /\ Continue(p, "releaseSync")
  /\ UNCHANGED <<boot, interlock, ops, claims, receipts, runTree, owner, closure, history,
                 children, faults>>

ReleaseSync(p) ==
  /\ pc[p] = "releaseSync"
  /\ releases' = Synced(releases)
  /\ Continue(p, "receiptLink")
  /\ UNCHANGED <<boot, interlock, ops, claims, receipts, runTree, owner, closure, history,
                 children, faults>>

\* persistClearReceiptLocked: one receipt per CLEAR state.
ReceiptLink(p) ==
  LET run == IF op[p].cause = "FINALIZED_RUN" THEN op[p].target ELSE NoTarget
      receipt == Receipt(op[p].chain, op[p].cause, run) IN
  /\ pc[p] = "receiptLink"
  /\ DirectoriesReady(p)
  /\ \A r \in receipts.vis : r.clear = op[p].chain => r = receipt
  /\ receipts' = Linked(receipts, receipt)
  /\ Continue(p, "receiptSync")
  /\ UNCHANGED <<boot, interlock, ops, claims, releases, runTree, owner, closure, history,
                 children, faults>>

ReceiptSync(p) ==
  /\ pc[p] = "receiptSync"
  /\ receipts' = Synced(receipts)
  /\ lock' = NoProc
  /\ op' = [op EXCEPT ![p] = NoOp]
  /\ pc' = [pc EXCEPT ![p] =
              IF op[p].cause = "FINALIZED_RUN" THEN "validate" ELSE "idle"]
  /\ UNCHANGED <<boot, interlock, ops, claims, releases, runTree, owner, closure, history,
                 children, faults>>

\* validateFinalizedRunRelease, the last call of TerminalClosure.Release: the
\* caller is told that the release is complete.
ReportReleased(p) ==
  /\ pc[p] = "validate"
  /\ lock = NoProc
  /\ ReleaseExact(closure[p])
  /\ releases' = Synced(releases)
  /\ receipts' = Synced(receipts)
  /\ released' = released \cup {closure[p]}
  /\ closure' = [closure EXCEPT ![p] = NoTarget]
  /\ owner' = [owner EXCEPT ![p] = NoOwner]
  /\ pc' = [pc EXCEPT ![p] = "idle"]
  /\ UNCHANGED <<boot, interlock, ops, claims, runTree, lock, op, starts, forsaken,
                 children, faults>>

(***************************************************************************)
(* Failure.                                                                *)
(***************************************************************************)
\* What p made and did not sync nobody will sync for it.
Forsake(p) == forsaken' = forsaken \cup (SyncedUnder(op[p].made) \ homes.dur)

\* A write or sync of the operation fails: it returns an error, p lives on.
OperationFails(p) ==
  /\ pc[p] # "idle"
  /\ faults < MaxFaults
  /\ faults' = faults + 1
  /\ lock' = IF lock = p THEN NoProc ELSE lock
  /\ pc' = [pc EXCEPT ![p] = "idle"]
  /\ op' = [op EXCEPT ![p] = NoOp]
  /\ Forsake(p)
  /\ UNCHANGED <<boot, disk, owner, closure, starts, released, children>>

\* p is killed, or the runner gives up and returns an error: what p held in
\* memory is gone, what it wrote and the child it started are not.
Abandon(p) ==
  /\ pc[p] # "idle" \/ owner[p] # NoOwner \/ closure[p] # NoTarget
  /\ faults < MaxFaults
  /\ faults' = faults + 1
  /\ lock' = IF lock = p THEN NoProc ELSE lock
  /\ pc' = [pc EXCEPT ![p] = "idle"]
  /\ op' = [op EXCEPT ![p] = NoOp]
  /\ owner' = [owner EXCEPT ![p] = NoOwner]
  /\ closure' = [closure EXCEPT ![p] = NoTarget]
  /\ Forsake(p)
  /\ UNCHANGED <<boot, disk, starts, released, children>>

\* A subdirectory that vanishes takes its files with it.
Surviving(name, dir) ==
  IF name \in ops'.vis THEN AfterPowerLoss(dir) ELSE {EmptyDirectory}

\* So does each home of a run: without its object, its witness or its relation a
\* run cannot be opened.
RunsIn(left) ==
  [vis |-> {t \in runs.vis : HomesOf(t) \subseteq left},
   dur |-> {t \in runs.dur : HomesOf(t) \subseteq left}]

\* The machine loses power and boots again: every process and child is gone,
\* and so may be every directory entry and rename that was not synced.
PowerLoss ==
  /\ boot < LastBoot
  /\ boot' = boot + 1
  /\ interlock' \in FileAfterPowerLoss(interlock)
  /\ ops' \in AfterPowerLoss(ops)
  /\ claims' \in Surviving("claims", claims)
  /\ releases' \in Surviving("releases", releases)
  /\ receipts' \in Surviving("receipts", receipts)
  /\ homes' \in AfterPowerLoss(homes)
  /\ runs' \in AfterPowerLoss(RunsIn(homes'.vis))
  /\ lock' = NoProc
  /\ pc' = [p \in Procs |-> "idle"]
  /\ op' = [p \in Procs |-> NoOp]
  /\ owner' = [p \in Procs |-> NoOwner]
  /\ closure' = [p \in Procs |-> NoTarget]
  /\ live' = {}
  /\ UNCHANGED <<history, orphaned, faults>>

(***************************************************************************)
(* Specification.                                                          *)
(***************************************************************************)
AcquireSteps(p) ==
  \/ Admit(p) \/ Refuse(p)
  \/ HeldRename(p) \/ HeldSync(p) \/ ClaimLink(p) \/ ClaimSync(p)

OwnerSteps(p) ==
  \/ Consume(p) \/ StartSubject(p) \/ StartError(p) \/ CloseSubject(p)
  \/ PersistRun(p) \/ RunLink(p) \/ RunSync(p)

ReleaseSteps(p) ==
  \/ ResumeAbsent(p) \/ ResumeReleased(p) \/ OpenClosure(p)
  \/ ReleaseHeld(p) \/ ReleaseAlreadyClear(p) \/ ReleaseRefused(p)
  \/ ClearRename(p) \/ ClearSync(p)
  \/ ReleaseLink(p) \/ ReleaseSync(p) \/ ReceiptLink(p) \/ ReceiptSync(p)
  \/ ReportReleased(p)

DirectorySteps(p) ==
  MakeDirectory(p) \/ SyncMadeDirectory(p) \/ MakeHome(p) \/ SyncHome(p)

\* What a process does next once it has begun: every call it makes is carried on.
ProcessStep(p) == DirectorySteps(p) \/ AcquireSteps(p) \/ OwnerSteps(p) \/ ReleaseSteps(p)

\* What somebody outside asks for.
Requests(p) ==
  \/ \E t \in Targets : Acquire(p, t) \/ Resume(p, t) \/ ResumeEarly(p, t)
  \/ ReconcileNoClaim(p) \/ Reset(p)

Next ==
  \/ \E p \in Procs : ProcessStep(p) \/ Requests(p) \/ OperationFails(p) \/ Abandon(p)
  \/ PowerLoss

Spec == Init /\ [][Next]_vars

\* A call that began goes on until it returns, and some process resumes every
\* finalized run again and again.  The store-wide lock is polled without a queue,
\* so a waiter may lose it to others; strong fairness says it does not lose it
\* for ever to calls that only come to be refused.
FairSpec ==
  /\ Spec
  /\ \A p \in Procs :
       /\ WF_vars(DirectorySteps(p) \/ AcquireSteps(p))
       /\ SF_vars(OwnerSteps(p) \/ ReleaseSteps(p))
  /\ \A t \in Targets : SF_vars(\E p \in Procs : Resume(p, t))

(***************************************************************************)
(* Properties.                                                             *)
(***************************************************************************)
ClaimType == [target : Targets, chain : Chains \ {<<>>}]
ReleaseType == [run : Targets, claim : [target : Targets, chain : Chains], clear : Chains]
ReceiptType == [clear : Chains, cause : Causes, run : Targets \cup {NoTarget}]
DirectoryOf(S) == [vis : SUBSET S, dur : SUBSET S]
OpType == [target : Targets \cup {NoTarget}, chain : Chains,
           cause : Causes \cup {"none"},
           made : {"none", "operations", "publications", "digests", "links"}]
OwnerType == [target : Targets \cup {NoTarget}, chain : Chains,
              phase : {"none", "acquired", "consumed", "started", "closed"}]

\* Every variable keeps its shape.
TypeOK ==
  /\ boot \in Boots
  /\ interlock \in [vis : Chains, may : SUBSET Chains]
  /\ ops \in DirectoryOf({"claims", "releases", "receipts"})
  /\ claims \in DirectoryOf(ClaimType)
  /\ releases \in DirectoryOf(ReleaseType)
  /\ receipts \in DirectoryOf(ReceiptType)
  /\ runs \in DirectoryOf(Targets)
  /\ homes \in DirectoryOf(Homes)
  /\ lock \in Procs \cup {NoProc}
  /\ pc \in [Procs -> Steps \cup Unlocked]
  /\ op \in [Procs -> OpType]
  /\ owner \in [Procs -> OwnerType]
  /\ closure \in [Procs -> Targets \cup {NoTarget}]
  /\ starts \in [Targets -> Nat]
  /\ live \subseteq Targets /\ orphaned \subseteq Targets /\ released \subseteq Targets
  /\ forsaken \subseteq Homes
  /\ faults \in Nat

\* Only a finalized run or a new boot may overlap: while the subject of one
\* target may be running and its run carries no orphan-risk control, the
\* interlock shows exactly that target's HELD state, so no other target can be
\* admitted (acquireInterlockAndStartClaim, consumeStartClaimWinner).
HeldWhileLive ==
  \A t \in live \ orphaned :
    /\ IsHeld(interlock.vis)
    /\ Current(interlock.vis).target = t

\* The start of a target is authorised at most once, whatever is killed, fails,
\* loses power or is retried in between (start claims and one-shot winners).
AtMostOneStart == \A t \in Targets : starts[t] <= 1

\* Start authority in memory rests on files a power loss cannot take: its claim
\* and the HELD state it names were synced before the winner was issued.
WinnerIsDurable ==
  \A p \in Procs : owner[p].phase \in {"acquired", "consumed", "started"} =>
    /\ "claims" \in ops.dur
    /\ Claim(owner[p].target, owner[p].chain) \in claims.dur
    /\ interlock.may = {owner[p].chain}

\* A visible claim lies on the interlock's own history, even on the history a
\* power loss would bring back: a claim is never linked under a HELD state that
\* can still vanish, and no two claims name the same target.
IsPrefixOf(short, long) == Len(short) <= Len(long) /\ SubSeq(long, 1, Len(short)) = short

ClaimsOnHistory ==
  /\ \A c, d \in claims.vis : c.target = d.target => c = d
  /\ \A c \in claims.vis : \A chain \in interlock.may : IsPrefixOf(c.chain, chain)

\* A run is settled when its files are durable and so is every directory they are
\* in, except one whose maker failed or was killed before it synced the parent:
\* no later call syncs it either.
RunIsSettled(t) ==
  /\ t \in runs.dur
  /\ HomesOf(t) \subseteq homes.dur \cup forsaken

\* A FINALIZED_RUN receipt, the file that reopens admission, is only ever there
\* after its run and its claim are settled and, in the boot it was written in,
\* after its release link was synced into its directory
\* (releaseInterlockAfterFinalizedRun persists the link before the receipt; a
\* power loss may take the whole link directory).  Over a power loss the claim
\* stays, and the run goes only with a directory its maker left unsynced.
ReceiptProvesRun ==
  \A r \in receipts.vis : r.cause = "FINALIZED_RUN" =>
    /\ \/ RunIsSettled(r.run)
       \/ Current(r.clear).boot # boot /\ HomesOf(r.run) \cap forsaken # {}
    /\ Claim(r.run, Replaced(r.clear)) \in claims.dur
    /\ Current(r.clear).boot = boot =>
         Release(r.run, Replaced(r.clear), r.clear) \in releases.dur

\* Whoever may start a subject was admitted by a receipt that is still there
\* after any power loss: the CLEAR state its HELD state replaced has one, synced
\* into a directory that is itself synced (clearReceiptExactLocked converges the
\* receipt it read; the HELD replacement then syncs the parent directory).
AdmittedByReceipt ==
  \A p \in Procs :
    LET clear == Replaced(owner[p].chain) IN
    owner[p].phase # "none" /\ clear # <<>> =>
      /\ "receipts" \in ops.dur
      /\ \E r \in receipts.dur : r.clear = clear

\* A step of the program (anything but a power loss) takes the interlock away
\* from a target only if its run is settled, its claim never existed, or the boot
\* session it was held in is over; and it goes to CLEAR, never to another target
\* (no same-boot reset, no takeover).
HandsOver ==
  LET t == Current(interlock.vis).target IN
  IsHeld(interlock.vis) /\ interlock'.vis # interlock.vis /\ boot' = boot =>
    /\ IsClear(interlock'.vis)
    /\ RunIsSettled(t) \/ ~Claimed(t) \/ Current(interlock.vis).boot # boot

NoTakeover == [][HandsOver]_vars

\* The interlock file, the claims and the runs together are the one slot of
\* StartAdmission: every write, failure and power loss is one of its steps.
Admission == INSTANCE StartAdmission WITH
  Nobody <- NoTarget,
  holder <- IF IsHeld(interlock.vis) THEN Current(interlock.vis).target ELSE NoTarget,
  stale <- IsHeld(interlock.vis) /\ Current(interlock.vis).boot # boot,
  spent <- {t \in Targets : starts[t] > 0},
  finished <- runs.vis

ImplementsAdmission == Admission!Spec

\* Within one boot a durable finalized run is eventually reported released: an
\* interrupted release is always finished by a resume.
FinalizedIsReleased ==
  \A t \in Targets : (t \in runs.dur /\ TargetBoot[t] = boot)
                       ~> (t \in released \/ TargetBoot[t] # boot)

\* No power loss brings the target's HELD state back.
ClearIsDurable(t) ==
  \A chain \in interlock.may : ~(IsHeld(chain) /\ Current(chain).target = t)

\* No power loss takes the receipt of the target's run away.
ReceiptIsDurable(t) ==
  "receipts" \in ops.dur /\ \E r \in receipts.dur : r.cause = "FINALIZED_RUN" /\ r.run = t

\* What the comment on TerminalClosure.Release promises, "Release converges both
\* CLEAR state and its deterministic FINALIZED_RUN receipt", asked only of one of
\* the two: a counterexample is a reported release of which neither is durable.
ReleaseConverges ==
  \A t \in released : ClearIsDurable(t) \/ ReceiptIsDurable(t)
=============================================================================
