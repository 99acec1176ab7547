---------------------- MODULE ExecutionInterlockProofs ----------------------
(***************************************************************************)
(* Proofs about ExecutionInterlock, for every number of processes, targets *)
(* and boots, every chain length and every number of faults.               *)
(***************************************************************************)
EXTENDS ExecutionInterlock, TLAPS, SequenceTheorems

Clearing == {"clearRename", "clearSync", "releaseLink", "releaseSync", "receiptLink",
             "receiptSync"}

\* What an operation carries from one of its writes to the next.
OperationsNamed ==
  \A p \in Procs :
    /\ pc[p] \in Steps => op[p].target \in Targets
    /\ pc[p] \in Steps \ {"admit", "runLink", "runSync", "openRun", "reopen"} =>
         op[p].chain # <<>>
    /\ pc[p] \in Clearing => op[p].cause \in Causes
    /\ pc[p] \in Clearing /\ op[p].cause = "FINALIZED_RUN" => closure[p] \in Targets
    /\ pc[p] = "validate" => closure[p] \in Targets

OwnersNamed == \A p \in Procs : owner[p].phase # "none" => owner[p].target \in Targets

TypeInv == TypeOK /\ OperationsNamed /\ OwnersNamed

(***************************************************************************)
(* The strengthening that makes AtMostOneStart and HeldWhileLive inductive.*)
(***************************************************************************)
HasClaim(t) == "claims" \in ops.dur /\ \E c \in claims.dur : c.target = t

HeldNow(t) ==
  /\ IsHeld(interlock.vis)
  /\ Current(interlock.vis).target = t
  /\ Current(interlock.vis).boot = boot

Active == {"acquired", "consumed", "started"}

\* Writes happen under the store-wide lock.
LockHeld == \A p \in Procs : pc[p] \in Steps => lock = p

\* What is durable is visible; a claim names the HELD state of its own target.
ClaimFiles ==
  /\ claims.dur \subseteq claims.vis
  /\ ops.dur \subseteq ops.vis
  /\ \A c \in claims.vis : IsHeld(c.chain) /\ Current(c.chain).target = c.target

\* A spent start has a claim no power loss takes; a run or a child has a start.
SpentIsClaimed ==
  /\ \A t \in Targets : starts[t] > 0 => HasClaim(t)
  /\ \A t \in runs.vis \cup live : starts[t] > 0

\* An acquisition under way is the only one for its target, and holds the slot
\* from its rename on.
AcquiringFresh ==
  \A p \in Procs :
    /\ pc[p] \in {"heldRename", "heldSync"} => "claims" \in ops.vis
    /\ pc[p] \in {"claimLink", "claimSync"} => "claims" \in ops.dur
    /\ pc[p] \in {"heldRename", "heldSync", "claimLink"} => ~Claimed(op[p].target)
    /\ pc[p] = "heldRename" =>
         /\ ~IsHeld(interlock.vis)
         /\ op[p].chain = Append(interlock.vis, Held(op[p].target, boot))
    /\ pc[p] \in {"heldSync", "claimLink", "claimSync"} =>
         interlock.vis = op[p].chain /\ HeldNow(op[p].target)
    /\ pc[p] = "claimSync" =>
         /\ Claim(op[p].target, op[p].chain) \in claims.vis
         /\ starts[op[p].target] = 0
         /\ \A q \in Procs : owner[q].phase # "none" => owner[q].target # op[p].target

\* Start authority rests on its claim, and is spent exactly by consuming it.
OwnersClaimed ==
  \A p \in Procs :
    /\ owner[p].phase # "none" => HasClaim(owner[p].target)
    /\ owner[p].phase = "acquired" <=>
         owner[p].phase # "none" /\ starts[owner[p].target] = 0

\* A target has one owner; while it may start or run, the slot is its own.
OwnersExclusive ==
  /\ \A p, q \in Procs :
       owner[p].phase # "none" /\ owner[q].phase # "none"
         /\ owner[p].target = owner[q].target => p = q
  /\ \A p \in Procs :
       /\ owner[p].phase \in Active =>
            interlock.vis = owner[p].chain /\ HeldNow(owner[p].target)
              /\ owner[p].target \notin runs.vis
       /\ owner[p].phase = "consumed" => owner[p].target \notin live
       /\ owner[p].phase = "closed" => owner[p].target \notin live \ orphaned

\* A child that was not given up as an orphan runs in the slot.
LiveHolds == \A t \in live \ orphaned : HeldNow(t) /\ t \notin runs.vis

\* A run is published by its owner after the close; a closure has its run.
ClosuresRun ==
  \A p \in Procs :
    /\ pc[p] = "runLink" =>
         owner[p].phase = "closed" /\ op[p].target = owner[p].target
    /\ pc[p] \in {"runSync", "reopen"} => op[p].target \in runs.vis
    /\ closure[p] # NoTarget => closure[p] \in runs.vis

\* Whoever is about to clear the slot found nobody in it.
ClearedIsFree ==
  \A p \in Procs : pc[p] = "clearRename" =>
    /\ live \subseteq orphaned
    /\ \A q \in Procs : owner[q].phase \notin Active

SlotInv ==
  /\ LockHeld
  /\ ClaimFiles
  /\ SpentIsClaimed
  /\ AcquiringFresh
  /\ OwnersClaimed
  /\ OwnersExclusive
  /\ LiveHolds
  /\ ClosuresRun
  /\ ClearedIsFree
  /\ AtMostOneStart

(***************************************************************************)
(* Chains and directories.                                                 *)
(***************************************************************************)
LEMMA HeldEntry == ASSUME NEW t \in Targets, NEW b \in Boots PROVE Held(t, b) \in Entries
  BY DEF Held, Entries

LEMMA ClearEntry == ASSUME NEW b \in Boots PROVE Clear(b) \in Entries
  BY DEF Clear, Entries

LEMMA AppendedChain ==
  ASSUME NEW chain \in Chains, NEW e \in Entries
  PROVE  Append(chain, e) \in Chains \ {<<>>}
  BY AppendProperties DEF Chains

LEMMA CurrentEntry ==
  ASSUME NEW chain \in Chains, chain # <<>>
  PROVE  Current(chain) \in Entries
  BY DEF Chains, Current

LEMMA ReplacedChain ==
  ASSUME NEW chain \in Chains, chain # <<>>
  PROVE  Replaced(chain) \in Chains
  BY DEF Chains, Replaced

LEMMA EntryBoot == ASSUME NEW e \in Entries PROVE e.boot \in Boots
  BY DEF Entries

LEMMA HeldTarget ==
  ASSUME NEW chain \in Chains, IsHeld(chain)
  PROVE  /\ chain # <<>>
         /\ Current(chain).target \in Targets
         /\ Current(chain).boot \in Boots
<1>1. chain # <<>> /\ Current(chain).st = "HELD"
  BY DEF IsHeld
<1>2. Current(chain) \in Entries
  BY <1>1, CurrentEntry
<1> QED
  BY <1>1, <1>2 DEF Entries

LEMMA HeldAppended ==
  ASSUME NEW chain \in Chains, NEW t \in Targets, NEW b \in Boots
  PROVE  LET held == Append(chain, Held(t, b)) IN
           /\ held \in Chains /\ held # <<>>
           /\ IsHeld(held)
           /\ Current(held).target = t
           /\ Current(held).boot = b
  BY HeldEntry, AppendProperties DEF Chains, IsHeld, Current, Held

LEMMA ClearAppended ==
  ASSUME NEW chain \in Chains, NEW b \in Boots
  PROVE  ~IsHeld(Append(chain, Clear(b)))
  BY ClearEntry, AppendProperties DEF Chains, IsHeld, Current, Clear

LEMMA CurrentAppended ==
  ASSUME NEW chain \in Chains, NEW e \in Entries
  PROVE  Current(Append(chain, e)) = e
  BY AppendProperties DEF Chains, Current

LEMMA ReplacedAppended ==
  ASSUME NEW chain \in Chains, NEW e \in Entries
  PROVE  Replaced(Append(chain, e)) = chain
<1>1. Append(chain, e) \in Seq(Entries) /\ Len(Append(chain, e)) = Len(chain) + 1
  BY AppendProperties DEF Chains
<1>2. Len(chain) \in Nat /\ chain \in Seq(Entries)
  BY LenProperties DEF Chains
<1>3. Replaced(Append(chain, e)) = SubSeq(Append(chain, e), 1, Len(chain))
  BY <1>1, <1>2 DEF Replaced
<1>4. SubSeq(Append(chain, e), 1, Len(chain)) = chain
  BY ONLY <1>2, e \in Entries
<1> QED
  BY <1>3, <1>4

LEMMA PrefixSelf == ASSUME NEW chain \in Chains PROVE IsPrefixOf(chain, chain)
<1>1. chain \in Seq(Entries) /\ Len(chain) \in Nat
  BY LenProperties DEF Chains
<1>2. SubSeq(chain, 1, Len(chain)) = chain
  BY ONLY <1>1
<1> QED
  BY <1>1, <1>2 DEF IsPrefixOf

LEMMA PrefixAppended ==
  ASSUME NEW short \in Chains, NEW long \in Chains, NEW e \in Entries,
         IsPrefixOf(short, long)
  PROVE  IsPrefixOf(short, Append(long, e))
<1>1. /\ long \in Seq(Entries) /\ short \in Seq(Entries)
      /\ Len(short) \in Nat /\ Len(long) \in Nat /\ Len(short) <= Len(long)
      /\ SubSeq(long, 1, Len(short)) = short
  BY LenProperties DEF Chains, IsPrefixOf
<1>2. Len(Append(long, e)) = Len(long) + 1
  BY <1>1
<1>3. SubSeq(Append(long, e), 1, Len(short)) = SubSeq(long, 1, Len(short))
  BY ONLY <1>1, e \in Entries
<1> QED
  BY <1>1, <1>2, <1>3 DEF IsPrefixOf

LEMMA DirectoryTypes ==
  ASSUME NEW S, NEW dir \in DirectoryOf(S)
  PROVE  /\ Synced(dir) \in DirectoryOf(S)
         /\ \A e \in S : Linked(dir, e) \in DirectoryOf(S)
         /\ AfterPowerLoss(dir) \subseteq DirectoryOf(S)
         /\ EmptyDirectory \in DirectoryOf(S)
  BY DEF DirectoryOf, Synced, Linked, AfterPowerLoss, EmptyDirectory

LEMMA SurvivingEntries ==
  ASSUME NEW dir, NEW left \in AfterPowerLoss(dir)
  PROVE  left.vis = left.dur /\ left.vis \subseteq dir.vis /\ dir.dur \subseteq left.vis
<1>1. PICK kept \in SUBSET dir.vis : dir.dur \subseteq kept /\ left = [vis |-> kept, dur |-> kept]
  BY DEF AfterPowerLoss
<1> QED
  BY <1>1

(***************************************************************************)
(* The directories of a run.                                               *)
(***************************************************************************)
LEMMA HomesNamed ==
  /\ \A home \in Homes : Parent(home) \in {"publications", "digests", "links"}
  /\ \A t \in Targets : HomesOf(t) \subseteq Homes
  BY DEF Homes, HomesOf, Publications, Shard, Relations, Parent

LEMMA NextHomeNamed ==
  ASSUME NEW p \in Procs, op[p].target \in Targets
  PROVE  NextHome(p) \in Homes /\ Parent(NextHome(p)) \in {"publications", "digests",
  "links"}
<1>1. NextHome(p) \in HomesOf(op[p].target)
  BY DEF NextHome, HomesOf
<1> QED
  BY <1>1, HomesNamed

\* What a power loss leaves of the runs.
LEMMA RunsLeft ==
  ASSUME runs \in DirectoryOf(Targets), homes \in DirectoryOf(Homes), PowerLoss
  PROVE  /\ runs' \in DirectoryOf(Targets) /\ homes' \in DirectoryOf(Homes)
         /\ runs'.vis = runs'.dur /\ runs'.vis \subseteq runs.vis
         /\ homes'.vis = homes'.dur /\ homes'.vis \subseteq homes.vis
         /\ homes.dur \subseteq homes'.vis
         /\ \A t \in runs'.vis : HomesOf(t) \subseteq homes'.vis
         /\ \A t \in runs.dur : HomesOf(t) \subseteq homes'.vis => t \in runs'.dur
<1>1. homes' \in AfterPowerLoss(homes) /\ runs' \in AfterPowerLoss(RunsIn(homes'.vis))
  BY DEF PowerLoss
<1>2. RunsIn(homes'.vis) \in DirectoryOf(Targets)
  BY DEF RunsIn, DirectoryOf
<1>3. runs' \in DirectoryOf(Targets) /\ homes' \in DirectoryOf(Homes)
  BY <1>1, <1>2, DirectoryTypes
<1>4. /\ runs'.vis = runs'.dur /\ runs'.vis \subseteq RunsIn(homes'.vis).vis
      /\ RunsIn(homes'.vis).dur \subseteq runs'.vis
      /\ homes'.vis = homes'.dur /\ homes'.vis \subseteq homes.vis
      /\ homes.dur \subseteq homes'.vis
  BY <1>1, SurvivingEntries
<1> QED
  BY <1>3, <1>4 DEF RunsIn

(***************************************************************************)
(* Type correctness.                                                       *)
(***************************************************************************)
LEMMA TypeInit == Init => TypeInv
<1> SUFFICES ASSUME Init PROVE TypeInv
  OBVIOUS
<1>1. <<>> \in Chains /\ 1 \in Boots
  BY BoundAssumption DEF Chains, Boots
<1>2. TypeOK
  BY <1>1 DEF Init, TypeOK, ReplaceableFile, EmptyDirectory, DirectoryOf, NoOp, NoOwner,
              OpType, OwnerType, Unlocked, Steps
<1>3. OperationsNamed
  BY DEF Init, OperationsNamed, Steps, Clearing
<1>4. OwnersNamed
  BY DEF Init, OwnersNamed, NoOwner
<1> QED
  BY <1>2, <1>3, <1>4 DEF TypeInv

\* One lemma per action would repeat itself: each step below names the action and
\* the facts about chains and directories its assignments need.
LEMMA TypeStep == TypeInv /\ [Next]_vars => TypeInv'
<1> SUFFICES ASSUME TypeInv, [Next]_vars PROVE TypeInv'
  OBVIOUS
<1> USE DEF TypeInv, TypeOK, OperationsNamed, OwnersNamed
<1> USE DEF disk, runTree, memory, history, children
<1>1. ASSUME NEW p \in Procs, NEW t \in Targets, Acquire(p, t) PROVE TypeInv'
  BY <1>1, EmptySeq DEF Acquire, Begin, NoOp, OpType, Chains, Steps, Clearing, Unlocked
<1>2. ASSUME NEW p \in Procs, Admit(p) PROVE TypeInv'
  <2>1. /\ Append(interlock.vis, Held(op[p].target, boot)) \in Chains \ {<<>>}
        /\ Synced(receipts) \in DirectoryOf(ReceiptType)
    BY <1>2, HeldEntry, AppendedChain, DirectoryTypes DEF Admit, Steps
  <2>2. /\ op' \in [Procs -> OpType]
        /\ \A q \in Procs : q # p => op'[q] = op[q]
        /\ op'[p].target = op[p].target
        /\ op'[p].chain \in Chains \ {<<>>}
    <3>1. op' = [op EXCEPT ![p].chain = Append(interlock.vis, Held(op[p].target, boot))]
      BY <1>2 DEF Admit
    <3>2. op \in [Procs -> OpType] /\ p \in Procs
      OBVIOUS
    <3>3. Append(interlock.vis, Held(op[p].target, boot)) \in Chains \ {<<>>}
      BY <2>1
    <3> QED
      BY ONLY <3>1, <3>2, <3>3 DEF OpType
  <2>3. TypeOK'
    BY <1>2, <2>1, <2>2 DEF Admit, Steps, Unlocked
  <2>4. OperationsNamed' /\ OwnersNamed'
    BY <1>2, <2>2 DEF Admit, Steps, Clearing
  <2> QED
    BY <2>3, <2>4
<1>3. ASSUME NEW p \in Procs, Refuse(p) PROVE TypeInv'
  BY <1>3, EmptySeq DEF Refuse, Return, NoOp, OpType, Chains, Steps, Clearing, Unlocked
<1>4. ASSUME NEW p \in Procs, HeldRename(p) PROVE TypeInv'
  BY <1>4 DEF HeldRename, Continue, Renamed, OpType, Steps, Clearing, Unlocked
<1>5. ASSUME NEW p \in Procs, HeldSync(p) PROVE TypeInv'
  BY <1>5, DirectoryTypes DEF HeldSync, Continue, SyncOperations, SyncedFile, OpType,
       Steps, Clearing, Unlocked
<1>6. ASSUME NEW p \in Procs, ClaimLink(p) PROVE TypeInv'
  <2>1. Claim(op[p].target, op[p].chain) \in ClaimType
    BY <1>6 DEF ClaimLink, Claim, ClaimType, OpType, Steps
  <2>2. Linked(claims, Claim(op[p].target, op[p].chain)) \in DirectoryOf(ClaimType)
    BY <2>1, DirectoryTypes
  <2> QED
    BY <1>6, <2>2 DEF ClaimLink, Continue, Steps, Clearing, Unlocked
<1>7. ASSUME NEW p \in Procs, ClaimSync(p) PROVE TypeInv'
  <2>1. Synced(claims) \in DirectoryOf(ClaimType)
    BY DirectoryTypes
  <2>2. owner' \in [Procs -> OwnerType] /\ OwnersNamed'
    BY <1>7 DEF ClaimSync, OwnerType, OpType, Steps
  <2> QED
    BY <1>7, <2>1, <2>2, EmptySeq DEF ClaimSync, Return, NoOp, OpType, Chains, Steps,
         Clearing, Unlocked
<1>8. ASSUME NEW p \in Procs, ReconcileNoClaim(p) PROVE TypeInv'
  <2>1. Append(op[p].chain, Clear(Current(op[p].chain).boot)) \in Chains \ {<<>>}
    BY <1>8, CurrentEntry, EntryBoot, ClearEntry, AppendedChain DEF ReconcileNoClaim,
       OpType,
         Steps
  <2>2. /\ op' \in [Procs -> OpType]
        /\ \A q \in Procs : q # p => op'[q] = op[q]
        /\ op'[p].target = op[p].target
        /\ op'[p].cause = "KNOWN_NO_CLAIM"
        /\ op'[p].chain \in Chains \ {<<>>}
    <3>1. /\ op' = [op EXCEPT ![p].cause = "KNOWN_NO_CLAIM",
                             ![p].chain = Append(@, Clear(Current(@).boot))]
          /\ op \in [Procs -> OpType] /\ p \in Procs
      BY <1>8 DEF ReconcileNoClaim
    <3> QED
      BY ONLY <2>1, <3>1 DEF OpType, Causes
  <2>3. TypeOK'
    BY <1>8, <2>2 DEF ReconcileNoClaim, Steps, Unlocked
  <2>4. OperationsNamed' /\ OwnersNamed'
    BY <1>8, <2>2 DEF ReconcileNoClaim, Steps, Clearing, Causes
  <2> QED
    BY <2>3, <2>4
<1>9. ASSUME NEW p \in Procs, Consume(p) PROVE TypeInv'
  <2>1. owner[p].target \in Targets
    BY <1>9 DEF Consume
  <2>2. owner' \in [Procs -> OwnerType]
    <3>1. owner' = [owner EXCEPT ![p].phase = "consumed"] /\ owner \in [Procs -> OwnerType]
      BY <1>9 DEF Consume
    <3> QED
      BY ONLY <3>1 DEF OwnerType
  <2>4. OwnersNamed'
    BY <1>9, <2>1 DEF Consume, OwnerType
  <2>3. starts' \in [Targets -> Nat]
    BY <1>9, <2>1 DEF Consume
  <2> QED
    BY <1>9, <2>2, <2>3, <2>4 DEF Consume
<1>10. ASSUME NEW p \in Procs, StartSubject(p) PROVE TypeInv'
  BY <1>10 DEF StartSubject, OwnerType
<1>11. ASSUME NEW p \in Procs, StartError(p) PROVE TypeInv'
  BY <1>11 DEF StartError, OwnerType
<1>12. ASSUME NEW p \in Procs, CloseSubject(p) PROVE TypeInv'
  <2>1. owner' = [owner EXCEPT ![p].phase = "closed"] /\ owner[p].phase = "started"
        /\ owner \in [Procs -> OwnerType] /\ owner[p].target \in Targets
    BY <1>12 DEF CloseSubject
  <2>2. /\ owner' \in [Procs -> OwnerType]
        /\ \A q \in Procs : owner'[q].target = owner[q].target
        /\ \A q \in Procs : q # p => owner'[q].phase = owner[q].phase
    BY ONLY <2>1, p \in Procs DEF OwnerType
  <2>3. live' \subseteq Targets /\ orphaned' \subseteq Targets
    BY <1>12, <2>1 DEF CloseSubject
  <2>4. UNCHANGED <<boot, disk, lock, pc, op, closure, history, faults>>
    BY <1>12 DEF CloseSubject
  <2>5. TypeOK'
    BY <2>2, <2>3, <2>4
  <2>6. OperationsNamed' /\ OwnersNamed'
    BY <2>1, <2>2, <2>4
  <2> QED
    BY <2>5, <2>6
<1>13. ASSUME NEW p \in Procs, PersistRun(p) PROVE TypeInv'
  BY <1>13, EmptySeq DEF PersistRun, Begin, NoOp, OpType, Chains, Steps, Clearing, Unlocked
<1>14. ASSUME NEW p \in Procs, RunLink(p) PROVE TypeInv'
  BY <1>14, DirectoryTypes DEF RunLink, Continue, Steps, Clearing, Unlocked
<1>15. ASSUME NEW p \in Procs, RunSync(p) PROVE TypeInv'
  BY <1>15, DirectoryTypes, EmptySeq DEF RunSync, Return, NoOp, OpType, Chains, Steps,
       Clearing, Unlocked
<1>16. ASSUME NEW p \in Procs, NEW t \in Targets, Resume(p, t) PROVE TypeInv'
  BY <1>16, DirectoryTypes, EmptySeq DEF Resume, Begin, NoOp, OpType, Chains, Steps,
       Clearing, Unlocked
<1>17. ASSUME NEW p \in Procs, ResumeReleased(p) PROVE TypeInv'
  BY <1>17, DirectoryTypes, EmptySeq DEF ResumeReleased, Return, NoOp, OpType, Chains,
       Steps, Clearing, Unlocked
<1>18. ASSUME NEW p \in Procs, OpenClosure(p) PROVE TypeInv'
  BY <1>18, EmptySeq DEF OpenClosure, Return, NoOp, OpType, Chains, Steps, Clearing,
     Unlocked
<1>19. ASSUME NEW p \in Procs, ReleaseHeld(p) PROVE TypeInv'
  <2>1. Append(interlock.vis, Clear(Current(interlock.vis).boot)) \in Chains \ {<<>>}
    <3>1. interlock.vis \in Chains \ {<<>>}
      BY <1>19 DEF ReleaseHeld, Claim, ClaimType, DirectoryOf
    <3> QED
      BY <3>1, CurrentEntry, EntryBoot, ClearEntry, AppendedChain
  <2> DEFINE locals == [NoOp EXCEPT !.target = closure[p], !.cause = "FINALIZED_RUN",
                          !.chain = Append(interlock.vis, Clear(Current(interlock.vis).boot))]
  <2>2. locals \in OpType
    BY <1>19, <2>1 DEF ReleaseHeld, NoOp, OpType, Causes
  <2>3. /\ locals.target = closure[p] /\ locals.cause = "FINALIZED_RUN"
        /\ locals.chain \in Chains \ {<<>>} /\ closure[p] \in Targets
    BY <1>19, <2>1 DEF ReleaseHeld, NoOp
  <2>4. pc' = [pc EXCEPT ![p] = "clearRename"] /\ op' = [op EXCEPT ![p] = locals]
        /\ lock' = p /\ UNCHANGED <<boot, disk, owner, closure, history, children, faults>>
    BY <1>19 DEF ReleaseHeld, Begin
  <2> HIDE DEF locals
  <2>5. TypeOK'
    BY <2>2, <2>4 DEF Steps, Unlocked
  <2> QED
    BY <2>3, <2>4, <2>5 DEF Causes, Steps, Clearing
<1>20. ASSUME NEW p \in Procs, ReleaseAlreadyClear(p) PROVE TypeInv'
  <2>1. interlock.vis \in Chains \ {<<>>}
    BY <1>20, CurrentEntry, EntryBoot, ClearEntry, AppendedChain
       DEF ReleaseAlreadyClear, ClaimType, DirectoryOf
  <2> DEFINE locals == [NoOp EXCEPT !.target = closure[p], !.chain = interlock.vis,
                          !.cause = "FINALIZED_RUN"]
  <2>2. /\ locals \in OpType
        /\ locals.target \in Targets
        /\ locals.chain # <<>>
        /\ locals.cause = "FINALIZED_RUN"
    BY <1>20, <2>1 DEF ReleaseAlreadyClear, NoOp, OpType, Causes
  <2>3. Begin(p, "releaseLink", locals) /\ UNCHANGED <<boot, disk, owner, closure, history,
                                                       children, faults>>
    BY <1>20 DEF ReleaseAlreadyClear
  <2> HIDE DEF locals
  <2>4. TypeOK'
    BY <2>2, <2>3 DEF Begin, Steps, Unlocked
  <2>5. /\ closure[p] \in Targets
        /\ UNCHANGED <<owner, closure>>
        /\ pc'[p] = "releaseLink" /\ op'[p] = locals
        /\ \A q \in Procs : q # p => pc'[q] = pc[q] /\ op'[q] = op[q]
    BY <1>20, <2>3 DEF ReleaseAlreadyClear, Begin
  <2>6. OperationsNamed' /\ OwnersNamed'
    BY <2>2, <2>5 DEF Steps, Clearing, Causes
  <2> QED
    BY <2>4, <2>6
<1>21. ASSUME NEW p \in Procs, ReleaseRefused(p) PROVE TypeInv'
  <2>1. NoOwner \in OwnerType
    BY EmptySeq DEF NoOwner, OwnerType, Chains
  <2>2. owner' \in [Procs -> OwnerType] /\ OwnersNamed'
    BY <1>21, <2>1 DEF ReleaseRefused, NoOwner
  <2>3. pc' = pc /\ op' = op /\ \A q \in Procs : pc[q] # "idle" => closure'[q] = closure[q]
    BY <1>21 DEF ReleaseRefused
  <2>4. OperationsNamed'
    BY <2>3 DEF Steps, Clearing
  <2> QED
    BY <1>21, <2>2, <2>4 DEF ReleaseRefused
<1>22. ASSUME NEW p \in Procs, Reset(p) PROVE TypeInv'
  <2>1. /\ Append(interlock.vis, Clear(boot)) \in Chains \ {<<>>}
        /\ Current(interlock.vis).target \in Targets
    BY <1>22, HeldTarget, ClearEntry, AppendedChain DEF Reset
  <2> QED
    BY <1>22, <2>1 DEF Reset, Begin, NoOp, OpType, Causes, Steps, Clearing, Unlocked
<1>23. ASSUME NEW p \in Procs, ClearRename(p) PROVE TypeInv'
  BY <1>23 DEF ClearRename, Continue, Renamed, OpType, Steps, Clearing, Unlocked
<1>24. ASSUME NEW p \in Procs, ClearSync(p) PROVE TypeInv'
  BY <1>24, DirectoryTypes DEF ClearSync, Continue, SyncOperations, SyncedFile, OpType,
       Steps, Clearing, Unlocked
<1>25. ASSUME NEW p \in Procs, ReleaseLink(p) PROVE TypeInv'
  <2> DEFINE link == Release(op[p].target, Replaced(op[p].chain), op[p].chain)
  <2>1. link \in ReleaseType
    BY <1>25, ReplacedChain DEF ReleaseLink, Release, ReleaseType, Claim, OpType, Steps
  <2>2. Linked(releases, link) \in DirectoryOf(ReleaseType)
    BY <2>1, DirectoryTypes
  <2> QED
    BY <1>25, <2>2 DEF ReleaseLink, Continue, Steps, Clearing, Unlocked
<1>26. ASSUME NEW p \in Procs, ReleaseSync(p) PROVE TypeInv'
  BY <1>26, DirectoryTypes DEF ReleaseSync, Continue, Steps, Clearing, Unlocked
<1>27. ASSUME NEW p \in Procs, ReceiptLink(p) PROVE TypeInv'
  <2> DEFINE run == IF op[p].cause = "FINALIZED_RUN" THEN op[p].target ELSE NoTarget
             receipt == Receipt(op[p].chain, op[p].cause, run)
  <2>1. receipt \in ReceiptType
    BY <1>27 DEF ReceiptLink, Receipt, ReceiptType, OpType, Steps, Clearing
  <2>2. Linked(receipts, receipt) \in DirectoryOf(ReceiptType)
    BY <2>1, DirectoryTypes
  <2> QED
    BY <1>27, <2>2 DEF ReceiptLink, Continue, Steps, Clearing, Unlocked
<1>28. ASSUME NEW p \in Procs, ReceiptSync(p) PROVE TypeInv'
  BY <1>28, DirectoryTypes, EmptySeq DEF ReceiptSync, NoOp, OpType, Chains, Steps,
       Clearing, Unlocked
<1>29. ASSUME NEW p \in Procs, ReportReleased(p) PROVE TypeInv'
  BY <1>29, DirectoryTypes, EmptySeq DEF ReportReleased, NoOwner, OwnerType, Chains,
       Steps, Clearing, Unlocked
<1>30. ASSUME NEW p \in Procs, MakeDirectory(p) PROVE TypeInv'
  <2>1. ops' \in DirectoryOf({"claims", "releases", "receipts"})
    <3>1. Directories(p) \subseteq {"claims", "releases", "receipts"}
      BY DEF Directories
    <3>2. PICK name \in Directories(p) : ops' = Linked(ops, name)
      BY <1>30 DEF MakeDirectory
    <3> QED
      BY <3>1, <3>2, DirectoryTypes
  <2>2. /\ op' \in [Procs -> OpType]
        /\ \A q \in Procs : op'[q].target = op[q].target /\ op'[q].chain = op[q].chain
                               /\ op'[q].cause = op[q].cause

    <3>1. op' = [op EXCEPT ![p].made = "operations"] /\ op \in [Procs -> OpType] /\ p \in Procs
      BY <1>30 DEF MakeDirectory
    <3> QED
      BY ONLY <3>1 DEF OpType
  <2>4. TypeOK'
    BY <1>30, <2>1, <2>2 DEF MakeDirectory
  <2>5. OperationsNamed' /\ OwnersNamed'
    BY <1>30, <2>2 DEF MakeDirectory
  <2> QED
    BY <2>4, <2>5
<1>31. ASSUME NEW p \in Procs, SyncMadeDirectory(p) PROVE TypeInv'
  BY <1>31, DirectoryTypes DEF SyncMadeDirectory, SyncOperations, SyncedFile, OpType
<1>32. ASSUME NEW p \in Procs, OperationFails(p) PROVE TypeInv'
  BY <1>32, EmptySeq DEF OperationFails, Forsake, SyncedUnder, DirectoryOf, NoOp, OpType,
     Chains, Steps, Clearing, Unlocked
<1>33. ASSUME NEW p \in Procs, Abandon(p) PROVE TypeInv'
  BY <1>33, EmptySeq DEF Abandon, Forsake, SyncedUnder, DirectoryOf, NoOp, NoOwner,
     OpType, OwnerType, Chains, Steps, Clearing,
       Unlocked
<1>34. ASSUME PowerLoss PROVE TypeInv'
  <2>1. interlock' \in [vis : Chains, may : SUBSET Chains]
    BY <1>34 DEF PowerLoss, FileAfterPowerLoss, ReplaceableFile
  <2>2. /\ ops' \in DirectoryOf({"claims", "releases", "receipts"})
        /\ claims' \in DirectoryOf(ClaimType)
        /\ releases' \in DirectoryOf(ReleaseType)
        /\ receipts' \in DirectoryOf(ReceiptType)
    BY <1>34, DirectoryTypes DEF PowerLoss, Surviving
  <2>3. boot' \in Boots
    BY <1>34, BoundAssumption DEF PowerLoss, Boots
  <2>4. OperationsNamed' /\ OwnersNamed'
    BY <1>34 DEF PowerLoss, NoOp, NoOwner, Steps, Clearing
  <2>5. runs' \in DirectoryOf(Targets) /\ homes' \in DirectoryOf(Homes)
    BY <1>34, RunsLeft
  <2> QED
    BY <1>34, <2>1, <2>2, <2>3, <2>4, <2>5, EmptySeq
       DEF PowerLoss, NoOp, NoOwner, OpType, OwnerType, Chains, Steps, Unlocked
<1>35. CASE UNCHANGED vars
  BY <1>35 DEF vars
<1>36. ASSUME NEW p \in Procs, NEW t \in Targets, ResumeEarly(p, t) PROVE TypeInv'
  BY <1>36, EmptySeq DEF ResumeEarly, Begin, NoOp, OpType, Chains, Steps, Clearing, Unlocked
<1>37. ASSUME NEW p \in Procs, ResumeAbsent(p) PROVE TypeInv'
  BY <1>37, EmptySeq DEF ResumeAbsent, Return, NoOp, OpType, Chains, Steps, Clearing,
     Unlocked
<1>38. ASSUME NEW p \in Procs, MakeHome(p) PROVE TypeInv'
  <2>1. NextHome(p) \in Homes /\ Parent(NextHome(p)) \in {"publications", "digests",
  "links"}
    <3>1. pc[p] \in {"runLink", "openRun"}
      BY <1>38 DEF MakeHome, HomesFor
    <3>2. op[p].target \in Targets
      BY <3>1 DEF Steps
    <3> QED
      BY <3>1, <3>2, NextHomeNamed
  <2>2. homes' \in DirectoryOf(Homes)
    BY <1>38, <2>1, DirectoryTypes DEF MakeHome
  <2>3. /\ op' \in [Procs -> OpType]
        /\ \A q \in Procs : op'[q].target = op[q].target /\ op'[q].chain = op[q].chain
                               /\ op'[q].cause = op[q].cause
    <3>1. /\ op' = [op EXCEPT ![p].made = Parent(NextHome(p))]
          /\ op \in [Procs -> OpType] /\ p \in Procs
      BY <1>38 DEF MakeHome
    <3> QED
      BY ONLY <2>1, <3>1 DEF OpType
  <2>4. TypeOK'
    BY <1>38, <2>2, <2>3 DEF MakeHome
  <2>5. OperationsNamed' /\ OwnersNamed'
    BY <1>38, <2>3 DEF MakeHome
  <2> QED
    BY <2>4, <2>5
<1>39. ASSUME NEW p \in Procs, SyncHome(p) PROVE TypeInv'
  <2>1. homes' \in DirectoryOf(Homes)
    BY <1>39 DEF SyncHome, SyncedUnder, DirectoryOf
  <2>2. /\ op' \in [Procs -> OpType]
        /\ \A q \in Procs : op'[q].target = op[q].target /\ op'[q].chain = op[q].chain
                               /\ op'[q].cause = op[q].cause
    <3>1. op' = [op EXCEPT ![p].made = "none"] /\ op \in [Procs -> OpType] /\ p \in Procs
      BY <1>39 DEF SyncHome
    <3> QED
      BY ONLY <3>1 DEF OpType
  <2>3. TypeOK'
    BY <1>39, <2>1, <2>2 DEF SyncHome
  <2>4. OperationsNamed' /\ OwnersNamed'
    BY <1>39, <2>2 DEF SyncHome
  <2> QED
    BY <2>3, <2>4
<1> QED
  BY ONLY [Next]_vars, <1>1, <1>2, <1>3, <1>4, <1>5, <1>6, <1>7, <1>8, <1>9, <1>10,
     <1>11, <1>12, <1>13, <1>14,
       <1>15, <1>16, <1>17, <1>18, <1>19, <1>20, <1>21, <1>22, <1>23, <1>24, <1>25, <1>26,
       <1>27, <1>28, <1>29, <1>30, <1>31, <1>32, <1>33, <1>34, <1>35, <1>36, <1>37, <1>38,
       <1>39
     DEF Next, ProcessStep, DirectorySteps, AcquireSteps, OwnerSteps, ReleaseSteps, Requests

\* Every variable keeps its shape, and an operation under way names its target.
THEOREM TypeCorrect == Spec => []TypeOK
<1>1. Spec => []TypeInv
  BY TypeInit, TypeStep, PTL DEF Spec
<1>2. TypeInv => TypeOK
  BY DEF TypeInv
<1> QED
  BY <1>1, <1>2, PTL

(***************************************************************************)
(* The slot.                                                               *)
(***************************************************************************)
LEMMA SlotInit == Init => SlotInv
  BY DEF Init, SlotInv, LockHeld, ClaimFiles, SpentIsClaimed, AcquiringFresh, OwnersClaimed,
         OwnersExclusive, LiveHolds, ClosuresRun, ClearedIsFree, AtMostOneStart,
         EmptyDirectory, NoOwner, Steps, Active

\* Without a claim no start was spent and nobody holds start authority.
LEMMA UnclaimedUnspent ==
  ASSUME TypeInv, SlotInv, NEW t \in Targets, ~Claimed(t)
  PROVE  /\ starts[t] = 0
         /\ \A q \in Procs : owner[q].phase # "none" => owner[q].target # t
<1>1. ~HasClaim(t)
  BY DEF SlotInv, ClaimFiles, HasClaim, Claimed
<1>2. starts[t] \in Nat
  BY DEF TypeInv, TypeOK
<1>3. ~(starts[t] > 0)
  BY <1>1 DEF SlotInv, SpentIsClaimed
<1>4. starts[t] = 0
  BY <1>2, <1>3
<1>5. \A q \in Procs : owner[q].phase # "none" => owner[q].target # t
  BY <1>1 DEF SlotInv, OwnersClaimed
<1> QED
  BY <1>4, <1>5

LEMMA SlotStep == TypeInv /\ SlotInv /\ [Next]_vars => SlotInv'
<1> SUFFICES ASSUME TypeInv, SlotInv, [Next]_vars PROVE SlotInv'
  OBVIOUS
<1> USE TargetAssumption
<1> USE DEF disk, runTree, memory, history, children
<1> USE DEF SlotInv, LockHeld, ClaimFiles, SpentIsClaimed, AcquiringFresh, OwnersClaimed,
            OwnersExclusive, LiveHolds, ClosuresRun, ClearedIsFree, AtMostOneStart,
            HasClaim,
            HeldNow, Claimed, Active, Steps
<1>1. ASSUME NEW p \in Procs, NEW t \in Targets, Acquire(p, t) PROVE SlotInv'
  BY <1>1 DEF Acquire, Begin, NoOp, Synced, TypeInv, TypeOK
<1>2. ASSUME NEW p \in Procs, NEW t \in Targets, Resume(p, t) PROVE SlotInv'
  BY <1>2 DEF Resume, Begin, NoOp, Synced, TypeInv, TypeOK
<1>3. ASSUME NEW p \in Procs, Admit(p) PROVE SlotInv'
  <2>1. LockHeld' /\ ClaimFiles' /\ SpentIsClaimed' /\ OwnersClaimed' /\ OwnersExclusive'
         /\ LiveHolds' /\ ClosuresRun' /\ ClearedIsFree' /\ AtMostOneStart'
    BY <1>3 DEF Admit, TypeInv, TypeOK
  <2>2. AcquiringFresh'
    <3>1. ~IsHeld(interlock.vis)
      BY <1>3 DEF Admit, Admissible, IsClear, IsHeld
    <3>2. "claims" \in ops.vis
      BY <1>3 DEF Admit, DirectoriesReady, Directories
    <3>3. /\ \A q \in Procs : q # p => op'[q] = op[q]
          /\ op'[p].target = op[p].target
          /\ op'[p].chain = Append(interlock.vis, Held(op[p].target, boot))
      BY <1>3 DEF Admit, TypeInv, TypeOK, OpType
    <3> QED
      BY <1>3, <3>1, <3>2, <3>3 DEF Admit, TypeInv, TypeOK
  <2> QED
    BY <2>1, <2>2
<1>4. ASSUME NEW p \in Procs, Refuse(p) PROVE SlotInv'
  BY <1>4 DEF Refuse, Return, NoOp, TypeInv, TypeOK
<1>5. ASSUME NEW p \in Procs, HeldRename(p) PROVE SlotInv'
  <2>1. LockHeld' /\ ClaimFiles' /\ SpentIsClaimed' /\ OwnersClaimed' /\ OwnersExclusive'
         /\ LiveHolds' /\ ClosuresRun' /\ ClearedIsFree' /\ AtMostOneStart'
    BY <1>5 DEF HeldRename, Continue, Renamed, TypeInv, TypeOK
  <2>2. AcquiringFresh'
    <3>1. op[p].target \in Targets
      BY <1>5 DEF HeldRename, TypeInv, OperationsNamed
    <3>2. interlock'.vis = op[p].chain
      BY <1>5 DEF HeldRename, Renamed
    <3>3. /\ IsHeld(interlock'.vis)
          /\ Current(interlock'.vis).target = op[p].target
          /\ Current(interlock'.vis).boot = boot
      <4>1. interlock.vis \in Chains /\ boot \in Boots
        BY DEF TypeInv, TypeOK
      <4>2. op[p].chain = Append(interlock.vis, Held(op[p].target, boot))
        BY <1>5 DEF HeldRename
      <4> QED
        BY ONLY <3>1, <3>2, <4>1, <4>2, HeldAppended
    <3> QED
      BY <1>5, <3>2, <3>3 DEF HeldRename, Continue, TypeInv, TypeOK
  <2> QED
    BY <2>1, <2>2
<1>6. ASSUME NEW p \in Procs, HeldSync(p) PROVE SlotInv'
  BY <1>6 DEF HeldSync, Continue, SyncOperations, SyncedFile, Synced, TypeInv, TypeOK
<1>7. ASSUME NEW p \in Procs, ClaimLink(p) PROVE SlotInv'
  <2>1. LockHeld' /\ SpentIsClaimed' /\ OwnersClaimed' /\ OwnersExclusive' /\ LiveHolds'
         /\ ClosuresRun' /\ ClearedIsFree' /\ AtMostOneStart'
    BY <1>7 DEF ClaimLink, Continue, Linked, TypeInv, TypeOK
  <2>2. ClaimFiles'
    <3>1. /\ claims'.vis = claims.vis \cup {Claim(op[p].target, op[p].chain)}
          /\ claims'.dur = claims.dur
      BY <1>7 DEF ClaimLink, Linked, TypeInv, TypeOK, DirectoryOf
    <3>2. IsHeld(op[p].chain) /\ Current(op[p].chain).target = op[p].target
      BY <1>7 DEF ClaimLink
    <3> QED
      BY <1>7, <3>1, <3>2 DEF ClaimLink, Claim
  <2>3. AcquiringFresh'
    <3>1. op[p].target \in Targets /\ ~Claimed(op[p].target)
      BY <1>7 DEF ClaimLink, TypeInv, OperationsNamed
    <3>3. /\ starts[op[p].target] = 0
          /\ \A q \in Procs : owner[q].phase # "none" => owner[q].target # op[p].target
      BY ONLY <3>1, TypeInv, SlotInv, UnclaimedUnspent
    <3>5. Claim(op[p].target, op[p].chain) \in claims'.vis
      BY <1>7 DEF ClaimLink, Linked, TypeInv, TypeOK, DirectoryOf
    <3> QED
      BY <1>7, <3>3, <3>5 DEF ClaimLink, Continue, TypeInv, TypeOK
  <2> QED
    BY <2>1, <2>2, <2>3
<1>8. ASSUME NEW p \in Procs, ClaimSync(p) PROVE SlotInv'
  <2>1. LockHeld' /\ ClaimFiles' /\ SpentIsClaimed' /\ AcquiringFresh' /\ OwnersExclusive'
         /\ LiveHolds' /\ ClosuresRun' /\ ClearedIsFree' /\ AtMostOneStart'
    BY <1>8 DEF ClaimSync, Return, NoOp, Synced, TypeInv, TypeOK
  <2>2. OwnersClaimed'
    <3>1. claims'.dur = claims.vis
      BY <1>8 DEF ClaimSync, Synced, TypeInv, TypeOK, DirectoryOf
    <3>2. Claim(op[p].target, op[p].chain).target = op[p].target
      BY DEF Claim
    <3>3. \A t : HasClaim(t) => HasClaim(t)'
      BY <1>8, <3>1 DEF ClaimSync
    <3>. PICK t \in Targets : t = op[p].target
      BY <1>8 DEF ClaimSync, TypeInv, OperationsNamed
    <3>4. HasClaim(t)' /\ starts[t] = 0
      BY <1>8, <3>1, <3>2 DEF ClaimSync
    <3>5. /\ \A q \in Procs : q # p => owner'[q] = owner[q]
          /\ owner'[p].target = t
          /\ owner'[p].phase = "acquired"
          /\ starts' = starts
      BY <1>8 DEF ClaimSync, TypeInv, TypeOK
    <3> SUFFICES ASSUME NEW q \in Procs
                 PROVE  /\ owner'[q].phase # "none" => HasClaim(owner[q].target)'
                        /\ owner'[q].phase = "acquired" <=>
                             owner'[q].phase # "none" /\ starts'[owner'[q].target] = 0
      OBVIOUS
    <3>6. CASE q = p
      BY <3>4, <3>5, <3>6
    <3>7. CASE q # p
      <4> PICK u : u = owner[q].target
        OBVIOUS
      <4>1. owner[q].phase # "none" => HasClaim(u)'
        <5>1. owner[q].phase # "none" => HasClaim(u)
          OBVIOUS
        <5> HIDE DEF HasClaim
        <5> QED
          BY <5>1, <3>3
      <4> QED
        BY <3>5, <3>7, <4>1
    <3> QED
      BY <3>6, <3>7
  <2> QED
    BY <2>1, <2>2
<1>9. ASSUME NEW p \in Procs, ReconcileNoClaim(p) PROVE SlotInv'
  <2>1. LockHeld' /\ ClaimFiles' /\ SpentIsClaimed' /\ AcquiringFresh' /\ OwnersClaimed'
         /\ OwnersExclusive' /\ LiveHolds' /\ ClosuresRun' /\ AtMostOneStart'
    BY <1>9 DEF ReconcileNoClaim, TypeInv, TypeOK
  <2>2. ClearedIsFree'
    <3>1. ~HasClaim(op[p].target) /\ HeldNow(op[p].target)
      BY <1>9 DEF ReconcileNoClaim
    <3>2. live \subseteq orphaned
      BY <3>1 DEF TypeInv, TypeOK
    <3>3. \A q \in Procs : owner[q].phase \notin Active
      BY <3>1
    <3> QED
      BY <1>9, <3>2, <3>3 DEF ReconcileNoClaim
  <2> QED
    BY <2>1, <2>2
<1>10. ASSUME NEW p \in Procs, Consume(p) PROVE SlotInv'
  <2>1. LockHeld' /\ ClaimFiles' /\ AcquiringFresh' /\ OwnersExclusive' /\ LiveHolds'
         /\ ClosuresRun' /\ ClearedIsFree' /\ AtMostOneStart'
    BY <1>10 DEF Consume, TypeInv, TypeOK
  <2>2. SpentIsClaimed'
    <3>1. owner[p].target \in Targets /\ HasClaim(owner[p].target)
      BY <1>10 DEF Consume, TypeInv, OwnersNamed
    <3>2. \A t \in Targets : starts'[t] = IF t = owner[p].target THEN starts[t] + 1 ELSE starts[t]
      BY <1>10, <3>1 DEF Consume, TypeInv, TypeOK
    <3>3. \A t \in Targets : starts[t] > 0 => starts'[t] > 0
      BY <3>2 DEF TypeInv, TypeOK
    <3> QED
      BY <1>10, <3>1, <3>2, <3>3 DEF Consume, TypeInv, TypeOK, DirectoryOf
  <2>3. OwnersClaimed'
    <3>1. owner[p].target \in Targets
      BY <1>10 DEF Consume, TypeInv, OwnersNamed
    <3>2. \A t \in Targets : starts'[t] = IF t = owner[p].target THEN starts[t] + 1 ELSE starts[t]
      BY <1>10, <3>1 DEF Consume, TypeInv, TypeOK
    <3>3. starts'[owner[p].target] > 0
      BY <3>1, <3>2 DEF TypeInv, TypeOK
    <3>4. \A q \in Procs : q # p => owner'[q] = owner[q]
      BY <1>10 DEF Consume, TypeInv, TypeOK
    <3>5. owner'[p].target = owner[p].target /\ owner'[p].phase = "consumed"
      BY <1>10 DEF Consume, TypeInv, TypeOK, OwnerType
    <3>6. \A q \in Procs : q # p /\ owner[q].phase # "none" =>
             owner[q].target \in Targets /\ starts'[owner[q].target] = starts[owner[q].target]
      BY <1>10, <3>2 DEF Consume, TypeInv, OwnersNamed
    <3> QED
      BY <1>10, <3>3, <3>4, <3>5, <3>6 DEF Consume
  <2> QED
    BY <2>1, <2>2, <2>3
<1>11. ASSUME NEW p \in Procs, StartSubject(p) PROVE SlotInv'
  <2>1. LockHeld' /\ ClaimFiles' /\ AcquiringFresh' /\ OwnersClaimed' /\ OwnersExclusive'
         /\ LiveHolds' /\ ClosuresRun' /\ ClearedIsFree' /\ AtMostOneStart'
    BY <1>11 DEF StartSubject, TypeInv, TypeOK
  <2>2. SpentIsClaimed'
    <3>1. owner[p].target \in Targets /\ starts[owner[p].target] > 0
      BY <1>11 DEF StartSubject, TypeInv, TypeOK, OwnersNamed
    <3> QED
      BY <1>11, <3>1 DEF StartSubject
  <2> QED
    BY <2>1, <2>2
<1>12. ASSUME NEW p \in Procs, StartError(p) PROVE SlotInv'
  BY <1>12 DEF StartError, TypeInv, TypeOK
<1>13. ASSUME NEW p \in Procs, CloseSubject(p) PROVE SlotInv'
  BY <1>13 DEF CloseSubject, TypeInv, TypeOK
<1>14. ASSUME NEW p \in Procs, PersistRun(p) PROVE SlotInv'
  BY <1>14 DEF PersistRun, Begin, NoOp, TypeInv, TypeOK
<1>15. ASSUME NEW p \in Procs, RunLink(p) PROVE SlotInv'
  <2>1. LockHeld' /\ ClaimFiles' /\ OwnersClaimed'
    BY <1>15 DEF RunLink, Continue, Linked, TypeInv, TypeOK
  <2>4. AcquiringFresh'
    <3>1. pc' = [pc EXCEPT ![p] = "runSync"] /\ pc \in [Procs -> Steps \cup Unlocked]
      BY <1>15 DEF RunLink, Continue, TypeInv, TypeOK
    <3>2. UNCHANGED <<boot, interlock, ops, claims, owner, op, starts>>
      BY <1>15 DEF RunLink, Continue
    <3>3. /\ pc'[p] = "runSync"
          /\ \A q \in Procs : q # p => pc'[q] = pc[q]
      BY ONLY <3>1
    <3> QED
      BY <3>2, <3>3
  <2>2. LiveHolds' /\ ClearedIsFree' /\ AtMostOneStart'
    BY <1>15 DEF RunLink, Continue, Linked, TypeInv, TypeOK
  <2>5. OwnersExclusive'
    BY <1>15 DEF RunLink, Continue, Linked, TypeInv, TypeOK
  <2>6. ClosuresRun'
    BY <1>15 DEF RunLink, Continue, Linked, TypeInv, TypeOK
  <2>3. SpentIsClaimed'
    <3>1. op[p].target \in Targets /\ starts[op[p].target] > 0
      BY <1>15 DEF RunLink, TypeInv, TypeOK, OperationsNamed
    <3>2. runs'.vis = runs.vis \cup {op[p].target}
      BY <1>15 DEF RunLink, Linked, TypeInv, TypeOK, DirectoryOf
    <3> QED
      BY <1>15, <3>1, <3>2 DEF RunLink
  <2> QED
    BY <2>1, <2>2, <2>3, <2>4, <2>5, <2>6
<1>16. ASSUME NEW p \in Procs, RunSync(p) PROVE SlotInv'
  BY <1>16 DEF RunSync, Return, NoOp, Synced, TypeInv, TypeOK
<1>17. ASSUME NEW p \in Procs, ResumeReleased(p) PROVE SlotInv'
  BY <1>17 DEF ResumeReleased, Return, NoOp, TypeInv, TypeOK
<1>18. ASSUME NEW p \in Procs, OpenClosure(p) PROVE SlotInv'
  BY <1>18 DEF OpenClosure, Return, NoOp, TypeInv, TypeOK
<1>19. ASSUME NEW p \in Procs, ReleaseHeld(p) PROVE SlotInv'
  <2>1. LockHeld' /\ ClaimFiles' /\ SpentIsClaimed' /\ AcquiringFresh' /\ OwnersClaimed'
         /\ OwnersExclusive' /\ LiveHolds' /\ ClosuresRun' /\ AtMostOneStart'
    BY <1>19 DEF ReleaseHeld, Begin, NoOp, TypeInv, TypeOK
  <2>2. ClearedIsFree'
    <3>1. closure[p] \in runs.vis
      BY <1>19 DEF ReleaseHeld
    <3>2. Current(interlock.vis).target = closure[p]
      BY <1>19 DEF ReleaseHeld, Claim
    <3>3. live \subseteq orphaned
      BY <3>1, <3>2
    <3>4. \A q \in Procs : owner[q].phase \notin Active
      BY <3>1, <3>2
    <3> QED
      BY <1>19, <3>3, <3>4 DEF ReleaseHeld, Begin, TypeInv, TypeOK
  <2> QED
    BY <2>1, <2>2
<1>20. ASSUME NEW p \in Procs, ReleaseAlreadyClear(p) PROVE SlotInv'
  <2>1. LockHeld' /\ ClaimFiles' /\ SpentIsClaimed' /\ AcquiringFresh' /\ OwnersClaimed'
    BY <1>20 DEF ReleaseAlreadyClear, Begin, NoOp, TypeInv, TypeOK
  <2>2. OwnersExclusive' /\ LiveHolds'
    BY <1>20 DEF ReleaseAlreadyClear, Begin, NoOp, TypeInv, TypeOK
  <2>3. ClosuresRun' /\ ClearedIsFree' /\ AtMostOneStart'
    BY <1>20 DEF ReleaseAlreadyClear, Begin, NoOp, TypeInv, TypeOK
  <2> QED
    BY <2>1, <2>2, <2>3
<1>21. ASSUME NEW p \in Procs, ReleaseRefused(p) PROVE SlotInv'
  BY <1>21 DEF ReleaseRefused, NoOwner, TypeInv, TypeOK
<1>22. ASSUME NEW p \in Procs, Reset(p) PROVE SlotInv'
  BY <1>22 DEF Reset, Begin, NoOp, TypeInv, TypeOK
<1>23. ASSUME NEW p \in Procs, ClearRename(p) PROVE SlotInv'
  BY <1>23 DEF ClearRename, Continue, Renamed, TypeInv, TypeOK
<1>24. ASSUME NEW p \in Procs, ClearSync(p) PROVE SlotInv'
  BY <1>24 DEF ClearSync, Continue, SyncOperations, SyncedFile, Synced, TypeInv, TypeOK
<1>25. ASSUME NEW p \in Procs, ReleaseLink(p) PROVE SlotInv'
  BY <1>25 DEF ReleaseLink, Continue, TypeInv, TypeOK
<1>26. ASSUME NEW p \in Procs, ReleaseSync(p) PROVE SlotInv'
  BY <1>26 DEF ReleaseSync, Continue, TypeInv, TypeOK
<1>27. ASSUME NEW p \in Procs, ReceiptLink(p) PROVE SlotInv'
  BY <1>27 DEF ReceiptLink, Continue, TypeInv, TypeOK
<1>28. ASSUME NEW p \in Procs, ReceiptSync(p) PROVE SlotInv'
  BY <1>28 DEF ReceiptSync, NoOp, TypeInv, TypeOK
<1>29. ASSUME NEW p \in Procs, ReportReleased(p) PROVE SlotInv'
  BY <1>29 DEF ReportReleased, NoOwner, TypeInv, TypeOK
<1>30. ASSUME NEW p \in Procs, MakeDirectory(p) PROVE SlotInv'
  BY <1>30 DEF MakeDirectory, Linked, TypeInv, TypeOK
<1>31. ASSUME NEW p \in Procs, SyncMadeDirectory(p) PROVE SlotInv'
  BY <1>31 DEF SyncMadeDirectory, SyncOperations, SyncedFile, Synced, TypeInv, TypeOK
<1>32. ASSUME NEW p \in Procs, OperationFails(p) PROVE SlotInv'
  BY <1>32 DEF OperationFails, NoOp, TypeInv, TypeOK
<1>33. ASSUME NEW p \in Procs, Abandon(p) PROVE SlotInv'
  BY <1>33 DEF Abandon, NoOp, NoOwner, TypeInv, TypeOK
<1>34. ASSUME PowerLoss PROVE SlotInv'
  <2>1. LockHeld' /\ SpentIsClaimed' /\ AcquiringFresh' /\ OwnersClaimed'
         /\ OwnersExclusive' /\ LiveHolds' /\ ClosuresRun' /\ ClearedIsFree' /\ AtMostOneStart'
    <3>1. runs'.vis \subseteq runs.vis
      BY <1>34, RunsLeft DEF TypeInv, TypeOK
    <3> QED
      BY <1>34, <3>1 DEF PowerLoss, Surviving, AfterPowerLoss, NoOp, NoOwner, TypeInv,
         TypeOK
  <2>2. ClaimFiles'
    <3>1. ops'.dur = ops'.vis
      BY <1>34 DEF PowerLoss, AfterPowerLoss
    <3>2. claims'.dur = claims'.vis /\ claims'.vis \subseteq claims.vis
      <4>1. claims' \in AfterPowerLoss(claims) \/ claims' = EmptyDirectory
        BY <1>34 DEF PowerLoss, Surviving
      <4>2. CASE claims' \in AfterPowerLoss(claims)
        BY ONLY <4>2, SurvivingEntries
      <4>3. CASE claims' = EmptyDirectory
        BY ONLY <4>3 DEF EmptyDirectory
      <4> QED
        BY <4>1, <4>2, <4>3
    <3> QED
      BY <3>1, <3>2
  <2> QED
    BY <2>1, <2>2
<1>35. CASE UNCHANGED vars
  BY <1>35 DEF vars
<1>36. ASSUME NEW p \in Procs, NEW t \in Targets, ResumeEarly(p, t) PROVE SlotInv'
  BY <1>36 DEF ResumeEarly, Begin, NoOp, TypeInv, TypeOK
<1>37. ASSUME NEW p \in Procs, ResumeAbsent(p) PROVE SlotInv'
  BY <1>37 DEF ResumeAbsent, Return, NoOp, TypeInv, TypeOK
<1>38. ASSUME NEW p \in Procs, MakeHome(p) PROVE SlotInv'
  BY <1>38 DEF MakeHome, TypeInv, TypeOK
<1>39. ASSUME NEW p \in Procs, SyncHome(p) PROVE SlotInv'
  BY <1>39 DEF SyncHome, TypeInv, TypeOK
<1> HIDE DEF SlotInv, LockHeld, ClaimFiles, SpentIsClaimed, AcquiringFresh, OwnersClaimed,
            OwnersExclusive, LiveHolds, ClosuresRun, ClearedIsFree, AtMostOneStart,
            HasClaim,
            HeldNow, Claimed, Active, Steps
<1> QED
  BY ONLY [Next]_vars, <1>1, <1>2, <1>3, <1>4, <1>5, <1>6, <1>7, <1>8, <1>9, <1>10,
     <1>11, <1>12, <1>13, <1>14,
     <1>15, <1>16, <1>17, <1>18, <1>19, <1>20, <1>21, <1>22, <1>23, <1>24, <1>25, <1>26,
     <1>27, <1>28, <1>29, <1>30, <1>31, <1>32, <1>33, <1>34, <1>35, <1>36, <1>37,
     <1>38, <1>39
     DEF Next, ProcessStep, DirectorySteps, AcquireSteps, OwnerSteps, ReleaseSteps, Requests

LEMMA SlotCorrect == Spec => [](TypeInv /\ SlotInv)
<1>1. Init => TypeInv /\ SlotInv
  BY TypeInit, SlotInit
<1>2. TypeInv /\ SlotInv /\ [Next]_vars => (TypeInv /\ SlotInv)'
  BY TypeStep, SlotStep
<1> QED
  BY <1>1, <1>2, PTL DEF Spec

\* However many processes contend, fail, are killed or lose power, the start of
\* a target is authorised at most once.
THEOREM StartsAtMostOnce == Spec => []AtMostOneStart
<1>1. SlotInv => AtMostOneStart
  BY DEF SlotInv
<1> QED
  BY <1>1, SlotCorrect, PTL

\* While the subject of a target may be running, the interlock shows its HELD
\* state, unless its run was finalized with an orphan risk.
THEOREM LiveIsHeld == Spec => []HeldWhileLive
<1>1. SlotInv => HeldWhileLive
  BY DEF SlotInv, LiveHolds, HeldNow, HeldWhileLive
<1> QED
  BY <1>1, SlotCorrect, PTL

(***************************************************************************)
(* The strengthening behind the durability properties and the refinement.  *)
(***************************************************************************)
\* An owner has the slot until its run is there.
InSlot(p) ==
  \/ owner[p].phase \in Active
  \/ owner[p].phase = "closed" /\ owner[p].target \notin runs.vis

\* The state a reader sees is one a power loss may leave, and no state that is or
\* may become current belongs to a boot session still to come.
InterlockSettles ==
  /\ interlock.vis \in interlock.may
  /\ \A chain \in interlock.may : chain # <<>> => Current(chain).boot <= boot
  /\ \A p \in Procs : op[p].chain # <<>> => Current(op[p].chain).boot <= boot
  /\ \A p \in Procs : pc[p] \in {"claimLink", "claimSync"} => interlock.may = {op[p].chain}

\* Every owner's claim is durable; the owner in the slot cannot lose its HELD state.
OwnersInSlot ==
  \A p \in Procs :
    /\ owner[p].phase # "none" => Claim(owner[p].target, owner[p].chain) \in claims.dur
    /\ InSlot(p) => HeldNow(owner[p].target) /\ interlock.may = {owner[p].chain}

\* What is durable is visible.
LinksSettle == releases.dur \subseteq releases.vis /\ receipts.dur \subseteq receipts.vis

\* A closure is only held for a run that is durable; a run is linked once.
RunsSettle ==
  /\ runs.dur \subseteq runs.vis
  /\ \A p \in Procs :
       /\ pc[p] = "reopen" => op[p].target \in runs.dur
       /\ pc[p] = "runLink" => op[p].target \notin runs.vis
       /\ closure[p] # NoTarget => closure[p] \in runs.dur

\* Whoever is about to clear the slot appends one CLEAR state to the HELD state of
\* its target, for the reason it carries.
ClearingJustified ==
  \A p \in Procs : pc[p] = "clearRename" =>
    /\ IsHeld(interlock.vis)
    /\ op[p].target = Current(interlock.vis).target
    /\ \E b \in Boots : op[p].chain = Append(interlock.vis, Clear(b))
    /\ op[p].cause = "FINALIZED_RUN" =>
         op[p].target \in runs.dur /\ Claim(op[p].target, interlock.vis) \in claims.dur
    /\ op[p].cause = "KNOWN_NO_CLAIM" => ~Claimed(op[p].target)
    /\ op[p].cause = "CHANGED_BOOT" => Current(interlock.vis).boot # boot
    /\ \A q \in Procs : ~InSlot(q)

\* From the CLEAR state on, a release carries a durable run and a durable claim, and
\* its link is there, then durable, before the receipt.
ReleaseJustified ==
  \A p \in Procs :
    pc[p] \in {"clearSync", "releaseLink", "releaseSync", "receiptLink"}
      /\ op[p].cause = "FINALIZED_RUN" =>
    LET link == Release(op[p].target, Replaced(op[p].chain), op[p].chain) IN
      /\ op[p].target \in runs.dur
      /\ Claim(op[p].target, Replaced(op[p].chain)) \in claims.dur
      /\ pc[p] = "releaseSync" => link \in releases.vis
      /\ pc[p] = "receiptLink" => link \in releases.dur

\* A receipt stands for a start that was spent; only a power loss that took a
\* directory its maker left unsynced takes the run.
ReceiptsJustified ==
  \A r \in receipts.vis : r.cause = "FINALIZED_RUN" =>
    /\ \/ r.run \in runs.dur
       \/ Current(r.clear).boot # boot /\ HomesOf(r.run) \cap forsaken # {}
    /\ Claim(r.run, Replaced(r.clear)) \in claims.dur
    /\ Current(r.clear).boot = boot =>
         Release(r.run, Replaced(r.clear), r.clear) \in releases.dur
    /\ r.clear # <<>> /\ Current(r.clear).boot <= boot
    /\ starts[r.run] > 0

\* The state an acquisition found, if any, has a durable receipt.
Proven(chain) == Replaced(chain) # <<>> => \E r \in receipts.dur : r.clear = Replaced(chain)
Sheltered(chain, names) == Replaced(chain) # <<>> => "receipts" \in names

AdmissionProven ==
  \A p \in Procs :
    /\ pc[p] \in {"heldRename", "heldSync"} =>
         Proven(op[p].chain) /\ Sheltered(op[p].chain, ops.vis)
    /\ pc[p] \in {"claimLink", "claimSync"} =>
         Proven(op[p].chain) /\ Sheltered(op[p].chain, ops.dur)
    /\ owner[p].phase # "none" =>
         Proven(owner[p].chain) /\ Sheltered(owner[p].chain, ops.dur)

DurableInv ==
  /\ InterlockSettles
  /\ ClaimsOnHistory
  /\ OwnersInSlot
  /\ LinksSettle
  /\ RunsSettle
  /\ ClearingJustified
  /\ ReleaseJustified
  /\ ReceiptsJustified
  /\ AdmissionProven

\* The one claim of a target with a run is durable.
LEMMA ClaimOfRun ==
  ASSUME TypeInv, SlotInv, ClaimsOnHistory, NEW c \in claims.vis, c.target \in runs.vis
  PROVE  c \in claims.dur
<1>1. HasClaim(c.target)
  <2>1. c.target \in Targets
    BY DEF TypeInv, TypeOK, DirectoryOf, ClaimType
  <2> QED
    BY <2>1 DEF SlotInv, SpentIsClaimed
<1>2. PICK d \in claims.dur : d.target = c.target
  BY <1>1 DEF HasClaim
<1>3. d \in claims.vis
  BY DEF SlotInv, ClaimFiles
<1> QED
  BY <1>2, <1>3 DEF ClaimsOnHistory

\* The files after a link, a sync and a rename.
LEMMA FileShapes ==
  ASSUME TypeInv
  PROVE  /\ \A e : Linked(ops, e).vis = ops.vis \cup {e} /\ Linked(ops, e).dur = ops.dur
         /\ \A e : Linked(claims, e).vis = claims.vis \cup {e}
                   /\ Linked(claims, e).dur = claims.dur
         /\ \A e : Linked(releases, e).vis = releases.vis \cup {e}
                   /\ Linked(releases, e).dur = releases.dur
         /\ \A e : Linked(receipts, e).vis = receipts.vis \cup {e}
                   /\ Linked(receipts, e).dur = receipts.dur
         /\ \A e : Linked(runs, e).vis = runs.vis \cup {e} /\ Linked(runs, e).dur = runs.dur
         /\ Synced(ops).vis = ops.vis /\ Synced(ops).dur = ops.vis
         /\ Synced(claims).vis = claims.vis /\ Synced(claims).dur = claims.vis
         /\ Synced(releases).vis = releases.vis /\ Synced(releases).dur = releases.vis
         /\ Synced(receipts).vis = receipts.vis /\ Synced(receipts).dur = receipts.vis
         /\ Synced(runs).vis = runs.vis /\ Synced(runs).dur = runs.vis
         /\ \A b : Renamed(interlock, b).vis = b
                   /\ Renamed(interlock, b).may = interlock.may \cup {b}
         /\ SyncedFile(interlock).vis = interlock.vis
         /\ SyncedFile(interlock).may = {interlock.vis}
  BY DEF TypeInv, TypeOK, DirectoryOf, Linked, Synced, Renamed, SyncedFile

(***************************************************************************)
(* The directories of the runs.                                            *)
(***************************************************************************)
Parents == {"publications", "digests", "links"}
InHomes(p) == pc[p] \in {"runLink", "openRun"}

\* A directory that is not durable has its maker still at work or is forsaken; a
\* run has all of its directories, none of which is being made any more.
HomesSettle ==
  /\ homes.dur \subseteq homes.vis
  /\ \A home \in homes.vis \ (homes.dur \cup forsaken) :
       \E p \in Procs : InHomes(p) /\ op[p].made = Parent(home)
  /\ \A t \in runs.vis : HomesOf(t) \subseteq homes.dur \cup forsaken

LEMMA HomesInit == Init => HomesSettle
  BY DEF Init, HomesSettle, EmptyDirectory

\* Most steps leave the directories, the runs and the makers alone.
HomesKept ==
  /\ UNCHANGED <<homes, forsaken>> /\ runs'.vis = runs.vis
  /\ \A p \in Procs : InHomes(p) /\ op[p].made \in Parents =>
       InHomes(p)' /\ op'[p].made = op[p].made

LEMMA KeptHomesSettle ==
  ASSUME homes \in DirectoryOf(Homes), HomesSettle, HomesKept
  PROVE  HomesSettle'
  BY HomesNamed DEF DirectoryOf, HomesSettle, HomesKept, Parents

LEMMA HomesStep == TypeInv /\ SlotInv /\ HomesSettle /\ [Next]_vars => HomesSettle'
<1> SUFFICES ASSUME TypeInv, SlotInv, HomesSettle, [Next]_vars PROVE HomesSettle'
  OBVIOUS
<1> USE FileShapes DEF disk, runTree, memory, history, children
<1>a. /\ pc \in [Procs -> Steps \cup Unlocked]
      /\ op \in [Procs -> OpType]
      /\ homes \in DirectoryOf(Homes) /\ runs \in DirectoryOf(Targets)
  BY DEF TypeInv, TypeOK
<1>b. \A p, q \in Procs : InHomes(p) /\ InHomes(q) => p = q
  BY TargetAssumption DEF SlotInv, LockHeld, InHomes, Steps
<1>c. \A home \in homes.vis : Parent(home) \in Parents
  BY <1>a, HomesNamed DEF DirectoryOf, Parents
<1>1. ASSUME NEW p \in Procs, MakeDirectory(p) \/ SyncMadeDirectory(p) PROVE HomesKept
  BY <1>1, <1>a DEF MakeDirectory, SyncMadeDirectory, OpType, HomesKept, InHomes, Parents
<1>2. ASSUME NEW p \in Procs, AcquireSteps(p) PROVE HomesKept
  BY <1>2, <1>a DEF AcquireSteps, Admit, Refuse, HeldRename, HeldSync, ClaimLink, ClaimSync,
     Continue, Return, HomesKept, InHomes
<1>3. ASSUME NEW p \in Procs, StartSubject(p) \/ StartError(p) \/ CloseSubject(p)
                                \/ Consume(p) \/ PersistRun(p) \/ RunSync(p)
      PROVE  HomesKept
  BY <1>3, <1>a DEF StartSubject, StartError, CloseSubject, Consume, PersistRun, RunSync,
     Begin, Return, HomesKept, InHomes
<1>4. ASSUME NEW p \in Procs, ReleaseSteps(p) PROVE HomesKept
  <2>1. CASE ResumeAbsent(p)
    BY <2>1, <1>a DEF ResumeAbsent, HomesReady, Return, HomesKept, InHomes, Parents
  <2>2. CASE ResumeReleased(p) \/ OpenClosure(p) \/ ReportReleased(p)
    BY <2>2, <1>a DEF ResumeReleased, OpenClosure, ReportReleased, Return, HomesKept,
       InHomes
  <2>3. CASE ReleaseHeld(p) \/ ReleaseAlreadyClear(p) \/ ReleaseRefused(p)
    BY <2>3, <1>a DEF ReleaseHeld, ReleaseAlreadyClear, ReleaseRefused, Begin, HomesKept,
       InHomes
  <2>4. CASE ClearRename(p) \/ ClearSync(p) \/ ReleaseLink(p) \/ ReleaseSync(p)
               \/ ReceiptLink(p) \/ ReceiptSync(p)
    BY <2>4, <1>a DEF ClearRename, ClearSync, ReleaseLink, ReleaseSync, ReceiptLink,
       ReceiptSync, Continue, HomesKept, InHomes
  <2> QED
    BY <1>4, <2>1, <2>2, <2>3, <2>4 DEF ReleaseSteps
<1>5. ASSUME NEW p \in Procs, Requests(p) PROVE HomesKept
  BY <1>5, <1>a DEF Requests, Acquire, Resume, ResumeEarly, ReconcileNoClaim, Reset, Begin,
     HomesKept, InHomes
<1>6. ASSUME NEW p \in Procs, RunLink(p) PROVE HomesSettle'
  <2>1. /\ InHomes(p) /\ op[p].made \notin Parents
        /\ HomesOf(op[p].target) \subseteq homes.vis
    BY <1>6 DEF RunLink, HomesReady, HomesFor, InHomes, Parents
  <2>2. homes.vis \subseteq homes.dur \cup forsaken
    BY <1>b, <1>c, <2>1 DEF HomesSettle
  <2>3. UNCHANGED <<homes, forsaken>> /\ runs'.vis = runs.vis \cup {op[p].target}
    BY <1>6 DEF RunLink
  <2> QED
    BY <2>1, <2>2, <2>3 DEF HomesSettle
<1>7. ASSUME NEW p \in Procs, MakeHome(p) PROVE HomesSettle'
  <2>1. InHomes(p) /\ op[p].made = "none"
    BY <1>7 DEF MakeHome, HomesFor, InHomes
  <2>2. homes.vis \subseteq homes.dur \cup forsaken
    BY <1>b, <1>c, <2>1 DEF HomesSettle, Parents
  <2>3. /\ homes'.vis = homes.vis \cup {NextHome(p)} /\ homes'.dur = homes.dur
        /\ InHomes(p)' /\ op'[p].made = Parent(NextHome(p))
        /\ UNCHANGED <<forsaken, runs>>
    BY <1>7, <1>a, <2>1 DEF MakeHome, InHomes, Linked, DirectoryOf, OpType
  <2> QED
    BY <2>2, <2>3 DEF HomesSettle
<1>8. ASSUME NEW p \in Procs, SyncHome(p) PROVE HomesSettle'
  <2>1. InHomes(p)
    BY <1>8 DEF SyncHome, HomesFor, InHomes
  <2>2. homes.vis \subseteq homes.dur \cup SyncedUnder(op[p].made) \cup forsaken
    BY <1>b, <2>1 DEF HomesSettle, SyncedUnder
  <2>3. /\ homes'.vis = homes.vis /\ homes'.dur = homes.dur \cup SyncedUnder(op[p].made)
        /\ SyncedUnder(op[p].made) \subseteq homes.vis
        /\ UNCHANGED <<forsaken, runs>>
    BY <1>8, <1>a DEF SyncHome, SyncedUnder, DirectoryOf
  <2> QED
    BY <2>2, <2>3 DEF HomesSettle
<1>9. ASSUME NEW p \in Procs, OperationFails(p) \/ Abandon(p) PROVE HomesSettle'
  <2>1. /\ forsaken' = forsaken \cup (SyncedUnder(op[p].made) \ homes.dur)
        /\ \A q \in Procs : q # p => pc'[q] = pc[q] /\ op'[q] = op[q]
        /\ UNCHANGED <<homes, runs>>
    BY <1>9, <1>a DEF OperationFails, Abandon, Forsake
  <2>2. ASSUME NEW home \in homes.vis \ (homes.dur \cup forsaken')
        PROVE  \E q \in Procs : InHomes(q)' /\ op'[q].made = Parent(home)
    <3>1. PICK q \in Procs : InHomes(q) /\ op[q].made = Parent(home)
      BY <2>1 DEF HomesSettle
    <3>2. q # p
      BY <2>1, <3>1 DEF SyncedUnder
    <3> QED
      BY <2>1, <3>1, <3>2 DEF InHomes
  <2> QED
    BY <2>1, <2>2 DEF HomesSettle
<1>10. CASE PowerLoss
  <2>1. /\ homes'.vis = homes'.dur
        /\ \A t \in runs'.vis : HomesOf(t) \subseteq homes'.vis
    BY <1>10, <1>a, RunsLeft
  <2> QED
    BY <2>1 DEF HomesSettle
<1>11. ASSUME UNCHANGED vars PROVE HomesKept
  BY <1>11 DEF vars, HomesKept, InHomes
<1> HIDE FileShapes
<1>12. HomesKept => HomesSettle'
  BY <1>a, KeptHomesSettle
<1> QED
  BY ONLY [Next]_vars, <1>1, <1>2, <1>3, <1>4, <1>5, <1>6, <1>7, <1>8, <1>9, <1>10, <1>11,
     <1>12
     DEF Next, ProcessStep, DirectorySteps, OwnerSteps

LEMMA DurableStep ==
  TypeInv /\ SlotInv /\ HomesSettle /\ DurableInv /\ [Next]_vars => DurableInv'
<1> SUFFICES ASSUME TypeInv, SlotInv, HomesSettle, DurableInv, [Next]_vars PROVE DurableInv'
  OBVIOUS
<1>a. /\ pc \in [Procs -> Steps \cup Unlocked]
      /\ op \in [Procs -> [target : Targets \cup {NoTarget}, chain : Chains,
           cause : Causes \cup {"none"},
           made : {"none", "operations", "publications", "digests", "links"}]]
      /\ owner \in [Procs -> [target : Targets \cup {NoTarget}, chain : Chains,
              phase : {"none", "acquired", "consumed", "started", "closed"}]]
      /\ closure \in [Procs -> Targets \cup {NoTarget}]
  BY DEF TypeInv, TypeOK, OpType, OwnerType
<1>b. /\ InterlockSettles /\ ClaimsOnHistory /\ OwnersInSlot /\ LinksSettle /\ RunsSettle
      /\ ClearingJustified /\ ReleaseJustified /\ ReceiptsJustified /\ AdmissionProven
      /\ LockHeld /\ ClaimFiles /\ AcquiringFresh /\ ClosuresRun /\ OwnersExclusive
      /\ SpentIsClaimed
  BY DEF DurableInv, SlotInv
<1>c. /\ claims.dur \subseteq claims.vis /\ ops.dur \subseteq ops.vis
      /\ runs.dur \subseteq runs.vis
      /\ releases.dur \subseteq releases.vis /\ receipts.dur \subseteq receipts.vis
  BY <1>b DEF ClaimFiles, LinksSettle, RunsSettle
<1>d. /\ \A p, q \in Procs : pc[p] \in Steps /\ pc[q] \in Steps => p = q
      /\ lock = NoProc => \A q \in Procs : pc[q] \notin Steps
  BY <1>b, TargetAssumption DEF LockHeld
<1>e. /\ boot \in Boots /\ boot \in Int
      /\ interlock.vis \in Chains /\ interlock.may \subseteq Chains
      /\ \A c \in claims.vis : c.target \in Targets /\ c.chain \in Chains /\ c.chain # <<>>
                                /\ c = [target |-> c.target, chain |-> c.chain]
      /\ \A q \in Procs : op[q].chain \in Chains /\ owner[q].chain \in Chains
  BY DEF TypeInv, TypeOK, DirectoryOf, ClaimType, OpType, OwnerType, Boots
<1> USE FileShapes, TargetAssumption DEF disk, runTree, memory, history, children, Steps
<1>1. ASSUME NEW p \in Procs, NEW t \in Targets, Acquire(p, t) PROVE DurableInv'
  <2>1. /\ InterlockSettles' /\ ClaimsOnHistory' /\ OwnersInSlot'
        /\ LinksSettle' /\ RunsSettle'
    BY <1>1, <1>a, <1>b, <1>c, <1>d DEF Acquire, Begin, NoOp, InterlockSettles,
       ClaimsOnHistory, OwnersInSlot, InSlot, Active, HeldNow, LinksSettle, RunsSettle
  <2>2. ClearingJustified' /\ ReleaseJustified' /\ ReceiptsJustified' /\ AdmissionProven'
    BY <1>1, <1>a, <1>b, <1>c, <1>d DEF Acquire, Begin, NoOp, ClearingJustified, InSlot,
       Active, Claimed, ReleaseJustified, ReceiptsJustified,
       AdmissionProven, Proven, Sheltered
  <2> QED
    BY <2>1, <2>2 DEF DurableInv
<1>2. ASSUME NEW p \in Procs, NEW t \in Targets, Resume(p, t) PROVE DurableInv'
  <2>1. /\ InterlockSettles' /\ ClaimsOnHistory' /\ OwnersInSlot'
        /\ LinksSettle' /\ RunsSettle'
    BY <1>2, <1>a, <1>b, <1>c, <1>d DEF Resume, Begin, NoOp, InterlockSettles,
       ClaimsOnHistory, OwnersInSlot, InSlot, Active, HeldNow, LinksSettle, RunsSettle
  <2>2. ClearingJustified' /\ ReleaseJustified' /\ ReceiptsJustified' /\ AdmissionProven'
    BY <1>2, <1>a, <1>b, <1>c, <1>d DEF Resume, Begin, NoOp, ClearingJustified, InSlot,
       Active, Claimed, ReleaseJustified, ReceiptsJustified,
       AdmissionProven, Proven, Sheltered
  <2> QED
    BY <2>1, <2>2 DEF DurableInv
<1>3. ASSUME NEW p \in Procs, Admit(p) PROVE DurableInv'
  <2>1. ClaimsOnHistory' /\ OwnersInSlot' /\ LinksSettle' /\ RunsSettle'
    BY <1>3, <1>a, <1>b, <1>c, <1>d DEF Admit, ClaimsOnHistory, OwnersInSlot, InSlot,
       Active, HeldNow, LinksSettle, RunsSettle
  <2>2. ClearingJustified' /\ ReleaseJustified' /\ ReceiptsJustified'
    BY <1>3, <1>a, <1>b, <1>c, <1>d DEF Admit, ClearingJustified, InSlot, Active, Claimed,
       ReleaseJustified, ReceiptsJustified
  <2>3. InterlockSettles'
    <3>1. op'[p].chain = Append(interlock.vis, Held(op[p].target, boot))
      BY <1>3, <1>a DEF Admit
    <3>2. op[p].target \in Targets
      BY <1>3 DEF Admit, TypeInv, OperationsNamed
    <3>3. Current(op'[p].chain).boot = boot
      BY ONLY <3>1, <3>2, <1>e, HeldAppended
    <3> QED
      BY <1>3, <1>a, <1>b, <1>e, <3>3 DEF Admit, InterlockSettles
  <2>4. AdmissionProven'
    <3>1. op'[p].chain = Append(interlock.vis, Held(op[p].target, boot))
          /\ \A q \in Procs : q # p => op'[q] = op[q]
      BY <1>3, <1>a DEF Admit
    <3>2. op[p].target \in Targets
      BY <1>3 DEF Admit, TypeInv, OperationsNamed
    <3>3. Replaced(op'[p].chain) = interlock.vis
      BY ONLY <3>1, <3>2, <1>e, HeldEntry, ReplacedAppended
    <3>4. receipts.dur \subseteq receipts'.dur
      BY <1>3, <1>c DEF Admit
    <3>5. ASSUME interlock.vis # <<>>
          PROVE  "receipts" \in ops.vis /\ \E r \in receipts'.dur : r.clear = interlock.vis
      BY <1>3, <3>5 DEF Admit, Admissible, ReceiptExact, DirectoriesReady, Directories
    <3>6. Proven(op[p].chain)' /\ Sheltered(op'[p].chain, ops.vis)
      BY <3>3, <3>5 DEF Proven, Sheltered
    <3>7. /\ pc'[p] = "heldRename" /\ \A q \in Procs : q # p => pc'[q] = pc[q]
          /\ UNCHANGED <<owner, ops>>
      BY <1>3, <1>a DEF Admit
    <3>8. ASSUME NEW chain, Proven(chain)

          PROVE  Replaced(chain) # <<>> => \E r \in receipts'.dur : r.clear = Replaced(chain)
      BY <3>4, <3>8 DEF Proven
    <3>9. ASSUME NEW q \in Procs, q # p
          PROVE  pc'[q] = pc[q] /\ op'[q].chain = op[q].chain
      BY <3>1, <3>7, <3>9
    <3> QED
      BY <1>b, <3>6, <3>7, <3>8, <3>9 DEF AdmissionProven, Proven, Sheltered
  <2> QED
    BY <2>1, <2>2, <2>3, <2>4 DEF DurableInv
<1>4. ASSUME NEW p \in Procs, Refuse(p) PROVE DurableInv'
  <2>1. /\ InterlockSettles' /\ ClaimsOnHistory' /\ OwnersInSlot'
        /\ LinksSettle' /\ RunsSettle'
    BY <1>4, <1>a, <1>b, <1>c, <1>d DEF Refuse, Return, NoOp, InterlockSettles,
       ClaimsOnHistory, OwnersInSlot, InSlot, Active, HeldNow, LinksSettle, RunsSettle
  <2>2. ClearingJustified' /\ ReleaseJustified' /\ ReceiptsJustified' /\ AdmissionProven'
    BY <1>4, <1>a, <1>b, <1>c, <1>d DEF Refuse, Return, NoOp, ClearingJustified, InSlot,
       Active, Claimed, ReleaseJustified, ReceiptsJustified,
       AdmissionProven, Proven, Sheltered
  <2> QED
    BY <2>1, <2>2 DEF DurableInv
<1>5. ASSUME NEW p \in Procs, HeldRename(p) PROVE DurableInv'
  <2>1. InterlockSettles' /\ LinksSettle' /\ RunsSettle'
    BY <1>5, <1>a, <1>b, <1>c, <1>d DEF HeldRename, Continue, InterlockSettles, LinksSettle,
       RunsSettle
  <2>2. ClearingJustified' /\ ReleaseJustified' /\ ReceiptsJustified' /\ AdmissionProven'
    BY <1>5, <1>a, <1>b, <1>c, <1>d DEF HeldRename, Continue, ClearingJustified, InSlot,
       Active, Claimed, ReleaseJustified, ReceiptsJustified,
       AdmissionProven, Proven, Sheltered
  <2>3. ClaimsOnHistory'
    <3>1. op[p].target \in Targets
      BY <1>5 DEF HeldRename, TypeInv, OperationsNamed
    <3>2. op[p].chain = Append(interlock.vis, Held(op[p].target, boot))
      BY <1>5, <1>b DEF HeldRename, AcquiringFresh
    <3>3. \A c \in claims.vis : c.chain \in Chains /\ IsPrefixOf(c.chain, interlock.vis)
      BY <1>b, <1>e DEF ClaimsOnHistory, InterlockSettles
    <3>4. \A c \in claims.vis : IsPrefixOf(c.chain, op[p].chain)
      BY ONLY <3>1, <3>2, <3>3, <1>e, HeldEntry, PrefixAppended
    <3>5. claims' = claims /\ interlock'.may = interlock.may \cup {op[p].chain}
      BY <1>5 DEF HeldRename
    <3> QED
      BY <1>b, <3>4, <3>5 DEF ClaimsOnHistory
  <2>4. OwnersInSlot'
    <3>1. \A q \in Procs : ~InSlot(q)
      BY <1>5, <1>b DEF HeldRename, AcquiringFresh, OwnersInSlot, HeldNow
    <3> QED
      BY <1>5, <1>b, <3>1 DEF HeldRename, Continue, OwnersInSlot, InSlot
  <2> QED
    BY <2>1, <2>2, <2>3, <2>4 DEF DurableInv
<1>6. ASSUME NEW p \in Procs, HeldSync(p) PROVE DurableInv'
  <2>1. LinksSettle' /\ RunsSettle'
    BY <1>6, <1>a, <1>b, <1>c, <1>d DEF HeldSync, Continue, SyncOperations, LinksSettle,
       RunsSettle
  <2>2. ClearingJustified' /\ ReleaseJustified' /\ ReceiptsJustified' /\ AdmissionProven'
    BY <1>6, <1>a, <1>b, <1>c, <1>d DEF HeldSync, Continue, SyncOperations,
       ClearingJustified, InSlot, Active, Claimed, ReleaseJustified, ReceiptsJustified,
       AdmissionProven, Proven, Sheltered
  <2>3. InterlockSettles'
    <3>1. interlock.vis = op[p].chain
      BY <1>6, <1>b DEF HeldSync, AcquiringFresh
    <3> QED
      BY <1>6, <1>a, <1>b, <1>d, <3>1 DEF HeldSync, Continue, SyncOperations,
         InterlockSettles
  <2>4. ClaimsOnHistory'
    BY <1>6, <1>b DEF HeldSync, Continue, SyncOperations, ClaimsOnHistory, InterlockSettles
  <2>5. OwnersInSlot'
    BY <1>6, <1>b
       DEF HeldSync, Continue, SyncOperations, OwnersInSlot, InSlot, HeldNow,
       InterlockSettles
  <2> QED
    BY <2>1, <2>2, <2>3, <2>4, <2>5 DEF DurableInv
<1>7. ASSUME NEW p \in Procs, ClaimLink(p) PROVE DurableInv'
  <2>1. InterlockSettles' /\ OwnersInSlot' /\ LinksSettle' /\ RunsSettle'
    BY <1>7, <1>a, <1>b, <1>c, <1>d DEF ClaimLink, Continue, InterlockSettles, OwnersInSlot,
       InSlot, Active, HeldNow, LinksSettle, RunsSettle
  <2>2. ClearingJustified' /\ ReleaseJustified' /\ ReceiptsJustified' /\ AdmissionProven'
    BY <1>7, <1>a, <1>b, <1>c, <1>d DEF ClaimLink, Continue, ClearingJustified, InSlot,
       Active, Claimed, ReleaseJustified, ReceiptsJustified,
       AdmissionProven, Proven, Sheltered
  <2>3. ClaimsOnHistory'
    <3> DEFINE new == Claim(op[p].target, op[p].chain)
    <3>1. claims'.vis = claims.vis \cup {new} /\ interlock' = interlock
      BY <1>7 DEF ClaimLink
    <3>2. \A c \in claims.vis : c.target # new.target
      BY <1>7, <1>b DEF ClaimLink, AcquiringFresh, Claimed, Claim
    <3>3. interlock.may = {new.chain} /\ new.chain \in Chains
      BY <1>7, <1>b, <1>e DEF ClaimLink, InterlockSettles, Claim
    <3>4. IsPrefixOf(new.chain, new.chain)
      BY <3>3, PrefixSelf
    <3> HIDE DEF new
    <3> QED
      BY <1>b, <3>1, <3>2, <3>3, <3>4 DEF ClaimsOnHistory
  <2> QED
    BY <2>1, <2>2, <2>3 DEF DurableInv
<1>8. ASSUME NEW p \in Procs, ClaimSync(p) PROVE DurableInv'
  <2>1. InterlockSettles' /\ ClaimsOnHistory' /\ LinksSettle' /\ RunsSettle'
    BY <1>8, <1>a, <1>b, <1>c, <1>d DEF ClaimSync, Return, NoOp, InterlockSettles,
       ClaimsOnHistory, LinksSettle, RunsSettle
  <2>2. ClearingJustified' /\ ReleaseJustified' /\ ReceiptsJustified' /\ AdmissionProven'
    BY <1>8, <1>a, <1>b, <1>c, <1>d DEF ClaimSync, Return, NoOp, ClearingJustified, InSlot,
       Active, Claimed, ReleaseJustified, ReceiptsJustified,
       AdmissionProven, Proven, Sheltered
  <2>3. OwnersInSlot'
    <3>1. claims'.dur = claims.vis /\ UNCHANGED <<boot, interlock, runs>>
      BY <1>8 DEF ClaimSync
    <3>2. /\ \A q \in Procs : q # p => owner'[q] = owner[q]
          /\ owner'[p].target = op[p].target /\ owner'[p].chain = op[p].chain
      BY <1>8, <1>a DEF ClaimSync
    <3>3. /\ Claim(op[p].target, op[p].chain) \in claims.vis
          /\ HeldNow(op[p].target) /\ interlock.may = {op[p].chain}
      BY <1>8, <1>b DEF ClaimSync, AcquiringFresh, InterlockSettles
    <3>4. ASSUME NEW q \in Procs, q # p
          PROVE  /\ owner'[q].phase # "none" =>
                       Claim(owner'[q].target, owner'[q].chain) \in claims'.dur
                 /\ InSlot(q)' => HeldNow(owner[q].target)' /\ interlock'.may = {owner'[q].chain}
      BY <1>b, <1>c, <3>1, <3>2, <3>4 DEF OwnersInSlot, InSlot, HeldNow
    <3>5. HeldNow(owner[p].target)' /\ interlock'.may = {owner'[p].chain}
      BY <3>1, <3>2, <3>3 DEF HeldNow
    <3> QED
      BY <3>1, <3>2, <3>3, <3>4, <3>5 DEF OwnersInSlot
  <2> QED
    BY <2>1, <2>2, <2>3 DEF DurableInv
<1>9. ASSUME NEW p \in Procs, ReconcileNoClaim(p) PROVE DurableInv'
  <2>1. /\ InterlockSettles' /\ ClaimsOnHistory' /\ OwnersInSlot'
        /\ LinksSettle' /\ RunsSettle'
    BY <1>9, <1>a, <1>b, <1>c, <1>d DEF ReconcileNoClaim, InterlockSettles, ClaimsOnHistory,
       OwnersInSlot, InSlot, Active, HeldNow, LinksSettle, RunsSettle
  <2>2. ClearingJustified' /\ ReleaseJustified' /\ ReceiptsJustified' /\ AdmissionProven'
    BY <1>9, <1>a, <1>b, <1>c, <1>d DEF ReconcileNoClaim, ClearingJustified, InSlot, Active,
       Claimed, ReleaseJustified, ReceiptsJustified, AdmissionProven,
       Proven, Sheltered
  <2> QED
    BY <2>1, <2>2 DEF DurableInv
<1>10. ASSUME NEW p \in Procs, Consume(p) PROVE DurableInv'
  <2>1. /\ InterlockSettles' /\ ClaimsOnHistory' /\ OwnersInSlot'
        /\ LinksSettle' /\ RunsSettle'
    BY <1>10, <1>a, <1>b, <1>c, <1>d DEF Consume, InterlockSettles, ClaimsOnHistory,
       OwnersInSlot, InSlot, Active, HeldNow, LinksSettle, RunsSettle
  <2>2. ClearingJustified' /\ ReleaseJustified' /\ AdmissionProven'
    BY <1>10, <1>a, <1>b, <1>c, <1>d DEF Consume, ClearingJustified, InSlot, Active,
       Claimed, ReleaseJustified, AdmissionProven, Proven, Sheltered
  <2>3. ReceiptsJustified'
    <3>1. \A r \in receipts.vis : starts[r.run] > 0 => starts'[r.run] > 0
      <4>1. owner[p].target \in Targets /\ starts \in [Targets -> Nat]
        BY <1>10 DEF Consume, TypeInv, TypeOK, OwnersNamed
      <4>2. starts' = [starts EXCEPT ![owner[p].target] = @ + 1]
        BY <1>10 DEF Consume
      <4> QED
        BY ONLY <4>1, <4>2
    <3>2. UNCHANGED <<boot, receipts, releases, claims, runs, forsaken>>
      BY <1>10 DEF Consume
    <3> QED
      BY <1>b, <3>1, <3>2 DEF ReceiptsJustified
  <2> QED
    BY <2>1, <2>2, <2>3 DEF DurableInv
<1>11. ASSUME NEW p \in Procs, StartSubject(p) PROVE DurableInv'
  <2>1. /\ InterlockSettles' /\ ClaimsOnHistory' /\ OwnersInSlot'
        /\ LinksSettle' /\ RunsSettle'
    BY <1>11, <1>a, <1>b, <1>c, <1>d DEF StartSubject, InterlockSettles, ClaimsOnHistory,
       OwnersInSlot, InSlot, Active, HeldNow, LinksSettle, RunsSettle
  <2>2. ClearingJustified' /\ ReleaseJustified' /\ ReceiptsJustified' /\ AdmissionProven'
    BY <1>11, <1>a, <1>b, <1>c, <1>d DEF StartSubject, ClearingJustified, InSlot, Active,
       Claimed, ReleaseJustified, ReceiptsJustified, AdmissionProven,
       Proven, Sheltered
  <2> QED
    BY <2>1, <2>2 DEF DurableInv
<1>12. ASSUME NEW p \in Procs, StartError(p) PROVE DurableInv'
  <2>1. /\ InterlockSettles' /\ ClaimsOnHistory' /\ OwnersInSlot'
        /\ LinksSettle' /\ RunsSettle'
    BY <1>12, <1>a, <1>b, <1>c, <1>d DEF StartError, InterlockSettles, ClaimsOnHistory,
       OwnersInSlot, InSlot, Active, HeldNow, LinksSettle, RunsSettle
  <2>2. ClearingJustified' /\ ReleaseJustified' /\ ReceiptsJustified' /\ AdmissionProven'
    BY <1>12, <1>a, <1>b, <1>c, <1>d DEF StartError, ClearingJustified, InSlot, Active,
       Claimed, ReleaseJustified, ReceiptsJustified, AdmissionProven,
       Proven, Sheltered
  <2> QED
    BY <2>1, <2>2 DEF DurableInv
<1>13. ASSUME NEW p \in Procs, CloseSubject(p) PROVE DurableInv'
  <2>1. /\ InterlockSettles' /\ ClaimsOnHistory' /\ OwnersInSlot'
        /\ LinksSettle' /\ RunsSettle'
    BY <1>13, <1>a, <1>b, <1>c, <1>d DEF CloseSubject, InterlockSettles, ClaimsOnHistory,
       OwnersInSlot, InSlot, Active, HeldNow, LinksSettle, RunsSettle
  <2>2. ClearingJustified' /\ ReleaseJustified' /\ ReceiptsJustified' /\ AdmissionProven'
    BY <1>13, <1>a, <1>b, <1>c, <1>d DEF CloseSubject, ClearingJustified, InSlot, Active,
       Claimed, ReleaseJustified, ReceiptsJustified, AdmissionProven,
       Proven, Sheltered
  <2> QED
    BY <2>1, <2>2 DEF DurableInv
<1>14. ASSUME NEW p \in Procs, PersistRun(p) PROVE DurableInv'
  <2>1. /\ InterlockSettles' /\ ClaimsOnHistory' /\ OwnersInSlot'
        /\ LinksSettle' /\ RunsSettle'
    BY <1>14, <1>a, <1>b, <1>c, <1>d DEF PersistRun, Begin, NoOp, InterlockSettles,
       ClaimsOnHistory, OwnersInSlot, InSlot, Active, HeldNow, LinksSettle, RunsSettle
  <2>2. ClearingJustified' /\ ReleaseJustified' /\ ReceiptsJustified' /\ AdmissionProven'
    BY <1>14, <1>a, <1>b, <1>c, <1>d DEF PersistRun, Begin, NoOp, ClearingJustified, InSlot,
       Active, Claimed, ReleaseJustified, ReceiptsJustified,
       AdmissionProven, Proven, Sheltered
  <2> QED
    BY <2>1, <2>2 DEF DurableInv
<1>15. ASSUME NEW p \in Procs, RunLink(p) PROVE DurableInv'
  <2>1. /\ InterlockSettles' /\ ClaimsOnHistory' /\ OwnersInSlot'
        /\ LinksSettle' /\ RunsSettle'
    BY <1>15, <1>a, <1>b, <1>c, <1>d DEF RunLink, Continue, InterlockSettles,
       ClaimsOnHistory, OwnersInSlot, InSlot, Active, HeldNow, LinksSettle, RunsSettle
  <2>2. ClearingJustified' /\ ReleaseJustified' /\ ReceiptsJustified' /\ AdmissionProven'
    BY <1>15, <1>a, <1>b, <1>c, <1>d DEF RunLink, Continue, ClearingJustified, InSlot,
       Active, Claimed, ReleaseJustified, ReceiptsJustified,
       AdmissionProven, Proven, Sheltered
  <2> QED
    BY <2>1, <2>2 DEF DurableInv
<1>16. ASSUME NEW p \in Procs, RunSync(p) PROVE DurableInv'
  <2>1. InterlockSettles' /\ ClaimsOnHistory' /\ OwnersInSlot' /\ LinksSettle'
    BY <1>16, <1>a, <1>b, <1>c, <1>d DEF RunSync, Return, NoOp, InterlockSettles,
       ClaimsOnHistory, OwnersInSlot, InSlot, Active, HeldNow, LinksSettle
  <2>2. ClearingJustified' /\ ReleaseJustified' /\ ReceiptsJustified' /\ AdmissionProven'
    BY <1>16, <1>a, <1>b, <1>c, <1>d DEF RunSync, Return, NoOp, ClearingJustified, InSlot,
       Active, Claimed, ReleaseJustified, ReceiptsJustified,
       AdmissionProven, Proven, Sheltered
  <2>3. RunsSettle'
    <3>1. op[p].target \in runs.vis
      BY <1>16, <1>b DEF RunSync, ClosuresRun
    <3> QED
      BY <1>16, <1>a, <1>b, <1>c, <3>1 DEF RunSync, Return, RunsSettle
  <2> QED
    BY <2>1, <2>2, <2>3 DEF DurableInv
<1>17. ASSUME NEW p \in Procs, ResumeReleased(p) PROVE DurableInv'
  <2>1. /\ InterlockSettles' /\ ClaimsOnHistory' /\ OwnersInSlot'
        /\ LinksSettle' /\ RunsSettle'
    BY <1>17, <1>a, <1>b, <1>c, <1>d DEF ResumeReleased, Return, NoOp, InterlockSettles,
       ClaimsOnHistory, OwnersInSlot, InSlot, Active, HeldNow, LinksSettle, RunsSettle
  <2>2. ClearingJustified' /\ ReleaseJustified' /\ ReceiptsJustified' /\ AdmissionProven'
    BY <1>17, <1>a, <1>b, <1>c, <1>d DEF ResumeReleased, Return, NoOp, ClearingJustified,
       InSlot, Active, Claimed, ReleaseJustified, ReceiptsJustified,
       AdmissionProven, Proven, Sheltered
  <2> QED
    BY <2>1, <2>2 DEF DurableInv
<1>18. ASSUME NEW p \in Procs, OpenClosure(p) PROVE DurableInv'
  <2>1. /\ InterlockSettles' /\ ClaimsOnHistory' /\ OwnersInSlot'
        /\ LinksSettle' /\ RunsSettle'
    BY <1>18, <1>a, <1>b, <1>c, <1>d DEF OpenClosure, Return, NoOp, InterlockSettles,
       ClaimsOnHistory, OwnersInSlot, InSlot, Active, HeldNow, LinksSettle, RunsSettle
  <2>2. ClearingJustified' /\ ReleaseJustified' /\ ReceiptsJustified' /\ AdmissionProven'
    BY <1>18, <1>a, <1>b, <1>c, <1>d DEF OpenClosure, Return, NoOp, ClearingJustified,
       InSlot, Active, Claimed, ReleaseJustified, ReceiptsJustified,
       AdmissionProven, Proven, Sheltered
  <2> QED
    BY <2>1, <2>2 DEF DurableInv
<1>19. ASSUME NEW p \in Procs, ReleaseHeld(p) PROVE DurableInv'
  <2>1. ClaimsOnHistory' /\ OwnersInSlot' /\ LinksSettle' /\ RunsSettle'
    BY <1>19, <1>a, <1>b, <1>c, <1>d DEF ReleaseHeld, Begin, NoOp, ClaimsOnHistory,
       OwnersInSlot, InSlot, Active, HeldNow, LinksSettle, RunsSettle
  <2>2. ReleaseJustified' /\ ReceiptsJustified' /\ AdmissionProven'
    BY <1>19, <1>a, <1>b, <1>c, <1>d DEF ReleaseHeld, Begin, NoOp, ReleaseJustified,
       ReceiptsJustified, AdmissionProven, Proven, Sheltered
  <2>3. InterlockSettles'
    <3>1. interlock.vis # <<>>
      BY <1>19, <1>b DEF ReleaseHeld, ClaimFiles, IsHeld, Claim
    <3>2. Current(interlock.vis).boot <= boot /\ Current(interlock.vis).boot \in Boots
      BY <1>b, <1>e, <3>1, CurrentEntry, EntryBoot DEF InterlockSettles
    <3>3. /\ op'[p].chain = Append(interlock.vis, Clear(Current(interlock.vis).boot))
          /\ \A q \in Procs : q # p => op'[q] = op[q]
          /\ pc' = [pc EXCEPT ![p] = "clearRename"]
          /\ UNCHANGED <<interlock, boot>>
      BY <1>19, <1>a DEF ReleaseHeld, Begin, NoOp
    <3>4. Current(op'[p].chain).boot <= boot
      BY <1>e, <3>2, <3>3, ClearEntry, CurrentAppended DEF Clear
    <3> QED
      BY <1>a, <1>b, <3>3, <3>4 DEF InterlockSettles
  <2>4. ClearingJustified'
    <3>1. Claim(closure[p], interlock.vis) \in claims.vis /\ closure[p] \in runs.vis
          /\ closure[p] \in runs.dur
      BY <1>19, <1>b DEF ReleaseHeld, ClosuresRun, RunsSettle
    <3>2. Claim(closure[p], interlock.vis) \in claims.dur
      BY <1>b, <3>1, ClaimOfRun DEF Claim
    <3>3. IsHeld(interlock.vis) /\ Current(interlock.vis).target = closure[p]
      BY <1>b, <3>1 DEF ClaimFiles, Claim
    <3>4. Current(interlock.vis).boot \in Boots
      BY <1>e, <3>3, HeldTarget
    <3>5. \A q \in Procs : ~InSlot(q)
      BY <1>b, <3>1, <3>3 DEF OwnersInSlot, OwnersExclusive, InSlot, HeldNow
    <3>6. /\ op'[p].chain = Append(interlock.vis, Clear(Current(interlock.vis).boot))
          /\ op'[p].target = closure[p] /\ op'[p].cause = "FINALIZED_RUN"
          /\ \A q \in Procs : q # p => op'[q] = op[q] /\ pc'[q] = pc[q]
          /\ UNCHANGED <<interlock, boot, claims, runs, owner>>
      BY <1>19, <1>a DEF ReleaseHeld, Begin, NoOp
    <3>7. \A q \in Procs : q # p => pc'[q] # "clearRename"
      BY <1>19, <1>d, <3>6 DEF ReleaseHeld, Begin
    <3> QED
      BY <3>1, <3>2, <3>3, <3>4, <3>5, <3>6, <3>7 DEF ClearingJustified, InSlot
  <2> QED
    BY <2>1, <2>2, <2>3, <2>4 DEF DurableInv
<1>20. ASSUME NEW p \in Procs, ReleaseAlreadyClear(p) PROVE DurableInv'
  <2>1. InterlockSettles'
    BY <1>20, <1>a, <1>b, <1>c, <1>d DEF ReleaseAlreadyClear, Begin, NoOp, InterlockSettles
  <2>2. OwnersInSlot'
    BY <1>20, <1>a, <1>b, <1>c, <1>d DEF ReleaseAlreadyClear, Begin, NoOp, OwnersInSlot,
       InSlot, Active, HeldNow
  <2>3. RunsSettle'
    BY <1>20, <1>a, <1>b, <1>c, <1>d DEF ReleaseAlreadyClear, Begin, NoOp, RunsSettle
  <2>4. ClaimsOnHistory' /\ LinksSettle'
    BY <1>20, <1>a, <1>b, <1>c, <1>d DEF ReleaseAlreadyClear, Begin, NoOp, ClaimsOnHistory,
       LinksSettle
  <2>5. ClearingJustified' /\ ReceiptsJustified' /\ AdmissionProven'
    BY <1>20, <1>a, <1>b, <1>c, <1>d DEF ReleaseAlreadyClear, Begin, NoOp,
       ClearingJustified, InSlot, Active, Claimed, ReceiptsJustified,
       AdmissionProven, Proven, Sheltered
  <2>6. ReleaseJustified'
    <3>1. PICK c \in claims.vis :
            /\ c.target = closure[p]
            /\ interlock.vis = Append(c.chain, Clear(Current(c.chain).boot))
      BY <1>20 DEF ReleaseAlreadyClear
    <3>2. c.chain \in Chains /\ c.chain # <<>> /\ c = Claim(c.target, c.chain)
      BY <1>e DEF Claim
    <3>3. Replaced(interlock.vis) = c.chain
      BY ONLY <3>1, <3>2, CurrentEntry, EntryBoot, ClearEntry, ReplacedAppended
    <3>4. closure[p] \in runs.vis /\ closure[p] \in runs.dur
      BY <1>20, <1>b DEF ReleaseAlreadyClear, ClosuresRun, RunsSettle
    <3>5. c \in claims.dur
      BY <1>b, <3>1, <3>4, ClaimOfRun
    <3>6. /\ op'[p].chain = interlock.vis /\ op'[p].target = closure[p]
          /\ pc'[p] = "releaseLink"
          /\ \A q \in Procs : q # p => op'[q] = op[q] /\ pc'[q] = pc[q]
          /\ UNCHANGED <<claims, runs, releases>>
      BY <1>20, <1>a DEF ReleaseAlreadyClear, Begin, NoOp
    <3>7. Claim(closure[p], Replaced(interlock.vis)) \in claims.dur
      BY <3>1, <3>2, <3>3, <3>5
    <3> QED
      BY <1>b, <3>4, <3>6, <3>7 DEF ReleaseJustified
  <2> QED
    BY <2>1, <2>2, <2>3, <2>4, <2>5, <2>6 DEF DurableInv
<1>21. ASSUME NEW p \in Procs, ReleaseRefused(p) PROVE DurableInv'
  <2>1. /\ InterlockSettles' /\ ClaimsOnHistory' /\ OwnersInSlot'
        /\ LinksSettle' /\ RunsSettle'
    BY <1>21, <1>a, <1>b, <1>c, <1>d DEF ReleaseRefused, NoOwner, InterlockSettles,
       ClaimsOnHistory, OwnersInSlot, InSlot, Active, HeldNow, LinksSettle, RunsSettle
  <2>2. ClearingJustified' /\ ReleaseJustified' /\ ReceiptsJustified' /\ AdmissionProven'
    BY <1>21, <1>a, <1>b, <1>c, <1>d DEF ReleaseRefused, NoOwner, ClearingJustified, InSlot,
       Active, Claimed, ReleaseJustified, ReceiptsJustified,
       AdmissionProven, Proven, Sheltered
  <2> QED
    BY <2>1, <2>2 DEF DurableInv
<1>22. ASSUME NEW p \in Procs, Reset(p) PROVE DurableInv'
  <2>1. ClaimsOnHistory' /\ OwnersInSlot' /\ LinksSettle' /\ RunsSettle'
    BY <1>22, <1>a, <1>b, <1>c, <1>d DEF Reset, Begin, NoOp, ClaimsOnHistory, OwnersInSlot,
       InSlot, Active, HeldNow, LinksSettle, RunsSettle
  <2>2. ReleaseJustified' /\ ReceiptsJustified' /\ AdmissionProven'
    BY <1>22, <1>a, <1>b, <1>c, <1>d DEF Reset, Begin, NoOp, ReleaseJustified,
       ReceiptsJustified, AdmissionProven, Proven, Sheltered
  <2>3. InterlockSettles'
    <3>1. /\ op'[p].chain = Append(interlock.vis, Clear(boot))
          /\ \A q \in Procs : q # p => op'[q] = op[q]
          /\ pc' = [pc EXCEPT ![p] = "clearRename"]
          /\ UNCHANGED <<interlock, boot>>
      BY <1>22, <1>a DEF Reset, Begin, NoOp
    <3>2. Current(op'[p].chain).boot <= boot
      BY <1>e, <3>1, ClearEntry, CurrentAppended DEF Clear
    <3> QED
      BY <1>a, <1>b, <3>1, <3>2 DEF InterlockSettles
  <2>4. ClearingJustified'
    <3>1. IsHeld(interlock.vis) /\ Current(interlock.vis).boot # boot
      BY <1>22 DEF Reset
    <3>2. \A q \in Procs : ~InSlot(q)
      BY <1>b, <3>1 DEF OwnersInSlot, HeldNow
    <3>3. /\ op'[p].chain = Append(interlock.vis, Clear(boot))
          /\ op'[p].target = Current(interlock.vis).target /\ op'[p].cause = "CHANGED_BOOT"
          /\ \A q \in Procs : q # p => op'[q] = op[q] /\ pc'[q] = pc[q]
          /\ UNCHANGED <<interlock, boot, claims, runs, owner>>
      BY <1>22, <1>a DEF Reset, Begin, NoOp
    <3>4. \A q \in Procs : q # p => pc'[q] # "clearRename"
      BY <1>22, <1>d, <3>3 DEF Reset, Begin
    <3> QED
      BY <1>e, <3>1, <3>2, <3>3, <3>4 DEF ClearingJustified, InSlot
  <2> QED
    BY <2>1, <2>2, <2>3, <2>4 DEF DurableInv
<1>23. ASSUME NEW p \in Procs, ClearRename(p) PROVE DurableInv'
  <2>1. InterlockSettles' /\ LinksSettle' /\ RunsSettle'
    BY <1>23, <1>a, <1>b, <1>c, <1>d DEF ClearRename, Continue, InterlockSettles,
       LinksSettle, RunsSettle
  <2>2. ClearingJustified' /\ ReceiptsJustified' /\ AdmissionProven'
    BY <1>23, <1>a, <1>b, <1>c, <1>d DEF ClearRename, Continue, ClearingJustified, InSlot,
       Active, Claimed, ReceiptsJustified, AdmissionProven, Proven,
       Sheltered
  <2>3. ClaimsOnHistory'
    <3>1. PICK b \in Boots : op[p].chain = Append(interlock.vis, Clear(b))
      BY <1>23, <1>b DEF ClearRename, ClearingJustified
    <3>2. \A c \in claims.vis : c.chain \in Chains /\ IsPrefixOf(c.chain, interlock.vis)
      BY <1>b, <1>e DEF ClaimsOnHistory, InterlockSettles
    <3>3. \A c \in claims.vis : IsPrefixOf(c.chain, op[p].chain)
      BY ONLY <3>1, <3>2, <1>e, ClearEntry, PrefixAppended
    <3>4. claims' = claims /\ interlock'.may = interlock.may \cup {op[p].chain}
      BY <1>23 DEF ClearRename
    <3> QED
      BY <1>b, <3>3, <3>4 DEF ClaimsOnHistory
  <2>4. OwnersInSlot'
    <3>1. \A q \in Procs : ~InSlot(q)
      BY <1>23, <1>b DEF ClearRename, ClearingJustified
    <3> QED
      BY <1>23, <1>b, <3>1 DEF ClearRename, Continue, OwnersInSlot, InSlot
  <2>5. ReleaseJustified'
    <3>1. PICK b \in Boots : op[p].chain = Append(interlock.vis, Clear(b))
      BY <1>23, <1>b DEF ClearRename, ClearingJustified
    <3>2. Replaced(op[p].chain) = interlock.vis
      BY ONLY <3>1, <1>e, ClearEntry, ReplacedAppended
    <3>3. op[p].cause = "FINALIZED_RUN" =>
             op[p].target \in runs.dur /\ Claim(op[p].target, interlock.vis) \in claims.dur
      BY <1>23, <1>b DEF ClearRename, ClearingJustified
    <3>4. /\ pc' = [pc EXCEPT ![p] = "clearSync"]
          /\ UNCHANGED <<op, claims, runs, releases>>
      BY <1>23 DEF ClearRename, Continue
    <3> QED
      BY <1>a, <1>b, <3>2, <3>3, <3>4 DEF ReleaseJustified
  <2> QED
    BY <2>1, <2>2, <2>3, <2>4, <2>5 DEF DurableInv
<1>24. ASSUME NEW p \in Procs, ClearSync(p) PROVE DurableInv'
  <2>1. InterlockSettles' /\ LinksSettle' /\ RunsSettle'
    BY <1>24, <1>a, <1>b, <1>c, <1>d DEF ClearSync, Continue, SyncOperations,
       InterlockSettles, LinksSettle, RunsSettle
  <2>2. ClearingJustified' /\ ReleaseJustified' /\ ReceiptsJustified' /\ AdmissionProven'
    BY <1>24, <1>a, <1>b, <1>c, <1>d DEF ClearSync, Continue, SyncOperations,
       ClearingJustified, InSlot, Active, Claimed, ReleaseJustified, ReceiptsJustified,
       AdmissionProven, Proven, Sheltered
  <2>3. ClaimsOnHistory'
    BY <1>24, <1>b DEF ClearSync, Continue, SyncOperations, ClaimsOnHistory,
       InterlockSettles
  <2>4. OwnersInSlot'
    BY <1>24, <1>b
       DEF ClearSync, Continue, SyncOperations, OwnersInSlot, InSlot, HeldNow,
       InterlockSettles
  <2> QED
    BY <2>1, <2>2, <2>3, <2>4 DEF DurableInv
<1>25. ASSUME NEW p \in Procs, ReleaseLink(p) PROVE DurableInv'
  <2>1. /\ InterlockSettles' /\ ClaimsOnHistory' /\ OwnersInSlot'
        /\ LinksSettle' /\ RunsSettle'
    BY <1>25, <1>a, <1>b, <1>c, <1>d DEF ReleaseLink, Continue, InterlockSettles,
       ClaimsOnHistory, OwnersInSlot, InSlot, Active, HeldNow, LinksSettle, RunsSettle
  <2>2. ClearingJustified' /\ ReleaseJustified' /\ ReceiptsJustified' /\ AdmissionProven'
    BY <1>25, <1>a, <1>b, <1>c, <1>d DEF ReleaseLink, Continue, ClearingJustified, InSlot,
       Active, Claimed, ReleaseJustified, ReceiptsJustified,
       AdmissionProven, Proven, Sheltered
  <2> QED
    BY <2>1, <2>2 DEF DurableInv
<1>26. ASSUME NEW p \in Procs, ReleaseSync(p) PROVE DurableInv'
  <2>1. /\ InterlockSettles' /\ ClaimsOnHistory' /\ OwnersInSlot'
        /\ LinksSettle' /\ RunsSettle'
    BY <1>26, <1>a, <1>b, <1>c, <1>d DEF ReleaseSync, Continue, InterlockSettles,
       ClaimsOnHistory, OwnersInSlot, InSlot, Active, HeldNow, LinksSettle, RunsSettle
  <2>2. ClearingJustified' /\ ReleaseJustified' /\ ReceiptsJustified' /\ AdmissionProven'
    BY <1>26, <1>a, <1>b, <1>c, <1>d DEF ReleaseSync, Continue, ClearingJustified, InSlot,
       Active, Claimed, ReleaseJustified, ReceiptsJustified,
       AdmissionProven, Proven, Sheltered
  <2> QED
    BY <2>1, <2>2 DEF DurableInv
<1>27. ASSUME NEW p \in Procs, ReceiptLink(p) PROVE DurableInv'
  <2>1. /\ InterlockSettles' /\ ClaimsOnHistory' /\ OwnersInSlot'
        /\ LinksSettle' /\ RunsSettle'
    BY <1>27, <1>a, <1>b, <1>c, <1>d DEF ReceiptLink, Continue, InterlockSettles,
       ClaimsOnHistory, OwnersInSlot, InSlot, Active, HeldNow, LinksSettle, RunsSettle
  <2>2. ClearingJustified' /\ ReleaseJustified' /\ AdmissionProven'
    <3>1. /\ pc' = [pc EXCEPT ![p] = "receiptSync"] /\ receipts'.dur = receipts.dur
          /\ UNCHANGED <<boot, interlock, ops, claims, releases, runs, op, owner>>
      BY <1>27 DEF ReceiptLink, Continue
    <3> QED
      BY <1>a, <1>b, <3>1 DEF ClearingJustified, InSlot, Claimed, ReleaseJustified,
         AdmissionProven, Proven, Sheltered
  <2>3. ReceiptsJustified'
    <3> DEFINE receipt == Receipt(op[p].chain, op[p].cause,

                            IF op[p].cause = "FINALIZED_RUN" THEN op[p].target ELSE NoTarget)
    <3>1. receipts'.vis = receipts.vis \cup {receipt}
          /\ UNCHANGED <<boot, claims, releases, runs, starts, forsaken>>
      BY <1>27 DEF ReceiptLink
    <3>2. op[p].chain # <<>>
      BY <1>27 DEF ReceiptLink, TypeInv, OperationsNamed
    <3>3. Current(op[p].chain).boot <= boot
      BY <1>b, <3>2 DEF InterlockSettles
    <3>4. receipt.cause = "FINALIZED_RUN" =>
            /\ receipt.run \in runs.dur
            /\ Claim(receipt.run, Replaced(receipt.clear)) \in claims.dur
            /\ Release(receipt.run, Replaced(receipt.clear), receipt.clear) \in releases.dur
            /\ receipt.clear # <<>> /\ Current(receipt.clear).boot <= boot
      BY <1>27, <1>b, <3>2, <3>3 DEF ReceiptLink, ReleaseJustified, Receipt
    <3>5. receipt.cause = "FINALIZED_RUN" => starts[receipt.run] > 0
      BY <1>b, <1>c, <3>4 DEF SpentIsClaimed
    <3> HIDE DEF receipt
    <3> QED
      BY <1>b, <3>1, <3>4, <3>5 DEF ReceiptsJustified
  <2> QED
    BY <2>1, <2>2, <2>3 DEF DurableInv
<1>28. ASSUME NEW p \in Procs, ReceiptSync(p) PROVE DurableInv'
  <2>1. /\ InterlockSettles' /\ ClaimsOnHistory' /\ OwnersInSlot'
        /\ LinksSettle' /\ RunsSettle'
    BY <1>28, <1>a, <1>b, <1>c, <1>d DEF ReceiptSync, NoOp, InterlockSettles,
       ClaimsOnHistory, OwnersInSlot, InSlot, Active, HeldNow, LinksSettle, RunsSettle
  <2>2. ClearingJustified' /\ ReleaseJustified' /\ ReceiptsJustified' /\ AdmissionProven'
    BY <1>28, <1>a, <1>b, <1>c, <1>d DEF ReceiptSync, NoOp, ClearingJustified, InSlot,
       Active, Claimed, ReleaseJustified, ReceiptsJustified,
       AdmissionProven, Proven, Sheltered
  <2> QED
    BY <2>1, <2>2 DEF DurableInv
<1>29. ASSUME NEW p \in Procs, ReportReleased(p) PROVE DurableInv'
  <2>1. /\ InterlockSettles' /\ ClaimsOnHistory' /\ OwnersInSlot'
        /\ LinksSettle' /\ RunsSettle'
    BY <1>29, <1>a, <1>b, <1>c, <1>d DEF ReportReleased, NoOwner, InterlockSettles,
       ClaimsOnHistory, OwnersInSlot, InSlot, Active, HeldNow, LinksSettle, RunsSettle
  <2>2. ClearingJustified' /\ ReleaseJustified' /\ ReceiptsJustified' /\ AdmissionProven'
    BY <1>29, <1>a, <1>b, <1>c, <1>d DEF ReportReleased, NoOwner, ClearingJustified, InSlot,
       Active, Claimed, ReleaseJustified, ReceiptsJustified,
       AdmissionProven, Proven, Sheltered
  <2> QED
    BY <2>1, <2>2 DEF DurableInv
<1>30. ASSUME NEW p \in Procs, MakeDirectory(p) PROVE DurableInv'
  <2>1. /\ InterlockSettles' /\ ClaimsOnHistory' /\ OwnersInSlot'
        /\ LinksSettle' /\ RunsSettle'
    BY <1>30, <1>a, <1>b, <1>c, <1>d DEF MakeDirectory, InterlockSettles, ClaimsOnHistory,
       OwnersInSlot, InSlot, Active, HeldNow, LinksSettle, RunsSettle
  <2>2. ClearingJustified' /\ ReleaseJustified' /\ ReceiptsJustified' /\ AdmissionProven'
    <3>1. /\ \A q \in Procs : op'[q].target = op[q].target /\ op'[q].chain = op[q].chain
                                /\ op'[q].cause = op[q].cause
          /\ ops.vis \subseteq ops'.vis /\ ops'.dur = ops.dur
          /\ UNCHANGED <<boot, interlock, claims, releases, receipts, runs, pc, owner, starts,
                         forsaken>>
      BY <1>30, <1>a DEF MakeDirectory
    <3> QED
      BY <1>b, <3>1 DEF ClearingJustified, InSlot, Claimed, ReleaseJustified,
         ReceiptsJustified, AdmissionProven, Proven, Sheltered
  <2> QED
    BY <2>1, <2>2 DEF DurableInv
<1>31. ASSUME NEW p \in Procs, SyncMadeDirectory(p) PROVE DurableInv'
  <2>1. InterlockSettles' /\ LinksSettle' /\ RunsSettle'
    BY <1>31, <1>a, <1>b, <1>c, <1>d DEF SyncMadeDirectory, SyncOperations,
       InterlockSettles, LinksSettle, RunsSettle
  <2>2. ReleaseJustified' /\ ReceiptsJustified' /\ AdmissionProven'
    BY <1>31, <1>a, <1>b, <1>c, <1>d DEF SyncMadeDirectory, SyncOperations,
       ReleaseJustified, ReceiptsJustified, AdmissionProven, Proven,
       Sheltered
  <2>3. ClaimsOnHistory'
    BY <1>31, <1>b DEF SyncMadeDirectory, SyncOperations, ClaimsOnHistory, InterlockSettles
  <2>4. OwnersInSlot'
    BY <1>31, <1>b
       DEF SyncMadeDirectory, SyncOperations, OwnersInSlot, InSlot, HeldNow,
       InterlockSettles
  <2>5. ClearingJustified'
    <3>1. \A q \in Procs : op'[q].target = op[q].target /\ op'[q].chain = op[q].chain
                           /\ op'[q].cause = op[q].cause
      BY <1>31, <1>a DEF SyncMadeDirectory
    <3>2. interlock'.vis = interlock.vis /\ UNCHANGED <<boot, pc, claims, runs, owner>>
      BY <1>31 DEF SyncMadeDirectory, SyncOperations
    <3> QED
      BY <1>b, <3>1, <3>2 DEF ClearingJustified, InSlot, Claimed
  <2> QED
    BY <2>1, <2>2, <2>3, <2>4, <2>5 DEF DurableInv
<1>32. ASSUME NEW p \in Procs, OperationFails(p) PROVE DurableInv'
  <2>1. /\ InterlockSettles' /\ ClaimsOnHistory' /\ OwnersInSlot'
        /\ LinksSettle' /\ RunsSettle'
    BY <1>32, <1>a, <1>b, <1>c, <1>d DEF OperationFails, NoOp, InterlockSettles,
       ClaimsOnHistory, OwnersInSlot, InSlot, Active, HeldNow, LinksSettle, RunsSettle
  <2>2. ClearingJustified' /\ ReleaseJustified' /\ ReceiptsJustified' /\ AdmissionProven'
    BY <1>32, <1>a, <1>b, <1>c, <1>d DEF OperationFails, Forsake, NoOp,
       ClearingJustified, InSlot,
       Active, Claimed, ReleaseJustified, ReceiptsJustified,
       AdmissionProven, Proven, Sheltered
  <2> QED
    BY <2>1, <2>2 DEF DurableInv
<1>33. ASSUME NEW p \in Procs, Abandon(p) PROVE DurableInv'
  <2>1. /\ InterlockSettles' /\ ClaimsOnHistory' /\ OwnersInSlot'
        /\ LinksSettle' /\ RunsSettle'
    BY <1>33, <1>a, <1>b, <1>c, <1>d DEF Abandon, NoOp, NoOwner, InterlockSettles,
       ClaimsOnHistory, OwnersInSlot, InSlot, Active, HeldNow, LinksSettle, RunsSettle
  <2>2. ClearingJustified' /\ ReleaseJustified' /\ ReceiptsJustified' /\ AdmissionProven'
    BY <1>33, <1>a, <1>b, <1>c, <1>d DEF Abandon, Forsake, NoOp, NoOwner,
       ClearingJustified, InSlot,
       Active, Claimed, ReleaseJustified, ReceiptsJustified,
       AdmissionProven, Proven, Sheltered
  <2> QED
    BY <2>1, <2>2 DEF DurableInv
<1>34. ASSUME PowerLoss PROVE DurableInv'
  <2>0. /\ runs \in DirectoryOf(Targets) /\ homes \in DirectoryOf(Homes)
        /\ runs'.vis = runs'.dur
    BY <1>34, RunsLeft DEF TypeInv, TypeOK
  <2>1. OwnersInSlot' /\ RunsSettle'
    BY <1>34, <2>0 DEF PowerLoss, NoOp, NoOwner, OwnersInSlot, InSlot, Active, RunsSettle
  <2>2. ClearingJustified' /\ ReleaseJustified' /\ AdmissionProven'
    BY <1>34, <1>a, <1>b, <1>c, <1>d DEF PowerLoss, NoOp, NoOwner, Surviving,
       AfterPowerLoss, FileAfterPowerLoss, ReplaceableFile, ClearingJustified, InSlot,
       Active, Claimed, ReleaseJustified, AdmissionProven, Proven, Sheltered
  <2>3. InterlockSettles'
    <3>1. boot' = boot + 1 /\ op' = [q \in Procs |-> NoOp] /\ pc' = [q \in Procs |-> "idle"]
      BY <1>34 DEF PowerLoss
    <3>2. PICK chain \in interlock.may : interlock' = [vis |-> chain, may |-> {chain}]
      BY <1>34 DEF PowerLoss, FileAfterPowerLoss, ReplaceableFile
    <3>3. chain # <<>> => Current(chain).boot \in Int /\ Current(chain).boot <= boot
      BY <1>b, <1>e, CurrentEntry, EntryBoot DEF InterlockSettles, Boots
    <3> QED
      BY <1>e, <3>1, <3>2, <3>3 DEF InterlockSettles, NoOp
  <2>4. ClaimsOnHistory'
    <3>1. interlock'.may \subseteq interlock.may
      BY <1>34 DEF PowerLoss, FileAfterPowerLoss, ReplaceableFile
    <3>2. claims'.vis \subseteq claims.vis
      BY <1>34, SurvivingEntries DEF PowerLoss, Surviving, EmptyDirectory
    <3> QED
      BY <1>b, <3>1, <3>2 DEF ClaimsOnHistory
  <2>5. LinksSettle'
    BY <1>34, SurvivingEntries DEF PowerLoss, Surviving, EmptyDirectory, LinksSettle
  <2>6. ReceiptsJustified'
    <3>1. boot' = boot + 1 /\ UNCHANGED <<starts, forsaken>>
      BY <1>34 DEF PowerLoss
    <3>2. receipts'.vis \subseteq receipts.vis /\ ops.dur \subseteq ops'.vis
      BY <1>34, SurvivingEntries DEF PowerLoss, Surviving, EmptyDirectory
    <3>3. "claims" \in ops'.vis => claims.dur \subseteq claims'.dur
      BY <1>34, SurvivingEntries DEF PowerLoss, Surviving
    <3> SUFFICES ASSUME NEW r \in receipts.vis, r.cause = "FINALIZED_RUN"
                 PROVE  /\ r.run \in runs'.dur \/ HomesOf(r.run) \cap forsaken # {}
                        /\ Claim(r.run, Replaced(r.clear)) \in claims'.dur
                        /\ r.clear # <<>> /\ Current(r.clear).boot # boot'
                        /\ Current(r.clear).boot <= boot'
                        /\ starts[r.run] > 0
      BY <3>1, <3>2 DEF ReceiptsJustified
    <3>4. /\ r.run \in runs.dur \/ HomesOf(r.run) \cap forsaken # {}
          /\ Claim(r.run, Replaced(r.clear)) \in claims.dur
          /\ r.clear # <<>> /\ Current(r.clear).boot <= boot
          /\ starts[r.run] > 0
      BY <1>b DEF ReceiptsJustified
    <3>5. r.run \in Targets /\ r.clear \in Chains
      <4>1. Claim(r.run, Replaced(r.clear)) \in claims.vis
        BY <1>c, <3>4
      <4> QED
        BY <1>e, <4>1 DEF Claim, TypeInv, TypeOK, DirectoryOf, ReceiptType
    <3>6. HasClaim(r.run)
      BY <1>b, <3>4, <3>5 DEF SpentIsClaimed
    <3>7. Current(r.clear).boot \in Int
      BY <3>4, <3>5, CurrentEntry, EntryBoot DEF Boots
    <3>8. r.run \in runs.dur => r.run \in runs'.dur \/ HomesOf(r.run) \cap forsaken # {}
      <4>1. r.run \in runs.dur => HomesOf(r.run) \subseteq homes.dur \cup forsaken
        BY <1>c DEF HomesSettle
      <4>2. /\ homes.dur \subseteq homes'.vis
            /\ \A t \in runs.dur : HomesOf(t) \subseteq homes'.vis => t \in runs'.dur
        BY <1>34, <2>0, RunsLeft
      <4> QED
        BY <4>1, <4>2
    <3> QED
      BY <1>e, <3>1, <3>2, <3>3, <3>4, <3>6, <3>7, <3>8 DEF HasClaim
  <2> QED
    BY <2>1, <2>2, <2>3, <2>4, <2>5, <2>6 DEF DurableInv
<1>35. CASE UNCHANGED vars
  BY <1>35, <1>b DEF vars, DurableInv, InterlockSettles, ClaimsOnHistory, OwnersInSlot,
     InSlot, HeldNow, LinksSettle, RunsSettle, ClearingJustified, Claimed, ReleaseJustified,
     ReceiptsJustified, AdmissionProven, Proven, Sheltered
<1>36. ASSUME NEW p \in Procs, NEW t \in Targets, ResumeEarly(p, t) PROVE DurableInv'
  <2>1. /\ InterlockSettles' /\ ClaimsOnHistory' /\ OwnersInSlot'
        /\ LinksSettle' /\ RunsSettle'
    BY <1>36, <1>a, <1>b, <1>c, <1>d DEF ResumeEarly, Begin, NoOp, InterlockSettles,
       ClaimsOnHistory, OwnersInSlot, InSlot, Active, HeldNow, LinksSettle, RunsSettle
  <2>2. ClearingJustified' /\ ReleaseJustified' /\ ReceiptsJustified' /\ AdmissionProven'
    BY <1>36, <1>a, <1>b, <1>c, <1>d DEF ResumeEarly, Begin, NoOp, ClearingJustified,
       InSlot,
       Active, Claimed, ReleaseJustified, ReceiptsJustified, AdmissionProven, Proven,
       Sheltered
  <2> QED
    BY <2>1, <2>2 DEF DurableInv
<1>37. ASSUME NEW p \in Procs, ResumeAbsent(p) PROVE DurableInv'
  <2>1. /\ InterlockSettles' /\ ClaimsOnHistory' /\ OwnersInSlot'
        /\ LinksSettle' /\ RunsSettle'
    BY <1>37, <1>a, <1>b, <1>c, <1>d DEF ResumeAbsent, Return, NoOp, InterlockSettles,
       ClaimsOnHistory, OwnersInSlot, InSlot, Active, HeldNow, LinksSettle, RunsSettle
  <2>2. ClearingJustified' /\ ReleaseJustified' /\ ReceiptsJustified' /\ AdmissionProven'
    BY <1>37, <1>a, <1>b, <1>c, <1>d DEF ResumeAbsent, Return, NoOp, ClearingJustified,
       InSlot,
       Active, Claimed, ReleaseJustified, ReceiptsJustified, AdmissionProven, Proven,
       Sheltered
  <2> QED
    BY <2>1, <2>2 DEF DurableInv
<1>38. ASSUME NEW p \in Procs, MakeHome(p) PROVE DurableInv'
  <2>1. /\ \A q \in Procs : op'[q].target = op[q].target /\ op'[q].chain = op[q].chain
                              /\ op'[q].cause = op[q].cause
        /\ UNCHANGED <<boot, interlock, ops, claims, releases, receipts, runs, pc, owner,
                       closure, starts, forsaken>>
    BY <1>38, <1>a DEF MakeHome
  <2>2. /\ InterlockSettles' /\ ClaimsOnHistory' /\ OwnersInSlot'
        /\ LinksSettle' /\ RunsSettle'
    BY <1>b, <2>1 DEF InterlockSettles, ClaimsOnHistory, OwnersInSlot, InSlot, HeldNow,
       LinksSettle, RunsSettle
  <2>3. ClearingJustified' /\ ReleaseJustified' /\ ReceiptsJustified' /\ AdmissionProven'
    BY <1>b, <2>1 DEF ClearingJustified, InSlot, Claimed, ReleaseJustified,
       ReceiptsJustified, AdmissionProven, Proven, Sheltered
  <2> QED
    BY <2>2, <2>3 DEF DurableInv
<1>39. ASSUME NEW p \in Procs, SyncHome(p) PROVE DurableInv'
  <2>1. /\ \A q \in Procs : op'[q].target = op[q].target /\ op'[q].chain = op[q].chain
                              /\ op'[q].cause = op[q].cause
        /\ UNCHANGED <<boot, interlock, ops, claims, releases, receipts, runs, pc, owner,
                       closure, starts, forsaken>>
    BY <1>39, <1>a DEF SyncHome
  <2>2. /\ InterlockSettles' /\ ClaimsOnHistory' /\ OwnersInSlot'
        /\ LinksSettle' /\ RunsSettle'
    BY <1>b, <2>1 DEF InterlockSettles, ClaimsOnHistory, OwnersInSlot, InSlot, HeldNow,
       LinksSettle, RunsSettle
  <2>3. ClearingJustified' /\ ReleaseJustified' /\ ReceiptsJustified' /\ AdmissionProven'
    BY <1>b, <2>1 DEF ClearingJustified, InSlot, Claimed, ReleaseJustified,
       ReceiptsJustified, AdmissionProven, Proven, Sheltered
  <2> QED
    BY <2>2, <2>3 DEF DurableInv
<1> QED
  BY ONLY [Next]_vars, <1>1, <1>2, <1>3, <1>4, <1>5, <1>6, <1>7, <1>8, <1>9, <1>10,
     <1>11, <1>12,
     <1>13, <1>14, <1>15, <1>16, <1>17, <1>18, <1>19, <1>20, <1>21, <1>22, <1>23, <1>24,
     <1>25, <1>26, <1>27, <1>28, <1>29, <1>30, <1>31, <1>32, <1>33, <1>34, <1>35, <1>36,
     <1>37, <1>38, <1>39
     DEF Next, ProcessStep, DirectorySteps, AcquireSteps, OwnerSteps, ReleaseSteps, Requests

LEMMA DurableInit == Init => DurableInv
<1> SUFFICES ASSUME Init PROVE DurableInv
  OBVIOUS
<1>1. interlock = [vis |-> <<>>, may |-> {<<>>}]
  BY DEF Init, ReplaceableFile
<1>2. InterlockSettles /\ ClaimsOnHistory /\ OwnersInSlot /\ LinksSettle /\ RunsSettle
  BY <1>1 DEF Init, EmptyDirectory, NoOp, NoOwner, InterlockSettles, ClaimsOnHistory,
     OwnersInSlot, InSlot, Active, LinksSettle, RunsSettle
<1>3. ClearingJustified /\ ReleaseJustified /\ ReceiptsJustified /\ AdmissionProven
  BY DEF Init, EmptyDirectory, NoOwner, ClearingJustified, ReleaseJustified,
     ReceiptsJustified, AdmissionProven
<1> QED
  BY <1>2, <1>3 DEF DurableInv

LEMMA DurableCorrect == Spec => [](TypeInv /\ SlotInv /\ HomesSettle /\ DurableInv)
<1>1. Init => TypeInv /\ SlotInv /\ HomesSettle /\ DurableInv
  BY TypeInit, SlotInit, HomesInit, DurableInit
<1>2. TypeInv /\ SlotInv /\ HomesSettle /\ DurableInv /\ [Next]_vars
        => (TypeInv /\ SlotInv /\ HomesSettle /\ DurableInv)'
  BY TypeStep, SlotStep, HomesStep, DurableStep
<1> QED
  BY <1>1, <1>2, PTL DEF Spec

\* Whoever holds start authority may lose power without losing the claim and the
\* HELD state it rests on: both were synced before the winner was issued.
THEOREM WinnersAreDurable == Spec => []WinnerIsDurable
<1>1. SlotInv /\ DurableInv => WinnerIsDurable
  BY DEF SlotInv, OwnersClaimed, HasClaim, DurableInv, OwnersInSlot, InSlot, Active,
     WinnerIsDurable
<1> QED
  BY <1>1, DurableCorrect, PTL

\* No two claims name one target, and every claim lies on every history the
\* interlock file may still show, so the past a claim names is never rewritten.
THEOREM ClaimsStayOnHistory == Spec => []ClaimsOnHistory
<1>1. DurableInv => ClaimsOnHistory
  BY DEF DurableInv
<1> QED
  BY <1>1, DurableCorrect, PTL

\* The receipt that reopens admission is only ever there after its claim and, within
\* its boot, its release link are durable and its run is settled; in a later boot
\* the run may be gone, and then only with a directory its maker left unsynced.
THEOREM ReceiptsProveRuns == Spec => []ReceiptProvesRun
<1>1. HomesSettle /\ DurableInv => ReceiptProvesRun
  <2> SUFFICES ASSUME HomesSettle, DurableInv PROVE ReceiptProvesRun
    OBVIOUS
  <2>1. \A t \in runs.dur : RunIsSettled(t)
    BY DEF HomesSettle, DurableInv, RunsSettle, RunIsSettled
  <2> QED
    BY <2>1 DEF DurableInv, ReceiptsJustified, ReceiptProvesRun
<1> QED
  BY <1>1, DurableCorrect, PTL

\* An owner was admitted by a receipt that no power loss takes away.
THEOREM OwnersAreAdmitted == Spec => []AdmittedByReceipt
<1>1. DurableInv => AdmittedByReceipt
  BY DEF DurableInv, AdmissionProven, Proven, Sheltered, AdmittedByReceipt
<1> QED
  BY <1>1, DurableCorrect, PTL

(***************************************************************************)
(* The steps that hand the slot over, spend a start or publish a run.      *)
(***************************************************************************)
Quiet ==
  /\ interlock'.vis = interlock.vis
  /\ interlock'.may \in {interlock.may, {interlock.vis}}
  /\ boot' = boot /\ starts' = starts /\ runs'.vis = runs.vis

\* Four actions of a process, and a power loss, change what the slot shows.
LEMMA SlotChanges ==
  ASSUME TypeInv, [Next]_vars
  PROVE  \/ Quiet
         \/ \E p \in Procs : HeldRename(p) \/ ClearRename(p) \/ Consume(p) \/ RunLink(p)
         \/ PowerLoss
<1> USE FileShapes DEF Quiet, disk, runTree, memory, history, children
<1>1. ASSUME NEW p \in Procs, DirectorySteps(p) PROVE Quiet
  BY <1>1 DEF DirectorySteps, MakeDirectory, SyncMadeDirectory, SyncOperations, MakeHome,
     SyncHome
<1>2. ASSUME NEW p \in Procs, AcquireSteps(p) PROVE Quiet \/ HeldRename(p)
  BY <1>2 DEF AcquireSteps, Admit, Refuse, HeldSync, SyncOperations, ClaimLink, ClaimSync
<1>3. ASSUME NEW p \in Procs, OwnerSteps(p) PROVE Quiet \/ Consume(p) \/ RunLink(p)
  BY <1>3 DEF OwnerSteps, StartSubject, StartError, CloseSubject, PersistRun, RunSync
<1>4. ASSUME NEW p \in Procs, ReleaseSteps(p) PROVE Quiet \/ ClearRename(p)
  BY <1>4 DEF ReleaseSteps, ResumeAbsent, ResumeReleased, OpenClosure, ReleaseHeld,
     ReleaseAlreadyClear, ReleaseRefused, ClearSync, SyncOperations, ReleaseLink,
     ReleaseSync, ReceiptLink,
     ReceiptSync, ReportReleased
<1>5. ASSUME NEW p \in Procs, Requests(p) PROVE Quiet
  BY <1>5 DEF Requests, Acquire, Resume, ResumeEarly, ReconcileNoClaim, Reset
<1>6. ASSUME NEW p \in Procs, OperationFails(p) \/ Abandon(p) PROVE Quiet
  BY <1>6 DEF OperationFails, Abandon
<1>7. CASE UNCHANGED vars
  BY <1>7 DEF vars
<1> QED
  BY ONLY [Next]_vars, <1>1, <1>2, <1>3, <1>4, <1>5, <1>6, <1>7 DEF Next, ProcessStep

\* Renames of the interlock: to HELD from a free slot, to CLEAR for a reason.
LEMMA HeldRenamed ==
  ASSUME TypeInv, SlotInv, NEW p \in Procs, HeldRename(p)
  PROVE  /\ op[p].target \in Targets /\ starts[op[p].target] = 0
         /\ ~IsHeld(interlock.vis)
         /\ IsHeld(interlock'.vis)
         /\ Current(interlock'.vis).target = op[p].target
         /\ Current(interlock'.vis).boot = boot
         /\ UNCHANGED <<boot, starts, runs>>
<1>1. op[p].target \in Targets /\ interlock.vis \in Chains /\ boot \in Boots
  BY DEF TypeInv, TypeOK, OperationsNamed, HeldRename, Steps
<1>2. /\ ~IsHeld(interlock.vis) /\ ~Claimed(op[p].target)
      /\ op[p].chain = Append(interlock.vis, Held(op[p].target, boot))
  BY DEF SlotInv, AcquiringFresh, HeldRename
<1>3. interlock'.vis = op[p].chain /\ UNCHANGED <<boot, starts, runs>>
  BY DEF HeldRename, Renamed, runTree, history
<1> QED
  BY ONLY <1>1, <1>2, <1>3, TypeInv, SlotInv, HeldAppended, UnclaimedUnspent

LEMMA ClearRenamed ==
  ASSUME TypeInv, SlotInv, HomesSettle, DurableInv, NEW p \in Procs, ClearRename(p)
  PROVE  LET t == Current(interlock.vis).target IN
         /\ IsHeld(interlock.vis) /\ t \in Targets
         /\ \/ t \in runs.dur /\ RunIsSettled(t)
            \/ ~Claimed(t) /\ starts[t] = 0
            \/ Current(interlock.vis).boot # boot
         /\ IsClear(interlock'.vis) /\ ~IsHeld(interlock'.vis)
         /\ UNCHANGED <<boot, starts, runs>>
<1>1. /\ IsHeld(interlock.vis)
      /\ op[p].target = Current(interlock.vis).target
      /\ op[p].cause = "FINALIZED_RUN" => op[p].target \in runs.dur
      /\ op[p].cause = "KNOWN_NO_CLAIM" => ~Claimed(op[p].target)
      /\ op[p].cause = "CHANGED_BOOT" => Current(interlock.vis).boot # boot
  BY DEF DurableInv, ClearingJustified, ClearRename
<1>2. PICK b \in Boots : op[p].chain = Append(interlock.vis, Clear(b))
  BY DEF DurableInv, ClearingJustified, ClearRename
<1>3. op[p].target \in Targets /\ op[p].cause \in Causes /\ interlock.vis \in Chains
  BY DEF TypeInv, TypeOK, OperationsNamed, ClearRename, Steps, Clearing
<1>4. interlock'.vis = op[p].chain /\ UNCHANGED <<boot, starts, runs>>
  BY DEF ClearRename, Renamed, runTree, history
<1>5. ~IsHeld(interlock'.vis)
  BY ONLY <1>2, <1>3, <1>4, ClearAppended
<1>6. IsClear(interlock'.vis)
  BY ONLY <1>2, <1>3, <1>4, ClearEntry, AppendedChain, CurrentAppended DEF IsClear, Clear
<1>7. ~Claimed(op[p].target) => starts[op[p].target] = 0
  BY ONLY <1>3, TypeInv, SlotInv, UnclaimedUnspent
<1>8. op[p].target \in runs.dur => RunIsSettled(op[p].target)
  BY DEF HomesSettle, DurableInv, RunsSettle, RunIsSettled
<1> QED
  BY <1>1, <1>3, <1>4, <1>5, <1>6, <1>7, <1>8 DEF Causes

\* No step of the program takes the slot from a target whose run is not settled,
\* unless the target has no claim or its boot session is over, and none gives the
\* slot from one target to another.
THEOREM NoneTakesOver == Spec => NoTakeover
<1>1. TypeInv /\ SlotInv /\ HomesSettle /\ DurableInv /\ [Next]_vars => [HandsOver]_vars
  <2> SUFFICES ASSUME TypeInv, SlotInv, HomesSettle, DurableInv, [Next]_vars PROVE HandsOver
    OBVIOUS
  <2>1. ASSUME NEW p \in Procs, HeldRename(p) PROVE HandsOver
    BY <2>1, HeldRenamed DEF HandsOver
  <2>2. ASSUME NEW p \in Procs, ClearRename(p) PROVE HandsOver
    BY <2>2, ClearRenamed DEF HandsOver
  <2>3. ASSUME NEW p \in Procs, Consume(p) \/ RunLink(p) PROVE HandsOver
    BY <2>3 DEF HandsOver, Consume, RunLink, disk
  <2>4. ASSUME PowerLoss PROVE HandsOver
    BY <2>4 DEF HandsOver, PowerLoss, TypeInv, TypeOK, Boots
  <2>5. ASSUME Quiet PROVE HandsOver
    BY <2>5 DEF HandsOver, Quiet
  <2> QED
    BY <2>1, <2>2, <2>3, <2>4, <2>5, SlotChanges
<1> QED
  BY <1>1, DurableCorrect, PTL DEF Spec, NoTakeover

(***************************************************************************)
(* The interlock implements StartAdmission.                                *)
(***************************************************************************)
Spent == {t \in Targets : starts[t] > 0}
Holder == IF IsHeld(interlock.vis) THEN Current(interlock.vis).target ELSE NoTarget
Stale == IsHeld(interlock.vis) /\ Current(interlock.vis).boot # boot

LEMMA AdmissionInit == Init => Admission!Init
<1> SUFFICES ASSUME Init PROVE Admission!Init
  OBVIOUS
<1>1. interlock.vis = <<>> /\ starts = [t \in Targets |-> 0] /\ runs.vis = {}
  BY DEF Init, ReplaceableFile, EmptyDirectory
<1>2. ~IsHeld(interlock.vis)
  BY <1>1 DEF IsHeld
<1>3. {t \in Targets : starts[t] > 0} = {}
  BY <1>1
<1> QED
  BY <1>1, <1>2, <1>3 DEF Admission!Init

\* The HELD state of a target that has started is the only one a power loss may
\* leave: it was synced before the start was authorised.
SpentStays ==
  IsHeld(interlock.vis) /\ starts[Current(interlock.vis).target] > 0 =>
    interlock.may = {interlock.vis}

LEMMA SpentInit == Init => SpentStays
  BY DEF Init, ReplaceableFile, SpentStays, IsHeld

LEMMA SpentStep ==
  TypeInv /\ SlotInv /\ HomesSettle /\ DurableInv /\ SpentStays /\ [Next]_vars => SpentStays'
<1> SUFFICES ASSUME TypeInv, SlotInv, HomesSettle, DurableInv, SpentStays, [Next]_vars
             PROVE  SpentStays'
  OBVIOUS
<1>1. ASSUME NEW p \in Procs, HeldRename(p) PROVE SpentStays'
  BY <1>1, HeldRenamed DEF SpentStays
<1>2. ASSUME NEW p \in Procs, ClearRename(p) PROVE SpentStays'
  BY <1>2, ClearRenamed DEF SpentStays
<1>3. ASSUME NEW p \in Procs, Consume(p) PROVE SpentStays'
  <2>1. interlock.may = {owner[p].chain} /\ interlock.vis = owner[p].chain
    BY <1>3 DEF Consume, DurableInv, OwnersInSlot, InSlot, Active
  <2> QED
    BY <1>3, <2>1 DEF Consume, disk, SpentStays
<1>4. ASSUME NEW p \in Procs, RunLink(p) PROVE SpentStays'
  BY <1>4 DEF RunLink, history, SpentStays
<1>5. ASSUME PowerLoss PROVE SpentStays'
  BY <1>5 DEF PowerLoss, FileAfterPowerLoss, ReplaceableFile, SpentStays
<1>6. ASSUME Quiet PROVE SpentStays'
  BY <1>6 DEF Quiet, SpentStays
<1> QED
  BY ONLY SlotChanges, TypeInv, [Next]_vars, <1>1, <1>2, <1>3, <1>4, <1>5, <1>6

LEMMA AdmissionStep ==
  TypeInv /\ SlotInv /\ HomesSettle /\ DurableInv /\ SpentStays /\ [Next]_vars
    => [Admission!Next]_(Admission!vars)
<1> SUFFICES ASSUME TypeInv, SlotInv, HomesSettle, DurableInv, SpentStays, [Next]_vars
             PROVE  Admission!Next \/ UNCHANGED Admission!vars
  OBVIOUS
<1>1. ASSUME NEW p \in Procs, HeldRename(p) PROVE Admission!Hold(op[p].target)
  <2>1. op[p].target \notin Spent
    BY <1>1, HeldRenamed DEF Spent
  <2> QED
    BY <1>1, <2>1, HeldRenamed DEF Admission!Hold, Spent
<1>2. ASSUME NEW p \in Procs, ClearRename(p) PROVE Admission!GiveUp
  <2> DEFINE t == Current(interlock.vis).target
  <2>1. /\ IsHeld(interlock.vis) /\ t \in Targets
        /\ t \in runs.dur \/ starts[t] = 0 \/ Current(interlock.vis).boot # boot
        /\ ~IsHeld(interlock'.vis)
        /\ UNCHANGED <<boot, starts, runs>>
    BY <1>2, ClearRenamed
  <2>2. runs.dur \subseteq runs.vis
    BY DEF DurableInv, RunsSettle
  <2>3. starts[t] = 0 => t \notin Spent
    BY DEF Spent
  <2>4. t # NoTarget
    BY <2>1, TargetAssumption
  <2> QED
    BY <2>1, <2>2, <2>3, <2>4 DEF Admission!GiveUp, Spent
<1>3. ASSUME NEW p \in Procs, NEW t \in Targets, t = owner[p].target, Consume(p)
      PROVE  Admission!Start(t)
  <2>1. t \in Targets /\ HeldNow(t) /\ starts[t] = 0
    BY <1>3 DEF Consume, TypeInv, OwnersNamed, SlotInv, OwnersExclusive, OwnersClaimed,
       Active
  <2>2. UNCHANGED <<boot, interlock, runs>>
    BY <1>3 DEF Consume, disk, runTree
  <2>3. starts' = [starts EXCEPT ![t] = @ + 1] /\ starts \in [Targets -> Nat]
    BY <1>3 DEF Consume, TypeInv, TypeOK
  <2>4. Spent' = Spent \cup {t}
    BY <2>1, <2>3 DEF Spent
  <2>5. t \notin Spent
    BY <2>1 DEF Spent
  <2> QED
    BY <2>1, <2>2, <2>4, <2>5 DEF Admission!Start, Admission!slot, HeldNow, Spent
<1>4. ASSUME NEW p \in Procs, NEW t \in Targets, t = op[p].target, RunLink(p)
      PROVE  Admission!Finish(t)
  <2>1. owner[p].phase = "closed" /\ t = owner[p].target /\ t \in Targets
    BY <1>4 DEF RunLink, SlotInv, ClosuresRun, TypeInv, OperationsNamed, Steps
  <2>2. t \notin runs.vis
    BY <1>4 DEF RunLink, DurableInv, RunsSettle
  <2>3. HeldNow(t)
    BY <2>1, <2>2 DEF DurableInv, OwnersInSlot, InSlot
  <2>4. starts[t] > 0
    <3>1. starts[t] # 0
      BY <2>1 DEF SlotInv, OwnersClaimed
    <3>2. starts[t] \in Nat
      BY <2>1 DEF TypeInv, TypeOK
    <3> QED
      BY <3>1, <3>2
  <2>5. runs'.vis = runs.vis \cup {t} /\ UNCHANGED <<boot, interlock, starts>>
    BY <1>4, FileShapes DEF RunLink, history
  <2> QED
    BY <2>1, <2>3, <2>4, <2>5 DEF Admission!Finish, Admission!slot, HeldNow
<1>5. ASSUME PowerLoss PROVE Admission!PowerLoss
  <2>1. boot' = boot + 1 /\ starts' = starts /\ boot \in Int
    BY <1>5 DEF PowerLoss, history, TypeInv, TypeOK, Boots
  <2>2. PICK chain \in interlock.may : interlock'.vis = chain
    BY <1>5 DEF PowerLoss, FileAfterPowerLoss, ReplaceableFile
  <2>3. chain \in Chains
    BY DEF TypeInv, TypeOK
  <2>4. IsHeld(chain) => /\ Current(chain).target \in Targets
                         /\ Current(chain).target # NoTarget
                         /\ Current(chain).boot # boot'
    <3>1. IsHeld(chain) => Current(chain).boot <= boot
      BY DEF DurableInv, InterlockSettles, IsHeld
    <3>2. IsHeld(chain) => Current(chain).target \in Targets /\ Current(chain).boot \in Int
      BY <2>3, HeldTarget DEF Boots
    <3> QED
      BY <2>1, <3>1, <3>2, TargetAssumption
  <2>5. runs'.vis \subseteq runs.vis
    BY <1>5, RunsLeft DEF TypeInv, TypeOK
  <2>6. Holder \in Spent => interlock'.vis = interlock.vis
    BY <2>2, TargetAssumption DEF Holder, Spent, SpentStays
  <2>7. Holder \in Spent => Holder' = Holder
    BY <2>6 DEF Holder
  <2> QED
    BY <2>1, <2>2, <2>4, <2>5, <2>7 DEF Admission!PowerLoss, Holder, Spent
<1>6. ASSUME Quiet PROVE UNCHANGED Admission!vars
  BY <1>6 DEF Quiet, Admission!vars, Admission!slot
<1>7. ASSUME NEW p \in Procs, HeldRename(p) \/ Consume(p) \/ RunLink(p)

      PROVE  \E t \in Targets : Admission!Hold(t) \/ Admission!Start(t) \/ Admission!Finish(t)
  <2>1. CASE HeldRename(p)
    BY <1>1, <2>1, HeldRenamed
  <2>2. CASE Consume(p)
    <3>1. owner[p].target \in Targets
      BY <2>2 DEF Consume, TypeInv, OwnersNamed
    <3>2. PICK t \in Targets : t = owner[p].target
      BY <3>1
    <3>3. Admission!Start(t)
      BY <1>3, <2>2, <3>2
    <3> QED
      BY ONLY <3>3
  <2>3. CASE RunLink(p)
    <3>1. op[p].target \in Targets
      BY <2>3 DEF RunLink, TypeInv, OperationsNamed, Steps
    <3>2. PICK t \in Targets : t = op[p].target
      BY <3>1
    <3>3. Admission!Finish(t)
      BY <1>4, <2>3, <3>2
    <3> QED
      BY ONLY <3>3
  <2> QED
    BY <1>7, <2>1, <2>2, <2>3
<1> QED
  BY ONLY SlotChanges, TypeInv, [Next]_vars, <1>2, <1>5, <1>6, <1>7 DEF Admission!Next

\* Through every kill, failed write, power loss and resume the files of the
\* interlock behave as one slot: the start of a target is granted to its holder
\* alone and is never granted again.
THEOREM AdmissionImplemented == Spec => ImplementsAdmission
<1>1. TypeInv /\ SlotInv /\ HomesSettle /\ DurableInv /\ SpentStays /\ [Next]_vars
        => [Admission!Next]_(Admission!vars)
  BY AdmissionStep
<1>2. Spec => []SpentStays
  BY SpentInit, SpentStep, DurableCorrect, PTL DEF Spec
<1> QED
  BY <1>1, <1>2, AdmissionInit, DurableCorrect, PTL DEF Spec, ImplementsAdmission,
     Admission!Spec
=============================================================================
