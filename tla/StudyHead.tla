----------------------------- MODULE StudyHead -----------------------------
(***************************************************************************)
(* The study namespace of internal/store: create-once semantic objects in  *)
(* shard directories, and one replaceable head file per study that is only *)
(* moved by compare-and-swap under the study's lock.                       *)
(*                                                                         *)
(* A head file carries its predecessor's digest, so a head names its whole *)
(* past: it is modelled as the sequence of the objects it has selected.    *)
(* Its revision is the length, its stage is determined by the revision,    *)
(* and two head tokens are equal exactly when their sequences are.  A      *)
(* process stands for one opened store: its mutex lets it run one call at  *)
(* a time.  Every write to disk is a step of its own.                      *)
(***************************************************************************)
EXTENDS Integers, Sequences, SequencesExt, Functions, DurableFiles

CONSTANTS
  Procs,         \* processes, each with its own opened store
  Studies,
  Objects,       \* semantic objects
  Stages,        \* Stages[o]: the revisions at which the kind of o is allowed
  Shards, ShardOf,  \* ShardOf[o]: directory of o, by the first byte of its digest
  LastRevision,  \* revision of the terminal stage (RESIDUE); 8 in the code
  MaxFaults,     \* bound: failed calls and killed processes in a behaviour
  MaxPowerLosses,  \* bound: power losses in a behaviour
  NoProc, NoStudy, NoObject

ASSUME DigestAssumption ==
  /\ ShardOf \in [Objects -> Shards]
  /\ Stages \in [Objects -> SUBSET (1 .. LastRevision)]
  /\ LastRevision \in Nat \ {0}
  /\ MaxFaults \in Nat /\ MaxPowerLosses \in Nat

ASSUME NoneAssumption ==
  NoProc \notin Procs /\ NoStudy \notin Studies /\ NoObject \notin Objects

VARIABLES
  shards,      \* the shard directories of objects/sha256
  objects,     \* objects[h]: the create-once files of shard h
  studies,     \* the study directories
  heads,       \* heads[s]: the head file of s
  lock,        \* lock[s]: holder of the study's flock
  pc, op,      \* the next write of the call p is executing, and its locals
  token,       \* token[p]: the head token p holds
  acked,       \* history: acked[s] is the last head a create or advance returned
  confirmed,   \* history: confirmed[s] is the residue head that was confirmed
  left,        \* history: objects of calls that failed or were cut off
  lost,        \* history: shards and studies a power loss has taken
  faults, losses

disk == <<shards, objects, studies, heads>>
calls == <<lock, pc, op>>
history == <<acked, confirmed, left, lost>>
bounds == <<faults, losses>>
vars == <<disk, calls, token, history, bounds>>

Current(chain) == chain[Len(chain)]

\* Objects of the calls being executed.
InFlight == {op[p].object : p \in Procs} \ {NoObject}

NoCall == [study |-> NoStudy, object |-> NoObject, from |-> <<>>]
NoToken == [study |-> NoStudy, chain |-> <<>>]

Present(o) == o \in objects[ShardOf[o]].vis

\* reopenHeadAndObject: the head is there, and so are its root and its object.
Readable(s) ==
  LET chain == heads[s].vis IN
  s \in studies.vis /\ chain # <<>> /\ Present(chain[1]) /\ Present(Current(chain))

Init ==
  /\ shards = EmptyDirectory
  /\ objects = [h \in Shards |-> EmptyDirectory]
  /\ studies = EmptyDirectory
  /\ heads = [s \in Studies |-> ReplaceableFile(<<>>)]
  /\ lock = [s \in Studies |-> NoProc]
  /\ pc = [p \in Procs |-> "idle"]
  /\ op = [p \in Procs |-> NoCall]
  /\ token = [p \in Procs |-> NoToken]
  /\ acked = [s \in Studies |-> <<>>]
  /\ confirmed = [s \in Studies |-> <<>>]
  /\ left = {} /\ lost = {}
  /\ faults = 0 /\ losses = 0

Goto(p, step) ==
  /\ pc' = [pc EXCEPT ![p] = step]
  /\ UNCHANGED <<lock, op>>

\* p's call returns and drops the lock it may hold.
Return(p) ==
  /\ pc' = [pc EXCEPT ![p] = "idle"]
  /\ op' = [op EXCEPT ![p] = NoCall]
  /\ lock' = [s \in Studies |-> IF lock[s] = p THEN NoProc ELSE lock[s]]

(***************************************************************************)
(* createStudyObject: the study directory first, outside any lock.  Only   *)
(* the call that created it syncs the directory it is in.                  *)
(***************************************************************************)
CreateStudy(p, s, o) ==
  /\ pc[p] = "idle"
  /\ 1 \in Stages[o]
  /\ op' = [op EXCEPT ![p] = [study |-> s, object |-> o, from |-> <<>>]]
  /\ pc' = [pc EXCEPT ![p] = "study"]
  /\ UNCHANGED <<disk, lock, token, history, bounds>>

MakeStudyDirectory(p) ==
  /\ pc[p] = "study"
  /\ op[p].study \notin studies.vis
  /\ studies' = Linked(studies, op[p].study)
  /\ Goto(p, "studySync")
  /\ UNCHANGED <<shards, objects, heads, token, history, bounds>>

SyncStudyRoot(p) ==
  /\ pc[p] = "studySync"
  /\ studies' = Synced(studies)
  /\ Goto(p, "create")
  /\ UNCHANGED <<shards, objects, heads, token, history, bounds>>

FindStudyDirectory(p) ==
  /\ pc[p] = "study"
  /\ op[p].study \in studies.vis
  /\ Goto(p, "create")
  /\ UNCHANGED <<disk, token, history, bounds>>

\* The study has no head yet: p goes on to publish under the study's lock.
BeginCreate(p) ==
  LET s == op[p].study IN
  /\ pc[p] = "create"
  /\ lock[s] = NoProc
  /\ heads[s].vis = <<>>
  /\ lock' = [lock EXCEPT ![s] = p]
  /\ pc' = [pc EXCEPT ![p] = "shard"]
  /\ UNCHANGED <<disk, op, token, history, bounds>>

StudyExists(p) ==
  /\ pc[p] = "create"
  /\ lock[op[p].study] = NoProc
  /\ heads[op[p].study].vis # <<>>
  /\ Return(p)
  /\ UNCHANGED <<disk, token, history, bounds>>

(***************************************************************************)
(* OpenHead, and advanceHead up to its first write: the whole token is     *)
(* compared with the head under the study's lock, before anything is       *)
(* created.                                                                *)
(***************************************************************************)
OpenHead(p, s) ==
  /\ pc[p] = "idle"
  /\ lock[s] = NoProc
  /\ Readable(s)
  /\ token' = [token EXCEPT ![p] = [study |-> s, chain |-> heads[s].vis]]
  /\ UNCHANGED <<disk, calls, history, bounds>>

\* Mutant of LegalSuccessor: a terminal head may be replaced by another residue.
ResidueReplaceable(chain, o) ==
  /\ \/ Len(chain) + 1 \in Stages[o]
     \/ Len(chain) = LastRevision /\ LastRevision \in Stages[o]
  /\ o # Current(chain)

LegalSuccessor(chain, o) ==
  /\ Len(chain) < LastRevision
  /\ Len(chain) + 1 \in Stages[o]
  /\ o # Current(chain)

\* Mutant of AdvanceHead: the token is compared after the object is published.
CompareAfterPublish(p, o) ==
  LET s == token[p].study
      current == heads[s].vis = token[p].chain IN
  /\ pc[p] = "idle"
  /\ s # NoStudy
  /\ lock[s] = NoProc
  /\ Readable(s)
  /\ LegalSuccessor(token[p].chain, o)
  /\ lock' = [lock EXCEPT ![s] = p]
  /\ pc' = [pc EXCEPT ![p] = "shard"]
  /\ op' = [op EXCEPT ![p] = [study |-> IF current THEN s ELSE NoStudy,
                              object |-> o, from |-> token[p].chain]]
  /\ UNCHANGED <<disk, token, history, bounds>>

\* Mutant of AdvanceHead: the last write wins.
AdvanceUncompared(p, o) ==
  LET s == token[p].study IN
  /\ pc[p] = "idle"
  /\ s # NoStudy
  /\ lock[s] = NoProc
  /\ Readable(s)
  /\ LegalSuccessor(token[p].chain, o)
  /\ lock' = [lock EXCEPT ![s] = p]
  /\ pc' = [pc EXCEPT ![p] = "shard"]
  /\ op' = [op EXCEPT ![p] = [study |-> s, object |-> o, from |-> token[p].chain]]
  /\ UNCHANGED <<disk, token, history, bounds>>

AdvanceHead(p, o) ==
  LET s == token[p].study IN
  /\ pc[p] = "idle"
  /\ s # NoStudy
  /\ lock[s] = NoProc
  /\ Readable(s)
  /\ heads[s].vis = token[p].chain
  /\ LegalSuccessor(token[p].chain, o)
  /\ lock' = [lock EXCEPT ![s] = p]
  /\ pc' = [pc EXCEPT ![p] = "shard"]
  /\ op' = [op EXCEPT ![p] = [study |-> s, object |-> o, from |-> token[p].chain]]
  /\ UNCHANGED <<disk, token, history, bounds>>

\* CAS_CONFLICT: nothing was created; the caller has to open the head again.
Conflict(p) ==
  /\ pc[p] = "idle"
  /\ token[p].study # NoStudy
  /\ lock[token[p].study] = NoProc
  /\ heads[token[p].study].vis # token[p].chain
  /\ token' = [token EXCEPT ![p] = NoToken]
  /\ UNCHANGED <<disk, calls, history, bounds>>

(***************************************************************************)
(* publishLocked.  Objects share shards across studies, and a bare Publish *)
(* takes no study lock.  Only the call that created a shard syncs the      *)
(* directory it is in.                                                     *)
(***************************************************************************)
Publish(p, o) ==
  /\ pc[p] = "idle"
  /\ Stages[o] = {}
  /\ op' = [op EXCEPT ![p] = [study |-> NoStudy, object |-> o, from |-> <<>>]]
  /\ pc' = [pc EXCEPT ![p] = "shard"]
  /\ UNCHANGED <<disk, lock, token, history, bounds>>

MakeShard(p) ==
  LET h == ShardOf[op[p].object] IN
  /\ pc[p] = "shard"
  /\ h \notin shards.vis
  /\ shards' = Linked(shards, h)
  /\ Goto(p, "shardSync")
  /\ UNCHANGED <<objects, studies, heads, token, history, bounds>>

SyncDigestRoot(p) ==
  /\ pc[p] = "shardSync"
  /\ shards' = Synced(shards)
  /\ Goto(p, "object")
  /\ UNCHANGED <<objects, studies, heads, token, history, bounds>>

FindShard(p) ==
  /\ pc[p] = "shard"
  /\ ShardOf[op[p].object] \in shards.vis
  /\ Goto(p, "object")
  /\ UNCHANGED <<disk, token, history, bounds>>

\* Mutant of LinkObject: an object that is already there needs no sync.
FoundUnsynced(p) ==
  LET h == ShardOf[op[p].object] IN
  /\ pc[p] = "object"
  /\ objects' = [objects EXCEPT ![h] = Linked(@, op[p].object)]
  /\ Goto(p, IF Present(op[p].object) /\ op[p].study # NoStudy
             THEN "headRename" ELSE "objectSync")
  /\ UNCHANGED <<shards, studies, heads, token, history, bounds>>

\* An object that is already there, or wins the race to the link, is kept.
LinkObject(p) ==
  LET h == ShardOf[op[p].object] IN
  /\ pc[p] = "object"
  /\ objects' = [objects EXCEPT ![h] = Linked(@, op[p].object)]
  /\ Goto(p, "objectSync")
  /\ UNCHANGED <<shards, studies, heads, token, history, bounds>>

SyncObject(p) ==
  LET h == ShardOf[op[p].object] IN
  /\ pc[p] = "objectSync"
  /\ objects' = [objects EXCEPT ![h] = Synced(@)]
  /\ IF op[p].study = NoStudy THEN Return(p) ELSE Goto(p, "headRename")
  /\ UNCHANGED <<shards, studies, heads, token, history, bounds>>

(***************************************************************************)
(* replaceHead, and the token of the head it wrote.                        *)
(***************************************************************************)
HeadRename(p) ==
  LET s == op[p].study IN
  /\ pc[p] = "headRename"
  /\ heads' = [heads EXCEPT ![s] = Renamed(@, Append(op[p].from, op[p].object))]
  /\ Goto(p, "headSync")
  /\ UNCHANGED <<shards, objects, studies, token, history, bounds>>

\* Mutant of HeadSync: the renamed head is acknowledged without a sync.
AcknowledgeRenamed(p) ==
  LET s == op[p].study IN
  /\ pc[p] = "headSync"
  /\ Readable(s)
  /\ token' = [token EXCEPT ![p] = [study |-> s, chain |-> heads[s].vis]]
  /\ acked' = [acked EXCEPT ![s] = heads[s].vis]
  /\ Return(p)
  /\ UNCHANGED <<disk, confirmed, left, lost, bounds>>

HeadSync(p) ==
  LET s == op[p].study IN
  /\ pc[p] = "headSync"
  /\ Readable(s)
  /\ heads' = [heads EXCEPT ![s] = SyncedFile(@)]
  /\ token' = [token EXCEPT ![p] = [study |-> s, chain |-> heads[s].vis]]
  /\ acked' = [acked EXCEPT ![s] = heads[s].vis]
  /\ Return(p)
  /\ UNCHANGED <<shards, objects, studies, confirmed, left, lost, bounds>>

\* Mutant of ConfirmResidue: a residue that reads back exactly is confirmed.
ConfirmVisible(p) ==
  LET s == token[p].study IN
  /\ pc[p] = "idle"
  /\ Len(token[p].chain) = LastRevision
  /\ lock[s] = NoProc
  /\ Readable(s)
  /\ heads[s].vis = token[p].chain
  /\ confirmed' = [confirmed EXCEPT ![s] = heads[s].vis]
  /\ UNCHANGED <<disk, calls, token, acked, left, lost, bounds>>

\* ConfirmResiduePublication, the one way to settle a head that is visible only.
ConfirmResidue(p) ==
  LET s == token[p].study IN
  /\ pc[p] = "idle"
  /\ Len(token[p].chain) = LastRevision
  /\ lock[s] = NoProc
  /\ Readable(s)
  /\ heads[s].vis = token[p].chain
  /\ heads' = [heads EXCEPT ![s] = SyncedFile(@)]
  /\ confirmed' = [confirmed EXCEPT ![s] = heads[s].vis]
  /\ UNCHANGED <<shards, objects, studies, calls, token, acked, left, lost, bounds>>

(***************************************************************************)
(* Failure.                                                                *)
(***************************************************************************)
CallFails(p) ==
  /\ pc[p] # "idle"
  /\ faults < MaxFaults
  /\ faults' = faults + 1
  /\ left' = left \cup {op[p].object}
  /\ Return(p)
  /\ UNCHANGED <<disk, token, acked, confirmed, lost, losses>>

Kill(p) ==
  /\ pc[p] # "idle" \/ token[p] # NoToken
  /\ faults < MaxFaults
  /\ faults' = faults + 1
  /\ left' = left \cup ({op[p].object} \ {NoObject})
  /\ token' = [token EXCEPT ![p] = NoToken]
  /\ Return(p)
  /\ UNCHANGED <<disk, acked, confirmed, lost, losses>>

\* A directory that vanishes takes its files with it.
PowerLoss ==
  /\ losses < MaxPowerLosses
  /\ losses' = losses + 1
  /\ shards' \in AfterPowerLoss(shards)
  /\ studies' \in AfterPowerLoss(studies)
  /\ objects' \in OneOfEach([h \in Shards |->
       IF h \in shards'.vis THEN AfterPowerLoss(objects[h]) ELSE {EmptyDirectory}])
  /\ heads' \in OneOfEach([s \in Studies |->
       IF s \in studies'.vis THEN FileAfterPowerLoss(heads[s])
       ELSE {ReplaceableFile(<<>>)}])
  /\ lock' = [s \in Studies |-> NoProc]
  /\ pc' = [p \in Procs |-> "idle"]
  /\ op' = [p \in Procs |-> NoCall]
  /\ token' = [p \in Procs |-> NoToken]
  /\ lost' = lost \cup (shards.vis \ shards'.vis) \cup (studies.vis \ studies'.vis)
  /\ left' = left \cup InFlight
       \cup UNION {Range(heads[s].vis) : s \in studies.vis \ studies'.vis}
  /\ UNCHANGED <<acked, confirmed, faults>>

(***************************************************************************)
(* Specification.                                                          *)
(***************************************************************************)
CreateSteps(p) ==
  \/ MakeStudyDirectory(p) \/ SyncStudyRoot(p) \/ FindStudyDirectory(p)
  \/ BeginCreate(p) \/ StudyExists(p)

WriteSteps(p) ==
  \/ MakeShard(p) \/ SyncDigestRoot(p) \/ FindShard(p)
  \/ LinkObject(p) \/ SyncObject(p)
  \/ HeadRename(p) \/ HeadSync(p)

Requests(p) ==
  \/ \E s \in Studies : OpenHead(p, s) \/ \E o \in Objects : CreateStudy(p, s, o)
  \/ \E o \in Objects : AdvanceHead(p, o) \/ Publish(p, o)
  \/ Conflict(p)
  \/ ConfirmResidue(p)

Next ==
  \/ \E p \in Procs :
       Requests(p) \/ CreateSteps(p) \/ WriteSteps(p) \/ CallFails(p) \/ Kill(p)
  \/ PowerLoss

Spec == Init /\ [][Next]_vars

(***************************************************************************)
(* Properties.                                                             *)
(***************************************************************************)
Chains ==
  {chain \in BoundedSeq(Objects, LastRevision) :
     \A i \in DOMAIN chain : i \in Stages[chain[i]]}

Steps == {"idle", "study", "studySync", "create", "shard", "shardSync",
          "object", "objectSync", "headRename", "headSync"}

\* Every variable has its type, heads follow the stages in order and stop at
\* the terminal one, and only a call past its compare-and-swap holds a lock
\* (advanceHead, permittedTransition and kindAllowedForStage of head.go).
TypeOK ==
  /\ shards.dur \subseteq shards.vis /\ shards.vis \subseteq Shards
  /\ studies.dur \subseteq studies.vis /\ studies.vis \subseteq Studies
  /\ \A h \in Shards :
       /\ objects[h].dur \subseteq objects[h].vis
       /\ objects[h].vis \subseteq {o \in Objects : ShardOf[o] = h}
  /\ \A s \in Studies : heads[s].vis \in heads[s].may /\ heads[s].may \subseteq Chains
  /\ pc \in [Procs -> Steps]
  /\ \A p \in Procs :
       /\ op[p].study \in Studies \cup {NoStudy}
       /\ op[p].object \in Objects \cup {NoObject}
       /\ op[p].from \in Chains /\ token[p].chain \in Chains
       /\ token[p].study \in Studies \cup {NoStudy}
  /\ \A s \in Studies :
       /\ lock[s] \in Procs \cup {NoProc}
       /\ lock[s] # NoProc =>
            op[lock[s]].study = s /\ pc[lock[s]] \in Steps \ {"idle", "study", "studySync", "create"}
       /\ acked[s] \in Chains /\ confirmed[s] \in Chains
  /\ left \subseteq Objects
  /\ lost \subseteq Shards \cup Studies
  /\ faults \in 0 .. MaxFaults /\ losses \in 0 .. MaxPowerLosses

\* A head that a create or an advance returned stays on the study's line for
\* good: no failed call of another process, rename left unsynced or power loss
\* brings an earlier head back (replaceHead, head.go), unless the study's own
\* directory was never synced into the study root and is gone.
AckedIsSettled ==
  \A s \in Studies \ lost : \A chain \in heads[s].may : IsPrefix(acked[s], chain)

\* A confirmed residue is the only head a study can ever have again, although
\* the call that selected it may have failed with its rename unsynced
\* (ConfirmResiduePublication, head.go).
ConfirmedIsFinal ==
  \A s \in Studies \ lost : confirmed[s] # <<>> => heads[s].may = {confirmed[s]}

\* Whatever head a power loss brings back, every object on its line is durable
\* in its shard, also when another call, or one that failed, had published it
\* (publishLocked before replaceHead).  A shard the power loss itself took is
\* the exception that HeadNamesPresentObject is about.
HeadObjectsAreDurable ==
  \A s \in Studies : \A chain \in heads[s].may : \A o \in Range(chain) :
    o \in objects[ShardOf[o]].dur \/ ShardOf[o] \in lost

\* docs/STATE_MACHINES.md:512, "a stale loser creates no object": an object on
\* disk is on the line of some head, is being published, was left behind by a
\* call that failed or was cut off, or was never meant for a head.
StaleLoserWritesNothing ==
  \A o \in UNION {objects[h].vis : h \in Shards} :
    \/ \E s \in Studies : o \in Range(heads[s].vis)
    \/ o \in InFlight \cup left
    \/ Stages[o] = {}

\* docs/STATE_MACHINES.md:512, "a head cannot name a missing object".
HeadNamesPresentObject ==
  \A s \in Studies :
    heads[s].vis # <<>> => Present(heads[s].vis[1]) /\ Present(Current(heads[s].vis))

\* Every body a power loss may bring back lies on one line.
Shortest(chains) == CHOOSE chain \in chains : \A other \in chains : Len(chain) <= Len(other)

Lineage == INSTANCE StudyLineage WITH
  head <- [s \in Studies |-> heads[s].vis],
  settled <- [s \in Studies |-> Shortest(heads[s].may)]

\* The study namespace implements StudyLineage: concurrent advances, failures at
\* any write and power losses only ever extend a study's line by one object, or
\* take back what was selected after the last settled head.
ImplementsLineage == Lineage!Spec
=============================================================================
