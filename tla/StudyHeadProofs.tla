--------------------------- MODULE StudyHeadProofs ---------------------------
(***************************************************************************)
(* Proofs about StudyHead, for every set of processes, studies, objects    *)
(* and shards, every table of stages and every number of faults.           *)
(***************************************************************************)
EXTENDS StudyHead, TLAPS, SequenceTheorems

Calls == [study : Studies \cup {NoStudy}, object : Objects \cup {NoObject}, from : Chains]

Tokens == [study : Studies \cup {NoStudy}, chain : Chains]

\* Steps that run after the compare-and-swap.
Writing == {"shard", "shardSync", "object", "objectSync", "headRename", "headSync"}

FilesTyped ==
  /\ shards \in [vis : SUBSET Shards, dur : SUBSET Shards]
  /\ studies \in [vis : SUBSET Studies, dur : SUBSET Studies]
  /\ objects \in [Shards -> [vis : SUBSET Objects, dur : SUBSET Objects]]
  /\ heads \in [Studies -> [vis : Chains, may : SUBSET Chains]]
  /\ shards.dur \subseteq shards.vis
  /\ studies.dur \subseteq studies.vis
  /\ \A h \in Shards :
       /\ objects[h].dur \subseteq objects[h].vis
       /\ \A o \in objects[h].vis : ShardOf[o] = h
  /\ \A s \in Studies : heads[s].vis \in heads[s].may

CallsTyped ==
  /\ pc \in [Procs -> Steps]
  /\ op \in [Procs -> Calls]
  /\ token \in [Procs -> Tokens]
  /\ lock \in [Studies -> Procs \cup {NoProc}]

HistoryTyped ==
  /\ acked \in [Studies -> Chains]
  /\ confirmed \in [Studies -> Chains]
  /\ left \subseteq Objects
  /\ lost \subseteq Shards \cup Studies
  /\ faults \in 0 .. MaxFaults
  /\ losses \in 0 .. MaxPowerLosses

TypeInv == FilesTyped /\ CallsTyped /\ HistoryTyped

(***************************************************************************)
(* The strengthening that makes the properties of StudyHead inductive.     *)
(***************************************************************************)
\* A call carries a legal object; before its compare-and-swap, for a new study.
CallsNamed ==
  \A p \in Procs :
    /\ pc[p] = "idle" => op[p].object = NoObject
    /\ pc[p] # "idle" => op[p].object \in Objects
    /\ pc[p] \in Steps \ (Writing \cup {"idle"}) =>
         op[p].study \in Studies /\ op[p].from = <<>> /\ 1 \in Stages[op[p].object]
    /\ pc[p] \in {"headRename", "headSync"} => op[p].study # NoStudy
    /\ pc[p] \in Writing /\ op[p].study = NoStudy => Stages[op[p].object] = {}

\* The directories a call found or made are there while it runs.
DirectoriesFound ==
  \A p \in Procs :
    /\ pc[p] \in {"studySync", "create"} => op[p].study \in studies.vis
    /\ pc[p] \in Writing \ {"shard"} => ShardOf[op[p].object] \in shards.vis
    /\ pc[p] = "objectSync" => op[p].object \in objects[ShardOf[op[p].object]].vis
    /\ pc[p] \in {"headRename", "headSync"} =>
         op[p].object \in objects[ShardOf[op[p].object]].dur

\* A study's lock is held by a call that writes to it.
LocksHeld ==
  \A s \in Studies : lock[s] # NoProc => op[lock[s]].study = s /\ pc[lock[s]] \in Writing

\* A writer holds its study's lock, and the head is the one it compared with
\* until the rename and the one it wrote after it.
WritersCompared ==
  \A p \in Procs : pc[p] \in Writing /\ op[p].study # NoStudy =>
    /\ lock[op[p].study] = p
    /\ op[p].study \in studies.vis
    /\ Len(op[p].from) + 1 \in Stages[op[p].object]
    /\ heads[op[p].study].vis =
         IF pc[p] = "headSync" THEN Append(op[p].from, op[p].object) ELSE op[p].from

\* A directory that is not there has no files, and had none unless it was lost.
AbsentIsEmpty ==
  /\ \A h \in Shards \ shards.vis : objects[h].vis = {}
  /\ \A s \in Studies \ studies.vis :
       /\ heads[s].may = {<<>>}
       /\ s \in lost \/ (acked[s] = <<>> /\ confirmed[s] = <<>>)

\* Every body a power loss may bring back is a beginning of the head, and what
\* it would take away is being written or was left by a call cut off.
HeadsOnLine ==
  \A s \in Studies :
    /\ \A chain \in heads[s].may :
         /\ IsPrefix(chain, heads[s].vis)
         /\ \A o \in Range(heads[s].vis) \ Range(chain) :
              o \in left \/ (lock[s] # NoProc /\ o = op[lock[s]].object)
    /\ \E least \in heads[s].may : \A chain \in heads[s].may : Len(least) <= Len(chain)

ConfirmedIsTerminal ==
  \A s \in Studies : confirmed[s] # <<>> => Len(confirmed[s]) = LastRevision

\* An object on disk is on a head, is being written by a call past its
\* compare-and-swap, was left by one that was cut off, or is for no head.
ObjectsAccounted ==
  \A h \in Shards : \A o \in objects[h].vis :
    \/ \E s \in Studies : o \in Range(heads[s].vis)
    \/ \E p \in Procs : pc[p] \in Writing /\ op[p].object = o
    \/ o \in left
    \/ Stages[o] = {}

HeadInv ==
  /\ CallsNamed
  /\ DirectoriesFound
  /\ LocksHeld
  /\ WritersCompared
  /\ AbsentIsEmpty
  /\ HeadsOnLine
  /\ ConfirmedIsTerminal
  /\ AckedIsSettled
  /\ ConfirmedIsFinal
  /\ HeadObjectsAreDurable
  /\ ObjectsAccounted

(***************************************************************************)
(* Lines of objects.                                                       *)
(***************************************************************************)
LEMMA ChainProperties ==
  ASSUME NEW chain \in Chains
  PROVE  /\ chain \in Seq(Objects)
         /\ Len(chain) \in Nat /\ Len(chain) <= LastRevision
         /\ DOMAIN chain = 1 .. Len(chain)
         /\ \A i \in 1 .. Len(chain) : chain[i] \in Objects /\ i \in Stages[chain[i]]
<1>1. PICK m \in 0 .. LastRevision : chain \in [1 .. m -> Objects]
  BY DEF Chains, BoundedSeq, SeqOf
<1>2. m \in Nat /\ m <= LastRevision
  BY <1>1, DigestAssumption
<1>3. chain \in Seq(Objects) /\ Len(chain) = m
  BY <1>1, <1>2
<1>4. \A i \in DOMAIN chain : i \in Stages[chain[i]]
  BY DEF Chains
<1> QED
  BY <1>1, <1>2, <1>3, <1>4

LEMMA SequenceIsChain ==
  ASSUME NEW chain \in Seq(Objects), Len(chain) <= LastRevision,
         \A i \in 1 .. Len(chain) : i \in Stages[chain[i]]
  PROVE  chain \in Chains
<1>1. Len(chain) \in Nat /\ chain \in [1 .. Len(chain) -> Objects]
  OBVIOUS
<1>2. Len(chain) \in 0 .. LastRevision
  BY <1>1, DigestAssumption
<1>3. DOMAIN chain = 1 .. Len(chain)
  OBVIOUS
<1> QED
  BY <1>1, <1>2, <1>3 DEF Chains, BoundedSeq, SeqOf

LEMMA EmptyChain == <<>> \in Chains
<1>1. <<>> \in Seq(Objects) /\ Len(<<>>) = 0
  OBVIOUS
<1>2. Len(<<>>) <= LastRevision /\ \A i \in 1 .. Len(<<>>) : i \in Stages[<<>>[i]]
  BY ONLY <1>1, DigestAssumption
<1> QED
  BY ONLY <1>1, <1>2, SequenceIsChain

LEMMA ExtendedChain ==
  ASSUME NEW chain \in Chains, NEW o \in Objects, Len(chain) + 1 \in Stages[o]
  PROVE  /\ Append(chain, o) \in Chains
         /\ Len(Append(chain, o)) = Len(chain) + 1
         /\ Len(chain) < LastRevision
         /\ Range(Append(chain, o)) = Range(chain) \cup {o}
<1>1. /\ chain \in Seq(Objects) /\ Len(chain) \in Nat
      /\ DOMAIN chain = 1 .. Len(chain)
      /\ \A i \in 1 .. Len(chain) : i \in Stages[chain[i]]
  BY ChainProperties
<1>2. Len(chain) + 1 \in 1 .. LastRevision
  BY DigestAssumption
<1>3. /\ Append(chain, o) \in Seq(Objects)
      /\ Len(Append(chain, o)) = Len(chain) + 1
      /\ \A i \in 1 .. Len(chain) : Append(chain, o)[i] = chain[i]
      /\ Append(chain, o)[Len(chain) + 1] = o
  BY ONLY <1>1, o \in Objects
<1>4. \A i \in 1 .. Len(Append(chain, o)) : i \in Stages[Append(chain, o)[i]]
  BY <1>1, <1>3
<1>5. Append(chain, o) \in Chains
  <2>1. Len(Append(chain, o)) <= LastRevision
    BY ONLY <1>1, <1>2, <1>3, DigestAssumption
  <2> QED
    BY ONLY <1>3, <1>4, <2>1, SequenceIsChain
<1>6. DOMAIN Append(chain, o) = 1 .. (Len(chain) + 1)
  BY ONLY <1>1, <1>3
<1>7. Range(Append(chain, o)) = Range(chain) \cup {o}
  BY ONLY <1>1, <1>3, <1>6 DEF Range
<1> QED
  BY <1>1, <1>2, <1>3, <1>5, <1>7, DigestAssumption

LEMMA PrefixReflexive == ASSUME NEW chain \in Chains PROVE IsPrefix(chain, chain)
  BY ChainProperties DEF IsPrefix

LEMMA PrefixExtended ==
  ASSUME NEW short \in Chains, NEW long \in Chains, NEW o \in Objects,
         IsPrefix(short, long)
  PROVE  IsPrefix(short, Append(long, o))
<1>1. /\ long \in Seq(Objects) /\ short \in Seq(Objects)
      /\ Len(short) \in Nat /\ Len(long) \in Nat /\ Len(short) <= Len(long)
      /\ SubSeq(long, 1, Len(short)) = SubSeq(short, 1, Len(short))
  BY ChainProperties DEF IsPrefix
<1>2. Len(Append(long, o)) = Len(long) + 1
  BY ONLY <1>1, o \in Objects
<1>3. SubSeq(Append(long, o), 1, Len(short)) = SubSeq(long, 1, Len(short))
  BY ONLY <1>1, o \in Objects
<1> QED
  BY <1>1, <1>2, <1>3 DEF IsPrefix

\* A beginning of a line is the part of it that has its length.
LEMMA PrefixIsPart ==
  ASSUME NEW short \in Chains, NEW long \in Chains, IsPrefix(short, long)
  PROVE  Len(short) <= Len(long) /\ short = SubSeq(long, 1, Len(short))
<1>1. short \in Seq(Objects) /\ Len(short) \in Nat
  BY ChainProperties
<1>2. SubSeq(short, 1, Len(short)) = short
  BY ONLY <1>1
<1> QED
  BY <1>2 DEF IsPrefix

LEMMA EmptyIsPrefix == ASSUME NEW chain \in Chains PROVE IsPrefix(<<>>, chain)
<1>1. Len(chain) \in Nat /\ chain \in Seq(Objects)
  BY ChainProperties
<1>2. Len(<<>>) = 0 /\ SubSeq(<<>>, 1, 0) = SubSeq(chain, 1, 0)
  BY ONLY <1>1
<1> QED
  BY <1>1, <1>2 DEF IsPrefix

\* An object with no stage is on no line.
LEMMA LooseIsOnNoLine ==
  ASSUME NEW chain \in Chains, NEW o, Stages[o] = {}
  PROVE  o \notin Range(chain)
  BY ChainProperties DEF Range

LEMMA RangeOfEmpty == Range(<<>>) = {}
  BY DEF Range

(***************************************************************************)
(* Files.                                                                  *)
(***************************************************************************)
LEMMA LinkedShape ==
  ASSUME NEW S, NEW dir \in [vis : SUBSET S, dur : SUBSET S], NEW e \in S
  PROVE  /\ Linked(dir, e) \in [vis : SUBSET S, dur : SUBSET S]
         /\ Linked(dir, e).vis = dir.vis \cup {e} /\ Linked(dir, e).dur = dir.dur
  BY DEF Linked

LEMMA SyncedShape ==
  ASSUME NEW S, NEW dir \in [vis : SUBSET S, dur : SUBSET S]
  PROVE  /\ Synced(dir) \in [vis : SUBSET S, dur : SUBSET S]
         /\ Synced(dir).vis = dir.vis /\ Synced(dir).dur = dir.vis
  BY DEF Synced

LEMMA EmptyShape ==
  ASSUME NEW S
  PROVE  /\ EmptyDirectory \in [vis : SUBSET S, dur : SUBSET S]
         /\ EmptyDirectory.vis = {} /\ EmptyDirectory.dur = {}
  BY DEF EmptyDirectory

LEMMA SurvivingDirectory ==
  ASSUME NEW S, NEW dir \in [vis : SUBSET S, dur : SUBSET S], NEW after \in AfterPowerLoss(dir)
  PROVE  /\ after \in [vis : SUBSET S, dur : SUBSET S]
         /\ after.vis \subseteq dir.vis
         /\ dir.dur \subseteq after.dur
         /\ after.dur = after.vis
<1>1. PICK kept \in SUBSET dir.vis : dir.dur \subseteq kept /\ after = [vis |-> kept, dur |-> kept]
  BY DEF AfterPowerLoss
<1> QED
  BY <1>1

LEMMA SyncedFileShape ==
  ASSUME NEW file \in [vis : Chains, may : SUBSET Chains]
  PROVE  /\ SyncedFile(file) \in [vis : Chains, may : SUBSET Chains]
         /\ SyncedFile(file).vis = file.vis /\ SyncedFile(file).may = {file.vis}
  BY DEF SyncedFile

LEMMA RenamedShape ==
  ASSUME NEW file \in [vis : Chains, may : SUBSET Chains], NEW chain \in Chains
  PROVE  /\ Renamed(file, chain) \in [vis : Chains, may : SUBSET Chains]
         /\ Renamed(file, chain).vis = chain
         /\ Renamed(file, chain).may = file.may \cup {chain}
  BY DEF Renamed

LEMMA ReplaceableShape ==
  ASSUME NEW chain \in Chains
  PROVE  /\ ReplaceableFile(chain) \in [vis : Chains, may : SUBSET Chains]
         /\ ReplaceableFile(chain).vis = chain
         /\ ReplaceableFile(chain).may = {chain}
  BY DEF ReplaceableFile

LEMMA OneOfEachPicks ==
  ASSUME NEW choices, NEW pick \in OneOfEach(choices)
  PROVE  /\ DOMAIN pick = DOMAIN choices
         /\ pick = [k \in DOMAIN choices |-> pick[k]]
         /\ \A k \in DOMAIN choices : pick[k] \in choices[k]
  BY DEF OneOfEach

LEMMA ReturnTyped ==
  ASSUME CallsTyped, NEW p \in Procs, Return(p)
  PROVE  /\ pc' \in [Procs -> Steps] /\ op' \in [Procs -> Calls]
         /\ lock' \in [Studies -> Procs \cup {NoProc}]
<1>1. NoCall \in Calls
  BY EmptyChain DEF NoCall, Calls
<1>2. pc' \in [Procs -> Steps] /\ op' \in [Procs -> Calls]
  BY <1>1 DEF CallsTyped, Return, Steps
<1>3. lock' \in [Studies -> Procs \cup {NoProc}]
  BY DEF CallsTyped, Return
<1> QED
  BY <1>2, <1>3

\* The call of p is not, or no longer, among the writers; the others go on.
LEMMA OtherWritersKept ==
  ASSUME CallsTyped, WritersCompared, NEW p \in Procs, pc'[p] \notin Writing,
         \A q \in Procs \ {p} : pc'[q] = pc[q] /\ op'[q] = op[q],
         \A s \in Studies : lock[s] # p => lock'[s] = lock[s],
         \A s \in Studies : heads'[s].vis = heads[s].vis,
         studies' = studies
  PROVE  WritersCompared'
<1> SUFFICES ASSUME NEW q \in Procs, pc'[q] \in Writing, op'[q].study # NoStudy
             PROVE  /\ lock'[op'[q].study] = q
                    /\ op'[q].study \in studies'.vis
                    /\ Len(op'[q].from) + 1 \in Stages[op'[q].object]
                    /\ heads'[op'[q].study].vis =
                         IF pc'[q] = "headSync" THEN Append(op'[q].from, op'[q].object)
                         ELSE op'[q].from
  BY DEF WritersCompared
<1>1. q # p /\ pc'[q] = pc[q] /\ op'[q] = op[q]
  OBVIOUS
<1>2. op[q].study \in Studies
  BY <1>1 DEF CallsTyped, Calls
<1>3. /\ lock[op[q].study] = q /\ op[q].study \in studies.vis
      /\ Len(op[q].from) + 1 \in Stages[op[q].object]
      /\ heads[op[q].study].vis =
           IF pc[q] = "headSync" THEN Append(op[q].from, op[q].object) ELSE op[q].from
  BY ONLY WritersCompared, <1>1, q \in Procs, pc'[q] \in Writing, op'[q].study # NoStudy DEF WritersCompared
<1> QED
  BY <1>1, <1>2, <1>3

\* A directory that vanishes takes its files; the others keep what is durable.
LEMMA ObjectsAfterPowerLoss ==
  ASSUME FilesTyped, PowerLoss
  PROVE  /\ objects' \in [Shards -> [vis : SUBSET Objects, dur : SUBSET Objects]]
         /\ \A h \in Shards :
              /\ objects'[h].dur = objects'[h].vis /\ objects'[h].vis \subseteq objects[h].vis
              /\ h \in shards'.vis => objects[h].dur \subseteq objects'[h].dur
              /\ h \notin shards'.vis => objects'[h].vis = {}
<1> DEFINE choices ==
      [h \in Shards |-> IF h \in shards'.vis THEN AfterPowerLoss(objects[h]) ELSE {EmptyDirectory}]
<1>1. objects' \in OneOfEach(choices)
  BY DEF PowerLoss
<1>2. /\ DOMAIN choices = Shards
      /\ \A h \in Shards : choices[h] =
           IF h \in shards'.vis THEN AfterPowerLoss(objects[h]) ELSE {EmptyDirectory}
  OBVIOUS
<1> HIDE DEF choices
<1>3. objects' = [h \in Shards |-> objects'[h]] /\ \A h \in Shards : objects'[h] \in choices[h]
  BY ONLY <1>1, <1>2, OneOfEachPicks
<1>4. ASSUME NEW h \in Shards
      PROVE  /\ objects'[h] \in [vis : SUBSET Objects, dur : SUBSET Objects]
             /\ objects'[h].dur = objects'[h].vis /\ objects'[h].vis \subseteq objects[h].vis
             /\ h \in shards'.vis => objects[h].dur \subseteq objects'[h].dur
             /\ h \notin shards'.vis => objects'[h].vis = {}
  <2>1. CASE h \in shards'.vis
    <3>1. /\ objects'[h] \in AfterPowerLoss(objects[h])
          /\ objects[h] \in [vis : SUBSET Objects, dur : SUBSET Objects]
      BY <1>2, <1>3, <2>1 DEF FilesTyped
    <3> QED
      BY ONLY <2>1, <3>1, SurvivingDirectory
  <2>2. CASE h \notin shards'.vis
    <3>1. objects'[h] = EmptyDirectory
      BY <1>2, <1>3, <2>2
    <3> QED
      BY ONLY <2>2, <3>1, EmptyShape
  <2> QED
    BY <2>1, <2>2
<1> QED
  BY ONLY <1>3, <1>4

\* A study that is still there has one of the heads it may have.
LEMMA HeadsAfterPowerLoss ==
  ASSUME FilesTyped, PowerLoss
  PROVE  /\ heads' \in [Studies -> [vis : Chains, may : SUBSET Chains]]
         /\ \A s \in Studies :
              /\ heads'[s].vis \in Chains /\ heads'[s].may = {heads'[s].vis}
              /\ s \in studies'.vis => heads'[s].vis \in heads[s].may
              /\ s \notin studies'.vis => heads'[s].vis = <<>>
<1> DEFINE choices ==
      [s \in Studies |-> IF s \in studies'.vis THEN FileAfterPowerLoss(heads[s]) ELSE {ReplaceableFile(<<>>)}]
<1>1. heads' \in OneOfEach(choices)
  BY DEF PowerLoss
<1>2. /\ DOMAIN choices = Studies
      /\ \A s \in Studies : choices[s] =
           IF s \in studies'.vis THEN FileAfterPowerLoss(heads[s]) ELSE {ReplaceableFile(<<>>)}
  OBVIOUS
<1> HIDE DEF choices
<1>3. heads' = [s \in Studies |-> heads'[s]] /\ \A s \in Studies : heads'[s] \in choices[s]
  BY ONLY <1>1, <1>2, OneOfEachPicks
<1>4. ASSUME NEW s \in Studies
      PROVE  /\ heads'[s] \in [vis : Chains, may : SUBSET Chains]
             /\ heads'[s].vis \in Chains /\ heads'[s].may = {heads'[s].vis}
             /\ s \in studies'.vis => heads'[s].vis \in heads[s].may
             /\ s \notin studies'.vis => heads'[s].vis = <<>>
  <2>1. CASE s \in studies'.vis
    <3>1. PICK body \in heads[s].may : heads'[s] = ReplaceableFile(body)
      BY <1>2, <1>3, <2>1 DEF FileAfterPowerLoss
    <3>2. body \in Chains
      BY <3>1 DEF FilesTyped
    <3> QED
      BY ONLY <2>1, <3>1, <3>2, ReplaceableShape
  <2>2. CASE s \notin studies'.vis
    <3>1. heads'[s] = ReplaceableFile(<<>>)
      BY <1>2, <1>3, <2>2
    <3> QED
      BY ONLY <2>2, <3>1, EmptyChain, ReplaceableShape
  <2> QED
    BY <2>1, <2>2
<1> QED
  BY ONLY <1>3, <1>4

(***************************************************************************)
(* Every step keeps the types and the strengthening.                       *)
(***************************************************************************)
LEMMA HeadStep == TypeInv /\ HeadInv /\ [Next]_vars => (TypeInv /\ HeadInv)'
<1> SUFFICES ASSUME TypeInv, HeadInv, [Next]_vars PROVE (TypeInv /\ HeadInv)'
  OBVIOUS
<1>a. /\ shards \in [vis : SUBSET Shards, dur : SUBSET Shards]
      /\ studies \in [vis : SUBSET Studies, dur : SUBSET Studies]
      /\ objects \in [Shards -> [vis : SUBSET Objects, dur : SUBSET Objects]]
      /\ heads \in [Studies -> [vis : Chains, may : SUBSET Chains]]
      /\ FilesTyped
  BY DEF TypeInv, FilesTyped
<1>b. /\ CallsNamed /\ DirectoriesFound /\ LocksHeld /\ WritersCompared
      /\ AbsentIsEmpty /\ HeadsOnLine /\ ConfirmedIsTerminal /\ AckedIsSettled
      /\ ConfirmedIsFinal /\ HeadObjectsAreDurable /\ ObjectsAccounted
  BY DEF HeadInv
<1>c. /\ pc \in [Procs -> Steps] /\ op \in [Procs -> Calls]
      /\ token \in [Procs -> Tokens] /\ lock \in [Studies -> Procs \cup {NoProc}]
  BY DEF TypeInv, CallsTyped
<1>d. /\ acked \in [Studies -> Chains] /\ confirmed \in [Studies -> Chains]
      /\ left \subseteq Objects /\ lost \subseteq Shards \cup Studies
      /\ HistoryTyped
  BY DEF TypeInv, HistoryTyped
<1>e. /\ NoProc \notin Procs /\ NoStudy \notin Studies /\ NoObject \notin Objects
      /\ ShardOf \in [Objects -> Shards]
  BY DigestAssumption, NoneAssumption
<1>1. ASSUME NEW p \in Procs, NEW s \in Studies, NEW o \in Objects, CreateStudy(p, s, o)
      PROVE  (TypeInv /\ HeadInv)'
  <2>0. /\ pc[p] = "idle" /\ pc' = [pc EXCEPT ![p] = "study"] /\ lock' = lock
        /\ op'[p].study = s /\ op'[p].object = o /\ op'[p].from = <<>>
        /\ \A q \in Procs \ {p} : op'[q] = op[q] /\ 1 \in Stages[o]
    <3>1. [study |-> s, object |-> o, from |-> <<>>] \in Calls
      BY <1>1, <1>c, <1>e, EmptyChain DEF CreateStudy, Calls, Tokens
    <3>2. op' = [op EXCEPT ![p] = [study |-> s, object |-> o, from |-> <<>>]]
      BY <1>1 DEF CreateStudy
    <3>3. /\ op'[p].study = s /\ op'[p].object = o
          /\ op'[p].from = <<>> /\ \A q \in Procs \ {p} : op'[q] = op[q]
      BY ONLY <1>c, <3>1, <3>2, p \in Procs DEF Calls
    <3> QED
      BY <1>1, <1>c, <3>3 DEF CreateStudy, calls, Tokens
  <2>u. UNCHANGED <<shards, objects, studies, heads, token, acked, confirmed, left, lost>>
    BY <1>1 DEF CreateStudy, disk, history

  <2>1. FilesTyped' /\ HistoryTyped'
     BY <1>1, <2>0, <1>a, <1>d DEF CreateStudy, disk, history, calls, bounds, FilesTyped,
       HistoryTyped
  <2>2. ConfirmedIsTerminal' /\ AckedIsSettled' /\ ConfirmedIsFinal' /\ HeadObjectsAreDurable'
     BY <1>1, <2>0, <1>b DEF CreateStudy, disk, history, calls, bounds, ConfirmedIsTerminal,
       AckedIsSettled, ConfirmedIsFinal, HeadObjectsAreDurable
  <2>3. CallsNamed' /\ DirectoriesFound' /\ LocksHeld'
     BY <1>1, <2>0, <1>b, <1>c, <1>e DEF CreateStudy, disk, history, calls, bounds, Steps,
       Writing, CallsNamed, DirectoriesFound, LocksHeld
  <2>4. CallsTyped'
    <3>1. [study |-> s, object |-> o, from |-> <<>>] \in Calls
      BY <1>1, <1>c, <1>e, EmptyChain DEF CreateStudy, Calls, Tokens
    <3>2. op' \in [Procs -> Calls]
      BY <1>1, <1>c, <3>1 DEF CreateStudy
    <3>3. pc' \in [Procs -> Steps] /\ lock' \in [Studies -> Procs \cup {NoProc}]
      BY ONLY <2>0, <1>c, p \in Procs DEF Steps
    <3>4. token' \in [Procs -> Tokens]
      BY ONLY <2>u, <1>c
    <3> QED
      BY ONLY <3>2, <3>3, <3>4 DEF CallsTyped
  <2>5. WritersCompared'
     BY <1>1, <2>0, <1>b, <1>c, <1>e DEF CreateStudy, disk, history, calls, bounds, Writing,
       WritersCompared
  <2>6. AbsentIsEmpty'
    BY <1>1, <2>0, <1>b DEF CreateStudy, disk, history, calls, bounds, AbsentIsEmpty
  <2>7. HeadsOnLine'
    <3>1. \A t \in Studies : lock[t] # NoProc => lock'[t] = lock[t] /\ op'[lock[t]] = op[lock[t]]
      BY ONLY <2>0, <1>b, <1>c DEF LocksHeld, Writing
    <3> QED
      BY ONLY <2>u, <3>1, <1>b DEF HeadsOnLine
  <2>8. ObjectsAccounted'
    BY ONLY <2>0, <2>u, <1>b, <1>c DEF ObjectsAccounted, Writing
  <2> QED
    BY <2>1, <2>2, <2>3, <2>4, <2>5, <2>6, <2>7, <2>8 DEF TypeInv, HeadInv
<1>2. ASSUME NEW p \in Procs, MakeStudyDirectory(p) PROVE (TypeInv /\ HeadInv)'
  <2>0. /\ studies' \in [vis : SUBSET Studies, dur : SUBSET Studies]
         /\ studies'.vis = studies.vis \cup {op[p].study} /\ studies'.dur = studies.dur
         /\ pc[p] = "study" /\ pc' = [pc EXCEPT ![p] = "studySync"]
         /\ UNCHANGED <<shards, objects, heads, lock, op, token, acked, confirmed, left, lost>>
    <3>1. op[p].study \in Studies
      BY <1>2, <1>b, <1>c, <1>e DEF MakeStudyDirectory, CallsNamed, Steps, Writing
    <3>2. studies' = Linked(studies, op[p].study)
      BY <1>2 DEF MakeStudyDirectory
    <3>3. /\ studies' \in [vis : SUBSET Studies, dur : SUBSET Studies]
          /\ studies'.vis = studies.vis \cup {op[p].study} /\ studies'.dur = studies.dur
      <4> DEFINE dir == studies e == op[p].study
      <4>1. dir \in [vis : SUBSET Studies, dur : SUBSET Studies] /\ e \in Studies
        BY <1>a, <3>1
      <4> HIDE DEF dir, e
      <4>2. /\ Linked(dir, e) \in [vis : SUBSET Studies, dur : SUBSET Studies]
            /\ Linked(dir, e).vis = dir.vis \cup {e} /\ Linked(dir, e).dur = dir.dur
        BY ONLY <4>1, LinkedShape
      <4> QED
        BY <3>2, <4>2 DEF dir, e
    <3> QED
      BY <1>2, <3>3 DEF MakeStudyDirectory, Goto, history
  <2>1. HistoryTyped'
     BY <1>2, <2>0, <1>a, <1>d DEF MakeStudyDirectory, Goto, disk, history, calls, bounds,
       HistoryTyped
  <2>2. FilesTyped'
    BY ONLY <2>0, <1>a, <1>b, <1>c DEF FilesTyped, history, Writing
  <2>3. ConfirmedIsTerminal' /\ AckedIsSettled' /\ ConfirmedIsFinal' /\ HeadObjectsAreDurable'
     BY <1>2, <2>0, <1>b DEF MakeStudyDirectory, Goto, disk, history, calls, bounds,
       ConfirmedIsTerminal, AckedIsSettled, ConfirmedIsFinal, HeadObjectsAreDurable
  <2>4. CallsNamed' /\ LocksHeld'
     BY <1>2, <2>0, <1>b, <1>c, <1>e DEF MakeStudyDirectory, Goto, disk, history, calls, bounds,
       Steps, Writing, CallsNamed, LocksHeld
  <2>5. DirectoriesFound'
    BY ONLY <2>0, <1>a, <1>b, <1>c DEF DirectoriesFound, history, Writing
  <2>6. CallsTyped'
     BY <1>2, <2>0, <1>c DEF MakeStudyDirectory, Goto, disk, history, calls, bounds, Steps,
       CallsTyped, Calls, Tokens
  <2>7. WritersCompared'
    BY ONLY <2>0, <1>a, <1>b, <1>c DEF WritersCompared, history, Writing
  <2>8. AbsentIsEmpty'
    BY ONLY <2>0, <1>a, <1>b, <1>c DEF AbsentIsEmpty, history, Writing
  <2>9. HeadsOnLine'
    BY <1>2, <2>0, <1>b DEF MakeStudyDirectory, Goto, disk, history, calls, bounds, HeadsOnLine
  <2>10. ObjectsAccounted'
    BY ONLY <2>0, <1>b, <1>c DEF ObjectsAccounted, Writing
  <2> QED
    BY <2>1, <2>2, <2>3, <2>4, <2>5, <2>6, <2>7, <2>8, <2>9, <2>10 DEF TypeInv, HeadInv
<1>3. ASSUME NEW p \in Procs, SyncStudyRoot(p) PROVE (TypeInv /\ HeadInv)'
  <2>0. /\ studies' \in [vis : SUBSET Studies, dur : SUBSET Studies]
         /\ studies'.vis = studies.vis /\ studies'.dur = studies.vis
         /\ pc[p] = "studySync" /\ pc' = [pc EXCEPT ![p] = "create"]
         /\ UNCHANGED <<shards, objects, heads, lock, op, token, acked, confirmed, left, lost>>
    BY <1>3, <1>a, SyncedShape DEF SyncStudyRoot, Goto, history
  <2>1. HistoryTyped'
     BY <1>3, <2>0, <1>a, <1>d DEF SyncStudyRoot, Goto, disk, history, calls, bounds,
       HistoryTyped
  <2>2. FilesTyped'
    BY ONLY <2>0, <1>a, <1>b, <1>c DEF FilesTyped, history, Writing
  <2>3. ConfirmedIsTerminal' /\ AckedIsSettled' /\ ConfirmedIsFinal' /\ HeadObjectsAreDurable'
     BY <1>3, <2>0, <1>b DEF SyncStudyRoot, Goto, disk, history, calls, bounds,
       ConfirmedIsTerminal, AckedIsSettled, ConfirmedIsFinal, HeadObjectsAreDurable
  <2>4. CallsNamed'
    BY ONLY <2>0, <1>b, <1>c DEF CallsNamed, Steps, Writing
  <2>5. DirectoriesFound'
    BY ONLY <2>0, <1>a, <1>b, <1>c DEF DirectoriesFound, history, Writing
  <2>6. LocksHeld'
    BY ONLY <2>0, <1>b, <1>c DEF LocksHeld, Writing
  <2>7. CallsTyped'
     BY <1>3, <2>0, <1>c DEF SyncStudyRoot, Goto, disk, history, calls, bounds, Steps,
       CallsTyped, Calls, Tokens
  <2>8. WritersCompared'
    BY ONLY <2>0, <1>a, <1>b, <1>c DEF WritersCompared, history, Writing
  <2>9. AbsentIsEmpty'
    BY ONLY <2>0, <1>a, <1>b, <1>c DEF AbsentIsEmpty, history, Writing
  <2>10. HeadsOnLine'
    BY <1>3, <2>0, <1>b DEF SyncStudyRoot, Goto, disk, history, calls, bounds, HeadsOnLine
  <2>11. ObjectsAccounted'
     BY <1>3, <2>0, <1>b, <1>c DEF SyncStudyRoot, Goto, disk, history, calls, bounds, Writing,
       ObjectsAccounted
  <2> QED
    BY <2>1, <2>2, <2>3, <2>4, <2>5, <2>6, <2>7, <2>8, <2>9, <2>10, <2>11 DEF TypeInv, HeadInv
<1>4. ASSUME NEW p \in Procs, FindStudyDirectory(p) PROVE (TypeInv /\ HeadInv)'
  <2>1. FilesTyped' /\ HistoryTyped'
     BY <1>4, <1>a, <1>d DEF FindStudyDirectory, Goto, disk, history, calls, bounds, FilesTyped,
       HistoryTyped
  <2>2. ConfirmedIsTerminal' /\ AckedIsSettled' /\ ConfirmedIsFinal' /\ HeadObjectsAreDurable'
     BY <1>4, <1>b DEF FindStudyDirectory, Goto, disk, history, calls, bounds,
       ConfirmedIsTerminal, AckedIsSettled, ConfirmedIsFinal, HeadObjectsAreDurable
  <2>3. CallsNamed' /\ DirectoriesFound' /\ LocksHeld'
     BY <1>4, <1>b, <1>c, <1>e DEF FindStudyDirectory, Goto, disk, history, calls, bounds,
       Steps, Writing, CallsNamed, DirectoriesFound, LocksHeld
  <2>4. CallsTyped'
     BY <1>4, <1>c DEF FindStudyDirectory, Goto, disk, history, calls, bounds, Steps,
       CallsTyped, Calls, Tokens
  <2>5. WritersCompared'
     BY <1>4, <1>b, <1>c, <1>e DEF FindStudyDirectory, Goto, disk, history, calls, bounds,
       Writing, WritersCompared
  <2>6. AbsentIsEmpty'
    BY <1>4, <1>b DEF FindStudyDirectory, Goto, disk, history, calls, bounds, AbsentIsEmpty
  <2>7. HeadsOnLine'
    BY <1>4, <1>b DEF FindStudyDirectory, Goto, disk, history, calls, bounds, HeadsOnLine
  <2>8. ObjectsAccounted'
     BY <1>4, <1>b, <1>c DEF FindStudyDirectory, Goto, disk, history, calls, bounds, Writing,
       ObjectsAccounted
  <2> QED
    BY <2>1, <2>2, <2>3, <2>4, <2>5, <2>6, <2>7, <2>8 DEF TypeInv, HeadInv
<1>5. ASSUME NEW p \in Procs, BeginCreate(p) PROVE (TypeInv /\ HeadInv)'
  <2>1. FilesTyped' /\ HistoryTyped'
    BY <1>5, <1>a, <1>d DEF BeginCreate, disk, history, calls, bounds, FilesTyped, HistoryTyped
  <2>2. ConfirmedIsTerminal' /\ AckedIsSettled' /\ ConfirmedIsFinal' /\ HeadObjectsAreDurable'
     BY <1>5, <1>b DEF BeginCreate, disk, history, calls, bounds, ConfirmedIsTerminal,
       AckedIsSettled, ConfirmedIsFinal, HeadObjectsAreDurable
  <2>3. CallsNamed' /\ DirectoriesFound' /\ LocksHeld'
     BY <1>5, <1>b, <1>c, <1>e DEF BeginCreate, disk, history, calls, bounds, Steps, Writing,
       CallsNamed, DirectoriesFound, LocksHeld
  <2>4. CallsTyped'
     BY <1>5, <1>c DEF BeginCreate, disk, history, calls, bounds, Steps, CallsTyped, Calls,
       Tokens
  <2>5. WritersCompared'
    <3>1. /\ pc[p] = "create" /\ lock[op[p].study] = NoProc /\ heads[op[p].study].vis = <<>>
          /\ lock' = [lock EXCEPT ![op[p].study] = p] /\ pc' = [pc EXCEPT ![p] = "shard"]
          /\ UNCHANGED <<studies, heads, op>>
      BY <1>5 DEF BeginCreate, disk
    <3>2. /\ op[p].study \in Studies /\ op[p].from = <<>> /\ op[p].study \in studies.vis
          /\ 1 \in Stages[op[p].object]
      BY <3>1, <1>b DEF CallsNamed, DirectoriesFound, Steps, Writing
    <3>3. Len(op[p].from) + 1 = 1
      BY ONLY <3>2
    <3>4. \A q \in Procs \ {p} : pc'[q] = pc[q]
      BY ONLY <3>1
    <3>5. pc'[p] = "shard" /\ lock'[op[p].study] = p
      BY ONLY <3>1, <3>2, <1>c, p \in Procs
    <3>6. \A s \in Studies : lock[s] # NoProc => lock'[s] = lock[s]
      BY ONLY <3>1
    <3>7. \A q \in Procs \ {p} : q # NoProc
      BY ONLY <1>e
    <3>8. \A q \in Procs \ {p} : pc'[q] \in Writing /\ op'[q].study # NoStudy => lock'[op[q].study] = q
      BY ONLY <3>1, <3>4, <3>6, <3>7, <1>b, <1>c DEF WritersCompared, Calls
    <3>9. \A q \in Procs \ {p} : pc[q] \in Writing /\ op[q].study # NoStudy =>
            /\ op[q].study \in studies.vis
            /\ Len(op[q].from) + 1 \in Stages[op[q].object]
            /\ heads[op[q].study].vis =
                 IF pc[q] = "headSync" THEN Append(op[q].from, op[q].object) ELSE op[q].from
      BY ONLY <1>b DEF WritersCompared
    <3>10. \A q \in Procs \ {p} : pc'[q] \in Writing /\ op'[q].study # NoStudy =>
            /\ lock'[op'[q].study] = q
            /\ op'[q].study \in studies'.vis
            /\ Len(op'[q].from) + 1 \in Stages[op'[q].object]
            /\ heads'[op'[q].study].vis =
                 IF pc'[q] = "headSync" THEN Append(op'[q].from, op'[q].object) ELSE op'[q].from
      BY ONLY <3>1, <3>4, <3>8, <3>9
    <3> QED
      BY ONLY <3>1, <3>2, <3>3, <3>5, <3>10 DEF WritersCompared
  <2>6. AbsentIsEmpty'
    BY <1>5, <1>b DEF BeginCreate, disk, history, calls, bounds, AbsentIsEmpty
  <2>7. HeadsOnLine'
    BY <1>5, <1>b DEF BeginCreate, disk, history, calls, bounds, HeadsOnLine
  <2>8. ObjectsAccounted'
    BY <1>5, <1>b, <1>c DEF BeginCreate, disk, history, calls, bounds, Writing, ObjectsAccounted
  <2> QED
    BY <2>1, <2>2, <2>3, <2>4, <2>5, <2>6, <2>7, <2>8 DEF TypeInv, HeadInv
<1>6. ASSUME NEW p \in Procs, StudyExists(p) PROVE (TypeInv /\ HeadInv)'
  <2>0. /\ pc' = [pc EXCEPT ![p] = "idle"]
        /\ op'[p] = NoCall /\ \A q \in Procs \ {p} : op'[q] = op[q]
        /\ \A s \in Studies : lock'[s] = IF lock[s] = p THEN NoProc ELSE lock[s]
        /\ UNCHANGED <<shards, objects, studies, heads, token, acked, confirmed, left, lost>>
    BY <1>6, <1>c DEF StudyExists, Return, Readable, disk, history, calls
  <2>1. FilesTyped' /\ HistoryTyped'
     BY <1>6, <2>0, <1>a, <1>d DEF StudyExists, Return, disk, history, calls, bounds,
       FilesTyped, HistoryTyped
  <2>2. ConfirmedIsTerminal' /\ AckedIsSettled' /\ ConfirmedIsFinal' /\ HeadObjectsAreDurable'
     BY <1>6, <2>0, <1>b DEF StudyExists, Return, disk, history, calls, bounds,
       ConfirmedIsTerminal, AckedIsSettled, ConfirmedIsFinal, HeadObjectsAreDurable
  <2>3. CallsNamed' /\ DirectoriesFound' /\ LocksHeld'
     BY <1>6, <2>0, <1>b, <1>c, <1>e DEF StudyExists, Return, disk, history, calls, bounds,
       Steps, Writing, CallsNamed, DirectoriesFound, LocksHeld, NoCall
  <2>4. CallsTyped'
    <3>1. CallsTyped /\ Return(p)
      BY <1>6 DEF StudyExists, TypeInv
    <3>2. token' \in [Procs -> Tokens]
      BY ONLY <2>0, <1>c
    <3> QED
      BY ONLY <3>1, <3>2, ReturnTyped, p \in Procs DEF CallsTyped
  <2>5. WritersCompared'
    <3>1. pc'[p] \notin Writing /\ studies' = studies /\ heads' = heads
      BY ONLY <2>0, <1>c, p \in Procs DEF Writing
    <3>2. \A q \in Procs \ {p} : pc'[q] = pc[q] /\ op'[q] = op[q]
      BY ONLY <2>0
    <3>3. \A t \in Studies : lock[t] # p => lock'[t] = lock[t]
      BY ONLY <2>0
    <3> QED
      BY <3>1, <3>2, <3>3, <1>b, OtherWritersKept DEF TypeInv
  <2>6. AbsentIsEmpty'
    BY <1>6, <2>0, <1>b DEF StudyExists, Return, disk, history, calls, bounds, AbsentIsEmpty
  <2>7. HeadsOnLine'
    <3>1. \A t \in Studies : lock'[t] = lock[t] /\ (lock[t] # NoProc => op'[lock[t]] = op[lock[t]])
      BY ONLY <1>6, <2>0, <1>b, <1>c DEF StudyExists, LocksHeld, Writing
    <3> QED
      BY ONLY <2>0, <3>1, <1>b DEF HeadsOnLine
  <2>8. ObjectsAccounted'
     BY <1>6, <2>0, <1>b, <1>c DEF StudyExists, Return, disk, history, calls, bounds, Writing,
       ObjectsAccounted, NoCall
  <2> QED
    BY <2>1, <2>2, <2>3, <2>4, <2>5, <2>6, <2>7, <2>8 DEF TypeInv, HeadInv
<1>7. ASSUME NEW p \in Procs, NEW s \in Studies, OpenHead(p, s)
      PROVE  (TypeInv /\ HeadInv)'
  <2>1. FilesTyped' /\ HistoryTyped'
     BY <1>7, <1>a, <1>d DEF OpenHead, Readable, disk, history, calls, bounds, FilesTyped,
       HistoryTyped
  <2>2. ConfirmedIsTerminal' /\ AckedIsSettled' /\ ConfirmedIsFinal' /\ HeadObjectsAreDurable'
     BY <1>7, <1>b DEF OpenHead, Readable, disk, history, calls, bounds, ConfirmedIsTerminal,
       AckedIsSettled, ConfirmedIsFinal, HeadObjectsAreDurable
  <2>3. CallsNamed' /\ DirectoriesFound' /\ LocksHeld'
     BY <1>7, <1>b, <1>c, <1>e DEF OpenHead, Readable, disk, history, calls, bounds, Steps,
       Writing, CallsNamed, DirectoriesFound, LocksHeld
  <2>4. CallsTyped'
    <3>1. [study |-> s, chain |-> heads[s].vis] \in Tokens
      BY <1>a DEF Tokens
    <3>2. token' \in [Procs -> Tokens]
      BY <1>7, <1>c, <3>1 DEF OpenHead
    <3>3. pc' = pc /\ op' = op /\ lock' = lock
      BY <1>7 DEF OpenHead, calls
    <3> QED
      BY ONLY <1>c, <3>2, <3>3 DEF CallsTyped
  <2>5. WritersCompared'
     BY <1>7, <1>b, <1>c, <1>e DEF OpenHead, Readable, disk, history, calls, bounds, Writing,
       WritersCompared
  <2>6. AbsentIsEmpty'
    BY <1>7, <1>b DEF OpenHead, Readable, disk, history, calls, bounds, AbsentIsEmpty
  <2>7. HeadsOnLine'
    BY <1>7, <1>b DEF OpenHead, Readable, disk, history, calls, bounds, HeadsOnLine
  <2>8. ObjectsAccounted'
     BY <1>7, <1>b, <1>c DEF OpenHead, Readable, disk, history, calls, bounds, Writing,
       ObjectsAccounted
  <2> QED
    BY <2>1, <2>2, <2>3, <2>4, <2>5, <2>6, <2>7, <2>8 DEF TypeInv, HeadInv
<1>8. ASSUME NEW p \in Procs, NEW o \in Objects, AdvanceHead(p, o)
      PROVE  (TypeInv /\ HeadInv)'
  <2>0. /\ pc[p] = "idle" /\ pc' = [pc EXCEPT ![p] = "shard"] /\ lock' = [lock EXCEPT ![token[p].study] = p]
        /\ op'[p].study = token[p].study /\ op'[p].object = o /\ op'[p].from = token[p].chain
        /\ \A q \in Procs \ {p} : op'[q] = op[q]
        /\ token[p].study \in Studies /\ lock[token[p].study] = NoProc
        /\ heads[token[p].study].vis = token[p].chain
    <3>1. [study |-> token[p].study, object |-> o, from |-> token[p].chain] \in Calls
      BY <1>8, <1>c, <1>e, EmptyChain DEF AdvanceHead, Calls, Tokens
    <3>2. op' = [op EXCEPT ![p] = [study |-> token[p].study, object |-> o, from |-> token[p].chain]]
      BY <1>8 DEF AdvanceHead
    <3>3. /\ op'[p].study = token[p].study /\ op'[p].object = o
          /\ op'[p].from = token[p].chain /\ \A q \in Procs \ {p} : op'[q] = op[q]
      BY ONLY <1>c, <3>1, <3>2, p \in Procs DEF Calls
    <3> QED
      BY <1>8, <1>c, <3>3 DEF AdvanceHead, calls, Tokens
  <2>u. UNCHANGED <<shards, objects, studies, heads, token, acked, confirmed, left, lost>>
    BY <1>8 DEF AdvanceHead, disk, history

  <2>1. FilesTyped' /\ HistoryTyped'
     BY <1>8, <2>0, <1>a, <1>d DEF AdvanceHead, Readable, LegalSuccessor, disk, history, calls,
       bounds, FilesTyped, HistoryTyped
  <2>2. ConfirmedIsTerminal' /\ AckedIsSettled' /\ ConfirmedIsFinal' /\ HeadObjectsAreDurable'
     BY <1>8, <2>0, <1>b DEF AdvanceHead, Readable, LegalSuccessor, disk, history, calls,
       bounds, ConfirmedIsTerminal, AckedIsSettled, ConfirmedIsFinal, HeadObjectsAreDurable
  <2>3. CallsNamed' /\ DirectoriesFound' /\ LocksHeld'
     BY <1>8, <2>0, <1>b, <1>c, <1>e DEF AdvanceHead, Readable, LegalSuccessor, disk, history,
       calls, bounds, Steps, Writing, CallsNamed, DirectoriesFound, LocksHeld
  <2>4. CallsTyped'
    <3>1. [study |-> token[p].study, object |-> o, from |-> token[p].chain] \in Calls
      BY <1>8, <1>c, <1>e, EmptyChain DEF AdvanceHead, Calls, Tokens
    <3>2. op' \in [Procs -> Calls]
      BY <1>8, <1>c, <3>1 DEF AdvanceHead
    <3>3. pc' \in [Procs -> Steps] /\ lock' \in [Studies -> Procs \cup {NoProc}]
      BY ONLY <2>0, <1>c, p \in Procs DEF Steps
    <3>4. token' \in [Procs -> Tokens]
      BY ONLY <2>u, <1>c
    <3> QED
      BY ONLY <3>2, <3>3, <3>4 DEF CallsTyped
  <2>5. WritersCompared'
     BY <1>8, <2>0, <1>b, <1>c, <1>e DEF AdvanceHead, Readable, LegalSuccessor, disk, history,
       calls, bounds, Writing, WritersCompared
  <2>6. AbsentIsEmpty'
     BY <1>8, <2>0, <1>b DEF AdvanceHead, Readable, LegalSuccessor, disk, history, calls,
       bounds, AbsentIsEmpty
  <2>7. HeadsOnLine'
    <3>1. \A t \in Studies : lock[t] # NoProc => lock'[t] = lock[t] /\ op'[lock[t]] = op[lock[t]]
      BY ONLY <2>0, <1>b, <1>c DEF LocksHeld, Writing
    <3> QED
      BY ONLY <2>u, <3>1, <1>b DEF HeadsOnLine
  <2>8. ObjectsAccounted'
    BY ONLY <2>0, <2>u, <1>b, <1>c DEF ObjectsAccounted, Writing
  <2> QED
    BY <2>1, <2>2, <2>3, <2>4, <2>5, <2>6, <2>7, <2>8 DEF TypeInv, HeadInv
<1>9. ASSUME NEW p \in Procs, Conflict(p) PROVE (TypeInv /\ HeadInv)'
  <2>1. FilesTyped' /\ HistoryTyped'
    BY <1>9, <1>a, <1>d DEF Conflict, disk, history, calls, bounds, FilesTyped, HistoryTyped
  <2>2. ConfirmedIsTerminal' /\ AckedIsSettled' /\ ConfirmedIsFinal' /\ HeadObjectsAreDurable'
     BY <1>9, <1>b DEF Conflict, disk, history, calls, bounds, ConfirmedIsTerminal,
       AckedIsSettled, ConfirmedIsFinal, HeadObjectsAreDurable
  <2>3. CallsNamed' /\ DirectoriesFound' /\ LocksHeld'
     BY <1>9, <1>b, <1>c, <1>e DEF Conflict, disk, history, calls, bounds, Steps, Writing,
       CallsNamed, DirectoriesFound, LocksHeld
  <2>4. CallsTyped'
    <3>1. NoToken \in Tokens
      BY EmptyChain DEF NoToken, Tokens
    <3>2. token' \in [Procs -> Tokens]
      BY <1>9, <1>c, <3>1 DEF Conflict
    <3>3. pc' = pc /\ op' = op /\ lock' = lock
      BY <1>9 DEF Conflict, calls
    <3> QED
      BY ONLY <1>c, <3>2, <3>3 DEF CallsTyped
  <2>5. WritersCompared'
     BY <1>9, <1>b, <1>c, <1>e DEF Conflict, disk, history, calls, bounds, Writing,
       WritersCompared
  <2>6. AbsentIsEmpty'
    BY <1>9, <1>b DEF Conflict, disk, history, calls, bounds, AbsentIsEmpty
  <2>7. HeadsOnLine'
    BY <1>9, <1>b DEF Conflict, disk, history, calls, bounds, HeadsOnLine
  <2>8. ObjectsAccounted'
    BY <1>9, <1>b, <1>c DEF Conflict, disk, history, calls, bounds, Writing, ObjectsAccounted
  <2> QED
    BY <2>1, <2>2, <2>3, <2>4, <2>5, <2>6, <2>7, <2>8 DEF TypeInv, HeadInv
<1>10. ASSUME NEW p \in Procs, NEW o \in Objects, Publish(p, o)
      PROVE  (TypeInv /\ HeadInv)'
  <2>0. /\ pc[p] = "idle" /\ pc' = [pc EXCEPT ![p] = "shard"] /\ lock' = lock
        /\ op'[p].study = NoStudy /\ op'[p].object = o /\ op'[p].from = <<>>
        /\ \A q \in Procs \ {p} : op'[q] = op[q] /\ Stages[o] = {}
    <3>1. [study |-> NoStudy, object |-> o, from |-> <<>>] \in Calls
      BY <1>10, <1>c, <1>e, EmptyChain DEF Publish, Calls, Tokens
    <3>2. op' = [op EXCEPT ![p] = [study |-> NoStudy, object |-> o, from |-> <<>>]]
      BY <1>10 DEF Publish
    <3>3. /\ op'[p].study = NoStudy /\ op'[p].object = o
          /\ op'[p].from = <<>> /\ \A q \in Procs \ {p} : op'[q] = op[q]
      BY ONLY <1>c, <3>1, <3>2, p \in Procs DEF Calls
    <3> QED
      BY <1>10, <1>c, <3>3 DEF Publish, calls, Tokens
  <2>u. UNCHANGED <<shards, objects, studies, heads, token, acked, confirmed, left, lost>>
    BY <1>10 DEF Publish, disk, history

  <2>1. FilesTyped' /\ HistoryTyped'
     BY <1>10, <2>0, <1>a, <1>d DEF Publish, disk, history, calls, bounds, FilesTyped,
       HistoryTyped
  <2>2. ConfirmedIsTerminal' /\ AckedIsSettled' /\ ConfirmedIsFinal' /\ HeadObjectsAreDurable'
     BY <1>10, <2>0, <1>b DEF Publish, disk, history, calls, bounds, ConfirmedIsTerminal,
       AckedIsSettled, ConfirmedIsFinal, HeadObjectsAreDurable
  <2>3. CallsNamed' /\ DirectoriesFound'
     BY <1>10, <2>0, <1>b, <1>c, <1>e DEF Publish, disk, history, calls, bounds, Steps, Writing,
       CallsNamed, DirectoriesFound
  <2>4. LocksHeld'
    BY ONLY <2>0, <1>b, <1>c DEF LocksHeld, Writing
  <2>5. CallsTyped'
    <3>1. [study |-> NoStudy, object |-> o, from |-> <<>>] \in Calls
      BY <1>10, <1>c, <1>e, EmptyChain DEF Publish, Calls, Tokens
    <3>2. op' \in [Procs -> Calls]
      BY <1>10, <1>c, <3>1 DEF Publish
    <3>3. pc' \in [Procs -> Steps] /\ lock' \in [Studies -> Procs \cup {NoProc}]
      BY ONLY <2>0, <1>c, p \in Procs DEF Steps
    <3>4. token' \in [Procs -> Tokens]
      BY ONLY <2>u, <1>c
    <3> QED
      BY ONLY <3>2, <3>3, <3>4 DEF CallsTyped
  <2>6. WritersCompared'
     BY <1>10, <2>0, <1>b, <1>c, <1>e DEF Publish, disk, history, calls, bounds, Writing,
       WritersCompared
  <2>7. AbsentIsEmpty'
    BY <1>10, <2>0, <1>b DEF Publish, disk, history, calls, bounds, AbsentIsEmpty
  <2>8. HeadsOnLine'
    <3>1. \A t \in Studies : lock[t] # NoProc => lock'[t] = lock[t] /\ op'[lock[t]] = op[lock[t]]
      BY ONLY <2>0, <1>b, <1>c DEF LocksHeld, Writing
    <3> QED
      BY ONLY <2>u, <3>1, <1>b DEF HeadsOnLine
  <2>9. ObjectsAccounted'
    BY ONLY <2>0, <2>u, <1>b, <1>c DEF ObjectsAccounted, Writing
  <2> QED
    BY <2>1, <2>2, <2>3, <2>4, <2>5, <2>6, <2>7, <2>8, <2>9 DEF TypeInv, HeadInv
<1>11. ASSUME NEW p \in Procs, MakeShard(p) PROVE (TypeInv /\ HeadInv)'
  <2>0. /\ shards' \in [vis : SUBSET Shards, dur : SUBSET Shards]
         /\ shards'.vis = shards.vis \cup {ShardOf[op[p].object]} /\ shards'.dur = shards.dur
         /\ pc[p] = "shard" /\ pc' = [pc EXCEPT ![p] = "shardSync"]
         /\ UNCHANGED <<studies, objects, heads, lock, op, token, acked, confirmed, left, lost>>
    <3>1. ShardOf[op[p].object] \in Shards
      BY <1>11, <1>b, <1>c, <1>e DEF MakeShard, CallsNamed, Steps, Writing
    <3>2. shards' = Linked(shards, ShardOf[op[p].object])
      BY <1>11 DEF MakeShard
    <3>3. /\ shards' \in [vis : SUBSET Shards, dur : SUBSET Shards]
          /\ shards'.vis = shards.vis \cup {ShardOf[op[p].object]} /\ shards'.dur = shards.dur
      <4> DEFINE dir == shards e == ShardOf[op[p].object]
      <4>1. dir \in [vis : SUBSET Shards, dur : SUBSET Shards] /\ e \in Shards
        BY <1>a, <3>1
      <4> HIDE DEF dir, e
      <4>2. /\ Linked(dir, e) \in [vis : SUBSET Shards, dur : SUBSET Shards]
            /\ Linked(dir, e).vis = dir.vis \cup {e} /\ Linked(dir, e).dur = dir.dur
        BY ONLY <4>1, LinkedShape
      <4> QED
        BY <3>2, <4>2 DEF dir, e
    <3> QED
      BY <1>11, <3>3 DEF MakeShard, Goto, history
  <2>1. HistoryTyped'
    BY <1>11, <2>0, <1>a, <1>d DEF MakeShard, Goto, disk, history, calls, bounds, HistoryTyped
  <2>2. FilesTyped'
    BY ONLY <2>0, <1>a, <1>b, <1>c DEF FilesTyped, history, Writing
  <2>3. ConfirmedIsTerminal' /\ AckedIsSettled' /\ ConfirmedIsFinal' /\ HeadObjectsAreDurable'
     BY <1>11, <2>0, <1>b DEF MakeShard, Goto, disk, history, calls, bounds,
       ConfirmedIsTerminal, AckedIsSettled, ConfirmedIsFinal, HeadObjectsAreDurable
  <2>4. CallsNamed' /\ LocksHeld'
     BY <1>11, <2>0, <1>b, <1>c, <1>e DEF MakeShard, Goto, disk, history, calls, bounds, Steps,
       Writing, CallsNamed, LocksHeld
  <2>5. DirectoriesFound'
    BY ONLY <2>0, <1>a, <1>b, <1>c DEF DirectoriesFound, history, Writing
  <2>6. CallsTyped'
     BY <1>11, <2>0, <1>c DEF MakeShard, Goto, disk, history, calls, bounds, Steps, CallsTyped,
       Calls, Tokens
  <2>7. WritersCompared'
    BY ONLY <2>0, <1>a, <1>b, <1>c DEF WritersCompared, history, Writing
  <2>8. AbsentIsEmpty'
    BY ONLY <2>0, <1>a, <1>b, <1>c DEF AbsentIsEmpty, history, Writing
  <2>9. HeadsOnLine'
    BY <1>11, <2>0, <1>b DEF MakeShard, Goto, disk, history, calls, bounds, HeadsOnLine
  <2>10. ObjectsAccounted'
    BY ONLY <2>0, <1>b, <1>c DEF ObjectsAccounted, Writing
  <2> QED
    BY <2>1, <2>2, <2>3, <2>4, <2>5, <2>6, <2>7, <2>8, <2>9, <2>10 DEF TypeInv, HeadInv
<1>12. ASSUME NEW p \in Procs, SyncDigestRoot(p) PROVE (TypeInv /\ HeadInv)'
  <2>0. /\ shards' \in [vis : SUBSET Shards, dur : SUBSET Shards]
         /\ shards'.vis = shards.vis /\ shards'.dur = shards.vis
         /\ pc[p] = "shardSync" /\ pc' = [pc EXCEPT ![p] = "object"]
         /\ UNCHANGED <<studies, objects, heads, lock, op, token, acked, confirmed, left, lost>>
    BY <1>12, <1>a, SyncedShape DEF SyncDigestRoot, Goto, history
  <2>1. HistoryTyped'
     BY <1>12, <2>0, <1>a, <1>d DEF SyncDigestRoot, Goto, disk, history, calls, bounds,
       HistoryTyped
  <2>2. FilesTyped'
    BY ONLY <2>0, <1>a, <1>b, <1>c DEF FilesTyped, history, Writing
  <2>3. ConfirmedIsTerminal' /\ AckedIsSettled' /\ ConfirmedIsFinal' /\ HeadObjectsAreDurable'
     BY <1>12, <2>0, <1>b DEF SyncDigestRoot, Goto, disk, history, calls, bounds,
       ConfirmedIsTerminal, AckedIsSettled, ConfirmedIsFinal, HeadObjectsAreDurable
  <2>4. CallsNamed' /\ LocksHeld'
     BY <1>12, <2>0, <1>b, <1>c, <1>e DEF SyncDigestRoot, Goto, disk, history, calls, bounds,
       Steps, Writing, CallsNamed, LocksHeld
  <2>5. DirectoriesFound'
    BY ONLY <2>0, <1>a, <1>b, <1>c DEF DirectoriesFound, history, Writing
  <2>6. CallsTyped'
     BY <1>12, <2>0, <1>c DEF SyncDigestRoot, Goto, disk, history, calls, bounds, Steps,
       CallsTyped, Calls, Tokens
  <2>7. WritersCompared'
    BY ONLY <2>0, <1>a, <1>b, <1>c DEF WritersCompared, history, Writing
  <2>8. AbsentIsEmpty'
    BY ONLY <2>0, <1>a, <1>b, <1>c DEF AbsentIsEmpty, history, Writing
  <2>9. HeadsOnLine'
    BY <1>12, <2>0, <1>b DEF SyncDigestRoot, Goto, disk, history, calls, bounds, HeadsOnLine
  <2>10. ObjectsAccounted'
     BY <1>12, <2>0, <1>b, <1>c DEF SyncDigestRoot, Goto, disk, history, calls, bounds, Writing,
       ObjectsAccounted
  <2> QED
    BY <2>1, <2>2, <2>3, <2>4, <2>5, <2>6, <2>7, <2>8, <2>9, <2>10 DEF TypeInv, HeadInv
<1>13. ASSUME NEW p \in Procs, FindShard(p) PROVE (TypeInv /\ HeadInv)'
  <2>1. FilesTyped' /\ HistoryTyped'
     BY <1>13, <1>a, <1>d DEF FindShard, Goto, disk, history, calls, bounds, FilesTyped,
       HistoryTyped
  <2>2. ConfirmedIsTerminal' /\ AckedIsSettled' /\ ConfirmedIsFinal' /\ HeadObjectsAreDurable'
     BY <1>13, <1>b DEF FindShard, Goto, disk, history, calls, bounds, ConfirmedIsTerminal,
       AckedIsSettled, ConfirmedIsFinal, HeadObjectsAreDurable
  <2>3. CallsNamed' /\ DirectoriesFound' /\ LocksHeld'
     BY <1>13, <1>b, <1>c, <1>e DEF FindShard, Goto, disk, history, calls, bounds, Steps,
       Writing, CallsNamed, DirectoriesFound, LocksHeld
  <2>4. CallsTyped'
     BY <1>13, <1>c DEF FindShard, Goto, disk, history, calls, bounds, Steps, CallsTyped, Calls,
       Tokens
  <2>5. WritersCompared'
     BY <1>13, <1>b, <1>c, <1>e DEF FindShard, Goto, disk, history, calls, bounds, Writing,
       WritersCompared
  <2>6. AbsentIsEmpty'
    BY <1>13, <1>b DEF FindShard, Goto, disk, history, calls, bounds, AbsentIsEmpty
  <2>7. HeadsOnLine'
    BY <1>13, <1>b DEF FindShard, Goto, disk, history, calls, bounds, HeadsOnLine
  <2>8. ObjectsAccounted'
     BY <1>13, <1>b, <1>c DEF FindShard, Goto, disk, history, calls, bounds, Writing,
       ObjectsAccounted
  <2> QED
    BY <2>1, <2>2, <2>3, <2>4, <2>5, <2>6, <2>7, <2>8 DEF TypeInv, HeadInv
<1>14. ASSUME NEW p \in Procs, LinkObject(p) PROVE (TypeInv /\ HeadInv)'
  <2>0. /\ pc[p] = "object" /\ pc' = [pc EXCEPT ![p] = "objectSync"]
        /\ UNCHANGED <<shards, studies, heads, lock, op, token, acked, confirmed, left, lost>>
    BY <1>14 DEF LinkObject, Goto, history
  <2> DEFINE h == ShardOf[op[p].object]
  <2>n. op[p].object \in Objects /\ h \in Shards /\ h \in shards.vis
    BY <2>0, <1>b, <1>e DEF CallsNamed, DirectoriesFound, Writing
  <2>o. /\ objects'[h] \in [vis : SUBSET Objects, dur : SUBSET Objects]
        /\ objects'[h].vis = objects[h].vis \cup {op[p].object} /\ objects'[h].dur = objects[h].dur
        /\ objects' \in [Shards -> [vis : SUBSET Objects, dur : SUBSET Objects]]
        /\ \A g \in Shards \ {h} : objects'[g] = objects[g]
    <3> DEFINE new == Linked(objects[h], op[p].object)
    <3>1. /\ new \in [vis : SUBSET Objects, dur : SUBSET Objects]
          /\ new.vis = objects[h].vis \cup {op[p].object} /\ new.dur = objects[h].dur
      <4>1. objects[h] \in [vis : SUBSET Objects, dur : SUBSET Objects]
        BY <1>a, <2>n
      <4> QED
        BY ONLY <4>1, <2>n, LinkedShape
    <3>2. objects' = [objects EXCEPT ![h] = new]
      BY <1>14 DEF LinkObject
    <3> HIDE DEF new
    <3> QED
      BY ONLY <1>a, <2>n, <3>1, <3>2
  <2> HIDE DEF h
  <2>1. HistoryTyped'
    BY <1>14, <2>0, <1>a, <1>d DEF LinkObject, Goto, disk, history, calls, bounds, HistoryTyped
  <2>2. FilesTyped'
    <3>1. \A g \in Shards : objects'[g].dur \subseteq objects'[g].vis /\ \A o \in objects'[g].vis : ShardOf[o] = g
      BY ONLY <2>o, <2>n, <1>a DEF FilesTyped, h
    <3> QED
      BY ONLY <2>0, <2>o, <3>1, <1>a DEF FilesTyped
  <2>3. ConfirmedIsTerminal' /\ AckedIsSettled' /\ ConfirmedIsFinal'
     BY <1>14, <2>0, <1>b DEF LinkObject, Goto, disk, history, calls, bounds,
       ConfirmedIsTerminal, AckedIsSettled, ConfirmedIsFinal
  <2>4. HeadObjectsAreDurable'
    <3>1. \A g \in Shards : objects[g].dur \subseteq objects'[g].dur
      BY ONLY <2>o, <2>n, <1>a DEF FilesTyped
    <3>2. \A s \in Studies : \A chain \in heads[s].may : Range(chain) \subseteq Objects
      BY <1>a, ChainProperties DEF Range
    <3> QED
      BY ONLY <2>0, <3>1, <3>2, <1>b, <1>e DEF HeadObjectsAreDurable
  <2>5. CallsNamed' /\ LocksHeld'
     BY <1>14, <2>0, <1>b, <1>c, <1>e DEF LinkObject, Goto, disk, history, calls, bounds, Steps,
       Writing, CallsNamed, LocksHeld
  <2>6. DirectoriesFound'
    <3>1. \A g \in Shards : objects[g].vis \subseteq objects'[g].vis /\ objects[g].dur \subseteq objects'[g].dur
      BY ONLY <2>o, <2>n, <1>a DEF FilesTyped
    <3>2. \A q \in Procs : pc[q] # "idle" => ShardOf[op[q].object] \in Shards
      BY ONLY <1>b, <1>e DEF CallsNamed
    <3>3. op[p].object \in objects'[h].vis
      BY ONLY <2>n, <2>o, <2>0, <1>b, p \in Procs DEF DirectoriesFound, h
    <3>4. \A q \in Procs \ {p} : pc'[q] = pc[q] /\ op'[q] = op[q]
      BY ONLY <2>0
    <3>5. pc[p] \in {"object", "objectSync"} /\ h \in shards.vis /\ shards' = shards /\ studies' = studies
      BY ONLY <2>0, <2>n
    <3>6. pc'[p] = "objectSync" /\ op'[p] = op[p]
      BY ONLY <2>0, <1>c, p \in Procs
    <3>7. \A q \in Procs \ {p} :
      /\ pc[q] \in {"studySync", "create"} => op[q].study \in studies'.vis
      /\ pc[q] \in Writing \ {"shard"} => ShardOf[op[q].object] \in shards'.vis
      /\ pc[q] = "objectSync" => op[q].object \in objects'[ShardOf[op[q].object]].vis
      /\ pc[q] \in {"headRename", "headSync"} =>
           op[q].object \in objects'[ShardOf[op[q].object]].dur
      BY ONLY <3>1, <3>2, <3>5, <1>b DEF DirectoriesFound
    <3> QED
      BY ONLY <3>3, <3>4, <3>5, <3>6, <3>7 DEF DirectoriesFound, h
  <2>7. CallsTyped'
     BY <1>14, <2>0, <1>c DEF LinkObject, Goto, disk, history, calls, bounds, Steps, CallsTyped,
       Calls, Tokens
  <2>8. WritersCompared'
     BY <1>14, <2>0, <1>b, <1>c, <1>e DEF LinkObject, Goto, disk, history, calls, bounds,
       Writing, WritersCompared
  <2>9. AbsentIsEmpty'
    BY ONLY <2>0, <2>n, <2>o, <1>b DEF AbsentIsEmpty
  <2>10. HeadsOnLine'
    BY <1>14, <2>0, <1>b DEF LinkObject, Goto, disk, history, calls, bounds, HeadsOnLine
  <2>11. ObjectsAccounted'
    <3>1. pc'[p] \in Writing /\ \A q \in Procs : pc[q] \in Writing => pc'[q] \in Writing
      BY ONLY <2>0, <1>c, p \in Procs DEF Writing
    <3> QED
      BY ONLY <2>0, <2>n, <2>o, <3>1, <1>b, p \in Procs DEF ObjectsAccounted
  <2> QED
    BY <2>1, <2>2, <2>3, <2>4, <2>5, <2>6, <2>7, <2>8, <2>9, <2>10, <2>11 DEF TypeInv, HeadInv
<1>15. ASSUME NEW p \in Procs, SyncObject(p) PROVE (TypeInv /\ HeadInv)'
  <2>0. /\ pc[p] = "objectSync"
        /\ pc' = [pc EXCEPT ![p] = IF op[p].study = NoStudy THEN "idle" ELSE "headRename"]
        /\ op'[p] = IF op[p].study = NoStudy THEN NoCall ELSE op[p]
        /\ \A q \in Procs \ {p} : op'[q] = op[q]
        /\ \A s \in Studies : lock'[s] = lock[s]
        /\ UNCHANGED <<shards, studies, heads, token, acked, confirmed, left, lost>>
    BY <1>15, <1>b, <1>c, <1>e DEF SyncObject, Goto, Return, LocksHeld, history
  <2> DEFINE h == ShardOf[op[p].object]
  <2>n. op[p].object \in Objects /\ h \in Shards /\ h \in shards.vis
    BY <2>0, <1>b, <1>e DEF CallsNamed, DirectoriesFound, Writing
  <2>o. /\ objects'[h] \in [vis : SUBSET Objects, dur : SUBSET Objects]
        /\ objects'[h].vis = objects[h].vis /\ objects'[h].dur = objects[h].vis
        /\ objects' \in [Shards -> [vis : SUBSET Objects, dur : SUBSET Objects]]
        /\ \A g \in Shards \ {h} : objects'[g] = objects[g]
    <3> DEFINE new == Synced(objects[h])
    <3>1. /\ new \in [vis : SUBSET Objects, dur : SUBSET Objects]
          /\ new.vis = objects[h].vis /\ new.dur = objects[h].vis
      <4>1. objects[h] \in [vis : SUBSET Objects, dur : SUBSET Objects]
        BY <1>a, <2>n
      <4> QED
        BY ONLY <4>1, <2>n, SyncedShape
    <3>2. objects' = [objects EXCEPT ![h] = new]
      BY <1>15 DEF SyncObject
    <3> HIDE DEF new
    <3> QED
      BY ONLY <1>a, <2>n, <3>1, <3>2
  <2> HIDE DEF h
  <2>1. HistoryTyped'
     BY <1>15, <2>0, <1>a, <1>d DEF SyncObject, Goto, Return, disk, history, calls, bounds,
       HistoryTyped
  <2>2. FilesTyped'
    <3>1. \A g \in Shards : objects'[g].dur \subseteq objects'[g].vis /\ \A o \in objects'[g].vis : ShardOf[o] = g
      BY ONLY <2>o, <2>n, <1>a DEF FilesTyped, h
    <3> QED
      BY ONLY <2>0, <2>o, <3>1, <1>a DEF FilesTyped
  <2>3. ConfirmedIsTerminal' /\ AckedIsSettled' /\ ConfirmedIsFinal'
     BY <1>15, <2>0, <1>b DEF SyncObject, Goto, Return, disk, history, calls, bounds,
       ConfirmedIsTerminal, AckedIsSettled, ConfirmedIsFinal
  <2>4. HeadObjectsAreDurable'
    <3>1. \A g \in Shards : objects[g].dur \subseteq objects'[g].dur
      BY ONLY <2>o, <2>n, <1>a DEF FilesTyped
    <3>2. \A s \in Studies : \A chain \in heads[s].may : Range(chain) \subseteq Objects
      BY <1>a, ChainProperties DEF Range
    <3> QED
      BY ONLY <2>0, <3>1, <3>2, <1>b, <1>e DEF HeadObjectsAreDurable
  <2>5. LocksHeld'
     BY <1>15, <2>0, <1>b, <1>c, <1>e DEF SyncObject, Goto, Return, disk, history, calls,
       bounds, Steps, Writing, LocksHeld, NoCall
  <2>6. CallsNamed'
    <3>1. \/ pc'[p] = "idle" /\ op'[p].object = NoObject
          \/ pc'[p] = "headRename" /\ op'[p] = op[p] /\ op[p].study # NoStudy
      BY ONLY <2>0, <1>c, p \in Procs DEF NoCall
    <3>2. \A q \in Procs \ {p} : pc'[q] = pc[q] /\ op'[q] = op[q]
      BY ONLY <2>0
    <3> QED
      BY ONLY <2>n, <3>1, <3>2, <1>b DEF CallsNamed, Steps, Writing
  <2>7. DirectoriesFound'
    <3>1. \A g \in Shards : objects[g].vis \subseteq objects'[g].vis /\ objects[g].dur \subseteq objects'[g].dur
      BY ONLY <2>o, <2>n, <1>a DEF FilesTyped
    <3>2. \A q \in Procs : pc[q] # "idle" => ShardOf[op[q].object] \in Shards
      BY ONLY <1>b, <1>e DEF CallsNamed
    <3>3. op[p].object \in objects'[h].vis
      BY ONLY <2>n, <2>o, <2>0, <1>b, p \in Procs DEF DirectoriesFound, h
    <3>4. \A q \in Procs \ {p} : pc'[q] = pc[q] /\ op'[q] = op[q]
      BY ONLY <2>0
    <3>5. pc[p] \in {"object", "objectSync"} /\ h \in shards.vis /\ shards' = shards /\ studies' = studies
      BY ONLY <2>0, <2>n
    <3>6. pc'[p] = "idle" \/ (pc'[p] = "headRename" /\ op'[p] = op[p])
      BY ONLY <2>0, <1>c, p \in Procs
    <3>7. \A q \in Procs \ {p} :
      /\ pc[q] \in {"studySync", "create"} => op[q].study \in studies'.vis
      /\ pc[q] \in Writing \ {"shard"} => ShardOf[op[q].object] \in shards'.vis
      /\ pc[q] = "objectSync" => op[q].object \in objects'[ShardOf[op[q].object]].vis
      /\ pc[q] \in {"headRename", "headSync"} =>
           op[q].object \in objects'[ShardOf[op[q].object]].dur
      BY ONLY <3>1, <3>2, <3>5, <1>b DEF DirectoriesFound
    <3>8. op[p].object \in objects'[h].dur
      BY ONLY <2>0, <2>n, <2>o, <1>b, p \in Procs DEF DirectoriesFound, h
    <3> QED
      BY ONLY <3>4, <3>5, <3>6, <3>7, <3>8 DEF DirectoriesFound, h, Writing
  <2>8. CallsTyped'
    <3>1. CASE op[p].study = NoStudy
      <4>1. CallsTyped /\ Return(p)
        BY <1>15, <3>1 DEF SyncObject, TypeInv
      <4>2. token' \in [Procs -> Tokens]
        BY ONLY <2>0, <1>c
      <4> QED
        BY ONLY <4>1, <4>2, ReturnTyped, p \in Procs DEF CallsTyped
    <3>2. CASE op[p].study # NoStudy
      BY <1>15, <1>c, <3>2 DEF SyncObject, Goto, CallsTyped, Steps
    <3> QED
      BY <3>1, <3>2
  <2>9. WritersCompared'
    BY ONLY <2>0, <1>b, <1>c, <1>a, p \in Procs DEF WritersCompared, Writing, NoCall, Calls
  <2>10. AbsentIsEmpty'
    BY ONLY <2>0, <2>n, <2>o, <1>b DEF AbsentIsEmpty
  <2>11. HeadsOnLine'
    <3>1. \A t \in Studies : lock'[t] = lock[t] /\ (lock[t] # NoProc => op'[lock[t]] = op[lock[t]])
      BY ONLY <2>0, <1>b, <1>c, <1>e DEF LocksHeld, Writing
    <3> QED
      BY ONLY <2>0, <3>1, <1>b DEF HeadsOnLine
  <2>12. ObjectsAccounted'
    <3>1. op[p].study = NoStudy => Stages[op[p].object] = {}
      BY ONLY <2>0, <1>b, p \in Procs DEF CallsNamed, Writing
    <3>2. \A q \in Procs : pc[q] \in Writing =>
            (pc'[q] \in Writing /\ op'[q].object = op[q].object) \/ Stages[op[q].object] = {}
      BY ONLY <2>0, <3>1, <1>c, p \in Procs DEF Writing
    <3>3. \A g \in Shards : objects'[g].vis = objects[g].vis
      BY ONLY <2>n, <2>o
    <3> QED
      BY ONLY <2>0, <3>2, <3>3, <1>b DEF ObjectsAccounted
  <2> QED
     BY <2>1, <2>2, <2>3, <2>4, <2>5, <2>6, <2>7, <2>8, <2>9, <2>10, <2>11, <2>12 DEF TypeInv,
       HeadInv
<1>16. ASSUME NEW p \in Procs, HeadRename(p) PROVE (TypeInv /\ HeadInv)'
  <2>0. /\ pc[p] = "headRename" /\ pc' = [pc EXCEPT ![p] = "headSync"]
        /\ UNCHANGED <<shards, objects, studies, lock, op, token, acked, confirmed, left, lost>>
    BY <1>16 DEF HeadRename, Goto, history
  <2> DEFINE s == op[p].study c == Append(heads[s].vis, op[p].object)
  <2>f. /\ op[p].object \in Objects /\ s \in Studies /\ s \in studies.vis /\ lock[s] = p
        /\ heads[s].vis = op[p].from /\ Len(op[p].from) + 1 \in Stages[op[p].object]
    BY <2>0, <1>a, <1>b, <1>c DEF CallsNamed, WritersCompared, Writing, Calls
  <2>s. /\ s \in Studies /\ c \in Chains /\ c = Append(op[p].from, op[p].object)
        /\ Len(heads[s].vis) < LastRevision
        /\ Range(c) = Range(heads[s].vis) \cup {op[p].object}
        /\ \A chain \in Chains : IsPrefix(chain, heads[s].vis) => IsPrefix(chain, c)
    <3>1. heads[s].vis \in Chains
      BY <1>a, <2>f
    <3> QED
      BY ONLY <2>f, <3>1, ExtendedChain, PrefixExtended
  <2>h. /\ heads'[s] \in [vis : Chains, may : SUBSET Chains]
        /\ heads'[s].vis = c /\ heads'[s].may = heads[s].may \cup {c}
        /\ heads' \in [Studies -> [vis : Chains, may : SUBSET Chains]]
        /\ \A t \in Studies \ {s} : heads'[t] = heads[t]
    <3> DEFINE new == Renamed(heads[s], c)
    <3>1. /\ new \in [vis : Chains, may : SUBSET Chains]
          /\ new.vis = c /\ new.may = heads[s].may \cup {c}
      <4>1. heads[s] \in [vis : Chains, may : SUBSET Chains] /\ heads[s].vis \in Chains
        BY <1>a, <2>s
      <4> QED
        BY ONLY <4>1, <2>s, RenamedShape
    <3>2. heads' = [heads EXCEPT ![s] = new]
      BY <1>16, <2>s DEF HeadRename, s, c
    <3> HIDE DEF new
    <3> QED
      BY ONLY <1>a, <2>s, <3>1, <3>2
  <2> HIDE DEF s, c
  <2>1. HistoryTyped'
    BY <1>16, <2>0, <1>a, <1>d DEF HeadRename, Goto, disk, history, calls, bounds, HistoryTyped
  <2>2. FilesTyped'
    <3>1. \A t \in Studies : heads'[t].vis \in heads'[t].may
      BY ONLY <2>s, <2>h, <1>a DEF FilesTyped
    <3>2. heads' \in [Studies -> [vis : Chains, may : SUBSET Chains]]
      BY ONLY <2>h
    <3>3. shards' = shards /\ studies' = studies /\ objects' = objects
      BY ONLY <2>0
    <3> QED
      BY ONLY <3>1, <3>2, <3>3, <1>a DEF FilesTyped
  <2>3. ConfirmedIsTerminal'
    BY <1>16, <2>0, <1>b DEF HeadRename, Goto, disk, history, calls, bounds, ConfirmedIsTerminal
  <2>4. AckedIsSettled'
    <3>1. heads[s].vis \in heads[s].may /\ acked[s] \in Chains
      BY ONLY <1>a, <1>d, <2>s DEF FilesTyped
    <3>2. s \notin lost => IsPrefix(acked[s], c)
      BY ONLY <1>b, <2>s, <3>1 DEF AckedIsSettled
    <3> QED
      BY ONLY <2>0, <2>h, <3>2, <1>b DEF AckedIsSettled
  <2>5. ConfirmedIsFinal'
    <3>1. heads[s].vis \in heads[s].may
      BY ONLY <1>a, <2>s DEF FilesTyped
    <3>2. Len(heads[s].vis) # LastRevision
      <4>1. Len(heads[s].vis) \in Nat
        BY <1>a, <2>s, ChainProperties
      <4> QED
        BY <2>s, <4>1, DigestAssumption
    <3>3. s \in Studies \ lost => confirmed[s] = <<>>
      BY ONLY <1>b, <2>s, <3>1, <3>2 DEF ConfirmedIsFinal, ConfirmedIsTerminal
    <3> QED
      BY ONLY <2>0, <2>h, <3>3, <1>b DEF ConfirmedIsFinal
  <2>6. HeadObjectsAreDurable'
    <3>1. heads[s].vis \in heads[s].may
      BY ONLY <1>a, <2>s DEF FilesTyped
    <3>2. op[p].object \in objects[ShardOf[op[p].object]].dur
      BY ONLY <2>0, <1>b, p \in Procs DEF DirectoriesFound
    <3>3. \A o \in Range(c) : o \in objects[ShardOf[o]].dur \/ ShardOf[o] \in lost
      BY ONLY <2>s, <3>1, <3>2, <1>b DEF HeadObjectsAreDurable
    <3> QED
      BY ONLY <2>0, <2>h, <3>3, <1>b DEF HeadObjectsAreDurable
  <2>7. CallsNamed' /\ DirectoriesFound' /\ LocksHeld'
     BY <1>16, <2>0, <1>b, <1>c, <1>e DEF HeadRename, Goto, disk, history, calls, bounds, Steps,
       Writing, CallsNamed, DirectoriesFound, LocksHeld
  <2>8. CallsTyped'
     BY <1>16, <2>0, <1>c DEF HeadRename, Goto, disk, history, calls, bounds, Steps, CallsTyped,
       Calls, Tokens
  <2>9. WritersCompared'
    <3>1. \A q \in Procs \ {p} : pc'[q] = pc[q] /\ (pc[q] \in Writing /\ op[q].study # NoStudy => op[q].study # s /\ op[q].study \in Studies)
      BY ONLY <2>0, <2>f, <1>b, <1>c DEF WritersCompared, Calls
    <3>2. \A q \in Procs \ {p} : pc[q] \in Writing /\ op[q].study # NoStudy => heads'[op[q].study] = heads[op[q].study]
      BY ONLY <3>1, <2>h
    <3>3. pc'[p] = "headSync" /\ heads'[s].vis = Append(op[p].from, op[p].object)
      BY ONLY <2>0, <2>s, <2>h, <1>c, p \in Procs
    <3>4. lock' = lock /\ op' = op /\ studies' = studies
      BY ONLY <2>0
    <3>5. \A q \in Procs \ {p} : pc[q] \in Writing /\ op[q].study # NoStudy =>
            /\ lock[op[q].study] = q
            /\ op[q].study \in studies.vis
            /\ Len(op[q].from) + 1 \in Stages[op[q].object]
            /\ heads[op[q].study].vis =
                 IF pc[q] = "headSync" THEN Append(op[q].from, op[q].object) ELSE op[q].from
      BY ONLY <1>b DEF WritersCompared
    <3>6. \A q \in Procs \ {p} : pc'[q] \in Writing /\ op'[q].study # NoStudy =>
            /\ lock'[op'[q].study] = q
            /\ op'[q].study \in studies'.vis
            /\ Len(op'[q].from) + 1 \in Stages[op'[q].object]
            /\ heads'[op'[q].study].vis =
                 IF pc'[q] = "headSync" THEN Append(op'[q].from, op'[q].object) ELSE op'[q].from
      BY ONLY <3>1, <3>2, <3>4, <3>5
    <3>7. op[p].study = s
      BY DEF s
    <3>8. /\ lock'[op'[p].study] = p
          /\ op'[p].study \in studies'.vis
          /\ Len(op'[p].from) + 1 \in Stages[op'[p].object]
          /\ heads'[op'[p].study].vis =
               IF pc'[p] = "headSync" THEN Append(op'[p].from, op'[p].object) ELSE op'[p].from
      BY ONLY <2>f, <3>3, <3>4, <3>7
    <3> QED
      BY ONLY <3>6, <3>8 DEF WritersCompared
  <2>10. AbsentIsEmpty'
    BY ONLY <2>0, <2>f, <2>h, <1>b DEF AbsentIsEmpty
  <2>11. HeadsOnLine'
    <3>1. heads[s].vis \in heads[s].may /\ heads[s].may \subseteq Chains
      BY ONLY <1>a, <2>s DEF FilesTyped
    <3>2. PICK least \in heads[s].may : \A chain \in heads[s].may : Len(least) <= Len(chain)
      BY ONLY <1>b, <2>s DEF HeadsOnLine
    <3>3. \A chain \in heads'[s].may : IsPrefix(chain, heads'[s].vis)
      BY ONLY <1>b, <2>s, <2>h, <3>1, PrefixReflexive DEF HeadsOnLine
    <3>4. lock[s] # NoProc /\ op[p].object = op'[lock[s]].object
      BY ONLY <2>f, <2>0, <1>e
    <3>5. \A chain \in heads'[s].may : \A o \in Range(heads'[s].vis) \ Range(chain) : o \in left \/ o = op'[lock[s]].object
      BY ONLY <1>b, <2>0, <2>s, <2>h, <3>4 DEF HeadsOnLine
    <3>6. Len(least) <= Len(c)
      BY ONLY <3>1, <3>2, <2>f, <2>s, ChainProperties, ExtendedChain
    <3>7. \E m \in heads'[s].may : \A chain \in heads'[s].may : Len(m) <= Len(chain)
      BY ONLY <3>2, <3>6, <2>h
    <3>8. lock' = lock /\ left' = left /\ op' = op
      BY ONLY <2>0
    <3> QED
      BY ONLY <2>h, <3>3, <3>4, <3>5, <3>7, <3>8, <1>b DEF HeadsOnLine
  <2>12. ObjectsAccounted'
    <3>1. \A t \in Studies : Range(heads[t].vis) \subseteq Range(heads'[t].vis)
      BY ONLY <2>s, <2>h
    <3>2. \A q \in Procs : pc[q] \in Writing => pc'[q] \in Writing
      BY ONLY <2>0, <1>c, p \in Procs DEF Writing
    <3> QED
      BY ONLY <2>0, <3>1, <3>2, <1>b DEF ObjectsAccounted
  <2> QED
     BY <2>1, <2>2, <2>3, <2>4, <2>5, <2>6, <2>7, <2>8, <2>9, <2>10, <2>11, <2>12 DEF TypeInv,
       HeadInv
<1>17. ASSUME NEW p \in Procs, HeadSync(p) PROVE (TypeInv /\ HeadInv)'
  <2>0. /\ pc' = [pc EXCEPT ![p] = "idle"]
        /\ op'[p] = NoCall /\ \A q \in Procs \ {p} : op'[q] = op[q]
        /\ \A s \in Studies : lock'[s] = IF lock[s] = p THEN NoProc ELSE lock[s]
        /\ UNCHANGED <<shards, objects, studies, confirmed, left, lost>>
        /\ pc[p] = "headSync" /\ op[p].study # NoStudy
        /\ token' = [token EXCEPT ![p] = [study |-> op[p].study, chain |-> heads[op[p].study].vis]]
        /\ acked' = [acked EXCEPT ![op[p].study] = heads[op[p].study].vis]
    BY <1>17, <1>b, <1>c DEF HeadSync, Return, CallsNamed
  <2> DEFINE s == op[p].study
  <2>f. /\ op[p].object \in Objects /\ lock[s] = p
        /\ heads[s].vis = Append(op[p].from, op[p].object) /\ op[p].from \in Chains
        /\ Len(op[p].from) + 1 \in Stages[op[p].object]
    BY <2>0, <1>a, <1>b, <1>c DEF CallsNamed, WritersCompared, Writing, Calls
  <2>s. s \in Studies
    BY <2>0, <1>c DEF Calls
  <2>r. op[p].object \in Range(heads[s].vis)
    BY ONLY <2>f, ExtendedChain
  <2>l. /\ \A t \in Studies \ {s} : lock'[t] = lock[t] /\ (lock[t] # NoProc => op'[lock[t]] = op[lock[t]])
        /\ lock'[s] = NoProc
    BY ONLY <2>0, <2>f, <2>s, <1>b, <1>c DEF LocksHeld, Writing, s
  <2>h. /\ heads'[s] \in [vis : Chains, may : SUBSET Chains]
        /\ heads'[s].vis = heads[s].vis /\ heads'[s].may = {heads[s].vis}
        /\ heads' \in [Studies -> [vis : Chains, may : SUBSET Chains]]
        /\ \A t \in Studies \ {s} : heads'[t] = heads[t]
    <3> DEFINE new == SyncedFile(heads[s])
    <3>1. /\ new \in [vis : Chains, may : SUBSET Chains]
          /\ new.vis = heads[s].vis /\ new.may = {heads[s].vis}
      <4>1. heads[s] \in [vis : Chains, may : SUBSET Chains] /\ heads[s].vis \in Chains
        BY <1>a, <2>s
      <4> QED
        BY ONLY <4>1, <2>s, SyncedFileShape
    <3>2. heads' = [heads EXCEPT ![s] = new]
      BY <1>17 DEF HeadSync, s
    <3> HIDE DEF new
    <3> QED
      BY ONLY <1>a, <2>s, <3>1, <3>2
  <2> HIDE DEF s
  <2>1. FilesTyped'
    <3>1. \A t \in Studies : heads'[t].vis \in heads'[t].may
      BY ONLY <2>s, <2>h, <1>a DEF FilesTyped
    <3>2. heads' \in [Studies -> [vis : Chains, may : SUBSET Chains]]
      BY ONLY <2>h
    <3>3. shards' = shards /\ studies' = studies /\ objects' = objects
      BY ONLY <2>0
    <3> QED
      BY ONLY <3>1, <3>2, <3>3, <1>a DEF FilesTyped
  <2>2. HistoryTyped'
    <3>1. heads[s].vis \in Chains /\ acked' = [acked EXCEPT ![s] = heads[s].vis]
      BY <1>a, <2>s, <2>0 DEF s
    <3>2. acked' \in [Studies -> Chains]
      BY ONLY <1>d, <3>1
    <3>3. UNCHANGED <<confirmed, left, lost, faults, losses>>
      BY <1>17 DEF HeadSync, bounds
    <3> QED
      BY ONLY <1>d, <3>2, <3>3 DEF HistoryTyped
  <2>3. ConfirmedIsTerminal'
    BY <1>17, <2>0, <1>b DEF HeadSync, Return, disk, history, calls, bounds, ConfirmedIsTerminal
  <2>4. AckedIsSettled'
    <3>1. IsPrefix(heads[s].vis, heads[s].vis)
      BY <1>a, <2>s, PrefixReflexive
    <3>2. acked'[s] = heads[s].vis /\ \A t \in Studies \ {s} : acked'[t] = acked[t]
      BY ONLY <2>0, <1>d, <2>s DEF s
    <3> QED
      BY ONLY <2>0, <2>h, <2>s, <3>1, <3>2, <1>b DEF AckedIsSettled
  <2>5. ConfirmedIsFinal'
    <3>1. heads[s].vis \in heads[s].may
      BY ONLY <1>a, <2>s DEF FilesTyped
    <3> QED
      BY ONLY <2>0, <2>h, <3>1, <1>b DEF ConfirmedIsFinal
  <2>6. HeadObjectsAreDurable'
    <3>1. heads[s].vis \in heads[s].may
      BY ONLY <1>a, <2>s DEF FilesTyped
    <3> QED
      BY ONLY <2>0, <2>h, <2>s, <3>1, <1>b DEF HeadObjectsAreDurable
  <2>7. CallsNamed' /\ DirectoriesFound' /\ LocksHeld'
     BY <1>17, <2>0, <1>b, <1>c, <1>e DEF HeadSync, Return, disk, history, calls, bounds, Steps,
       Writing, CallsNamed, DirectoriesFound, LocksHeld, NoCall
  <2>8. CallsTyped'
    <3>1. CallsTyped /\ Return(p)
      BY <1>17 DEF HeadSync, TypeInv
    <3>2. token' \in [Procs -> Tokens]
      <4>1. [study |-> s, chain |-> heads[s].vis] \in Tokens
        BY <1>a, <2>s DEF Tokens
      <4>2. token' = [token EXCEPT ![p] = [study |-> s, chain |-> heads[s].vis]]
        BY <2>0 DEF s
      <4> QED
        BY ONLY <1>c, <4>1, <4>2
    <3> QED
      BY ONLY <3>1, <3>2, ReturnTyped, p \in Procs DEF CallsTyped
  <2>9. WritersCompared'
    <3>1. \A t \in Studies : heads'[t].vis = heads[t].vis
      BY ONLY <2>s, <2>h
    <3>2. pc'[p] \notin Writing /\ studies' = studies
      BY ONLY <2>0, <1>c, p \in Procs DEF Writing
    <3>3. \A q \in Procs \ {p} : pc'[q] = pc[q] /\ op'[q] = op[q]
      BY ONLY <2>0
    <3>4. \A t \in Studies : lock[t] # p => lock'[t] = lock[t]
      BY ONLY <2>0
    <3> QED
      BY <3>1, <3>2, <3>3, <3>4, <1>b, OtherWritersKept DEF TypeInv
  <2>10. AbsentIsEmpty'
    <3>1. s \in studies.vis
      BY <2>0, <1>b DEF WritersCompared, Writing, s
    <3>2. \A t \in Studies \ {s} : acked'[t] = acked[t]
      BY ONLY <2>0, <1>d DEF s
    <3> QED
      BY ONLY <2>0, <2>h, <3>1, <3>2, <1>b DEF AbsentIsEmpty
  <2>11. HeadsOnLine'
    <3>1. heads[s].vis \in Chains
      BY <1>a, <2>s
    <3>2. /\ \A chain \in heads'[s].may : chain = heads'[s].vis /\ IsPrefix(chain, heads'[s].vis)
          /\ \E m \in heads'[s].may : \A chain \in heads'[s].may : Len(m) <= Len(chain)
      <4>1. IsPrefix(heads[s].vis, heads[s].vis) /\ Len(heads[s].vis) <= Len(heads[s].vis)
        BY ONLY <3>1, PrefixReflexive, ChainProperties
      <4> QED
        BY ONLY <2>h, <4>1
    <3>3. left' = left
      BY <2>0
    <3> QED
      BY ONLY <2>h, <2>l, <2>s, <3>2, <3>3, <1>b DEF HeadsOnLine
  <2>12. ObjectsAccounted'
    <3>1. \A t \in Studies : heads'[t].vis = heads[t].vis
      BY ONLY <2>s, <2>h
    <3>2. \A q \in Procs \ {p} : pc'[q] = pc[q] /\ op'[q] = op[q]
      BY ONLY <2>0
    <3>3. objects' = objects /\ left' = left
      BY ONLY <2>0
    <3> QED
      BY ONLY <2>r, <2>s, <3>1, <3>2, <3>3, <1>b DEF ObjectsAccounted
  <2> QED
     BY <2>1, <2>2, <2>3, <2>4, <2>5, <2>6, <2>7, <2>8, <2>9, <2>10, <2>11, <2>12 DEF TypeInv,
       HeadInv
<1>18. ASSUME NEW p \in Procs, ConfirmResidue(p) PROVE (TypeInv /\ HeadInv)'
  <2>0. /\ heads[token[p].study].vis = token[p].chain /\ Len(token[p].chain) = LastRevision
        /\ lock[token[p].study] = NoProc
        /\ confirmed' = [confirmed EXCEPT ![token[p].study] = heads[token[p].study].vis]
        /\ token[p].study \in studies.vis /\ token[p].study \in Studies
        /\ UNCHANGED <<shards, objects, studies, lock, pc, op, token, acked, left, lost>>
    <3>1. token[p].study \in studies.vis
      BY <1>18 DEF ConfirmResidue, Readable
    <3>2. token[p].study \in Studies
      BY ONLY <3>1, <1>a
    <3> QED
      BY <1>18, <3>1, <3>2 DEF ConfirmResidue, calls
  <2> DEFINE s == token[p].study
  <2>s. s \in Studies
    BY ONLY <2>0
  <2>h. /\ heads'[s] \in [vis : Chains, may : SUBSET Chains]
        /\ heads'[s].vis = heads[s].vis /\ heads'[s].may = {heads[s].vis}
        /\ heads' \in [Studies -> [vis : Chains, may : SUBSET Chains]]
        /\ \A t \in Studies \ {s} : heads'[t] = heads[t]
    <3> DEFINE new == SyncedFile(heads[s])
    <3>1. /\ new \in [vis : Chains, may : SUBSET Chains]
          /\ new.vis = heads[s].vis /\ new.may = {heads[s].vis}
      <4>1. heads[s] \in [vis : Chains, may : SUBSET Chains] /\ heads[s].vis \in Chains
        BY <1>a, <2>s
      <4> QED
        BY ONLY <4>1, <2>s, SyncedFileShape
    <3>2. heads' = [heads EXCEPT ![s] = new]
      BY <1>18 DEF ConfirmResidue, s
    <3> HIDE DEF new
    <3> QED
      BY ONLY <1>a, <2>s, <3>1, <3>2
  <2> HIDE DEF s
  <2>1. FilesTyped'
    <3>1. \A t \in Studies : heads'[t].vis \in heads'[t].may
      BY ONLY <2>s, <2>h, <1>a DEF FilesTyped
    <3>2. heads' \in [Studies -> [vis : Chains, may : SUBSET Chains]]
      BY ONLY <2>h
    <3>3. shards' = shards /\ studies' = studies /\ objects' = objects
      BY ONLY <2>0
    <3> QED
      BY ONLY <3>1, <3>2, <3>3, <1>a DEF FilesTyped
  <2>2. HistoryTyped'
    <3>1. heads[s].vis \in Chains /\ confirmed' = [confirmed EXCEPT ![s] = heads[s].vis]
      BY <1>a, <2>s, <2>0 DEF s
    <3>2. confirmed' \in [Studies -> Chains]
      BY ONLY <1>d, <3>1
    <3>3. UNCHANGED <<acked, left, lost, faults, losses>>
      BY <1>18 DEF ConfirmResidue, bounds
    <3> QED
      BY ONLY <1>d, <3>2, <3>3 DEF HistoryTyped
  <2>3. ConfirmedIsTerminal'
    <3>1. Len(heads[s].vis) = LastRevision /\ confirmed' = [confirmed EXCEPT ![s] = heads[s].vis]
      BY ONLY <2>0 DEF s
    <3> QED
      BY ONLY <1>d, <3>1, <1>b DEF ConfirmedIsTerminal
  <2>4. AckedIsSettled'
    <3>1. heads[s].vis \in heads[s].may
      BY ONLY <1>a, <2>s DEF FilesTyped
    <3> QED
      BY ONLY <2>0, <2>h, <2>s, <3>1, <1>b DEF AckedIsSettled
  <2>5. ConfirmedIsFinal'
    <3>1. confirmed' = [confirmed EXCEPT ![s] = heads[s].vis] /\ lost' = lost
      BY ONLY <2>0 DEF s
    <3> QED
      BY ONLY <1>d, <2>h, <3>1, <1>b DEF ConfirmedIsFinal
  <2>6. HeadObjectsAreDurable'
    <3>1. heads[s].vis \in heads[s].may
      BY ONLY <1>a, <2>s DEF FilesTyped
    <3> QED
      BY ONLY <2>0, <2>h, <2>s, <3>1, <1>b DEF HeadObjectsAreDurable
  <2>7. CallsNamed' /\ DirectoriesFound' /\ LocksHeld'
     BY <1>18, <2>0, <1>b, <1>c, <1>e DEF ConfirmResidue, Readable, disk, history, calls,
       bounds, Steps, Writing, CallsNamed, DirectoriesFound, LocksHeld
  <2>8. CallsTyped'
     BY <1>18, <2>0, <1>c DEF ConfirmResidue, Readable, disk, history, calls, bounds, Steps,
       CallsTyped, Calls, Tokens
  <2>9. WritersCompared'
    <3>1. \A t \in Studies : heads'[t].vis = heads[t].vis
      BY ONLY <2>s, <2>h
    <3>2. lock' = lock /\ op' = op /\ studies' = studies /\ pc' = pc
      BY ONLY <2>0
    <3>3. \A q \in Procs : op[q].study # NoStudy => op[q].study \in Studies
      BY ONLY <1>c DEF Calls
    <3> QED
      BY ONLY <3>1, <3>2, <3>3, <1>b DEF WritersCompared
  <2>10. AbsentIsEmpty'
    <3>1. s \in studies.vis
      BY <2>0 DEF s
    <3>2. \A t \in Studies \ {s} : confirmed'[t] = confirmed[t]
      BY ONLY <2>0, <1>d DEF s
    <3> QED
      BY ONLY <2>0, <2>h, <3>1, <3>2, <1>b DEF AbsentIsEmpty
  <2>11. HeadsOnLine'
    <3>1. heads[s].vis \in Chains
      BY <1>a, <2>s
    <3>2. /\ \A chain \in heads'[s].may : chain = heads'[s].vis /\ IsPrefix(chain, heads'[s].vis)
          /\ \E m \in heads'[s].may : \A chain \in heads'[s].may : Len(m) <= Len(chain)
      <4>1. IsPrefix(heads[s].vis, heads[s].vis) /\ Len(heads[s].vis) <= Len(heads[s].vis)
        BY ONLY <3>1, PrefixReflexive, ChainProperties
      <4> QED
        BY ONLY <2>h, <4>1
    <3>3. left' = left
      BY <2>0
    <3> QED
      BY ONLY <2>0, <2>h, <2>s, <3>2, <3>3, <1>b DEF HeadsOnLine
  <2>12. ObjectsAccounted'
    <3>1. \A t \in Studies : heads'[t].vis = heads[t].vis
      BY ONLY <2>s, <2>h
    <3> QED
      BY ONLY <2>0, <3>1, <1>b DEF ObjectsAccounted
  <2> QED
     BY <2>1, <2>2, <2>3, <2>4, <2>5, <2>6, <2>7, <2>8, <2>9, <2>10, <2>11, <2>12 DEF TypeInv,
       HeadInv
<1>19. ASSUME NEW p \in Procs, CallFails(p) PROVE (TypeInv /\ HeadInv)'
  <2>0. /\ pc' = [pc EXCEPT ![p] = "idle"]
        /\ op'[p] = NoCall /\ \A q \in Procs \ {p} : op'[q] = op[q]
        /\ \A s \in Studies : lock'[s] = IF lock[s] = p THEN NoProc ELSE lock[s]
        /\ UNCHANGED <<shards, objects, studies, heads, acked, confirmed, lost, token>>
        /\ left' = left \cup {op[p].object} /\ pc[p] # "idle"
    BY <1>19, <1>c DEF CallFails, Return, disk, history, calls
  <2>n. pc[p] # "idle" => op[p].object \in Objects
    BY <1>b DEF CallsNamed
  <2>l. \A t \in Studies :
          \/ lock'[t] = lock[t] /\ (lock[t] # NoProc => op'[lock[t]] = op[lock[t]])
          \/ lock[t] = p /\ lock'[t] = NoProc /\ op[p].object \in left'
    BY ONLY <2>0, <2>n, <1>b, <1>c, <1>e DEF LocksHeld, Writing
  <2>1. FilesTyped'
    BY <1>19, <2>0, <1>a, <1>d DEF CallFails, Return, disk, history, calls, bounds, FilesTyped
  <2>2. HistoryTyped'
    <3>1. left' \subseteq Objects
      BY ONLY <2>0, <2>n, <1>d
    <3>2. UNCHANGED <<acked, confirmed, lost>>
      BY ONLY <2>0
    <3>3. faults' \in 0 .. MaxFaults /\ losses' = losses
      BY <1>19, <1>d, DigestAssumption DEF CallFails, HistoryTyped
    <3> QED
      BY ONLY <3>1, <3>2, <3>3, <1>d DEF HistoryTyped
  <2>3. ConfirmedIsTerminal' /\ AckedIsSettled' /\ ConfirmedIsFinal' /\ HeadObjectsAreDurable'
     BY <1>19, <2>0, <1>b DEF CallFails, Return, disk, history, calls, bounds,
       ConfirmedIsTerminal, AckedIsSettled, ConfirmedIsFinal, HeadObjectsAreDurable
  <2>4. CallsNamed' /\ DirectoriesFound' /\ LocksHeld'
     BY <1>19, <2>0, <1>b, <1>c, <1>e DEF CallFails, Return, disk, history, calls, bounds,
       Steps, Writing, CallsNamed, DirectoriesFound, LocksHeld, NoCall
  <2>5. CallsTyped'
    <3>1. CallsTyped /\ Return(p)
      BY <1>19 DEF CallFails, TypeInv
    <3>2. token' \in [Procs -> Tokens]
      BY ONLY <2>0, <1>c
    <3> QED
      BY ONLY <3>1, <3>2, ReturnTyped, p \in Procs DEF CallsTyped
  <2>6. WritersCompared'
    <3>1. pc'[p] \notin Writing /\ studies' = studies /\ heads' = heads
      BY ONLY <2>0, <1>c, p \in Procs DEF Writing
    <3>2. \A q \in Procs \ {p} : pc'[q] = pc[q] /\ op'[q] = op[q]
      BY ONLY <2>0
    <3>3. \A t \in Studies : lock[t] # p => lock'[t] = lock[t]
      BY ONLY <2>0
    <3> QED
      BY <3>1, <3>2, <3>3, <1>b, OtherWritersKept DEF TypeInv
  <2>7. AbsentIsEmpty'
    BY <1>19, <2>0, <1>b DEF CallFails, Return, disk, history, calls, bounds, AbsentIsEmpty
  <2>8. HeadsOnLine'
    <3>1. left \subseteq left' /\ heads' = heads
      BY ONLY <2>0
    <3> QED
      BY ONLY <2>l, <3>1, <1>b DEF HeadsOnLine
  <2>9. ObjectsAccounted'
    <3>1. \A q \in Procs \ {p} : pc'[q] = pc[q] /\ op'[q] = op[q]
      BY ONLY <2>0
    <3>2. pc[p] \in Writing => op[p].object \in left'
      BY ONLY <2>0, <2>n, <1>e DEF Writing
    <3>3. objects' = objects /\ heads' = heads /\ left \subseteq left'
      BY ONLY <2>0
    <3> QED
      BY ONLY <3>1, <3>2, <3>3, <1>b DEF ObjectsAccounted
  <2> QED
    BY <2>1, <2>2, <2>3, <2>4, <2>5, <2>6, <2>7, <2>8, <2>9 DEF TypeInv, HeadInv
<1>20. ASSUME NEW p \in Procs, Kill(p) PROVE (TypeInv /\ HeadInv)'
  <2>0. /\ pc' = [pc EXCEPT ![p] = "idle"]
        /\ op'[p] = NoCall /\ \A q \in Procs \ {p} : op'[q] = op[q]
        /\ \A s \in Studies : lock'[s] = IF lock[s] = p THEN NoProc ELSE lock[s]
        /\ UNCHANGED <<shards, objects, studies, heads, acked, confirmed, lost>>
        /\ left' = left \cup ({op[p].object} \ {NoObject})
    BY <1>20, <1>c DEF Kill, Return, disk, history, calls
  <2>n. pc[p] # "idle" => op[p].object \in Objects
    BY <1>b DEF CallsNamed
  <2>l. \A t \in Studies :
          \/ lock'[t] = lock[t] /\ (lock[t] # NoProc => op'[lock[t]] = op[lock[t]])
          \/ lock[t] = p /\ lock'[t] = NoProc /\ op[p].object \in left'
    BY ONLY <2>0, <2>n, <1>b, <1>c, <1>e DEF LocksHeld, Writing
  <2>1. FilesTyped'
    BY <1>20, <2>0, <1>a, <1>d DEF Kill, Return, disk, history, calls, bounds, FilesTyped
  <2>2. HistoryTyped'
    <3>1. left' \subseteq Objects
      BY ONLY <2>0, <2>n, <1>d, <1>c DEF Calls
    <3>2. UNCHANGED <<acked, confirmed, lost>>
      BY ONLY <2>0
    <3>3. faults' \in 0 .. MaxFaults /\ losses' = losses
      BY <1>20, <1>d, DigestAssumption DEF Kill, HistoryTyped
    <3> QED
      BY ONLY <3>1, <3>2, <3>3, <1>d DEF HistoryTyped
  <2>3. ConfirmedIsTerminal' /\ AckedIsSettled' /\ ConfirmedIsFinal' /\ HeadObjectsAreDurable'
     BY <1>20, <2>0, <1>b DEF Kill, Return, disk, history, calls, bounds, ConfirmedIsTerminal,
       AckedIsSettled, ConfirmedIsFinal, HeadObjectsAreDurable
  <2>4. CallsNamed' /\ DirectoriesFound' /\ LocksHeld'
     BY <1>20, <2>0, <1>b, <1>c, <1>e DEF Kill, Return, disk, history, calls, bounds, Steps,
       Writing, CallsNamed, DirectoriesFound, LocksHeld, NoCall
  <2>5. CallsTyped'
    <3>1. CallsTyped /\ Return(p)
      BY <1>20 DEF Kill, TypeInv
    <3>2. token' \in [Procs -> Tokens]
      <4>1. NoToken \in Tokens
        BY EmptyChain DEF NoToken, Tokens
      <4> QED
        BY <1>20, <1>c, <4>1 DEF Kill
    <3> QED
      BY ONLY <3>1, <3>2, ReturnTyped, p \in Procs DEF CallsTyped
  <2>6. WritersCompared'
    <3>1. pc'[p] \notin Writing /\ studies' = studies /\ heads' = heads
      BY ONLY <2>0, <1>c, p \in Procs DEF Writing
    <3>2. \A q \in Procs \ {p} : pc'[q] = pc[q] /\ op'[q] = op[q]
      BY ONLY <2>0
    <3>3. \A t \in Studies : lock[t] # p => lock'[t] = lock[t]
      BY ONLY <2>0
    <3> QED
      BY <3>1, <3>2, <3>3, <1>b, OtherWritersKept DEF TypeInv
  <2>7. AbsentIsEmpty'
    BY <1>20, <2>0, <1>b DEF Kill, Return, disk, history, calls, bounds, AbsentIsEmpty
  <2>8. HeadsOnLine'
    <3>1. left \subseteq left' /\ heads' = heads
      BY ONLY <2>0
    <3> QED
      BY ONLY <2>l, <3>1, <1>b DEF HeadsOnLine
  <2>9. ObjectsAccounted'
    <3>1. \A q \in Procs \ {p} : pc'[q] = pc[q] /\ op'[q] = op[q]
      BY ONLY <2>0
    <3>2. pc[p] \in Writing => op[p].object \in left'
      BY ONLY <2>0, <2>n, <1>e DEF Writing
    <3>3. objects' = objects /\ heads' = heads /\ left \subseteq left'
      BY ONLY <2>0
    <3> QED
      BY ONLY <3>1, <3>2, <3>3, <1>b DEF ObjectsAccounted
  <2> QED
    BY <2>1, <2>2, <2>3, <2>4, <2>5, <2>6, <2>7, <2>8, <2>9 DEF TypeInv, HeadInv
<1>21. ASSUME PowerLoss PROVE (TypeInv /\ HeadInv)'
  <2>0. /\ shards' \in [vis : SUBSET Shards, dur : SUBSET Shards]
        /\ shards'.vis \subseteq shards.vis /\ shards'.dur = shards'.vis
        /\ studies' \in [vis : SUBSET Studies, dur : SUBSET Studies]
        /\ studies'.vis \subseteq studies.vis /\ studies'.dur = studies'.vis
    <3>1. shards' \in AfterPowerLoss(shards) /\ studies' \in AfterPowerLoss(studies)
      BY <1>21 DEF PowerLoss
    <3> QED
      BY ONLY <1>a, <3>1, SurvivingDirectory
  <2>o. /\ objects' \in [Shards -> [vis : SUBSET Objects, dur : SUBSET Objects]]
        /\ \A h \in Shards :
             /\ objects'[h].dur = objects'[h].vis /\ objects'[h].vis \subseteq objects[h].vis
             /\ h \in shards'.vis => objects[h].dur \subseteq objects'[h].dur
             /\ h \notin shards'.vis => objects'[h].vis = {}
    BY <1>21, ObjectsAfterPowerLoss DEF TypeInv
  <2>h. /\ heads' \in [Studies -> [vis : Chains, may : SUBSET Chains]]
        /\ \A s \in Studies :
             /\ heads'[s].vis \in Chains /\ heads'[s].may = {heads'[s].vis}
             /\ s \in studies'.vis => heads'[s].vis \in heads[s].may
             /\ s \notin studies'.vis => heads'[s].vis = <<>>
    BY <1>21, HeadsAfterPowerLoss DEF TypeInv
  <2>p. /\ \A s \in Studies : lock'[s] = NoProc
        /\ \A p \in Procs : pc'[p] = "idle" /\ op'[p] = NoCall
        /\ acked' = acked /\ confirmed' = confirmed
        /\ lost' = lost \cup (shards.vis \ shards'.vis) \cup (studies.vis \ studies'.vis)
    BY <1>21 DEF PowerLoss
  <2>l. /\ InFlight \subseteq left' /\ left \subseteq left'
        /\ \A s \in studies.vis \ studies'.vis : Range(heads[s].vis) \subseteq left'
    BY <1>21 DEF PowerLoss
  <2>1. FilesTyped'
    <3>1. \A h \in Shards : \A o \in objects'[h].vis : ShardOf[o] = h
      BY ONLY <2>o, <1>a DEF FilesTyped
    <3>2. \A s \in Studies : heads'[s].vis \in heads'[s].may
      BY ONLY <2>h
    <3>3. \A h \in Shards : objects'[h].dur \subseteq objects'[h].vis
      BY ONLY <2>o
    <3>4. objects' \in [Shards -> [vis : SUBSET Objects, dur : SUBSET Objects]] /\ heads' \in [Studies -> [vis : Chains, may : SUBSET Chains]]
      BY ONLY <2>o, <2>h
    <3> QED
      BY ONLY <2>0, <3>1, <3>2, <3>3, <3>4 DEF FilesTyped
  <2>2. HistoryTyped'
    <3>1. lost' \subseteq Shards \cup Studies
      BY ONLY <1>a, <1>d, <2>p
    <3>2. InFlight \subseteq Objects
      BY ONLY <1>c DEF InFlight, Calls
    <3>3. \A s \in Studies : Range(heads[s].vis) \subseteq Objects
      BY <1>a, ChainProperties DEF Range
    <3>4. left' = left \cup InFlight \cup UNION {Range(heads[s].vis) : s \in studies.vis \ studies'.vis}
      BY <1>21 DEF PowerLoss
    <3>5. left' \subseteq Objects
      BY ONLY <3>2, <3>3, <3>4, <1>a, <1>d
    <3>6. faults' = faults /\ losses' \in 0 .. MaxPowerLosses
      BY <1>21, <1>d, DigestAssumption DEF PowerLoss, HistoryTyped
    <3> QED
      BY ONLY <1>d, <2>p, <3>1, <3>5, <3>6 DEF HistoryTyped
  <2>3. ConfirmedIsTerminal'
    BY ONLY <2>p, <1>b DEF ConfirmedIsTerminal
  <2>4. AckedIsSettled'
    <3>1. ASSUME NEW s \in Studies, s \notin lost' PROVE IsPrefix(acked'[s], heads'[s].vis)
      <4>1. s \notin lost /\ (s \in studies.vis => s \in studies'.vis) /\ acked' = acked
        BY <3>1, <2>p
      <4>2. CASE s \in studies'.vis
        BY <4>1, <4>2, <2>h, <1>b DEF AckedIsSettled
      <4>3. CASE s \notin studies'.vis
        <5>1. acked[s] = <<>>
          BY <4>1, <4>3, <1>b DEF AbsentIsEmpty
        <5> QED
          BY <4>1, <5>1, <2>h, EmptyIsPrefix
      <4> QED
        BY <4>2, <4>3
    <3> QED
      BY ONLY <3>1, <2>h DEF AckedIsSettled
  <2>5. ConfirmedIsFinal'
    <3>1. ASSUME NEW s \in Studies, s \notin lost', confirmed'[s] # <<>> PROVE heads'[s].vis = confirmed'[s]
      <4>1. s \notin lost /\ (s \in studies.vis => s \in studies'.vis) /\ confirmed' = confirmed
        BY <3>1, <2>p
      <4>2. s \in studies'.vis
        BY <3>1, <4>1, <1>b DEF AbsentIsEmpty
      <4> QED
        BY <3>1, <4>1, <4>2, <2>h, <1>b DEF ConfirmedIsFinal
    <3> QED
      BY ONLY <3>1, <2>h DEF ConfirmedIsFinal
  <2>6. HeadObjectsAreDurable'
    <3>1. ASSUME NEW s \in Studies, NEW o \in Range(heads'[s].vis)
          PROVE  o \in objects'[ShardOf[o]].dur \/ ShardOf[o] \in lost'
      <4>1. heads'[s].vis \in heads[s].may
        BY <3>1, <2>h, RangeOfEmpty
      <4>2. o \in objects[ShardOf[o]].dur \/ ShardOf[o] \in lost
        BY <3>1, <4>1, <1>b DEF HeadObjectsAreDurable
      <4>3. o \in Objects /\ ShardOf[o] \in Shards
        BY <3>1, <2>h, <1>e, ChainProperties DEF Range
      <4>4. ShardOf[o] \notin shards.vis => o \notin objects[ShardOf[o]].dur
        BY <4>3, <1>a, <1>b DEF AbsentIsEmpty, FilesTyped
      <4> QED
        BY ONLY <4>2, <4>3, <4>4, <2>o, <2>p
    <3> QED
      BY ONLY <3>1, <2>h DEF HeadObjectsAreDurable
  <2>7. CallsNamed'
    BY ONLY <2>p DEF CallsNamed, NoCall, Steps, Writing
  <2>8. DirectoriesFound'
    BY ONLY <2>p DEF DirectoriesFound, Writing
  <2>9. LocksHeld'
    BY ONLY <2>p DEF LocksHeld
  <2>10. CallsTyped'
    <3>1. NoCall \in Calls /\ NoToken \in Tokens /\ "idle" \in Steps
      BY EmptyChain DEF NoCall, Calls, NoToken, Tokens, Steps
    <3>2. /\ lock' = [s \in Studies |-> NoProc] /\ pc' = [p \in Procs |-> "idle"]
          /\ op' = [p \in Procs |-> NoCall] /\ token' = [p \in Procs |-> NoToken]
      BY <1>21 DEF PowerLoss
    <3> QED
      BY ONLY <3>1, <3>2 DEF CallsTyped
  <2>11. WritersCompared'
    BY ONLY <2>p DEF WritersCompared, Writing
  <2>12. AbsentIsEmpty'
    <3>1. ASSUME NEW s \in Studies \ studies'.vis
          PROVE  heads'[s].may = {<<>>} /\ (s \in lost' \/ (acked'[s] = <<>> /\ confirmed'[s] = <<>>))
      BY ONLY <3>1, <2>h, <2>p, <1>b DEF AbsentIsEmpty
    <3> QED
      BY ONLY <3>1, <2>o DEF AbsentIsEmpty
  <2>13. HeadsOnLine'
    <3>1. ASSUME NEW s \in Studies
          PROVE  /\ \A chain \in heads'[s].may : chain = heads'[s].vis /\ IsPrefix(chain, heads'[s].vis)
                 /\ \E least \in heads'[s].may : \A chain \in heads'[s].may : Len(least) <= Len(chain)
      <4>1. IsPrefix(heads'[s].vis, heads'[s].vis) /\ Len(heads'[s].vis) <= Len(heads'[s].vis)
        BY <2>h, PrefixReflexive, ChainProperties
      <4> QED
        BY ONLY <2>h, <4>1
    <3> QED
      BY ONLY <3>1 DEF HeadsOnLine
  <2>14. ObjectsAccounted'
    <3>1. ASSUME NEW h \in Shards, NEW o \in objects'[h].vis
          PROVE  (\E s \in Studies : o \in Range(heads'[s].vis)) \/ o \in left' \/ Stages[o] = {}
      <4>1. o \in objects[h].vis
        BY <2>o
      <4>2. \A p \in Procs : pc[p] \in Writing /\ op[p].object = o => o \in left'
        BY <2>l, <1>b, <1>e DEF CallsNamed, InFlight, Writing
      <4>3. ASSUME NEW s \in Studies, o \in Range(heads[s].vis)
            PROVE  o \in Range(heads'[s].vis) \/ o \in left'
        <5>1. CASE s \in studies'.vis
          <6>1. heads'[s].vis \in heads[s].may
            BY <2>h, <5>1
          <6>2. o \in Range(heads'[s].vis) \/ o \in left \/ (lock[s] # NoProc /\ o = op[lock[s]].object)
            BY <4>3, <6>1, <1>b DEF HeadsOnLine
          <6>3. lock[s] # NoProc => op[lock[s]].object \in InFlight
            BY <1>b, <1>c, <1>e DEF LocksHeld, CallsNamed, InFlight, Writing
          <6> QED
            BY <6>2, <6>3, <2>l
        <5>2. CASE s \notin studies.vis
          BY <4>3, <5>2, <1>a, <1>b, RangeOfEmpty DEF AbsentIsEmpty, FilesTyped
        <5>3. CASE s \in studies.vis \ studies'.vis
          BY <4>3, <5>3, <2>l
        <5> QED
          BY <5>1, <5>2, <5>3
      <4> QED
        BY <4>1, <4>2, <4>3, <2>l, <1>b DEF ObjectsAccounted
    <3> QED
      BY ONLY <3>1 DEF ObjectsAccounted
  <2> QED
     BY <2>1, <2>2, <2>3, <2>4, <2>5, <2>6, <2>7, <2>8, <2>9, <2>10, <2>11, <2>12, <2>13, <2>14
       DEF TypeInv, HeadInv
<1>22. ASSUME UNCHANGED vars PROVE (TypeInv /\ HeadInv)'
  <2>1. TypeInv'
     BY <1>22 DEF vars, disk, calls, history, bounds, TypeInv, FilesTyped, CallsTyped,
       HistoryTyped
  <2>2. CallsNamed' /\ DirectoriesFound' /\ LocksHeld' /\ WritersCompared'
     BY <1>22, <1>b DEF vars, disk, calls, CallsNamed, DirectoriesFound, LocksHeld,
       WritersCompared
  <2>3. AbsentIsEmpty' /\ HeadsOnLine' /\ ConfirmedIsTerminal' /\ AckedIsSettled'
     BY <1>22, <1>b DEF vars, disk, calls, history, AbsentIsEmpty, HeadsOnLine,
       ConfirmedIsTerminal,
       AckedIsSettled
  <2>4. ConfirmedIsFinal' /\ HeadObjectsAreDurable' /\ ObjectsAccounted'
    BY <1>22, <1>b DEF vars, disk, calls, history, ConfirmedIsFinal, HeadObjectsAreDurable,
       ObjectsAccounted
  <2> QED
    BY <2>1, <2>2, <2>3, <2>4 DEF HeadInv
<1> QED
   BY <1>1, <1>2, <1>3, <1>4, <1>5, <1>6, <1>7, <1>8, <1>9, <1>10, <1>11, <1>12, <1>13, <1>14,
     <1>15, <1>16, <1>17, <1>18, <1>19, <1>20, <1>21, <1>22 DEF Next, Requests, CreateSteps,
     WriteSteps

LEMMA HeadInit == Init => TypeInv /\ HeadInv
<1> SUFFICES ASSUME Init PROVE TypeInv /\ HeadInv
  OBVIOUS
<1>1. /\ EmptyDirectory \in [vis : SUBSET Shards, dur : SUBSET Shards]
      /\ EmptyDirectory \in [vis : SUBSET Studies, dur : SUBSET Studies]
      /\ EmptyDirectory \in [vis : SUBSET Objects, dur : SUBSET Objects]
      /\ EmptyDirectory.vis = {} /\ EmptyDirectory.dur = {}
  BY EmptyShape
<1>2. /\ ReplaceableFile(<<>>) \in [vis : Chains, may : SUBSET Chains]
      /\ ReplaceableFile(<<>>).vis = <<>> /\ ReplaceableFile(<<>>).may = {<<>>}
  BY EmptyChain, ReplaceableShape
<1>3. NoCall \in Calls /\ NoToken \in Tokens /\ "idle" \in Steps
  BY EmptyChain DEF NoCall, Calls, NoToken, Tokens, Steps
<1>4. FilesTyped
  BY <1>1, <1>2 DEF Init, FilesTyped
<1>5. CallsTyped
  BY <1>3 DEF Init, CallsTyped
<1>6. HistoryTyped
  BY EmptyChain, DigestAssumption DEF Init, HistoryTyped
<1>7. CallsNamed /\ DirectoriesFound /\ WritersCompared /\ LocksHeld
  BY DEF Init, CallsNamed, DirectoriesFound, WritersCompared, LocksHeld, NoCall, Writing, Steps
<1>8. \A s \in Studies : heads[s].vis = <<>> /\ heads[s].may = {<<>>}
  BY <1>2 DEF Init
<1>9. \A h \in Shards : objects[h].vis = {}
  BY <1>1 DEF Init
<1>10. IsPrefix(<<>>, <<>>) /\ Range(<<>>) = {} /\ Len(<<>>) <= Len(<<>>)
  BY EmptyChain, EmptyIsPrefix, RangeOfEmpty, ChainProperties
<1>11. acked = [s \in Studies |-> <<>>] /\ confirmed = [s \in Studies |-> <<>>]
  BY DEF Init
<1>12. AbsentIsEmpty /\ ConfirmedIsTerminal /\ ConfirmedIsFinal /\ ObjectsAccounted
  BY <1>8, <1>9, <1>11 DEF AbsentIsEmpty, ConfirmedIsTerminal, ConfirmedIsFinal, ObjectsAccounted
<1>13. HeadsOnLine /\ AckedIsSettled /\ HeadObjectsAreDurable
  BY <1>8, <1>10, <1>11 DEF HeadsOnLine, AckedIsSettled, HeadObjectsAreDurable
<1> QED
  BY <1>4, <1>5, <1>6, <1>7, <1>12, <1>13 DEF TypeInv, HeadInv

LEMMA HeadCorrect == Spec => [](TypeInv /\ HeadInv)
  BY HeadInit, HeadStep, PTL DEF Spec

\* Every variable of the study namespace keeps its type: heads follow the
\* stages, and only a call past its compare-and-swap holds a lock.
THEOREM StudyTypeOK == Spec => []TypeOK
<1>1. TypeInv /\ HeadInv => TypeOK
  <2> SUFFICES ASSUME TypeInv, HeadInv PROVE TypeOK
    OBVIOUS
  <2>1. /\ shards.dur \subseteq shards.vis /\ shards.vis \subseteq Shards
        /\ studies.dur \subseteq studies.vis /\ studies.vis \subseteq Studies
    BY DEF TypeInv, FilesTyped
  <2>2. \A h \in Shards :
          /\ objects[h].dur \subseteq objects[h].vis
          /\ objects[h].vis \subseteq {o \in Objects : ShardOf[o] = h}
    BY DEF TypeInv, FilesTyped
  <2>3. \A s \in Studies : heads[s].vis \in heads[s].may /\ heads[s].may \subseteq Chains
    BY DEF TypeInv, FilesTyped
  <2>4. /\ pc \in [Procs -> Steps]
        /\ \A p \in Procs :
             /\ op[p].study \in Studies \cup {NoStudy}
             /\ op[p].object \in Objects \cup {NoObject}
             /\ op[p].from \in Chains /\ token[p].chain \in Chains
             /\ token[p].study \in Studies \cup {NoStudy}
    BY DEF TypeInv, CallsTyped, Calls, Tokens
  <2>5. \A s \in Studies :
          /\ lock[s] \in Procs \cup {NoProc}
          /\ lock[s] # NoProc =>
               /\ op[lock[s]].study = s
               /\ pc[lock[s]] \in Steps \ {"idle", "study", "studySync", "create"}
    BY DEF TypeInv, CallsTyped, HeadInv, LocksHeld, Writing, Steps
  <2>6. /\ \A s \in Studies : acked[s] \in Chains /\ confirmed[s] \in Chains
        /\ left \subseteq Objects /\ lost \subseteq Shards \cup Studies
        /\ faults \in 0 .. MaxFaults /\ losses \in 0 .. MaxPowerLosses
    BY DEF TypeInv, HistoryTyped
  <2> QED
    BY <2>1, <2>2, <2>3, <2>4, <2>5, <2>6 DEF TypeOK
<1> QED
  BY <1>1, HeadCorrect, PTL

\* No failed call of another process, unsynced rename or power loss brings back
\* a head from before one that a create or an advance returned.
THEOREM AcknowledgedHeadsStay == Spec => []AckedIsSettled
<1>1. HeadInv => AckedIsSettled
  BY DEF HeadInv
<1> QED
  BY <1>1, HeadCorrect, PTL

\* Once a residue is confirmed, its study can have no other head.
THEOREM ConfirmedResiduesAreFinal == Spec => []ConfirmedIsFinal
<1>1. HeadInv => ConfirmedIsFinal
  BY DEF HeadInv
<1> QED
  BY <1>1, HeadCorrect, PTL

\* Every object on a line a power loss may bring back is itself durable, unless
\* its shard directory is lost.
THEOREM HeadsNameDurableObjects == Spec => []HeadObjectsAreDurable
<1>1. HeadInv => HeadObjectsAreDurable
  BY DEF HeadInv
<1> QED
  BY <1>1, HeadCorrect, PTL

\* An advance that lost the compare-and-swap has put nothing on disk.
THEOREM StaleLosersWriteNothing == Spec => []StaleLoserWritesNothing
<1>1. TypeInv /\ HeadInv => StaleLoserWritesNothing
  <2> SUFFICES ASSUME TypeInv, HeadInv, NEW h \in Shards, NEW o \in objects[h].vis
               PROVE  \/ \E s \in Studies : o \in Range(heads[s].vis)
                      \/ o \in InFlight \cup left
                      \/ Stages[o] = {}
    BY DEF StaleLoserWritesNothing
  <2>1. o \in Objects
    BY DEF TypeInv, FilesTyped
  <2>2. \A p \in Procs : op[p].object = o => o \in InFlight
    BY <2>1, NoneAssumption DEF InFlight
  <2> QED
    BY <2>2 DEF HeadInv, ObjectsAccounted
<1> QED
  BY <1>1, HeadCorrect, PTL

(***************************************************************************)
(* The study namespace implements StudyLineage.                            *)
(***************************************************************************)
\* On one line, the shortest body is the only one of its length.
LEMMA ShortestIsLeast ==
  ASSUME NEW chains \in SUBSET Chains, NEW line \in Chains, NEW least \in chains,
         \A chain \in chains : IsPrefix(chain, line),
         \A chain \in chains : Len(least) <= Len(chain)
  PROVE  Shortest(chains) = least
<1>1. Shortest(chains) \in chains /\ \A other \in chains : Len(Shortest(chains)) <= Len(other)
  BY DEF Shortest
<1> DEFINE found == Shortest(chains)
<1>2. found \in Chains /\ IsPrefix(found, line) /\ IsPrefix(least, line)
  BY <1>1
<1>3. Len(found) \in Nat /\ Len(least) \in Nat
  BY <1>2, ChainProperties
<1>4. Len(found) = Len(least)
  BY <1>1, <1>3
<1>5. found = SubSeq(line, 1, Len(found)) /\ least = SubSeq(line, 1, Len(least))
  BY <1>2, PrefixIsPart
<1> QED
  BY <1>4, <1>5

\* What became of a head, seen from outside: nothing, one object more, a settled
\* head, or a power loss that took back some of what was not settled.
HeadsUntouched == UNCHANGED heads

HeadExtended(s, o) ==
  /\ Len(heads[s].vis) < LastRevision
  /\ heads'[s].vis = Append(heads[s].vis, o)
  /\ heads'[s].may = heads[s].may \cup {heads'[s].vis}
  /\ \A t \in Studies \ {s} : heads'[t] = heads[t]

HeadSettled(s) ==
  /\ heads'[s].vis = heads[s].vis
  /\ heads'[s].may = {heads[s].vis}
  /\ \A t \in Studies \ {s} : heads'[t] = heads[t]

HeadsTakenBack(gone) ==
  \A s \in Studies :
    /\ heads'[s].may = {heads'[s].vis}
    /\ IF s \in gone THEN heads'[s].vis = <<>> ELSE heads'[s].vis \in heads[s].may

LEMMA HeadChanges ==
  TypeInv /\ HeadInv /\ [Next]_vars =>
    \/ HeadsUntouched
    \/ \E s \in Studies : HeadSettled(s) \/ \E o \in Objects : HeadExtended(s, o)
    \/ \E gone \in SUBSET Studies : HeadsTakenBack(gone)
<1> SUFFICES ASSUME TypeInv, HeadInv, [Next]_vars
             PROVE  \/ HeadsUntouched
                    \/ \E s \in Studies : HeadSettled(s) \/ \E o \in Objects : HeadExtended(s, o)
                    \/ \E gone \in SUBSET Studies : HeadsTakenBack(gone)
  OBVIOUS
<1>1. heads \in [Studies -> [vis : Chains, may : SUBSET Chains]]
  BY DEF TypeInv, FilesTyped
<1>2. ASSUME NEW s \in Studies, heads' = [heads EXCEPT ![s] = SyncedFile(@)] PROVE HeadSettled(s)
  <2>1. heads[s] \in [vis : Chains, may : SUBSET Chains]
    BY <1>1
  <2>2. SyncedFile(heads[s]).vis = heads[s].vis /\ SyncedFile(heads[s]).may = {heads[s].vis}
    BY ONLY <2>1, SyncedFileShape
  <2>3. heads'[s] = SyncedFile(heads[s]) /\ \A t \in Studies \ {s} : heads'[t] = heads[t]
    BY <1>1, <1>2
  <2> QED
    BY <2>2, <2>3 DEF HeadSettled
<1>3. ASSUME NEW p \in Procs, HeadRename(p)
      PROVE  \E s \in Studies : \E o \in Objects : HeadExtended(s, o)
  <2> DEFINE s == op[p].study o == op[p].object file == heads[s]
  <2>1. /\ s \in Studies /\ o \in Objects /\ file.vis = op[p].from
        /\ Len(file.vis) + 1 \in Stages[o]
    BY <1>3 DEF HeadRename, TypeInv, CallsTyped, Calls, HeadInv, CallsNamed, WritersCompared, Writing
  <2>2. file \in [vis : Chains, may : SUBSET Chains] /\ file.vis \in Chains
    BY <1>1, <2>1
  <2>3. heads' = [heads EXCEPT ![s] = Renamed(file, Append(file.vis, o))]
    BY <1>3, <2>1 DEF HeadRename
  <2> HIDE DEF s, o, file
  <2>4. Append(file.vis, o) \in Chains /\ Len(file.vis) < LastRevision
    BY ONLY <2>1, <2>2, ExtendedChain
  <2>5. /\ Renamed(file, Append(file.vis, o)).vis = Append(file.vis, o)
        /\ Renamed(file, Append(file.vis, o)).may = file.may \cup {Append(file.vis, o)}
    BY ONLY <2>2, <2>4, RenamedShape
  <2>6. /\ heads'[s] = Renamed(file, Append(file.vis, o)) /\ file = heads[s]
        /\ \A t \in Studies \ {s} : heads'[t] = heads[t]
    BY <1>1, <2>1, <2>3 DEF file
  <2>7. HeadExtended(s, o)
    BY <2>4, <2>5, <2>6 DEF HeadExtended
  <2> QED
    BY <2>1, <2>7
<1>4. ASSUME NEW p \in Procs, HeadSync(p) PROVE \E s \in Studies : HeadSettled(s)
  <2>1. op[p].study \in Studies
    BY <1>4 DEF HeadSync, TypeInv, CallsTyped, Calls, HeadInv, CallsNamed
  <2>2. heads' = [heads EXCEPT ![op[p].study] = SyncedFile(@)]
    BY <1>4 DEF HeadSync
  <2> QED
    BY <1>2, <2>1, <2>2
<1>5. ASSUME NEW p \in Procs, ConfirmResidue(p) PROVE \E s \in Studies : HeadSettled(s)
  <2>1. token[p].study \in Studies
    BY <1>5 DEF ConfirmResidue, Readable, TypeInv, FilesTyped
  <2>2. heads' = [heads EXCEPT ![token[p].study] = SyncedFile(@)]
    BY <1>5 DEF ConfirmResidue
  <2> QED
    BY <1>2, <2>1, <2>2
<1>6. ASSUME PowerLoss PROVE HeadsTakenBack(Studies \ studies'.vis)
  BY <1>6, HeadsAfterPowerLoss DEF TypeInv, HeadsTakenBack
<1>7. ASSUME NEW p \in Procs,
             Requests(p) \/ CreateSteps(p) \/ WriteSteps(p) \/ CallFails(p) \/ Kill(p),
             ~HeadRename(p), ~HeadSync(p), ~ConfirmResidue(p)
      PROVE  HeadsUntouched
  <2>1. CASE Requests(p)
    BY <1>7, <2>1 DEF Requests, OpenHead, CreateStudy, AdvanceHead, Publish, Conflict, disk,
       HeadsUntouched
  <2>2. CASE CreateSteps(p)
    BY <1>7, <2>2 DEF CreateSteps, MakeStudyDirectory, SyncStudyRoot, FindStudyDirectory,
       BeginCreate, StudyExists, disk, HeadsUntouched
  <2>3. CASE WriteSteps(p)
    BY <1>7, <2>3 DEF WriteSteps, MakeShard, SyncDigestRoot, FindShard, LinkObject, SyncObject,
       disk, HeadsUntouched
  <2>4. CASE CallFails(p) \/ Kill(p)
    BY <1>7, <2>4 DEF CallFails, Kill, disk, HeadsUntouched
  <2> QED
    BY <1>7, <2>1, <2>2, <2>3, <2>4
<1>8. ASSUME UNCHANGED vars PROVE HeadsUntouched
  BY <1>8 DEF vars, disk, HeadsUntouched
<1> QED
  BY <1>3, <1>4, <1>5, <1>6, <1>7, <1>8 DEF Next

LEMMA LineageInit == Init => Lineage!Init
<1> SUFFICES ASSUME Init PROVE Lineage!Init
  OBVIOUS
<1>1. heads = [s \in Studies |-> ReplaceableFile(<<>>)]
  BY DEF Init
<1>2. ReplaceableFile(<<>>).vis = <<>> /\ ReplaceableFile(<<>>).may = {<<>>}
  BY EmptyChain, ReplaceableShape
<1>3. Shortest({<<>>}) = <<>>
  BY EmptyChain, EmptyIsPrefix, ChainProperties, ShortestIsLeast
<1> QED
  BY <1>1, <1>2, <1>3 DEF Lineage!Init

\* What a study is settled on when its head file may be any of these bodies.
LEMMA SettledHead ==
  ASSUME TypeInv, HeadInv, NEW s \in Studies
  PROVE  /\ heads[s].vis \in Chains /\ Shortest(heads[s].may) \in heads[s].may
         /\ \A chain \in heads[s].may : /\ chain \in Chains /\ IsPrefix(chain, heads[s].vis)
                                        /\ Len(Shortest(heads[s].may)) <= Len(chain)
<1>1. heads[s].vis \in Chains /\ heads[s].may \in SUBSET Chains
  BY DEF TypeInv, FilesTyped
<1>2. \A chain \in heads[s].may : IsPrefix(chain, heads[s].vis)
  BY DEF HeadInv, HeadsOnLine
<1>3. PICK least \in heads[s].may : \A chain \in heads[s].may : Len(least) <= Len(chain)
  BY DEF HeadInv, HeadsOnLine
<1>4. Shortest(heads[s].may) = least
  BY ONLY <1>1, <1>2, <1>3, ShortestIsLeast
<1> QED
  BY <1>1, <1>2, <1>3, <1>4

LEMMA LineageStep ==
  TypeInv /\ HeadInv /\ [Next]_vars => [Lineage!Next]_(Lineage!vars)
<1> SUFFICES ASSUME TypeInv, HeadInv, [Next]_vars
             PROVE  Lineage!Next \/ UNCHANGED Lineage!vars
  OBVIOUS
<1>1. (TypeInv /\ HeadInv)'
  BY HeadStep
<1>2. ASSUME NEW chain \in Chains PROVE Shortest({chain}) = chain
  BY PrefixReflexive, ChainProperties, ShortestIsLeast
<1>3. ASSUME NEW s \in Studies
      PROVE  /\ heads[s].vis \in Chains /\ Shortest(heads[s].may) \in heads[s].may
             /\ \A chain \in heads[s].may : /\ chain \in Chains /\ IsPrefix(chain, heads[s].vis)
                                            /\ Len(Shortest(heads[s].may)) <= Len(chain)
  BY SettledHead
<1>4. \A s \in Studies : heads'[s].vis \in Chains
  BY <1>1 DEF TypeInv, FilesTyped
<1>5. ASSUME NEW s \in Studies, NEW o \in Objects, HeadExtended(s, o) PROVE Lineage!Select(s, o)
  <2> DEFINE line == heads'[s].vis
  <2>1. /\ line \in Chains /\ line = Append(heads[s].vis, o)
        /\ \A chain \in heads[s].may : IsPrefix(chain, line)
    <3>1. line \in Chains /\ heads[s].vis \in Chains /\ line = Append(heads[s].vis, o)
      BY <1>3, <1>4, <1>5 DEF HeadExtended
    <3>2. \A chain \in heads[s].may : chain \in Chains /\ IsPrefix(chain, heads[s].vis)
      BY <1>3
    <3> QED
      BY ONLY <3>1, <3>2, PrefixExtended, o \in Objects
  <2>2. \A chain \in heads'[s].may : chain \in Chains /\ IsPrefix(chain, line)
    BY <1>3, <1>5, <2>1, PrefixReflexive DEF HeadExtended
  <2>3. Len(line) = Len(heads[s].vis) + 1 /\ Len(heads[s].vis) \in Nat
    BY <1>3, <1>4, <2>1, ChainProperties, AppendProperties
  <2>4. Len(Shortest(heads[s].may)) <= Len(heads[s].vis)
    BY <1>3, PrefixIsPart
  <2>5. Len(Shortest(heads[s].may)) \in Nat
    BY <1>3, ChainProperties
  <2>6. \A chain \in heads'[s].may : Len(Shortest(heads[s].may)) <= Len(chain)
    BY <1>3, <1>5, <2>3, <2>4, <2>5 DEF HeadExtended
  <2>7. Shortest(heads'[s].may) = Shortest(heads[s].may)
    BY <1>3, <1>5, <2>1, <2>2, <2>6, ShortestIsLeast DEF HeadExtended
  <2> QED
    BY <1>5, <2>7 DEF HeadExtended, Lineage!Select
<1>6. ASSUME NEW s \in Studies, HeadSettled(s) PROVE Lineage!Settle(s)
  <2>1. Shortest(heads'[s].may) = heads[s].vis
    BY <1>2, <1>3, <1>6 DEF HeadSettled
  <2> QED
    BY <1>6, <2>1 DEF HeadSettled, Lineage!Settle
<1>7. ASSUME NEW gone \in SUBSET Studies, HeadsTakenBack(gone) PROVE Lineage!PowerLoss(gone)
  <2>1. \A s \in Studies : Shortest(heads'[s].may) = heads'[s].vis
    BY <1>2, <1>4, <1>7 DEF HeadsTakenBack
  <2>2. ASSUME NEW s \in Studies, s \notin gone
        PROVE  heads'[s].vis \in {SubSeq(heads[s].vis, 1, n) :
                                    n \in Len(Shortest(heads[s].may)) .. Len(heads[s].vis)}
    <3>1. heads'[s].vis \in heads[s].may
      BY <1>7, <2>2 DEF HeadsTakenBack
    <3>2. /\ Len(heads'[s].vis) <= Len(heads[s].vis)
          /\ heads'[s].vis = SubSeq(heads[s].vis, 1, Len(heads'[s].vis))
      BY <1>3, <3>1, PrefixIsPart
    <3>3. /\ Len(Shortest(heads[s].may)) \in Nat /\ Len(heads[s].vis) \in Nat
          /\ Len(heads'[s].vis) \in Nat /\ Len(Shortest(heads[s].may)) <= Len(heads'[s].vis)
      BY <1>3, <3>1, ChainProperties
    <3> QED
      BY <3>2, <3>3
  <2> QED
    BY <1>7, <2>1, <2>2 DEF HeadsTakenBack, Lineage!PowerLoss, Lineage!Kept
<1>8. ASSUME HeadsUntouched PROVE UNCHANGED Lineage!vars
  BY <1>8 DEF HeadsUntouched, Lineage!vars
<1> QED
  BY HeadChanges, <1>5, <1>6, <1>7, <1>8 DEF Lineage!Next

\* Concurrent advances, failures at any write and power losses only ever extend
\* a study's line by one object, or take back what was selected after the last
\* settled head.
THEOREM LineageImplemented == Spec => ImplementsLineage
<1>1. TypeInv /\ HeadInv /\ [Next]_vars => [Lineage!Next]_(Lineage!vars)
  BY LineageStep
<1> QED
  BY <1>1, LineageInit, HeadCorrect, PTL DEF Spec, ImplementsLineage, Lineage!Spec
=============================================================================
