-------------------------- MODULE EvidenceInstall --------------------------
(***************************************************************************)
(* check-final-evidence.mjs --write: five evidence files are one directory *)
(* of docs/captures, replaced by renames under a lock and a journal.       *)
(*                                                                         *)
(* A command holds the operations it has still to make: each is one step,  *)
(* and a command is killed, the power lost or an operation failed between  *)
(* any two.  The directory is a function from the names in it; may holds   *)
(* every state of it since its last sync, one of which a power loss keeps. *)
(***************************************************************************)
EXTENDS Naturals, Sequences, Functions

CONSTANTS
  Shells,          \* who gives commands
  LastGeneration,  \* BOUND: generations, numbered as they are staged
  MaxFaults,       \* BOUND: kills, power losses and failed operations
  MaxEdits         \* BOUND: edits of the sources the evidence is about

ASSUME BoundsAssumption ==
  LastGeneration \in Nat \ {0} /\ MaxFaults \in Nat /\ MaxEdits \in Nat

VARIABLES
  dir,        \* docs/captures as it is
  may,        \* what a power loss may make of it
  shells,     \* the command of each shell
  source,     \* the sources, as a version
  staged,     \* the last generation that was staged
  journaled,  \* history: generations whose journal was written and synced
  reported,   \* history: generations told to be written
  faults

vars == <<dir, may, shells, source, staged, journaled, reported, faults>>

Generations == 1..LastGeneration
None == 0

Active == <<"active">>
Journal == <<"journal">>
JournalWrite == <<"journal-write">>
LockFile == <<"lock">>
Stage(g) == <<"stage", g>>
Backup(g) == <<"backup", g>>
\* artifactCleanupPaths
Cleanup(name) == <<"cleanup">> \o name

Has(d, name) == name \in DOMAIN d
With(d, name, content) ==
  [n \in DOMAIN d \cup {name} |-> IF n = name THEN content ELSE d[n]]
Without(d, name) == Restrict(d, DOMAIN d \ {name})
Moved(d, from, to) == With(Without(d, from), to, d[from])

\* A generation's directory: its identity, and whether all its files are there.
Whole(g) == [gen |-> g, whole |-> TRUE]
Spoiled(g) == [gen |-> g, whole |-> FALSE]
\* requireArtifactGeneration
Holds(d, name, g) == Has(d, name) /\ d[name] = Whole(g)

----------------------------------------------------------------------------
(* The operations of a command.                                            *)

Move(from, to, g) == <<"move", from, to, g>>
Remove(name, quarantine, g) == <<"remove", name, quarantine, g>>
Purge(quarantine) == <<"purge", quarantine>>
WriteJournal(state) == <<"journal", state>>
Publish(state) == <<"publish", state>>
Settle(state) == <<"settle", state>>
Do(what) == <<what>>

\* main --write, up to the admission of the artifacts.
WriteCommand == <<Do("build"), Do("lock"), Do("recover"), Do("stage")>>

Idle == [todo |-> <<>>, seen |-> 0, gen |-> None, old |-> None,
         phase |-> "none", failed |-> FALSE]

\* Mutant: the old generation is removed before the new one is committed.
InstallationRemovingEarly(g, old) ==
  <<WriteJournal("prepared"), Do("admit")>>
  \o (IF old = None THEN <<>>
      ELSE <<Move(Active, Backup(g), old), Do("sync")>>)
  \o <<WriteJournal("backed_up"), Move(Stage(g), Active, g), Do("sync"),
       WriteJournal("activated"), Do("validate")>>
  \o (IF old = None THEN <<>>
      ELSE <<Remove(Backup(g), Cleanup(<<"backup", g>>), old)>>)
  \o <<WriteJournal("committed"), Do("sync"), Do("unjournal"), Do("sync")>>

\* installArtifactsAt once the new generation is staged: g replaces old.
Installation(g, old) ==
  <<WriteJournal("prepared"), Do("admit")>>
  \o (IF old = None THEN <<>>
      ELSE <<Move(Active, Backup(g), old), Do("sync")>>)
  \o <<WriteJournal("backed_up"), Move(Stage(g), Active, g), Do("sync"),
       WriteJournal("activated"), Do("validate"), WriteJournal("committed")>>
  \o (IF old = None THEN <<>>
      ELSE <<Remove(Backup(g), Cleanup(<<"backup", g>>), old)>>)
  \o <<Do("sync"), Do("unjournal"), Do("sync")>>

----------------------------------------------------------------------------
(* recoverArtifactTransaction: what it makes of the directory d.           *)

RemoveStage(g) == Remove(Stage(g), Cleanup(<<"stage", g>>), g)
RemoveActive(g) == Remove(Active, Cleanup(<<"active", g>>), g)
RemoveBackup(g, old) == Remove(Backup(g), Cleanup(<<"backup", g>>), old)

Residue(d) ==
  {name \in DOMAIN d : name[1] \in {"stage", "backup", "cleanup"}}
\* requireNoForeignTransactionResidue
Own(g) ==
  {Stage(g), Backup(g)} \cup {<<"cleanup", role, g>> : role \in {"stage", "active", "backup"}}

\* Mutant: a committed generation is rolled back too.
RemovalsRolledBack(d) ==
  LET j == d[Journal]
      restores == j.old = None \/ Has(d, Backup(j.gen))
  IN (IF restores THEN <<RemoveActive(j.gen)>> ELSE <<>>)
     \o (IF j.old # None /\ restores
         THEN <<Move(Backup(j.gen), Active, j.old), Do("sync")>> ELSE <<>>)
     \o <<RemoveStage(j.gen)>>

\* The directories a recovery removes, in this order.
Removals(d) ==
  LET j == d[Journal]
      restores == j.old = None \/ Has(d, Backup(j.gen))
  IN IF j.state = "committed"
     THEN <<RemoveStage(j.gen)>>
          \o (IF j.old = None THEN <<>> ELSE <<RemoveBackup(j.gen, j.old)>>)
     ELSE (IF restores THEN <<RemoveActive(j.gen)>> ELSE <<>>)
          \o (IF j.old # None /\ restores
              THEN <<Move(Backup(j.gen), Active, j.old), Do("sync")>> ELSE <<>>)
          \o <<RemoveStage(j.gen)>>

\* What the journal's state and the names found must agree on.
Unambiguous(d) ==
  LET j == d[Journal]
      g == j.gen
      backedUp == Has(d, Backup(g)) \/ Has(d, <<"cleanup", "backup", g>>)
  IN /\ Residue(d) \subseteq Own(g)
     /\ IF j.state = "committed"
        THEN /\ ~Has(d, <<"cleanup", "active", g>>)
             /\ Holds(d, Active, g)
             /\ j.old = None => ~backedUp
        ELSE IF j.old = None
        THEN ~backedUp
        ELSE /\ ~Has(d, <<"cleanup", "backup", g>>)
             /\ IF Has(d, Backup(g)) THEN Holds(d, Backup(g), j.old)
                ELSE ~Has(d, <<"cleanup", "active", g>>) /\ Holds(d, Active, j.old)

\* removeArtifactGenerationResumable goes through with what it is given.
Removable(d, op) ==
  LET name == op[2]
      quarantine == op[3]
  IN IF Has(d, name) THEN ~Has(d, quarantine) /\ Holds(d, name, op[4])
     ELSE Has(d, quarantine) => d[quarantine].gen = op[4]

Recovery(d) ==
  IF Has(d, Journal)
  THEN Removals(d) \o <<Do("sync"), Do("unjournal"), Do("sync")>>
  ELSE <<>>

Recovers(d) ==
  /\ ~Has(d, JournalWrite)
  /\ IF Has(d, Journal) THEN Unambiguous(d) ELSE Residue(d) = {}

----------------------------------------------------------------------------
(* One operation of a command.                                             *)

Running(p) == shells[p].todo # <<>>
Op(p) == Head(shells[p].todo)
Rest(p) == Tail(shells[p].todo)
At(p, what) == Running(p) /\ Op(p)[1] = what
\* The lock is released by the last operation that is not of the release itself.
Holding(p) ==
  \E i \in DOMAIN shells[p].todo : shells[p].todo[i] = Do("release")

Becomes(d) == dir' = d /\ may' = may \cup {d}
GoesOn(p, todo) == shells' = [shells EXCEPT ![p].todo = todo]

\* The catch of installArtifactsAt and the release of withArtifactLock, for a
\* command that left the directory as d.
Thrown(p, d) ==
  LET s == shells[p]
      cleared == [s EXCEPT !.failed = TRUE, !.phase = "none"]
  IN IF ~Holding(p) \/ At(p, "release") THEN Idle
     ELSE IF s.phase = "journaled"
     THEN [cleared EXCEPT !.todo = <<Do("recover"), Do("release")>>]
     ELSE IF s.phase = "staged" /\ Has(d, Stage(s.gen))
     THEN [cleared EXCEPT !.todo = <<Do("discard"), Do("release")>>]
     ELSE [cleared EXCEPT !.todo = <<Do("release")>>, !.phase = s.phase]
Throws(p) == shells' = [shells EXCEPT ![p] = Thrown(p, dir)]

\* A step whose check fails leaves the directory alone.
Checked(p, holds, todo) ==
  /\ IF holds THEN GoesOn(p, todo) ELSE Throws(p)
  /\ UNCHANGED <<dir, may>>

History == <<staged, journaled, reported>>
Outside == <<source, faults>>

Start(p) ==
  /\ ~Running(p)
  /\ shells' = [shells EXCEPT ![p] = [Idle EXCEPT !.todo = WriteCommand, !.seen = source]]
  /\ UNCHANGED <<dir, may, History, Outside>>

\* buildCurrentEvidence: the profiles ran between two equal admissions.
Build(p) ==
  /\ At(p, "build")
  /\ Checked(p, source = shells[p].seen, Rest(p))
  /\ UNCHANGED <<History, Outside>>

\* A lock that is there refuses, whether its process lives or not.
AcquireLock(p) ==
  /\ At(p, "lock")
  /\ IF Has(dir, LockFile) THEN Throws(p) /\ UNCHANGED <<dir, may>>
     ELSE Becomes(With(dir, LockFile, TRUE)) /\ GoesOn(p, Append(Rest(p), Do("release")))
  /\ UNCHANGED <<History, Outside>>

Recover(p) ==
  /\ At(p, "recover")
  /\ Checked(p, Recovers(dir), Recovery(dir) \o Rest(p))
  /\ UNCHANGED <<History, Outside>>

\* The generation in place is inspected, and a directory made for the new one.
StageGeneration(p) ==
  /\ At(p, "stage")
  /\ LET old == IF Has(dir, Active) THEN dir[Active].gen ELSE None
         g == staged + 1
     IN IF staged = LastGeneration \/ (old # None /\ ~dir[Active].whole)
        THEN Throws(p) /\ UNCHANGED <<dir, may, staged>>
        ELSE /\ Becomes(With(dir, Stage(g), Spoiled(g)))
             /\ staged' = g
             /\ shells' = [shells EXCEPT
                  ![p].todo = <<Do("fill")>> \o Installation(g, old) \o Rest(p),
                  ![p].gen = g, ![p].old = old, ![p].phase = "staged"]
  /\ UNCHANGED <<journaled, reported, Outside>>

FillStage(p) ==
  /\ At(p, "fill")
  /\ Becomes(With(dir, Stage(shells[p].gen), Whole(shells[p].gen)))
  /\ GoesOn(p, Rest(p))
  /\ UNCHANGED <<History, Outside>>

Sync(p) ==
  /\ At(p, "sync")
  /\ may' = {dir} /\ UNCHANGED dir
  /\ GoesOn(p, Rest(p))
  /\ UNCHANGED <<History, Outside>>

\* writeJournal: a synced temporary, its rename, and the sync of the directory.
BeginJournal(p) ==
  /\ At(p, "journal")
  /\ Becomes(With(dir, JournalWrite,
       [state |-> Op(p)[2], gen |-> shells[p].gen, old |-> shells[p].old]))
  /\ GoesOn(p, <<Publish(Op(p)[2])>> \o Rest(p))
  /\ UNCHANGED <<History, Outside>>

PublishJournal(p) ==
  /\ At(p, "publish")
  /\ Becomes(Moved(dir, JournalWrite, Journal))
  /\ GoesOn(p, <<Settle(Op(p)[2])>> \o Rest(p))
  /\ UNCHANGED <<History, Outside>>

\* Mutant: the state written is kept in place of what it stands for.
SettleJournalVerbatim(p) ==
  /\ At(p, "settle")
  /\ may' = {dir} /\ UNCHANGED dir
  /\ shells' = [shells EXCEPT ![p].todo = Rest(p), ![p].phase = Op(p)[2]]
  /\ journaled' = journaled \cup {shells[p].gen}
  /\ UNCHANGED <<staged, reported, Outside>>

SettleJournal(p) ==
  /\ At(p, "settle")
  /\ may' = {dir} /\ UNCHANGED dir
  /\ shells' = [shells EXCEPT
       ![p].todo = Rest(p),
       ![p].phase = IF Op(p)[2] = "committed" THEN "committed" ELSE "journaled"]
  /\ journaled' = journaled \cup {shells[p].gen}
  /\ UNCHANGED <<staged, reported, Outside>>

\* beforeActivate: the admission is collected again.
Admit(p) ==
  /\ At(p, "admit")
  /\ Checked(p, source = shells[p].seen, Rest(p))
  /\ UNCHANGED <<History, Outside>>

\* validateActive: the files in place, and the sources they name.
Validate(p) ==
  /\ At(p, "validate")
  /\ Checked(p, Holds(dir, Active, shells[p].gen) /\ source = shells[p].seen, Rest(p))
  /\ UNCHANGED <<History, Outside>>

\* A generation is renamed when it is the one meant, and nothing is in its way.
MoveGeneration(p) ==
  /\ At(p, "move")
  /\ IF Holds(dir, Op(p)[2], Op(p)[4]) /\ ~Has(dir, Op(p)[3])
     THEN Becomes(Moved(dir, Op(p)[2], Op(p)[3])) /\ GoesOn(p, Rest(p))
     ELSE Throws(p) /\ UNCHANGED <<dir, may>>
  /\ UNCHANGED <<History, Outside>>

\* removeArtifactGenerationResumable
RemoveGeneration(p) ==
  /\ At(p, "remove")
  /\ LET from == Op(p)[2]
         quarantine == Op(p)[3]
         purge == <<Purge(quarantine), Do("sync")>>
     IN IF ~Removable(dir, Op(p)) THEN Throws(p) /\ UNCHANGED <<dir, may>>
        ELSE IF Has(dir, from)
        THEN /\ Becomes(Moved(dir, from, quarantine))
             /\ GoesOn(p, <<Do("sync")>> \o purge \o Rest(p))
        ELSE /\ GoesOn(p, (IF Has(dir, quarantine) THEN purge ELSE <<>>) \o Rest(p))
             /\ UNCHANGED <<dir, may>>
  /\ UNCHANGED <<History, Outside>>

\* rm: some of the files, then the rest.
PurgeDirectory(p) ==
  /\ At(p, "purge")
  /\ LET name == Op(p)[2]
     IN IF dir[name].whole
        THEN Becomes(With(dir, name, Spoiled(dir[name].gen))) /\ UNCHANGED shells
        ELSE Becomes(Without(dir, name)) /\ GoesOn(p, Rest(p))
  /\ UNCHANGED <<History, Outside>>

\* removeUnjournaledStage
DiscardStage(p) ==
  /\ At(p, "discard")
  /\ LET stage == Stage(shells[p].gen)
     IN Checked(p, Holds(dir, stage, shells[p].gen), <<Purge(stage)>> \o Rest(p))
  /\ UNCHANGED <<History, Outside>>

Unjournal(p) ==
  /\ At(p, "unjournal")
  /\ Becomes(Without(dir, Journal)) /\ GoesOn(p, Rest(p))
  /\ UNCHANGED <<History, Outside>>

Release(p) ==
  /\ At(p, "release")
  /\ Becomes(Without(dir, LockFile))
  /\ GoesOn(p, <<Do("sync"), Do("report")>>)
  /\ UNCHANGED <<History, Outside>>

Report(p) ==
  /\ At(p, "report")
  /\ reported' = IF shells[p].failed THEN reported ELSE reported \cup {shells[p].gen}
  /\ shells' = [shells EXCEPT ![p] = Idle]
  /\ UNCHANGED <<dir, may, staged, journaled, Outside>>

----------------------------------------------------------------------------
(* What else happens.                                                      *)

\* What an operation that fails has done nevertheless.
Leaves(p) ==
  {dir} \cup
  (IF At(p, "journal")
   THEN {With(dir, JournalWrite,
           [state |-> Op(p)[2], gen |-> shells[p].gen, old |-> shells[p].old])}
   ELSE IF At(p, "publish") THEN {Without(dir, JournalWrite)}
   ELSE IF At(p, "lock") /\ ~Has(dir, LockFile) THEN {With(dir, LockFile, TRUE)}
   ELSE {})

Faulty == faults < MaxFaults /\ faults' = faults + 1

Fail(p) ==
  /\ Faulty /\ Running(p)
  /\ \E d \in Leaves(p) :
       /\ Becomes(d)
       /\ shells' = [shells EXCEPT ![p] = Thrown(p, d)]
  /\ UNCHANGED <<source, History>>

Kill(p) ==
  /\ Faulty /\ Running(p)
  /\ shells' = [shells EXCEPT ![p] = Idle]
  /\ UNCHANGED <<dir, may, source, History>>

PowerLoss ==
  /\ Faulty
  /\ dir' \in may /\ may' = {dir'}
  /\ shells' = [p \in Shells |-> Idle]
  /\ UNCHANGED <<source, History>>

EditSource ==
  /\ source < MaxEdits /\ source' = source + 1
  /\ UNCHANGED <<dir, may, shells, faults, History>>

\* What a command refuses to go on with is removed by hand, while none runs: a
\* lock without a process, a temporary journal, and what nothing refers to.
OperatorRemoves(name) ==
  /\ \A p \in Shells : ~Holding(p)
  /\ \/ name \in {LockFile, JournalWrite}
     \/ name \in Residue(dir) /\ ~Has(dir, Journal)
     \/ name[1] = "stage" /\ ~dir[name].whole
  /\ Becomes(Without(dir, name))
  /\ UNCHANGED <<shells, source, faults, History>>

CommandStep(p) ==
  \/ Build(p) \/ AcquireLock(p) \/ Recover(p) \/ StageGeneration(p) \/ FillStage(p)
  \/ Sync(p) \/ BeginJournal(p) \/ PublishJournal(p) \/ SettleJournal(p)
  \/ Admit(p) \/ Validate(p) \/ MoveGeneration(p) \/ RemoveGeneration(p)
  \/ PurgeDirectory(p) \/ DiscardStage(p) \/ Unjournal(p) \/ Release(p) \/ Report(p)

Init ==
  /\ \E g \in {None, 1} :
       /\ dir = IF g = None THEN <<>> ELSE With(<<>>, Active, Whole(g))
       /\ staged = g
  /\ may = {dir}
  /\ shells = [p \in Shells |-> Idle]
  /\ source = 0 /\ journaled = {} /\ reported = {} /\ faults = 0

Next ==
  \/ \E p \in Shells : Start(p) \/ CommandStep(p) \/ Fail(p) \/ Kill(p)
  \/ PowerLoss \/ EditSource
  \/ \E name \in DOMAIN dir : OperatorRemoves(name)

Spec == Init /\ [][Next]_vars

----------------------------------------------------------------------------
(* Properties.                                                             *)

TypeOK ==
  /\ dir \in may
  /\ \A p \in Shells :
       /\ shells[p].seen \in 0..MaxEdits
       /\ {shells[p].gen, shells[p].old} \subseteq Generations \cup {None}
       /\ shells[p].phase \in {"none", "staged", "journaled", "committed"}
       /\ shells[p].failed \in BOOLEAN
  /\ source \in 0..MaxEdits /\ staged \in 0..LastGeneration
  /\ journaled \subseteq Generations /\ reported \subseteq Generations
  /\ faults \in 0..MaxFaults

\* The generation that stands in d: the one a recovery will leave in place, when
\* all its files are there to be left.
StandingIn(d) ==
  LET inPlace == {g \in Generations : Holds(d, Active, g)}
      wanted == IF ~Has(d, Journal) THEN inPlace
                ELSE IF d[Journal].state = "committed"
                THEN inPlace \cap {d[Journal].gen}
                ELSE {g \in {d[Journal].old} :
                        g \in inPlace \/ Holds(d, Backup(d[Journal].gen), g)}
  IN IF wanted = {} THEN None ELSE CHOOSE g \in wanted : TRUE

Evidence == INSTANCE EvidenceGenerations WITH
  standing <- StandingIn(dir), may <- {StandingIn(d) : d \in may}

\* The writer, killed, failing or without power at any operation, keeps the
\* promise of EvidenceGenerations: a generation stands or does not, it takes
\* the place of the last at its commit, and one told to be written stays.
ImplementsGenerations == Evidence!Spec

\* Generations d still has something of.
Traces(d) ==
  {name[Len(name)] : name \in Residue(d)}
  \cup IF Has(d, Journal) THEN {d[Journal].gen} ELSE {}

\* An operator is needed only where the documents say so: whatever a kill or a
\* power loss leaves of a generation whose first journal was made durable, the
\* next command goes through its recovery, unless a temporary journal is there.
\* (The lock of a dead command stops it before: that too is told.)
OperatorOnlyWhereTold ==
  \A d \in may :
    Traces(d) \cap journaled # {} /\ ~Has(d, JournalWrite) =>
      /\ Recovers(d)
      /\ \A i \in DOMAIN Recovery(d) :
           Recovery(d)[i][1] = "remove" => Removable(d, Recovery(d)[i])
=============================================================================
