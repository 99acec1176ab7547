----------------------- MODULE EvidenceInstallProofs -----------------------
(***************************************************************************)
(* Theorems of the evidence writer, for every set of shells and every      *)
(* number of generations, faults and edits: its type invariant, that it    *)
(* implements EvidenceGenerations, and that an operator is needed only     *)
(* where the writer says so.                                               *)
(*                                                                         *)
(* What a command knows of the directory depends on what it has still to   *)
(* do.  The operations of a command come in one order, whatever a recovery *)
(* puts before them or a catch in their place (Ordered), so the inductive  *)
(* invariant speaks of the operations that are pending, not of positions:  *)
(* as long as the commit is pending, the journal is the command's own and  *)
(* not committed (InstallInv), and when a recovery has nothing pending     *)
(* that moves a generation into place, one is there (RecoveryInv).         *)
(*                                                                         *)
(* What commands that were cut off leave on the disk is the second part    *)
(* (TidyInv).  In every directory a power loss may leave, all of it        *)
(* belongs to the journal's generation or, without a journal, to           *)
(* generations whose first journal was never made durable; and of a        *)
(* durable one it is never more, or less, than a recovery can work with    *)
(* (Recoverable).                                                          *)
(***************************************************************************)
EXTENDS EvidenceInstall, SequenceTheorems, TLAPS

----------------------------------------------------------------------------
(* The operations, and their order.                                        *)

States == {"prepared", "backed_up", "activated", "committed"}
Plain == {"build", "lock", "recover", "stage", "fill", "sync", "admit", "validate", "discard",
          "unjournal", "release", "report"}
Roles == {"stage", "active", "backup"}

Numbers == 0 .. LastGeneration

Ops ==
  {Do(what) : what \in Plain}
  \cup {WriteJournal(s) : s \in States} \cup {Publish(s) : s \in States}
  \cup {Settle(s) : s \in States}
  \cup {RemoveStage(g) : g \in Numbers} \cup {RemoveActive(g) : g \in Numbers}
  \cup {RemoveBackup(g, old) : g \in Numbers, old \in Numbers}
  \cup {Move(Active, Backup(g), old) : g \in Numbers, old \in Numbers}
  \cup {Move(Backup(g), Active, old) : g \in Numbers, old \in Numbers}
  \cup {Move(Stage(g), Active, g) : g \in Numbers}
  \cup {Purge(Cleanup(<<role, g>>)) : role \in Roles, g \in Numbers}
  \cup {Purge(Stage(g)) : g \in Numbers}

\* When an operation has its turn.  A sync may come at any time and has none.
Rank(op) ==
  CASE op[1] = "build" -> 1
    [] op[1] = "lock" -> 2
    [] op[1] = "recover" -> 3
    [] op[1] \in {"fill", "discard"} -> 4
    [] op[1] \in {"journal", "publish", "settle"} ->
         (CASE op[2] = "prepared" -> 5
            [] op[2] = "backed_up" -> 8
            [] op[2] = "activated" -> 10
            [] OTHER -> 12)
    [] op[1] = "admit" -> 6
    [] op[1] = "move" ->
         (CASE op[2][1] = "active" -> 7
            [] op[2][1] = "stage" -> 9
            [] OTHER -> 14)
    [] op[1] = "validate" -> 11
    [] op[1] = "remove" ->
         (CASE op[2][1] = "active" -> 13
            [] op[2][1] = "stage" -> 15
            [] OTHER -> 16)
    [] op[1] = "purge" ->
         IF op[2][1] = "stage" THEN 4
         ELSE (CASE op[2][2] = "active" -> 13
                 [] op[2][2] = "stage" -> 15
                 [] OTHER -> 16)
    [] op[1] = "unjournal" -> 17
    [] op[1] = "stage" -> 18
    [] op[1] = "release" -> 19
    [] op[1] = "report" -> 20
    [] OTHER -> 0

Before(a, b) == Rank(a) # 0 /\ Rank(b) # 0 => Rank(a) < Rank(b)
Ordered(todo) == \A i, j \in DOMAIN todo : i < j => Before(todo[i], todo[j])

Pending(s) == Range(s.todo)
Waits(s, what) == Do(what) \in Pending(s)
\* The journal's state is not yet the one named.
Writes(s, state) == WriteJournal(state) \in Pending(s) \/ Publish(state) \in Pending(s)

----------------------------------------------------------------------------
(* What is inductive: of the directory d, m of its states, n generations   *)
(* staged so far, and a shell's command s.                                 *)

InPlace(d, old) == IF old = None THEN ~Has(d, Active) ELSE Holds(d, Active, old)

OwnJournal(d, g, old) ==
  Has(d, Journal) /\ d[Journal].gen = g /\ d[Journal].old = old

\* Generations in place or named by a journal were staged, and a journal's two differ.
DiskTyped(d, n) ==
  /\ Has(d, Active) => \E g \in 1 .. n : d[Active] = Whole(g)
  /\ Has(d, Journal) =>
       /\ d[Journal].gen \in 1 .. n /\ d[Journal].old \in 0 .. n
       /\ d[Journal].gen # d[Journal].old

Phases == {"none", "staged", "journaled", "committed"}
Commands == [todo : Seq(Ops), seen : 0 .. MaxEdits, gen : Numbers, old : Numbers,
             phase : Phases, failed : BOOLEAN]

Typed ==
  /\ staged \in Numbers
  /\ dir \in may
  /\ \A d \in may : DiskTyped(d, staged)
  /\ shells \in [Shells -> Commands]
  /\ source \in 0 .. MaxEdits
  /\ journaled \subseteq Generations /\ reported \subseteq Generations
  /\ faults \in 0 .. MaxFaults

\* Before the lock, and after it.
OutsiderInv(s, d, m) ==
  /\ Waits(s, "lock") =>
       /\ Pending(s) \subseteq {Do("build"), Do("lock"), Do("recover"), Do("stage")}
       /\ Waits(s, "recover") /\ Waits(s, "stage")
  /\ ~Waits(s, "lock") =>
       s.todo \in {<<>>, <<Do("report")>>, <<Do("sync"), Do("report")>>}
  /\ Waits(s, "report") /\ ~s.failed =>
       /\ s.gen # None /\ s.gen <= StandingIn(d)
       /\ ~Waits(s, "sync") => \A e \in m : s.gen <= StandingIn(e)

RecoveryOps(g, old) ==
  {Do("sync"), Do("unjournal"), Do("stage"), Do("release"),
   RemoveStage(g), RemoveActive(g), RemoveBackup(g, old), Move(Backup(g), Active, old)}
  \cup {Purge(Cleanup(<<role, g>>)) : role \in Roles}

\* What a recovery has left in place stays until its journal is removed.
RecoversInv(s, d) ==
  LET j == d[Journal]
      replaces == {RemoveActive(j.gen), Move(Backup(j.gen), Active, j.old)} \cap Pending(s)
  IN /\ Has(d, Journal)
     /\ Pending(s) \subseteq RecoveryOps(j.gen, j.old)
     /\ RemoveBackup(j.gen, j.old) \in Pending(s) => j.state = "committed"
     /\ replaces # {} => j.state # "committed"
     /\ Move(Backup(j.gen), Active, j.old) \in Pending(s) => j.old # None
     /\ RemoveActive(j.gen) \in Pending(s) /\ j.old # None =>
          Move(Backup(j.gen), Active, j.old) \in Pending(s)
     /\ replaces = {} =>
          IF j.state = "committed" THEN Holds(d, Active, j.gen) ELSE InPlace(d, j.old)

RecoveryInv(s, d) ==
  IF Waits(s, "recover")
  THEN Pending(s) \subseteq {Do("recover"), Do("stage"), Do("release")}
  ELSE IF Waits(s, "unjournal") THEN RecoversInv(s, d)
  ELSE IF Waits(s, "stage")
  THEN Pending(s) \subseteq {Do("sync"), Do("stage"), Do("release")} /\ ~Has(d, Journal)
  ELSE Pending(s) \subseteq
         {Do("sync"), Do("release"), Do("discard"), Purge(Stage(s.gen))}

InstallOps(g, old) ==
  {Do("fill"), Do("sync"), Do("admit"), Do("validate"), Do("unjournal"), Do("release"),
   Move(Active, Backup(g), old), Move(Stage(g), Active, g), RemoveBackup(g, old),
   Purge(Cleanup(<<"backup", g>>))}
  \cup {WriteJournal(state) : state \in States}
  \cup {Publish(state) : state \in States} \cup {Settle(state) : state \in States}

\* Before the commit the journal is the command's own, and nothing stands for
\* the generation it installs.
UncommittedInv(s, d, m) ==
  /\ Waits(s, "unjournal")
  /\ \A e \in m : StandingIn(e) < s.gen
  /\ IF Writes(s, "prepared") THEN ~Has(d, Journal) /\ InPlace(d, s.old)
     ELSE OwnJournal(d, s.gen, s.old) /\ d[Journal].state # "committed"
  /\ ~Waits(s, "validate") => Holds(d, Active, s.gen)

CommittedInv(s, d) ==
  /\ Pending(s) \subseteq
       {Settle("committed"), RemoveBackup(s.gen, s.old), Purge(Cleanup(<<"backup", s.gen>>)),
        Do("sync"), Do("unjournal"), Do("release")}
  /\ RemoveBackup(s.gen, s.old) \in Pending(s) => Waits(s, "unjournal")
  /\ Holds(d, Active, s.gen)
  /\ IF Waits(s, "unjournal")
     THEN OwnJournal(d, s.gen, s.old) /\ d[Journal].state = "committed"
     ELSE ~Has(d, Journal)

InstallInv(s, d, m, n) ==
  /\ s.gen = n /\ s.old < s.gen
  /\ Pending(s) \subseteq InstallOps(s.gen, s.old)
  /\ \A state \in States : Publish(state) \in Pending(s) =>
       /\ Head(s.todo) = Publish(state)
       /\ Has(d, JournalWrite)
       /\ d[JournalWrite] = [state |-> state, gen |-> s.gen, old |-> s.old]
  /\ IF Writes(s, "committed") THEN UncommittedInv(s, d, m) ELSE CommittedInv(s, d)

ShellInv(s, d, m, n) ==
  /\ Ordered(s.todo)
  /\ Waits(s, "release") => Has(d, LockFile)
  /\ Waits(s, "stage") => ~s.failed
  /\ IF ~Waits(s, "release") THEN OutsiderInv(s, d, m)
     ELSE IF Waits(s, "stage") \/ s.failed THEN RecoveryInv(s, d)
     ELSE InstallInv(s, d, m, n)

\* One command at a time is in the lock.
Exclusive ==
  \A p, q \in Shells :
    Waits(shells[p], "release") /\ Waits(shells[q], "release") => p = q

WriterInv ==
  /\ Typed
  /\ Exclusive
  /\ \A p \in Shells : ShellInv(shells[p], dir, may, staged)

----------------------------------------------------------------------------
(* Sequences of operations, as the sets of what is pending.                *)

LEMMA Names ==
  /\ Active[1] = "active" /\ Journal[1] = "journal" /\ JournalWrite[1] = "journal-write"
  /\ LockFile[1] = "lock"
  /\ \A g : Stage(g)[1] = "stage" /\ Backup(g)[1] = "backup"
  /\ \A role, g : Cleanup(<<role, g>>)[1] = "cleanup" /\ Cleanup(<<role, g>>)[2] = role
<1>1. ASSUME NEW role, NEW g
      PROVE  Cleanup(<<role, g>>)[1] = "cleanup" /\ Cleanup(<<role, g>>)[2] = role
  <2>1. /\ <<"cleanup">> \in Seq({"cleanup", role, g}) /\ Len(<<"cleanup">>) = 1
        /\ <<role, g>> \in Seq({"cleanup", role, g}) /\ Len(<<role, g>>) = 2
        /\ <<"cleanup">>[1] = "cleanup" /\ <<role, g>>[1] = role
    OBVIOUS
  <2>2. ASSUME NEW S, NEW a \in Seq(S), NEW b \in Seq(S), Len(a) = 1, Len(b) = 2
        PROVE  (a \o b)[1] = a[1] /\ (a \o b)[2] = b[1]
    <3>1. /\ 1 \in 1 .. Len(a) + Len(b) /\ 2 \in 1 .. Len(a) + Len(b)
          /\ 1 <= Len(a) /\ ~(2 <= Len(a)) /\ 2 - Len(a) = 1
      BY <2>2
    <3>2. \A i \in 1 .. Len(a) + Len(b) :
            (a \o b)[i] = IF i <= Len(a) THEN a[i] ELSE b[i - Len(a)]
      BY ConcatProperties
    <3> QED
      BY <3>1, <3>2
  <2> QED
    BY <2>1, <2>2 DEF Cleanup
<1> QED
  BY <1>1 DEF Active, Journal, JournalWrite, LockFile, Stage, Backup

LEMMA RankOf ==
  /\ Rank(Do("build")) = 1 /\ Rank(Do("lock")) = 2 /\ Rank(Do("recover")) = 3
  /\ Rank(Do("fill")) = 4 /\ Rank(Do("discard")) = 4 /\ Rank(Do("admit")) = 6
  /\ Rank(Do("validate")) = 11 /\ Rank(Do("unjournal")) = 17 /\ Rank(Do("stage")) = 18
  /\ Rank(Do("release")) = 19 /\ Rank(Do("report")) = 20 /\ Rank(Do("sync")) = 0
  /\ \A g : /\ Rank(Purge(Stage(g))) = 4
            /\ Rank(Purge(Cleanup(<<"active", g>>))) = 13
            /\ Rank(Purge(Cleanup(<<"stage", g>>))) = 15
            /\ Rank(Purge(Cleanup(<<"backup", g>>))) = 16
  /\ \A g, old : /\ Rank(Move(Active, Backup(g), old)) = 7
                 /\ Rank(Move(Stage(g), Active, old)) = 9
                 /\ Rank(Move(Backup(g), Active, old)) = 14
                 /\ Rank(RemoveActive(g)) = 13 /\ Rank(RemoveStage(g)) = 15
                 /\ Rank(RemoveBackup(g, old)) = 16
  /\ \A op \in {WriteJournal("prepared"), Publish("prepared"), Settle("prepared")} : Rank(op) = 5
  /\ \A op \in {WriteJournal("backed_up"), Publish("backed_up"), Settle("backed_up")} :
       Rank(op) = 8
  /\ \A op \in {WriteJournal("activated"), Publish("activated"), Settle("activated")} :
       Rank(op) = 10
  /\ \A op \in {WriteJournal("committed"), Publish("committed"), Settle("committed")} :
       Rank(op) = 12
<1>1. /\ Rank(Do("build")) = 1 /\ Rank(Do("lock")) = 2 /\ Rank(Do("recover")) = 3
      /\ Rank(Do("fill")) = 4 /\ Rank(Do("discard")) = 4 /\ Rank(Do("admit")) = 6
  BY DEF Rank, Do
<1>2. /\ Rank(Do("validate")) = 11 /\ Rank(Do("unjournal")) = 17 /\ Rank(Do("stage")) = 18
      /\ Rank(Do("release")) = 19 /\ Rank(Do("report")) = 20 /\ Rank(Do("sync")) = 0
  BY DEF Rank, Do
<1>3. \A g : Rank(Purge(Stage(g))) = 4
  <2>1. \A g : Purge(Stage(g))[1] = "purge" /\ Purge(Stage(g))[2][1] = "stage"
    BY DEF Purge, Stage
  <2> QED
    BY <2>1 DEF Rank
<1>4. \A role, g : /\ Purge(Cleanup(<<role, g>>))[1] = "purge"
                   /\ Purge(Cleanup(<<role, g>>))[2][1] = "cleanup"
                   /\ Purge(Cleanup(<<role, g>>))[2][2] = role
  <2> SUFFICES ASSUME NEW role, NEW g
               PROVE  /\ Purge(Cleanup(<<role, g>>))[1] = "purge"
                      /\ Purge(Cleanup(<<role, g>>))[2][1] = "cleanup"
                      /\ Purge(Cleanup(<<role, g>>))[2][2] = role
    OBVIOUS
  <2>1. Cleanup(<<role, g>>)[1] = "cleanup" /\ Cleanup(<<role, g>>)[2] = role
    BY Names
  <2>2. /\ Purge(Cleanup(<<role, g>>))[1] = "purge"
        /\ Purge(Cleanup(<<role, g>>))[2] = Cleanup(<<role, g>>)
    BY DEF Purge
  <2> QED
    BY <2>1, <2>2
<1>5. \A g : /\ Rank(Purge(Cleanup(<<"active", g>>))) = 13
             /\ Rank(Purge(Cleanup(<<"stage", g>>))) = 15
             /\ Rank(Purge(Cleanup(<<"backup", g>>))) = 16
  <2> SUFFICES ASSUME NEW g
               PROVE  /\ Rank(Purge(Cleanup(<<"active", g>>))) = 13
                      /\ Rank(Purge(Cleanup(<<"stage", g>>))) = 15
                      /\ Rank(Purge(Cleanup(<<"backup", g>>))) = 16
    OBVIOUS
  <2>1. Rank(Purge(Cleanup(<<"active", g>>))) = 13
    BY <1>4 DEF Rank
  <2>2. Rank(Purge(Cleanup(<<"stage", g>>))) = 15
    BY <1>4 DEF Rank
  <2>3. Rank(Purge(Cleanup(<<"backup", g>>))) = 16
    BY <1>4 DEF Rank
  <2> QED
    BY <2>1, <2>2, <2>3
<1>6. \A g, old : /\ Rank(Move(Active, Backup(g), old)) = 7
                  /\ Rank(Move(Stage(g), Active, old)) = 9
                  /\ Rank(Move(Backup(g), Active, old)) = 14
  BY DEF Rank, Move, Active, Stage, Backup
<1>7. \A g, old : /\ Rank(RemoveActive(g)) = 13 /\ Rank(RemoveStage(g)) = 15
                  /\ Rank(RemoveBackup(g, old)) = 16
  BY DEF Rank, Remove, RemoveActive, RemoveStage, RemoveBackup, Active, Stage, Backup
<1>8. \A op : op[1] \in {"journal", "publish", "settle"} =>
        /\ op[2] = "prepared" => Rank(op) = 5
        /\ op[2] = "backed_up" => Rank(op) = 8
        /\ op[2] = "activated" => Rank(op) = 10
        /\ op[2] = "committed" => Rank(op) = 12
  BY DEF Rank
<1>9. \A state : \A op \in {WriteJournal(state), Publish(state), Settle(state)} :
        op[1] \in {"journal", "publish", "settle"} /\ op[2] = state
  BY DEF WriteJournal, Publish, Settle
<1> QED
  BY <1>1, <1>2, <1>3, <1>5, <1>6, <1>7, <1>8, <1>9

LEMMA TailFacts ==
  ASSUME NEW s \in Seq(Ops), s # <<>>, Ordered(s)
  PROVE  /\ Head(s) \in Ops /\ Tail(s) \in Seq(Ops) /\ Ordered(Tail(s))
         /\ Range(s) = {Head(s)} \cup Range(Tail(s))
         /\ \A op \in Range(Tail(s)) : Before(Head(s), op)
<1>1. /\ Len(s) \in Nat /\ Len(s) > 0 /\ DOMAIN s = 1 .. Len(s)
      /\ Head(s) = s[1] /\ s[1] \in Ops
      /\ Tail(s) \in Seq(Ops) /\ DOMAIN Tail(s) = 1 .. Len(s) - 1
      /\ \A i \in 1 .. Len(s) - 1 : Tail(s)[i] = s[i + 1]
  OBVIOUS
<1>2. Ordered(Tail(s))
  BY <1>1 DEF Ordered
<1>3. \A op \in Range(Tail(s)) : \E i \in 2 .. Len(s) : op = s[i]
  BY <1>1 DEF Range
<1>4. \A i \in 2 .. Len(s) : s[i] \in Range(Tail(s))
  <2> SUFFICES ASSUME NEW i \in 2 .. Len(s) PROVE \E k \in DOMAIN Tail(s) : s[i] = Tail(s)[k]
    BY DEF Range
  <2>1. i - 1 \in 1 .. Len(s) - 1 /\ Tail(s)[i - 1] = s[i]
    BY <1>1
  <2> QED
    BY <1>1, <2>1
<1>5. Range(s) = {Head(s)} \cup Range(Tail(s))
  BY <1>1, <1>3, <1>4 DEF Range
<1>6. \A op \in Range(Tail(s)) : Before(Head(s), op)
  <2>1. \A i \in 2 .. Len(s) : 1 \in DOMAIN s /\ i \in DOMAIN s /\ 1 < i
    BY <1>1
  <2>2. \A i \in 2 .. Len(s) : Before(s[1], s[i])
    BY <2>1 DEF Ordered
  <2> QED
    BY <1>1, <1>3, <2>2
<1> QED
  BY <1>1, <1>2, <1>5, <1>6

LEMMA JoinedRange ==
  ASSUME NEW s \in Seq(Ops), NEW t \in Seq(Ops)
  PROVE  s \o t \in Seq(Ops) /\ Range(s \o t) = Range(s) \cup Range(t)
<1>1. /\ Len(s) \in Nat /\ Len(t) \in Nat
      /\ DOMAIN s = 1 .. Len(s) /\ DOMAIN t = 1 .. Len(t)
      /\ s \o t \in Seq(Ops) /\ DOMAIN (s \o t) = 1 .. Len(s) + Len(t)
      /\ \A i \in 1 .. Len(s) : (s \o t)[i] = s[i]
      /\ \A i \in Len(s) + 1 .. Len(s) + Len(t) : (s \o t)[i] = t[i - Len(s)]
  OBVIOUS
<1>2. \A i \in 1 .. Len(s) + Len(t) :
        \/ i \in 1 .. Len(s)
        \/ i \in Len(s) + 1 .. Len(s) + Len(t) /\ i - Len(s) \in 1 .. Len(t)
  BY <1>1
<1>3. Range(s \o t) \subseteq Range(s) \cup Range(t)
  BY <1>1, <1>2 DEF Range
<1>4. Range(s) \subseteq Range(s \o t)
  BY <1>1 DEF Range
<1>5. Range(t) \subseteq Range(s \o t)
  <2> SUFFICES ASSUME NEW i \in 1 .. Len(t)
               PROVE  \E k \in DOMAIN (s \o t) : (s \o t)[k] = t[i]
    BY <1>1 DEF Range
  <2>1. Len(s) + i \in Len(s) + 1 .. Len(s) + Len(t) /\ (Len(s) + i) - Len(s) = i
    BY <1>1
  <2>2. Len(s) + i \in DOMAIN (s \o t) /\ (s \o t)[Len(s) + i] = t[i]
    BY <1>1, <2>1
  <2> QED
    BY <2>2
<1> QED
  BY <1>1, <1>3, <1>4, <1>5

LEMMA ConcatFacts ==
  ASSUME NEW s \in Seq(Ops), NEW t \in Seq(Ops), Ordered(s), Ordered(t),
         \A a \in Range(s), b \in Range(t) : Before(a, b)
  PROVE  /\ s \o t \in Seq(Ops) /\ Ordered(s \o t)
         /\ Range(s \o t) = Range(s) \cup Range(t)
<1>1. /\ Len(s) \in Nat /\ Len(t) \in Nat
      /\ DOMAIN s = 1 .. Len(s) /\ DOMAIN t = 1 .. Len(t)
      /\ s \o t \in Seq(Ops) /\ DOMAIN (s \o t) = 1 .. Len(s) + Len(t)
      /\ \A i \in 1 .. Len(s) : (s \o t)[i] = s[i]
      /\ \A i \in Len(s) + 1 .. Len(s) + Len(t) : (s \o t)[i] = t[i - Len(s)]
  OBVIOUS
<1>2. \A i \in 1 .. Len(s) + Len(t) :
        \/ i \in 1 .. Len(s)
        \/ i \in Len(s) + 1 .. Len(s) + Len(t) /\ i - Len(s) \in 1 .. Len(t)
  BY <1>1
<1>3. Ordered(s \o t)
  <2> SUFFICES ASSUME NEW i \in 1 .. Len(s) + Len(t), NEW k \in 1 .. Len(s) + Len(t), i < k
               PROVE  Before((s \o t)[i], (s \o t)[k])
    BY <1>1 DEF Ordered
  <2>1. CASE i \in 1 .. Len(s) /\ k \in 1 .. Len(s)
    BY <1>1, <2>1 DEF Ordered
  <2>2. CASE i \in 1 .. Len(s) /\ k \in Len(s) + 1 .. Len(s) + Len(t)
    <3>1. (s \o t)[i] \in Range(s) /\ (s \o t)[k] \in Range(t)
      BY <1>1, <1>2, <2>2 DEF Range
    <3> QED
      BY <3>1
  <2>3. CASE i \in Len(s) + 1 .. Len(s) + Len(t) /\ k \in Len(s) + 1 .. Len(s) + Len(t)
    <3>1. /\ i - Len(s) \in 1 .. Len(t) /\ k - Len(s) \in 1 .. Len(t)
          /\ i - Len(s) < k - Len(s)
      BY <1>1, <2>3
    <3>2. (s \o t)[i] = t[i - Len(s)] /\ (s \o t)[k] = t[k - Len(s)]
      BY <1>1, <2>3
    <3> QED
      BY <1>1, <3>1, <3>2 DEF Ordered
  <2> QED
    BY <1>1, <1>2, <2>1, <2>2, <2>3
<1> QED
  BY <1>1, <1>3, JoinedRange

LEMMA OneFacts ==
  ASSUME NEW op \in Ops
  PROVE  <<op>> \in Seq(Ops) /\ Ordered(<<op>>) /\ Range(<<op>>) = {op}
<1>1. <<op>> \in Seq(Ops) /\ DOMAIN <<op>> = 1 .. 1 /\ <<op>>[1] = op /\ 1 .. 1 = {1}
  OBVIOUS
<1> QED
  BY <1>1 DEF Ordered, Range

LEMMA EmptyFacts == <<>> \in Seq(Ops) /\ Ordered(<<>>) /\ Range(<<>>) = {}
BY DEF Ordered, Range

\* An operation before the rest, and two or three short scripts as they are.
LEMMA ConsFacts ==
  ASSUME NEW op \in Ops, NEW t \in Seq(Ops), Ordered(t),
         \A b \in Range(t) : Before(op, b)
  PROVE  /\ <<op>> \o t \in Seq(Ops) /\ Ordered(<<op>> \o t)
         /\ Range(<<op>> \o t) = {op} \cup Range(t)
<1>1. <<op>> \in Seq(Ops) /\ Ordered(<<op>>) /\ Range(<<op>>) = {op}
  BY OneFacts
<1>2. \A a \in Range(<<op>>), b \in Range(t) : Before(a, b)
  BY <1>1
<1> QED
  BY <1>1, <1>2, ConcatFacts

LEMMA PairFacts ==
  ASSUME NEW a \in Ops, NEW b \in Ops, Before(a, b)
  PROVE  <<a, b>> \in Seq(Ops) /\ Ordered(<<a, b>>) /\ Range(<<a, b>>) = {a, b}
<1>1. /\ <<a, b>> \in Seq(Ops) /\ DOMAIN <<a, b>> = 1 .. 2 /\ 1 .. 2 = {1, 2}
      /\ <<a, b>>[1] = a /\ <<a, b>>[2] = b
  OBVIOUS
<1> QED
  BY <1>1 DEF Ordered, Range

LEMMA TripleFacts ==
  ASSUME NEW a \in Ops, NEW b \in Ops, NEW c \in Ops,
         Before(a, b),
         Before(a, c),
         Before(b, c)
  PROVE  <<a, b, c>> \in Seq(Ops) /\ Ordered(<<a, b, c>>) /\ Range(<<a, b, c>>) = {a, b, c}
<1>1. /\ <<a, b, c>> \in Seq(Ops) /\ DOMAIN <<a, b, c>> = 1 .. 3 /\ 1 .. 3 = {1, 2, 3}
      /\ <<a, b, c>>[1] = a /\ <<a, b, c>>[2] = b /\ <<a, b, c>>[3] = c
  OBVIOUS
<1> QED
  BY <1>1 DEF Ordered, Range

----------------------------------------------------------------------------
(* Directories.                                                            *)

LEMMA WithFacts ==
  ASSUME NEW d, NEW name, NEW content
  PROVE  /\ \A n : Has(With(d, name, content), n) <=> n = name \/ Has(d, n)
         /\ With(d, name, content)[name] = content
         /\ \A n : n # name /\ Has(d, n) => With(d, name, content)[n] = d[n]
BY DEF With, Has

LEMMA WithoutFacts ==
  ASSUME NEW d, NEW name
  PROVE  /\ \A n : Has(Without(d, name), n) <=> n # name /\ Has(d, n)
         /\ \A n : n # name /\ Has(d, n) => Without(d, name)[n] = d[n]
BY DEF Without, Has, Restrict

LEMMA MovedFacts ==
  ASSUME NEW d, NEW from, NEW to, from # to, Has(d, from)
  PROVE  /\ \A n : Has(Moved(d, from, to), n) <=> n = to \/ (n # from /\ Has(d, n))
         /\ Moved(d, from, to)[to] = d[from]
         /\ \A n : n # from /\ n # to /\ Has(d, n) => Moved(d, from, to)[n] = d[n]
BY WithFacts, WithoutFacts DEF Moved

----------------------------------------------------------------------------
(* What stands in a directory.                                             *)

Wanted(d) ==
  LET inPlace == {g \in Generations : Holds(d, Active, g)}
  IN IF ~Has(d, Journal) THEN inPlace
     ELSE IF d[Journal].state = "committed" THEN inPlace \cap {d[Journal].gen}
     ELSE {g \in {d[Journal].old} : g \in inPlace \/ Holds(d, Backup(d[Journal].gen), g)}

OneOf(S) == IF S = {} THEN None ELSE CHOOSE g \in S : TRUE

LEMMA StandingWanted == ASSUME NEW d PROVE StandingIn(d) = OneOf(Wanted(d))
BY DEF StandingIn, Wanted, OneOf

LEMMA StandsOne == ASSUME NEW d, NEW g, Wanted(d) = {g} PROVE StandingIn(d) = g
BY StandingWanted DEF OneOf

LEMMA HoldsOne == ASSUME NEW d, NEW name, NEW g, NEW h, Holds(d, name, g), Holds(d, name, h)
                  PROVE  g = h
BY DEF Holds, Whole

\* Without a journal the generation in place stands, if any.
LEMMA StandsUnjournaled ==
  ASSUME NEW d, ~Has(d, Journal), NEW old \in Numbers, InPlace(d, old)
  PROVE  StandingIn(d) = old
<1>1. CASE old = None
  <2>1. Wanted(d) = {}
    BY <1>1 DEF Wanted, InPlace, Holds
  <2> QED
    BY <1>1, <2>1, StandingWanted DEF OneOf
<1>2. CASE old # None
  <2>1. old \in Generations /\ Holds(d, Active, old)
    BY <1>2 DEF InPlace, Numbers, Generations, None
  <2>2. Wanted(d) = {old}
    BY <2>1, HoldsOne DEF Wanted
  <2> QED
    BY <2>2, StandsOne
<1> QED
  BY <1>1, <1>2

\* A committed generation stands once it is in place.
LEMMA StandsCommitted ==
  ASSUME NEW d, Has(d, Journal), d[Journal].state = "committed",
         d[Journal].gen \in Generations, Holds(d, Active, d[Journal].gen)
  PROVE  StandingIn(d) = d[Journal].gen
<1>1. Wanted(d) = {d[Journal].gen}
  BY HoldsOne DEF Wanted
<1> QED
  BY <1>1, StandsOne

\* Before the commit the old one stands, in place or backed up.
LEMMA StandsUncommitted ==
  ASSUME NEW d, Has(d, Journal), d[Journal].state # "committed",
         d[Journal].old \in Numbers,
         \/ d[Journal].old = None
         \/ Holds(d, Active, d[Journal].old)
         \/ Holds(d, Backup(d[Journal].gen), d[Journal].old)
  PROVE  StandingIn(d) = d[Journal].old
<1>1. Wanted(d) \subseteq {d[Journal].old}
  BY DEF Wanted
<1>2. CASE d[Journal].old = None
  <2>1. CASE Wanted(d) = {}
    BY <1>2, <2>1, StandingWanted DEF OneOf
  <2>2. CASE Wanted(d) = {d[Journal].old}
    BY <2>2, StandsOne
  <2> QED
    BY <1>1, <2>1, <2>2
<1>3. CASE d[Journal].old # None
  <2>1. d[Journal].old \in Generations
    BY <1>3 DEF Numbers, Generations, None
  <2>2. Wanted(d) = {d[Journal].old}
    BY <1>3, <2>1 DEF Wanted
  <2> QED
    BY <2>2, StandsOne
<1> QED
  BY <1>2, <1>3

LEMMA StandingBound ==
  ASSUME NEW n \in Numbers, NEW d, DiskTyped(d, n)
  PROVE  StandingIn(d) \in 0 .. n
<1>1. n \in Nat /\ n <= LastGeneration
  BY BoundsAssumption DEF Numbers, BoundsAssumption
<1>2. \A g \in Generations : Holds(d, Active, g) => g \in 1 .. n
  <2> SUFFICES ASSUME NEW g \in Generations, Holds(d, Active, g) PROVE g \in 1 .. n
    OBVIOUS
  <2>1. PICK h \in 1 .. n : d[Active] = Whole(h)
    BY DEF DiskTyped, Holds
  <2>2. Holds(d, Active, h)
    BY <2>1 DEF Holds
  <2> QED
    BY <2>2, HoldsOne
<1>3. Wanted(d) \subseteq 0 .. n
  BY <1>1, <1>2 DEF Wanted, DiskTyped
<1>4. CASE Wanted(d) = {}
  BY <1>1, <1>4, StandingWanted DEF OneOf, None
<1>5. CASE Wanted(d) # {}
  <2>1. PICK g : g \in Wanted(d)
    BY <1>5
  <2>2. (CHOOSE h \in Wanted(d) : TRUE) \in Wanted(d)
    BY <2>1
  <2> QED
    BY <1>3, <1>5, <2>2, StandingWanted DEF OneOf
<1> QED
  BY <1>4, <1>5

\* Two directories that agree on the generations and the journal.
Agree(d, e, name) == (Has(e, name) <=> Has(d, name)) /\ (Has(d, name) => e[name] = d[name])
Same(d, e) ==
  Agree(d, e, Journal) /\ Agree(d, e, Active) /\ \A g : Agree(d, e, Backup(g))

LEMMA SameFacts ==
  ASSUME NEW d, NEW e, Same(d, e)
  PROVE  /\ StandingIn(e) = StandingIn(d)
         /\ Has(e, Journal) <=> Has(d, Journal)
         /\ Has(d, Journal) => e[Journal] = d[Journal]
         /\ \A g : Holds(e, Active, g) <=> Holds(d, Active, g)
         /\ \A old : InPlace(e, old) <=> InPlace(d, old)
         /\ \A n : DiskTyped(e, n) <=> DiskTyped(d, n)
<1>1. /\ Has(e, Journal) <=> Has(d, Journal)
      /\ Has(d, Journal) => e[Journal] = d[Journal]
  BY DEF Same, Agree
<1>2. \A g : Holds(e, Active, g) <=> Holds(d, Active, g)
  BY DEF Same, Agree, Holds
<1>3. \A k, g : Holds(e, Backup(k), g) <=> Holds(d, Backup(k), g)
  BY DEF Same, Agree, Holds
<1>4. Wanted(e) = Wanted(d)
  BY <1>1, <1>2, <1>3 DEF Wanted
<1>5. StandingIn(e) = StandingIn(d)
  BY <1>4, StandingWanted
<1>6. \A old : InPlace(e, old) <=> InPlace(d, old)
  BY <1>2 DEF InPlace, Same, Agree
<1>7. \A n : DiskTyped(e, n) <=> DiskTyped(d, n)
  BY <1>1 DEF DiskTyped, Same, Agree
<1> QED
  BY <1>1, <1>2, <1>5, <1>6, <1>7

\* A change of any other name leaves them as they were.
LEMMA ElsewhereIsSame ==
  ASSUME NEW d, NEW name, name[1] \notin {"journal", "active", "backup"}
  PROVE  /\ \A content : Same(d, With(d, name, content))
         /\ Same(d, Without(d, name))
<1>1. name # Journal /\ name # Active /\ \A g : name # Backup(g)
  BY Names
<1>2. ASSUME NEW content PROVE Same(d, With(d, name, content))
  BY <1>1, WithFacts DEF Same, Agree
<1>3. Same(d, Without(d, name))
  BY <1>1, WithoutFacts DEF Same, Agree
<1> QED
  BY <1>2, <1>3

LEMMA AgreeElsewhere ==
  ASSUME NEW d, NEW name, NEW other, name # other
  PROVE  /\ \A content : Agree(d, With(d, name, content), other)
         /\ Agree(d, Without(d, name), other)
<1>1. ASSUME NEW content PROVE Agree(d, With(d, name, content), other)
  BY WithFacts DEF Agree
<1>2. Agree(d, Without(d, name), other)
  BY WithoutFacts DEF Agree
<1> QED
  BY <1>1, <1>2

LEMMA SameFollows == ASSUME NEW d PROVE Same(d, d)
BY DEF Same, Agree

----------------------------------------------------------------------------
(* Steps that leave what stands as it is, and what they leave of the       *)
(* invariant.                                                              *)

EvidenceStep == Evidence!Next \/ UNCHANGED Evidence!vars

\* The states since the last sync, and perhaps the one now.
Remembers == dir' \in may' /\ may' \subseteq may \cup {dir'}

LEMMA QuietStep ==
  ASSUME dir \in may, Remembers, StandingIn(dir') = StandingIn(dir), reported' = reported
  PROVE  EvidenceStep
<1>1. {StandingIn(d) : d \in may'} \subseteq {StandingIn(d) : d \in may}
  BY DEF Remembers
<1>2. StandingIn(dir) \in {StandingIn(d) : d \in may'}
  BY DEF Remembers
<1>3. Evidence!Settle
  BY <1>1, <1>2 DEF Evidence!Settle
<1> QED
  BY <1>3 DEF EvidenceStep, Evidence!Next

\* The history and the counters keep their types.
Recorded ==
  /\ source' \in 0 .. MaxEdits /\ faults' \in 0 .. MaxFaults
  /\ journaled' \subseteq Generations /\ reported' \subseteq Generations

LEMMA Widened ==
  ASSUME NEW n \in Nat, NEW k \in Nat, n <= k, NEW d, DiskTyped(d, n)
  PROVE  DiskTyped(d, k)
BY DEF DiskTyped

LEMMA HolderKeeps ==
  ASSUME WriterInv, NEW p \in Shells, Waits(shells[p], "release"), Remembers, Recorded,
         NEW s \in Commands, shells' = [shells EXCEPT ![p] = s],
         staged' \in Numbers, staged <= staged', DiskTyped(dir', staged'),
         StandingIn(dir) <= StandingIn(dir'), ShellInv(s, dir', may', staged')
  PROVE  WriterInv'
<1>0. Typed /\ Exclusive /\ \A q \in Shells : ShellInv(shells[q], dir, may, staged)
  BY DEF WriterInv
<1>1. /\ staged \in Nat /\ staged' \in Nat
      /\ \A d \in may : StandingIn(d) \in Nat
      /\ StandingIn(dir) \in Nat /\ StandingIn(dir') \in Nat
  <2>1. staged \in Nat /\ staged' \in Nat
    BY <1>0, BoundsAssumption DEF Typed, Numbers, BoundsAssumption
  <2>2. \A d \in may : StandingIn(d) \in Nat
    BY <1>0, <2>1, StandingBound DEF Typed
  <2>3. StandingIn(dir') \in Nat
    BY <2>1, StandingBound
  <2> QED
    BY <1>0, <2>1, <2>2, <2>3 DEF Typed
<1>2. /\ \A q \in Shells : q # p => shells'[q] = shells[q] /\ ~Waits(shells[q], "release")
      /\ shells'[p] = s
  BY <1>0 DEF Typed, Exclusive
<1>3. Typed'
  <2>1. \A d \in may' : DiskTyped(d, staged')
    BY <1>0, <1>1, Widened DEF Typed, Remembers
  <2>2. shells' \in [Shells -> Commands]
    BY <1>0 DEF Typed
  <2> QED
    BY <2>1, <2>2 DEF Typed, Remembers, Recorded
<1>4. Exclusive'
  BY <1>2 DEF Exclusive
<1>5. ASSUME NEW q \in Shells, q # p PROVE ShellInv(shells[q], dir', may', staged')
  <2>1. ShellInv(shells[q], dir, may, staged) /\ ~Waits(shells[q], "release")
    BY <1>0, <1>2, <1>5
  <2>2. shells[q].gen \in Nat
    BY <1>0, BoundsAssumption DEF Typed, Commands, Numbers, BoundsAssumption
  <2>3. OutsiderInv(shells[q], dir, may) => OutsiderInv(shells[q], dir', may')
    BY <1>1, <2>2 DEF OutsiderInv, Remembers
  <2> QED
    BY <2>1, <2>3 DEF ShellInv
<1> QED
  BY <1>2, <1>3, <1>4, <1>5 DEF WriterInv

LEMMA OutsiderKeeps ==
  ASSUME WriterInv, NEW p \in Shells, ~Waits(shells[p], "release"), Remembers, Recorded,
         NEW s \in Commands, shells' = [shells EXCEPT ![p] = s], staged' = staged,
         Same(dir, dir'), Agree(dir, dir', JournalWrite),
         Has(dir, LockFile) => Has(dir', LockFile) /\ ~Waits(s, "release"),
         ShellInv(s, dir', may', staged)
  PROVE  WriterInv'
<1>0. Typed /\ Exclusive /\ \A q \in Shells : ShellInv(shells[q], dir, may, staged)
  BY DEF WriterInv
<1>1. \A q \in Shells : q # p => shells'[q] = shells[q]
  BY <1>0 DEF Typed
<1>2. shells'[p] = s
  BY <1>0 DEF Typed
<1>3. Typed'
  <2>1. DiskTyped(dir', staged)
    BY <1>0, SameFacts DEF Typed
  <2>2. \A d \in may' : DiskTyped(d, staged')
    BY <1>0, <2>1 DEF Typed, Remembers
  <2>3. shells' \in [Shells -> Commands]
    BY <1>0 DEF Typed
  <2> QED
    BY <1>0, <2>2, <2>3 DEF Typed, Remembers, Recorded
<1>4. Exclusive'
  <2>1. \A q \in Shells : Waits(shells[q], "release") => Has(dir, LockFile)
    BY <1>0 DEF ShellInv
  <2> QED
    BY <1>0, <1>1, <1>2, <2>1 DEF Exclusive
<1>5. ASSUME NEW q \in Shells, q # p PROVE ShellInv(shells[q], dir', may', staged')
  <2> DEFINE t == shells[q]
  <2>1. ShellInv(t, dir, may, staged)
    BY <1>0
  <2>2. StandingIn(dir') = StandingIn(dir) /\ \A d \in may' : d \in may \/ d = dir'
    BY SameFacts DEF Remembers
  <2>3. OutsiderInv(t, dir, may) => OutsiderInv(t, dir', may')
    BY <2>2 DEF OutsiderInv
  <2>4. RecoveryInv(t, dir) => RecoveryInv(t, dir')
    BY SameFacts DEF RecoveryInv, RecoversInv
  <2>5. InstallInv(t, dir, may, staged) => InstallInv(t, dir', may', staged)
    <3>1. CommittedInv(t, dir) => CommittedInv(t, dir')
      BY SameFacts DEF CommittedInv, OwnJournal
    <3>2. UncommittedInv(t, dir, may) => UncommittedInv(t, dir', may')
      <4>1. \A e \in may' : \E d \in may : StandingIn(e) = StandingIn(d)
        BY <1>0, <2>2 DEF Typed
      <4> QED
        BY <4>1, SameFacts DEF UncommittedInv, OwnJournal
    <3> QED
      BY <3>1, <3>2 DEF InstallInv, Agree
  <2>6. Waits(t, "release") => Has(dir', LockFile)
    BY <2>1 DEF ShellInv
  <2> QED
    BY <2>1, <2>3, <2>4, <2>5, <2>6 DEF ShellInv
<1> QED
  BY <1>1, <1>2, <1>3, <1>4, <1>5 DEF WriterInv

----------------------------------------------------------------------------
(* The operation whose turn it is, and the rest.                           *)

LEMMA OpKinds ==
  ASSUME NEW op \in Ops
  PROVE  /\ \A what \in Plain : op[1] = what => op = Do(what)
         /\ op[1] = "journal" => op[2] \in States /\ op = WriteJournal(op[2])
         /\ op[1] = "publish" => op[2] \in States /\ op = Publish(op[2])
         /\ op[1] = "settle" => op[2] \in States /\ op = Settle(op[2])
         /\ op[1] = "move" => \E g, old \in Numbers :
              op \in {Move(Active, Backup(g), old), Move(Backup(g), Active, old),
                      Move(Stage(g), Active, g)}
         /\ op[1] = "remove" => \E g, old \in Numbers :
              op \in {RemoveStage(g), RemoveActive(g), RemoveBackup(g, old)}
         /\ op[1] = "purge" => \E name : op = Purge(name) /\ name[1] \in {"stage", "cleanup"}
<1>1. CASE \E what \in Plain : op = Do(what)
  BY <1>1 DEF Do, Plain
<1>2. CASE \E state \in States : op \in {WriteJournal(state), Publish(state), Settle(state)}
  BY <1>2 DEF WriteJournal, Publish, Settle, Plain
<1>3. CASE \E g, old \in Numbers :
             op \in {RemoveStage(g), RemoveActive(g), RemoveBackup(g, old)}
  BY <1>3 DEF RemoveStage, RemoveActive, RemoveBackup, Remove, Plain
<1>4. CASE \E g, old \in Numbers :
             op \in {Move(Active, Backup(g), old), Move(Backup(g), Active, old),
                     Move(Stage(g), Active, g)}
  BY <1>4 DEF Move, Plain
<1>5. CASE \E name : op = Purge(name) /\ name[1] \in {"stage", "cleanup"}
  BY <1>5 DEF Purge, Plain
<1>6. ASSUME NEW role \in Roles, NEW g \in Numbers, op = Purge(Cleanup(<<role, g>>))
      PROVE  \E name : op = Purge(name) /\ name[1] \in {"stage", "cleanup"}
  BY <1>6, Names
<1>7. ASSUME NEW g \in Numbers, op = Purge(Stage(g))
      PROVE  \E name : op = Purge(name) /\ name[1] \in {"stage", "cleanup"}
  BY <1>7, Names
<1>8. \/ \E what \in Plain : op = Do(what)
      \/ \E state \in States : op \in {WriteJournal(state), Publish(state), Settle(state)}
      \/ \E g, old \in Numbers :
           op \in {RemoveStage(g), RemoveActive(g), RemoveBackup(g, old)}
      \/ \E g, old \in Numbers :
           op \in {Move(Active, Backup(g), old), Move(Backup(g), Active, old),
                   Move(Stage(g), Active, g)}
      \/ \E role \in Roles, g \in Numbers : op = Purge(Cleanup(<<role, g>>))
      \/ \E g \in Numbers : op = Purge(Stage(g))
  BY DEF Ops
<1> QED
  BY <1>1, <1>2, <1>3, <1>4, <1>5, <1>6, <1>7, <1>8

LEMMA OpsAre ==
  /\ \A what \in Plain : Do(what) \in Ops
  /\ \A state \in States : {WriteJournal(state), Publish(state), Settle(state)} \subseteq Ops
  /\ \A g \in Numbers : {RemoveStage(g), RemoveActive(g), Move(Stage(g), Active, g),
                         Purge(Stage(g))} \subseteq Ops
  /\ \A g \in Numbers, role \in Roles : Purge(Cleanup(<<role, g>>)) \in Ops
  /\ \A g, old \in Numbers : {RemoveBackup(g, old), Move(Active, Backup(g), old),
                              Move(Backup(g), Active, old)} \subseteq Ops
BY DEF Ops

LEMMA Turn ==
  ASSUME WriterInv, NEW p \in Shells, Running(p)
  PROVE  /\ Op(p) \in Ops /\ Rest(p) \in Seq(Ops) /\ Ordered(Rest(p))
         /\ Pending(shells[p]) = {Op(p)} \cup Range(Rest(p))
         /\ \A op \in Range(Rest(p)) : Before(Op(p), op)
         /\ Op(p) \in Pending(shells[p])
<1>1. shells[p].todo \in Seq(Ops) /\ Ordered(shells[p].todo)
  BY DEF WriterInv, Typed, Commands, ShellInv
<1> QED
  BY <1>1, TailFacts DEF Op, Rest, Running, Pending

LEMMA ShellFacts ==
  ASSUME WriterInv, NEW p \in Shells
  PROVE  /\ shells[p] \in Commands /\ ShellInv(shells[p], dir, may, staged)
         /\ \A t \in Seq(Ops) : [shells[p] EXCEPT !.todo = t] \in Commands
         /\ Holding(p) <=> Waits(shells[p], "release")
<1>1. shells[p] \in Commands /\ ShellInv(shells[p], dir, may, staged)
  BY DEF WriterInv, Typed
<1>2. \A t \in Seq(Ops) : [shells[p] EXCEPT !.todo = t] \in Commands
  BY <1>1 DEF Commands
<1>3. Holding(p) <=> Waits(shells[p], "release")
  BY DEF Holding, Waits, Pending, Range
<1> QED
  BY <1>1, <1>2, <1>3

\* What a shell keeps when its operations are replaced.
LEMMA Replaced ==
  ASSUME WriterInv, NEW p \in Shells, NEW t \in Seq(Ops)
  PROVE  LET s == [shells[p] EXCEPT !.todo = t]
         IN /\ s \in Commands /\ Pending(s) = Range(t) /\ s.todo = t
            /\ s.gen = shells[p].gen /\ s.old = shells[p].old /\ s.failed = shells[p].failed
            /\ shells[p].gen \in Numbers /\ shells[p].old \in Numbers
            /\ [shells EXCEPT ![p].todo = t] = [shells EXCEPT ![p] = s]
<1>1. shells \in [Shells -> Commands]
  BY DEF WriterInv, Typed
<1> QED
  BY <1>1 DEF Commands, Pending

\* An idle shell has nothing to do, in any directory.
LEMMA IdleFacts ==
  /\ Idle \in Commands /\ Pending(Idle) = {}
  /\ \A d, m, n : ShellInv(Idle, d, m, n)
<1>1. Idle \in Commands /\ Idle.todo = <<>>
  BY EmptyFacts, BoundsAssumption DEF Idle, Commands, Phases, Numbers, None, BoundsAssumption
<1>2. Pending(Idle) = {} /\ Ordered(Idle.todo)
  BY <1>1, EmptyFacts DEF Pending
<1> QED
  BY <1>1, <1>2 DEF ShellInv, OutsiderInv, Waits

\* A failing command has its recovery or its cleanup to do, and the release.
LEMMA ThrownFacts ==
  ASSUME WriterInv, NEW p \in Shells, NEW d
  PROVE  /\ Thrown(p, d) \in Commands
         /\ ~Waits(shells[p], "release") => Thrown(p, d) = Idle
         /\ \A e, m, n : Has(e, LockFile) => ShellInv(Thrown(p, d), e, m, n)
<1>1. shells[p] \in Commands /\ (Holding(p) <=> Waits(shells[p], "release"))
  BY ShellFacts
<1>2. CASE Thrown(p, d) = Idle
  BY <1>2, IdleFacts
<1>3. CASE Thrown(p, d) # Idle
  <2>1. Waits(shells[p], "release")
    BY <1>1, <1>3 DEF Thrown
  <2>2. /\ Do("release") \in Ops /\ Do("recover") \in Ops /\ Do("discard") \in Ops
        /\ Before(Do("recover"), Do("release")) /\ Before(Do("discard"), Do("release"))
    BY OpsAre, RankOf DEF Plain, Before
  <2>3. PICK t \in {<<Do("recover"), Do("release")>>, <<Do("discard"), Do("release")>>,
                    <<Do("release")>>} :
          /\ Thrown(p, d).todo = t
          /\ Thrown(p, d).failed = TRUE
          /\ Thrown(p, d) \in Commands
    <3>1. \A u \in {<<Do("recover"), Do("release")>>, <<Do("discard"), Do("release")>>,
                    <<Do("release")>>}, phase \in Phases :
            [shells[p] EXCEPT !.failed = TRUE, !.phase = phase, !.todo = u] \in Commands
      <4>1. \A u \in {<<Do("recover"), Do("release")>>, <<Do("discard"), Do("release")>>,
                       <<Do("release")>>} : u \in Seq(Ops)
        BY <2>2, PairFacts, OneFacts
      <4>2. \A u \in Seq(Ops), phase \in Phases :
              [shells[p] EXCEPT !.failed = TRUE, !.phase = phase, !.todo = u] \in Commands
        BY <1>1 DEF Commands
      <4> QED
        BY <4>1, <4>2
    <3>2. \E u \in {<<Do("recover"), Do("release")>>, <<Do("discard"), Do("release")>>,
                    <<Do("release")>>}, phase \in Phases :
            Thrown(p, d) = [shells[p] EXCEPT !.failed = TRUE, !.phase = phase, !.todo = u]
      BY <1>1, <1>3 DEF Thrown, Commands, Phases
    <3> QED
      BY <1>1, <3>1, <3>2 DEF Commands
  <2>4. Ordered(t) /\ Range(t) \in {{Do("recover"), Do("release")},
                                    {Do("discard"), Do("release")}, {Do("release")}}
    BY <2>2, PairFacts, OneFacts
  <2>5. Pending(Thrown(p, d)) = Range(t)
    BY <2>3 DEF Pending
  <2>6. \A e : RecoveryInv(Thrown(p, d), e)
    <3>1. /\ Do("recover") # Do("release") /\ Do("recover") # Do("discard")
          /\ Do("unjournal") \notin Range(t) /\ Do("stage") \notin Range(t)
      BY <2>4 DEF Do
    <3> QED
      BY <2>4, <2>5, <3>1 DEF RecoveryInv, Waits
  <2>7. Do("stage") \notin Range(t)
    BY <2>4 DEF Do
  <2> QED
    BY <2>1, <2>3, <2>4, <2>5, <2>6, <2>7 DEF ShellInv, Waits
<1> QED
  BY <1>2, <1>3

----------------------------------------------------------------------------
(* Before the lock, after it, and where a command is cut off.              *)

LEMMA Unmoved ==
  ASSUME WriterInv, UNCHANGED <<dir, may>>
  PROVE  /\ Remembers /\ Same(dir, dir') /\ \A name : Agree(dir, dir', name)
         /\ StandingIn(dir') = StandingIn(dir)
         /\ \A n : DiskTyped(dir, n) => DiskTyped(dir', n)
BY SameFollows DEF WriterInv, Typed, Remembers, Agree

LEMMA Counters ==
  ASSUME WriterInv
  PROVE  /\ UNCHANGED <<History, Outside>> => Recorded /\ reported' = reported /\ staged' = staged
         /\ dir \in may /\ staged \in Numbers /\ staged \in Nat /\ DiskTyped(dir, staged)
         /\ StandingIn(dir) \in 0 .. staged /\ StandingIn(dir) \in Nat
         /\ \A d \in may : DiskTyped(d, staged) /\ StandingIn(d) \in 0 .. staged
<1>1. /\ dir \in may /\ staged \in Numbers /\ staged \in Nat /\ DiskTyped(dir, staged)
      /\ \A d \in may : DiskTyped(d, staged)
  BY BoundsAssumption DEF WriterInv, Typed, Numbers, BoundsAssumption
<1>2. \A d \in may : StandingIn(d) \in 0 .. staged
  BY <1>1, StandingBound
<1> QED
  BY <1>1, <1>2 DEF WriterInv, Typed, Recorded, History, Outside

LEMMA OutsiderStep ==
  ASSUME WriterInv, NEW p \in Shells, ~Waits(shells[p], "release"), Remembers,
         UNCHANGED <<History, Outside>>,
         NEW s \in Commands, shells' = [shells EXCEPT ![p] = s],
         Same(dir, dir'), Agree(dir, dir', JournalWrite),
         Has(dir, LockFile) => Has(dir', LockFile) /\ ~Waits(s, "release"),
         ShellInv(s, dir', may', staged)
  PROVE  WriterInv' /\ EvidenceStep
<1>1. Recorded /\ reported' = reported /\ staged' = staged /\ dir \in may
  BY Counters
<1>2. StandingIn(dir') = StandingIn(dir)
  BY SameFacts
<1>3. EvidenceStep
  BY <1>1, <1>2, QuietStep
<1>4. WriterInv'
  BY <1>1, OutsiderKeeps
<1> QED
  BY <1>3, <1>4

LEMMA HolderStep ==
  ASSUME WriterInv, NEW p \in Shells, Waits(shells[p], "release"), Remembers,
         UNCHANGED <<History, Outside>>,
         NEW s \in Commands, shells' = [shells EXCEPT ![p] = s],
         DiskTyped(dir', staged), StandingIn(dir') = StandingIn(dir),
         ShellInv(s, dir', may', staged)
  PROVE  WriterInv' /\ EvidenceStep
<1>1. /\ Recorded /\ reported' = reported /\ staged' = staged /\ dir \in may
      /\ StandingIn(dir) \in Nat /\ staged \in Nat /\ staged \in Numbers
  BY Counters
<1>2. EvidenceStep
  BY <1>1, QuietStep
<1>3. /\ staged' \in Numbers /\ staged <= staged' /\ DiskTyped(dir', staged')
      /\ StandingIn(dir) <= StandingIn(dir') /\ ShellInv(s, dir', may', staged')
  BY <1>1
<1>4. WriterInv'
  BY <1>1, <1>3, HolderKeeps
<1> QED
  BY <1>2, <1>4

LEMMA ThrowsKeep ==
  ASSUME WriterInv, NEW p \in Shells, NEW d, Remembers, Recorded, UNCHANGED <<staged, reported>>,
         Same(dir, dir'), Has(dir, LockFile) => Has(dir', LockFile),
         Waits(shells[p], "release") \/ Agree(dir, dir', JournalWrite),
         shells' = [shells EXCEPT ![p] = Thrown(p, d)]
  PROVE  WriterInv' /\ EvidenceStep
<1>1. StandingIn(dir') = StandingIn(dir) /\ DiskTyped(dir', staged) /\ StandingIn(dir) \in Nat
  BY SameFacts, Counters
<1>2. EvidenceStep
  BY <1>1, QuietStep, Counters
<1>3. Thrown(p, d) \in Commands
  BY ThrownFacts
<1>4. CASE Waits(shells[p], "release")
  <2>1. Has(dir', LockFile)
    BY <1>4, ShellFacts DEF ShellInv
  <2>2. ShellInv(Thrown(p, d), dir', may', staged')
    BY <2>1, ThrownFacts
  <2>3. DiskTyped(dir', staged') /\ staged' \in Numbers /\ staged <= staged'
        /\ StandingIn(dir) <= StandingIn(dir')
    BY <1>1, Counters
  <2> QED
    BY <1>2, <1>3, <1>4, <2>2, <2>3, HolderKeeps
<1>5. CASE ~Waits(shells[p], "release")
  <2>1. Thrown(p, d) = Idle
    BY <1>5, ThrownFacts
  <2>2. ShellInv(Idle, dir', may', staged) /\ ~Waits(Idle, "release")
    BY IdleFacts DEF Waits
  <2> QED
    BY <1>2, <1>3, <1>5, <2>1, <2>2, OutsiderKeeps
<1> QED
  BY <1>4, <1>5

LEMMA QuietThrow ==
  ASSUME WriterInv, NEW p \in Shells, Throws(p), UNCHANGED <<dir, may>>,
         UNCHANGED <<History, Outside>>
  PROVE  WriterInv' /\ EvidenceStep
<1>1. shells' = [shells EXCEPT ![p] = Thrown(p, dir)]
  BY DEF Throws
<1>2. Recorded /\ UNCHANGED <<staged, reported>>
  BY Counters
<1>3. /\ Remembers /\ Same(dir, dir') /\ Agree(dir, dir', JournalWrite)
      /\ Has(dir, LockFile) => Has(dir', LockFile)
  BY Unmoved
<1> QED
  BY <1>1, <1>2, <1>3, ThrowsKeep

LEMMA KillKeeps ==
  ASSUME WriterInv, NEW p \in Shells, Kill(p)
  PROVE  WriterInv' /\ EvidenceStep
<1>1. /\ shells' = [shells EXCEPT ![p] = Idle] /\ UNCHANGED <<dir, may>>
      /\ UNCHANGED <<staged, reported>>
  BY DEF Kill, History
<1>2. Recorded
  BY BoundsAssumption DEF Kill, Faulty, History, WriterInv, Typed, Recorded, BoundsAssumption
<1>3. /\ Remembers /\ Same(dir, dir') /\ Agree(dir, dir', JournalWrite)
      /\ Has(dir, LockFile) => Has(dir', LockFile)
      /\ StandingIn(dir') = StandingIn(dir)
  BY <1>1, Unmoved
<1>4. EvidenceStep
  BY <1>1, <1>3, QuietStep, Counters
<1>5. Idle \in Commands /\ ~Waits(Idle, "release") /\ ShellInv(Idle, dir', may', staged)
      /\ ShellInv(Idle, dir', may', staged')
  BY IdleFacts DEF Waits
<1>6. CASE Waits(shells[p], "release")
  <2>1. DiskTyped(dir', staged') /\ staged' \in Numbers /\ staged <= staged'
        /\ StandingIn(dir) <= StandingIn(dir')
    BY <1>1, <1>3, Unmoved, Counters
  <2> QED
    BY <1>1, <1>2, <1>3, <1>4, <1>5, <1>6, <2>1, HolderKeeps
<1>7. CASE ~Waits(shells[p], "release")
  BY <1>1, <1>2, <1>3, <1>4, <1>5, <1>7, OutsiderKeeps
<1> QED
  BY <1>6, <1>7

LEMMA StartKeeps ==
  ASSUME WriterInv, NEW p \in Shells, Start(p)
  PROVE  WriterInv' /\ EvidenceStep
<1> DEFINE s == [Idle EXCEPT !.todo = WriteCommand, !.seen = source]
<1>1. shells' = [shells EXCEPT ![p] = s] /\ UNCHANGED <<dir, may>> /\ UNCHANGED <<History, Outside>>
  BY DEF Start
<1>2. Pending(shells[p]) = {}
  BY EmptyFacts DEF Start, Running, Pending
<1>3. /\ {Do("build"), Do("lock"), Do("recover"), Do("stage")} \subseteq Ops
      /\ Before(Do("build"), Do("lock")) /\ Before(Do("build"), Do("recover"))
      /\ Before(Do("build"), Do("stage")) /\ Before(Do("lock"), Do("recover"))
      /\ Before(Do("lock"), Do("stage")) /\ Before(Do("recover"), Do("stage"))
  BY OpsAre, RankOf DEF Plain, Before
<1>4. /\ WriteCommand \in Seq(Ops) /\ Ordered(WriteCommand)
      /\ Range(WriteCommand) = {Do("build"), Do("lock"), Do("recover"), Do("stage")}
  <2>1. /\ WriteCommand \in Seq(Ops) /\ DOMAIN WriteCommand = 1 .. 4 /\ 1 .. 4 = {1, 2, 3, 4}
        /\ WriteCommand[1] = Do("build") /\ WriteCommand[2] = Do("lock")
        /\ WriteCommand[3] = Do("recover") /\ WriteCommand[4] = Do("stage")
    BY <1>3 DEF WriteCommand
  <2> QED
    BY <1>3, <2>1 DEF Ordered, Range
<1>5. s \in Commands /\ Pending(s) = {Do("build"), Do("lock"), Do("recover"), Do("stage")}
  <2>1. source \in 0 .. MaxEdits
    BY DEF WriterInv, Typed
  <2> QED
    BY <1>4, <2>1, IdleFacts DEF Commands, Pending
<1>6. ShellInv(s, dir', may', staged) /\ ~Waits(s, "release")
  <2>1. s.todo = WriteCommand /\ ~s.failed
    BY DEF Idle
  <2>2. /\ Do("release") \notin Pending(s) /\ Do("report") \notin Pending(s)
    BY <1>5 DEF Do
  <2> QED
    BY <1>4, <1>5, <2>1, <2>2 DEF ShellInv, OutsiderInv, Waits
<1>7. /\ Remembers /\ Same(dir, dir') /\ Agree(dir, dir', JournalWrite)
      /\ Has(dir, LockFile) => Has(dir', LockFile)
  BY <1>1, Unmoved
<1>8. ~Waits(shells[p], "release")
  BY <1>2 DEF Waits
<1> HIDE DEF s
<1> QED
  BY <1>1, <1>5, <1>6, <1>7, <1>8, OutsiderStep

LEMMA ReportLast ==
  /\ Do("report") \in Ops /\ Do("sync") \in Ops
  /\ <<Do("sync"), Do("report")>> \in Seq(Ops) /\ Ordered(<<Do("sync"), Do("report")>>)
  /\ Range(<<Do("sync"), Do("report")>>) = {Do("sync"), Do("report")}
  /\ <<Do("report")>> \in Seq(Ops) /\ Ordered(<<Do("report")>>)
  /\ Range(<<Do("report")>>) = {Do("report")}
<1>1. Do("report") \in Ops /\ Do("sync") \in Ops /\ Before(Do("sync"), Do("report"))
  BY OpsAre, RankOf DEF Plain, Before
<1> QED
  BY <1>1, OneFacts, PairFacts

\* What a shell outside the lock has pending.
LEMMA OutsideFacts ==
  ASSUME WriterInv, NEW p \in Shells, ~Waits(shells[p], "release")
  PROVE  /\ OutsiderInv(shells[p], dir, may)
         /\ ~Waits(shells[p], "lock") => Pending(shells[p]) \subseteq {Do("sync"), Do("report")}
         /\ Waits(shells[p], "stage") => ~shells[p].failed
<1>1. OutsiderInv(shells[p], dir, may) /\ (Waits(shells[p], "stage") => ~shells[p].failed)
  BY ShellFacts DEF ShellInv
<1>2. /\ Range(<<>>) = {} /\ Range(<<Do("report")>>) = {Do("report")}
      /\ Range(<<Do("sync"), Do("report")>>) = {Do("sync"), Do("report")}
  BY EmptyFacts, ReportLast
<1>3. ~Waits(shells[p], "lock") => Pending(shells[p]) \subseteq {Do("sync"), Do("report")}
  BY <1>1, <1>2 DEF OutsiderInv, Pending
<1> QED
  BY <1>1, <1>3

\* In the lock nothing is pending that comes before it.
LEMMA HolderFacts ==
  ASSUME WriterInv, NEW p \in Shells, Waits(shells[p], "release")
  PROVE  /\ ~Waits(shells[p], "build") /\ ~Waits(shells[p], "lock") /\ ~Waits(shells[p], "report")
         /\ Has(dir, LockFile)
         /\ IF Waits(shells[p], "stage") \/ shells[p].failed THEN RecoveryInv(shells[p], dir)
            ELSE InstallInv(shells[p], dir, may, staged)
<1>1. /\ Has(dir, LockFile)
      /\ IF Waits(shells[p], "stage") \/ shells[p].failed THEN RecoveryInv(shells[p], dir)
         ELSE InstallInv(shells[p], dir, may, staged)
  BY ShellFacts DEF ShellInv
<1>2. ASSUME NEW what \in {"build", "lock", "report"} PROVE ~Waits(shells[p], what)
  <2>1. CASE RecoveryInv(shells[p], dir)
    BY <1>2, <2>1 DEF RecoveryInv, RecoversInv, RecoveryOps, Waits, Do, RemoveStage, RemoveActive,
                      RemoveBackup, Remove, Move, Purge
  <2>2. CASE InstallInv(shells[p], dir, may, staged)
    BY <1>2, <2>2 DEF InstallInv, InstallOps, Waits, Do, WriteJournal, Publish, Settle,
                      RemoveBackup, Remove, Move, Purge
  <2> QED
    BY <1>1, <2>1, <2>2
<1> QED
  BY <1>1, <1>2

LEMMA BuildKeeps ==
  ASSUME WriterInv, NEW p \in Shells, Build(p)
  PROVE  WriterInv' /\ EvidenceStep
<1>1. Running(p) /\ Op(p)[1] = "build" /\ UNCHANGED <<History, Outside>> /\ UNCHANGED <<dir, may>>
  BY DEF Build, At, Checked
<1>2. CASE Throws(p)
  BY <1>1, <1>2, QuietThrow
<1>3. CASE GoesOn(p, Rest(p))
  <2> DEFINE s == [shells[p] EXCEPT !.todo = Rest(p)]
  <2>1. /\ Op(p) = Do("build") /\ Rest(p) \in Seq(Ops) /\ Ordered(Rest(p))
        /\ Pending(shells[p]) = {Do("build")} \cup Range(Rest(p))
    BY <1>1, Turn, OpKinds DEF Plain
  <2>2. /\ s \in Commands /\ Pending(s) = Range(Rest(p)) /\ s.todo = Rest(p)
        /\ s.failed = shells[p].failed /\ shells' = [shells EXCEPT ![p] = s]
    BY <1>3, <2>1, Replaced DEF GoesOn
  <2>3. ~Waits(shells[p], "release")
    BY <2>1, HolderFacts DEF Waits
  <2>4. ShellInv(s, dir', may', staged) /\ ~Waits(s, "release")
    <3>1. OutsiderInv(shells[p], dir, may) /\ Do("build") \in Pending(shells[p])
      BY <2>1, <2>3, OutsideFacts
    <3>2. Waits(shells[p], "lock")
      BY <2>3, <3>1, OutsideFacts DEF Do
    <3>3. /\ Do("lock") # Do("build") /\ Do("recover") # Do("build") /\ Do("stage") # Do("build")
          /\ Do("report") \notin {Do("build"), Do("lock"), Do("recover"), Do("stage")}
          /\ Do("release") \notin {Do("build"), Do("lock"), Do("recover"), Do("stage")}
      BY DEF Do
    <3>4. /\ Range(Rest(p)) \subseteq {Do("build"), Do("lock"), Do("recover"), Do("stage")}
          /\ {Do("lock"), Do("recover"), Do("stage")} \subseteq Range(Rest(p))
      BY <2>1, <3>1, <3>2, <3>3 DEF OutsiderInv, Waits
    <3>5. ~s.failed
      BY <2>2, <2>3, <3>1, <3>2, OutsideFacts DEF OutsiderInv
    <3> HIDE DEF s
    <3> QED
      BY <2>1, <2>2, <3>3, <3>4, <3>5 DEF ShellInv, OutsiderInv, Waits
  <2>5. /\ Remembers /\ Same(dir, dir') /\ Agree(dir, dir', JournalWrite)
        /\ Has(dir, LockFile) => Has(dir', LockFile)
    BY <1>1, Unmoved
  <2> HIDE DEF s
  <2> QED
    BY <1>1, <2>2, <2>3, <2>4, <2>5, OutsiderStep
<1> QED
  BY <1>2, <1>3 DEF Build, Checked

LEMMA AppendFacts ==
  ASSUME NEW t \in Seq(Ops), NEW op \in Ops, Ordered(t), \A a \in Range(t) : Before(a, op)
  PROVE  /\ Append(t, op) \in Seq(Ops) /\ Ordered(Append(t, op))
         /\ Range(Append(t, op)) = Range(t) \cup {op}
<1>1. /\ Append(t, op) \in Seq(Ops) /\ Len(t) \in Nat /\ DOMAIN t = 1 .. Len(t)
      /\ DOMAIN Append(t, op) = 1 .. Len(t) + 1
      /\ Append(t, op)[Len(t) + 1] = op
      /\ \A i \in 1 .. Len(t) : Append(t, op)[i] = t[i]
      /\ 1 .. Len(t) + 1 = (1 .. Len(t)) \cup {Len(t) + 1}
  OBVIOUS
<1>2. Range(Append(t, op)) = Range(t) \cup {op}
  BY <1>1 DEF Range
<1>3. Ordered(Append(t, op))
  <2> SUFFICES ASSUME NEW i \in 1 .. Len(t) + 1, NEW k \in 1 .. Len(t) + 1, i < k
               PROVE  Before(Append(t, op)[i], Append(t, op)[k])
    BY <1>1 DEF Ordered
  <2>1. i \in 1 .. Len(t)
    BY <1>1
  <2>2. CASE k \in 1 .. Len(t)
    BY <1>1, <2>1, <2>2 DEF Ordered
  <2>3. CASE k = Len(t) + 1
    BY <1>1, <2>1, <2>3 DEF Range
  <2> QED
    BY <1>1, <2>2, <2>3
<1> QED
  BY <1>1, <1>2, <1>3

LEMMA LockKeeps ==
  ASSUME WriterInv, NEW p \in Shells, AcquireLock(p)
  PROVE  WriterInv' /\ EvidenceStep
<1>1. Running(p) /\ Op(p)[1] = "lock" /\ UNCHANGED <<History, Outside>>
  BY DEF AcquireLock, At
<1>2. CASE Throws(p) /\ UNCHANGED <<dir, may>>
  BY <1>1, <1>2, QuietThrow
<1>3. CASE /\ ~Has(dir, LockFile) /\ Becomes(With(dir, LockFile, TRUE))
           /\ GoesOn(p, Append(Rest(p), Do("release")))
  <2> DEFINE t == Append(Rest(p), Do("release"))
             s == [shells[p] EXCEPT !.todo = t]
  <2>1. /\ Op(p) = Do("lock") /\ Rest(p) \in Seq(Ops) /\ Ordered(Rest(p))
        /\ Pending(shells[p]) = {Do("lock")} \cup Range(Rest(p))
        /\ \A op \in Range(Rest(p)) : Before(Do("lock"), op)
    BY <1>1, Turn, OpKinds DEF Plain
  <2>2. ~Waits(shells[p], "release")
    BY <2>1, HolderFacts DEF Waits
  <2>3. /\ Do("build") \notin Range(Rest(p)) /\ Do("lock") \notin Range(Rest(p))
    BY <2>1, RankOf DEF Before
  <2>4. Range(Rest(p)) = {Do("recover"), Do("stage")}
    <3>1. OutsiderInv(shells[p], dir, may) /\ Waits(shells[p], "lock")
      BY <2>1, <2>2, OutsideFacts DEF Waits
    <3>2. Do("recover") # Do("lock") /\ Do("stage") # Do("lock")
      BY DEF Do
    <3> QED
      BY <2>1, <2>3, <3>1, <3>2 DEF OutsiderInv, Waits
  <2>5. Do("release") \in Ops /\ \A a \in Range(Rest(p)) : Before(a, Do("release"))
    BY <2>4, OpsAre, RankOf DEF Plain, Before
  <2>6. /\ t \in Seq(Ops) /\ Ordered(t)
        /\ Range(t) = {Do("recover"), Do("stage"), Do("release")}
    BY <2>1, <2>4, <2>5, AppendFacts
  <2>7. /\ s \in Commands /\ Pending(s) = Range(t) /\ s.todo = t
        /\ s.failed = shells[p].failed /\ shells' = [shells EXCEPT ![p] = s]
    BY <1>3, <2>6, Replaced DEF GoesOn
  <2>8. Same(dir, dir')
    BY <1>3, Names, ElsewhereIsSame DEF Becomes
  <2>9. JournalWrite # LockFile /\ Has(dir', LockFile)
    BY <1>3, Names, WithFacts DEF Becomes
  <2>10. Agree(dir, dir', JournalWrite)
    BY <1>3, <2>9, AgreeElsewhere DEF Becomes
  <2>11. ShellInv(s, dir', may', staged)
    <3>1. ~s.failed
      BY <2>1, <2>2, <2>4, <2>7, OutsideFacts DEF Waits
    <3> HIDE DEF s, t
    <3> QED
      BY <2>6, <2>7, <2>9, <3>1 DEF ShellInv, RecoveryInv, Waits
  <2>12. Remembers
    BY <1>3 DEF Becomes, Remembers
  <2> HIDE DEF s, t
  <2> QED
    BY <1>1, <1>3, <2>2, <2>7, <2>8, <2>10, <2>11, <2>12, OutsiderStep
<1> QED
  BY <1>2, <1>3 DEF AcquireLock

\* The sync after the release: what stands now is all there is to come back to.
LEMMA OutsiderSyncKeeps ==
  ASSUME WriterInv, NEW p \in Shells, Sync(p), ~Waits(shells[p], "release")
  PROVE  WriterInv' /\ EvidenceStep
<1> DEFINE t == <<Do("report")>>
           s == [shells[p] EXCEPT !.todo = t]
<1>1. Running(p) /\ Op(p)[1] = "sync" /\ UNCHANGED <<History, Outside>>
      /\ may' = {dir} /\ dir' = dir /\ GoesOn(p, Rest(p))
  BY DEF Sync, At
<1>2. Op(p) = Do("sync") /\ Op(p) \in Pending(shells[p])
  BY <1>1, Turn, OpKinds DEF Plain
<1>3. OutsiderInv(shells[p], dir, may) /\ ~Waits(shells[p], "lock")
  BY <1>2, OutsideFacts DEF OutsiderInv, Do
<1>4. shells[p].todo = <<Do("sync"), Do("report")>>
  <2>1. shells[p].todo \in {<<>>, <<Do("report")>>, <<Do("sync"), Do("report")>>}
    BY <1>3 DEF OutsiderInv
  <2>2. Head(<<Do("report")>>) = Do("report") /\ Do("report") # Do("sync")
    BY DEF Do
  <2> QED
    BY <1>1, <1>2, <2>1, <2>2 DEF Op, Running
<1>5. Rest(p) = t
  BY <1>4 DEF Rest
<1>6. Waits(shells[p], "report")
  BY <1>4, ReportLast DEF Waits, Pending
<1>7. /\ s \in Commands /\ Pending(s) = {Do("report")} /\ s.todo = t
      /\ s.gen = shells[p].gen /\ s.failed = shells[p].failed
      /\ shells' = [shells EXCEPT ![p] = s]
  BY <1>1, <1>5, ReportLast, Replaced DEF GoesOn
<1>8. /\ Remembers /\ Same(dir, dir') /\ Agree(dir, dir', JournalWrite)
      /\ Has(dir, LockFile) => Has(dir', LockFile)
  BY <1>1, SameFollows DEF Remembers, Agree
<1>9. ShellInv(s, dir', may', staged) /\ ~Waits(s, "release")
  <2>1. Do("report") # Do("lock") /\ Do("report") # Do("release") /\ Do("report") # Do("stage")
    BY DEF Do
  <2> HIDE DEF s
  <2> QED
    BY <1>1, <1>3, <1>6, <1>7, <2>1, ReportLast DEF ShellInv, OutsiderInv, Waits
<1> HIDE DEF s
<1> QED
  BY <1>1, <1>7, <1>8, <1>9, OutsiderStep

LEMMA ReportKeeps ==
  ASSUME WriterInv, NEW p \in Shells, Report(p)
  PROVE  WriterInv' /\ EvidenceStep
<1>1. Running(p) /\ Op(p)[1] = "report" /\ UNCHANGED <<staged, journaled, Outside>>
      /\ UNCHANGED <<dir, may>> /\ shells' = [shells EXCEPT ![p] = Idle]
      /\ reported' = IF shells[p].failed THEN reported ELSE reported \cup {shells[p].gen}
  BY DEF Report, At
<1>2. Op(p) = Do("report") /\ Op(p) \in Pending(shells[p])
  BY <1>1, Turn, OpKinds DEF Plain
<1>3. ~Waits(shells[p], "release")
  BY <1>2, HolderFacts DEF Waits
<1>4. OutsiderInv(shells[p], dir, may) /\ ~Waits(shells[p], "lock")
  BY <1>2, <1>3, OutsideFacts DEF OutsiderInv, Do
<1>5. ~Waits(shells[p], "sync")
  <2>1. shells[p].todo \in {<<>>, <<Do("report")>>, <<Do("sync"), Do("report")>>}
    BY <1>4 DEF OutsiderInv
  <2>2. Head(<<Do("sync"), Do("report")>>) = Do("sync") /\ Do("report") # Do("sync")
    BY DEF Do
  <2>3. shells[p].todo = <<Do("report")>>
    BY <1>1, <1>2, <2>1, <2>2 DEF Op, Running
  <2> QED
    BY <2>2, <2>3, ReportLast DEF Waits, Pending
<1>6. ~shells[p].failed =>
        shells[p].gen \in Generations /\ \A d \in may : shells[p].gen <= StandingIn(d)
  <2>1. Waits(shells[p], "report") /\ shells[p].gen \in Numbers
    BY <1>2, ShellFacts DEF Waits, Commands
  <2> QED
    BY <1>4, <1>5, <2>1, BoundsAssumption DEF OutsiderInv, Numbers, Generations, None,
                                              BoundsAssumption
<1>7. Recorded
  BY <1>1, <1>6 DEF Recorded, Outside, WriterInv, Typed
<1>8. /\ Remembers /\ Same(dir, dir') /\ Agree(dir, dir', JournalWrite)
      /\ Has(dir, LockFile) => Has(dir', LockFile)
  BY <1>1, Unmoved
<1>9. WriterInv'
  <2>1. Idle \in Commands /\ ~Waits(Idle, "release") /\ ShellInv(Idle, dir', may', staged)
    BY IdleFacts DEF Waits
  <2>2. staged' = staged /\ shells' = [shells EXCEPT ![p] = Idle]
    BY <1>1
  <2> QED
    BY <1>3, <1>7, <1>8, <2>1, <2>2, OutsiderKeeps
<1>10. CASE shells[p].failed
  <2>1. reported' = reported /\ StandingIn(dir') = StandingIn(dir) /\ dir \in may
    BY <1>1, <1>10, Counters
  <2>2. EvidenceStep
    BY <1>8, <2>1, QuietStep
  <2> QED
    BY <1>9, <2>2
<1>11. CASE ~shells[p].failed
  <2>1. /\ \A m \in {StandingIn(d) : d \in may} : shells[p].gen <= m
        /\ reported' = reported \cup {shells[p].gen}
        /\ UNCHANGED <<dir, may>>
    BY <1>1, <1>6, <1>11
  <2>2. Evidence!Report(shells[p].gen)
    BY <2>1 DEF Evidence!Report
  <2>3. EvidenceStep
    BY <1>6, <1>11, <2>2 DEF EvidenceStep, Evidence!Next
  <2> QED
    BY <1>9, <2>3
<1> QED
  BY <1>10, <1>11

----------------------------------------------------------------------------
(* In the lock: operations on which nothing of the invariant hangs.        *)

LEMMA InLock ==
  ASSUME WriterInv, NEW p \in Shells, Running(p),
         Op(p)[1] \notin {"build", "lock", "sync", "report"}
  PROVE  Waits(shells[p], "release")
<1> SUFFICES ASSUME ~Waits(shells[p], "release") PROVE FALSE
  OBVIOUS
<1>1. Op(p) \notin {Do("build"), Do("lock"), Do("sync"), Do("report")}
  BY DEF Do
<1>2. /\ Op(p) \in Pending(shells[p]) /\ Pending(shells[p]) = {Op(p)} \cup Range(Rest(p))
      /\ \A op \in Range(Rest(p)) : Before(Op(p), op)
  BY Turn
<1>3. Waits(shells[p], "lock") /\ Op(p) \in {Do("recover"), Do("stage")}
  BY <1>1, <1>2, OutsideFacts DEF OutsiderInv
<1>4. Do("lock") \in Range(Rest(p))
  BY <1>1, <1>2, <1>3 DEF Waits
<1> QED
  BY <1>2, <1>3, <1>4, RankOf DEF Before

LEMMA RecoveryOpKinds ==
  ASSUME NEW g, NEW old, NEW op \in RecoveryOps(g, old)
  PROVE  op[1] \in {"sync", "unjournal", "stage", "release", "remove", "move", "purge"}
<1>1. CASE op \in {Do("sync"), Do("unjournal"), Do("stage"), Do("release")}
  BY <1>1 DEF Do
<1>2. CASE op \in {RemoveStage(g), RemoveActive(g), RemoveBackup(g, old),
                   Move(Backup(g), Active, old)}
  BY <1>2 DEF RemoveStage, RemoveActive, RemoveBackup, Remove, Move
<1>3. CASE \E role \in Roles : op = Purge(Cleanup(<<role, g>>))
  BY <1>3 DEF Purge
<1> QED
  BY <1>1, <1>2, <1>3 DEF RecoveryOps

LEMMA RecoveryKinds ==
  ASSUME NEW s, NEW d, RecoveryInv(s, d), NEW op \in Pending(s)
  PROVE  op[1] \in {"recover", "stage", "release", "sync", "unjournal", "discard", "remove", "move",
                    "purge"}
<1>1. CASE RecoversInv(s, d)
  BY <1>1, RecoveryOpKinds DEF RecoversInv
<1>2. CASE op \in {Do("recover"), Do("stage"), Do("release"), Do("sync"), Do("discard"),
                   Purge(Stage(s.gen))}
  BY <1>2 DEF Do, Purge
<1> QED
  BY <1>1, <1>2 DEF RecoveryInv

LEMMA InstallKinds ==
  ASSUME NEW s, NEW d, NEW m, NEW n, InstallInv(s, d, m, n), NEW op \in Pending(s)
  PROVE  op[1] \in {"fill", "sync", "admit", "validate", "unjournal", "release", "move", "remove",
                    "purge", "journal", "publish", "settle"}
<1>1. \A what : Do(what)[1] = what
  BY DEF Do
<1>2. \A name : Purge(name)[1] = "purge"
  BY DEF Purge
<1>3. \A g, old : /\ RemoveBackup(g, old)[1] = "remove"
                  /\ Move(Active, Backup(g), old)[1] = "move"
                  /\ Move(Stage(g), Active, g)[1] = "move"
  BY DEF RemoveBackup, Remove, Move
<1>4. \A state : /\ WriteJournal(state)[1] = "journal" /\ Publish(state)[1] = "publish"
                 /\ Settle(state)[1] = "settle"
  BY DEF WriteJournal, Publish, Settle
<1> QED
  BY <1>1, <1>2, <1>3, <1>4 DEF InstallInv, InstallOps

Neutral == {"fill", "admit", "sync", "purge", "settle", "validate"}

LEMMA NeutralKeeps ==
  ASSUME WriterInv, NEW p \in Shells, Running(p), Waits(shells[p], "release"),
         Op(p)[1] \in Neutral,
         Op(p)[1] = "validate" => Holds(dir, Active, shells[p].gen),
         Remembers, Same(dir, dir'), Has(dir, LockFile) => Has(dir', LockFile),
         NEW s, Ordered(s.todo), s.gen = shells[p].gen, s.old = shells[p].old,
         s.failed = shells[p].failed,
         Pending(s) \subseteq Pending(shells[p]), Pending(shells[p]) \subseteq {Op(p)} \cup Pending(s)
  PROVE  ShellInv(s, dir', may', staged)
<1> DEFINE o == shells[p]
<1>1. \A what : what \notin Neutral => (Waits(s, what) <=> Waits(o, what))
  BY DEF Waits, Do
<1>2. /\ Waits(s, "release") /\ Has(dir', LockFile) /\ (Waits(s, "stage") => ~s.failed)
  <2>1. ShellInv(o, dir, may, staged)
    BY ShellFacts
  <2> QED
    BY <1>1, <2>1 DEF ShellInv, Neutral
<1>3. \A state : /\ WriteJournal(state) \in Pending(s) <=> WriteJournal(state) \in Pending(o)
                 /\ Publish(state) \in Pending(s) <=> Publish(state) \in Pending(o)
  BY DEF WriteJournal, Publish, Neutral
<1>4. \A g, old :
        /\ RemoveActive(g) \in Pending(s) <=> RemoveActive(g) \in Pending(o)
        /\ Move(Backup(g), Active, old) \in Pending(s) <=> Move(Backup(g), Active, old) \in Pending(o)
        /\ RemoveBackup(g, old) \in Pending(s) <=> RemoveBackup(g, old) \in Pending(o)
  BY DEF RemoveActive, RemoveBackup, Remove, Move, Neutral
<1>5. ASSUME RecoveryInv(o, dir) PROVE RecoveryInv(s, dir')
  <2>1. RecoversInv(o, dir) => RecoversInv(s, dir')
    BY <1>4, SameFacts DEF RecoversInv
  <2>2. /\ Waits(s, "recover") <=> Waits(o, "recover")
        /\ Waits(s, "unjournal") <=> Waits(o, "unjournal")
        /\ Waits(s, "stage") <=> Waits(o, "stage")
    BY <1>1 DEF Neutral
  <2>3. Has(dir', Journal) <=> Has(dir, Journal)
    BY SameFacts
  <2> QED
    BY <1>5, <2>1, <2>2, <2>3 DEF RecoveryInv
<1>6. ASSUME InstallInv(o, dir, may, staged) PROVE InstallInv(s, dir', may', staged)
  <2>1. \A state \in States : Publish(state) \notin Pending(s)
    <3> SUFFICES ASSUME NEW state \in States, Publish(state) \in Pending(s) PROVE FALSE
      OBVIOUS
    <3>1. Head(o.todo) = Publish(state)
      BY <1>3, <1>6 DEF InstallInv
    <3>2. Op(p) = Publish(state)
      BY <3>1 DEF Op
    <3> QED
      BY <3>2 DEF Publish, Neutral
  <2>2. \A state : Writes(s, state) <=> Writes(o, state)
    BY <1>3 DEF Writes
  <2>3. Waits(s, "unjournal") <=> Waits(o, "unjournal")
    BY <1>1 DEF Neutral
  <2>4. CommittedInv(o, dir) => CommittedInv(s, dir')
    BY <1>4, <2>3, SameFacts DEF CommittedInv, OwnJournal
  <2>5. UncommittedInv(o, dir, may) => UncommittedInv(s, dir', may')
    <3>1. \A e \in may' : \E d \in may : StandingIn(e) = StandingIn(d)
      BY SameFacts, Counters DEF Remembers
    <3>2. ~Waits(s, "validate") => ~Waits(o, "validate") \/ Holds(dir, Active, o.gen)
      BY DEF Waits, Do
    <3> QED
      BY <2>2, <2>3, <3>1, <3>2, SameFacts DEF UncommittedInv, OwnJournal
  <2> QED
    BY <1>6, <2>1, <2>2, <2>4, <2>5 DEF InstallInv
<1>7. Waits(s, "stage") <=> Waits(o, "stage")
  BY <1>1 DEF Neutral
<1> QED
  BY <1>2, <1>5, <1>6, <1>7, HolderFacts DEF ShellInv

LEMMA NeutralStep ==
  ASSUME WriterInv, NEW p \in Shells, Running(p), Waits(shells[p], "release"),
         Op(p)[1] \in Neutral,
         Op(p)[1] = "validate" => Holds(dir, Active, shells[p].gen),
         Remembers, Same(dir, dir'), Has(dir, LockFile) => Has(dir', LockFile),
         UNCHANGED <<History, Outside>>, GoesOn(p, Rest(p))
  PROVE  WriterInv' /\ EvidenceStep
<1> DEFINE s == [shells[p] EXCEPT !.todo = Rest(p)]
<1>1. /\ Rest(p) \in Seq(Ops) /\ Ordered(Rest(p))
      /\ Pending(shells[p]) = {Op(p)} \cup Range(Rest(p))
  BY Turn
<1>2. /\ s \in Commands /\ Pending(s) = Range(Rest(p)) /\ s.todo = Rest(p)
      /\ s.gen = shells[p].gen /\ s.old = shells[p].old /\ s.failed = shells[p].failed
      /\ shells' = [shells EXCEPT ![p] = s]
  BY <1>1, Replaced DEF GoesOn
<1> HIDE DEF s
<1>3. ShellInv(s, dir', may', staged)
  BY <1>1, <1>2, NeutralKeeps
<1>4. DiskTyped(dir', staged) /\ StandingIn(dir') = StandingIn(dir)
  BY SameFacts, Counters
<1> QED
  BY <1>2, <1>3, <1>4, HolderStep

LEMMA FillKeeps ==
  ASSUME WriterInv, NEW p \in Shells, FillStage(p)
  PROVE  WriterInv' /\ EvidenceStep
<1> DEFINE stage == Stage(shells[p].gen)
<1>1. /\ Running(p) /\ Op(p)[1] = "fill" /\ UNCHANGED <<History, Outside>>
      /\ dir' = With(dir, stage, Whole(shells[p].gen)) /\ may' = may \cup {dir'}
      /\ GoesOn(p, Rest(p))
  BY DEF FillStage, At, Becomes
<1>2. Waits(shells[p], "release")
  BY <1>1, InLock
<1>3. Same(dir, dir') /\ Remembers
  BY <1>1, Names, ElsewhereIsSame DEF Remembers
<1>4. Has(dir, LockFile) => Has(dir', LockFile)
  BY <1>1, WithFacts
<1> QED
  BY <1>1, <1>2, <1>3, <1>4, NeutralStep DEF Neutral

LEMMA AdmitKeeps ==
  ASSUME WriterInv, NEW p \in Shells, Admit(p)
  PROVE  WriterInv' /\ EvidenceStep
<1>1. Running(p) /\ Op(p)[1] = "admit" /\ UNCHANGED <<History, Outside>> /\ UNCHANGED <<dir, may>>
  BY DEF Admit, At, Checked
<1>2. CASE Throws(p)
  BY <1>1, <1>2, QuietThrow
<1>3. CASE GoesOn(p, Rest(p))
  <2>1. Waits(shells[p], "release")
    BY <1>1, InLock
  <2>2. Remembers /\ Same(dir, dir') /\ (Has(dir, LockFile) => Has(dir', LockFile))
    BY <1>1, Unmoved
  <2> QED
    BY <1>1, <1>3, <2>1, <2>2, NeutralStep DEF Neutral
<1> QED
  BY <1>2, <1>3 DEF Admit, Checked

LEMMA ValidateKeeps ==
  ASSUME WriterInv, NEW p \in Shells, Validate(p)
  PROVE  WriterInv' /\ EvidenceStep
<1>1. /\ Running(p) /\ Op(p)[1] = "validate" /\ UNCHANGED <<History, Outside>>
      /\ UNCHANGED <<dir, may>>
  BY DEF Validate, At, Checked
<1>2. CASE Throws(p)
  BY <1>1, <1>2, QuietThrow
<1>3. CASE GoesOn(p, Rest(p)) /\ Holds(dir, Active, shells[p].gen)
  <2>1. Waits(shells[p], "release")
    BY <1>1, InLock
  <2>2. Remembers /\ Same(dir, dir') /\ (Has(dir, LockFile) => Has(dir', LockFile))
    BY <1>1, Unmoved
  <2> QED
    BY <1>1, <1>3, <2>1, <2>2, NeutralStep DEF Neutral
<1> QED
  BY <1>2, <1>3 DEF Validate, Checked

LEMMA SyncKeeps ==
  ASSUME WriterInv, NEW p \in Shells, Sync(p)
  PROVE  WriterInv' /\ EvidenceStep
<1>1. CASE ~Waits(shells[p], "release")
  BY <1>1, OutsiderSyncKeeps
<1>2. CASE Waits(shells[p], "release")
  <2>1. /\ Running(p) /\ Op(p)[1] = "sync" /\ UNCHANGED <<History, Outside>>
        /\ may' = {dir} /\ dir' = dir /\ GoesOn(p, Rest(p))
    BY DEF Sync, At
  <2>2. Remembers /\ Same(dir, dir') /\ (Has(dir, LockFile) => Has(dir', LockFile))
    BY <2>1, SameFollows DEF Remembers
  <2> QED
    BY <1>2, <2>1, <2>2, NeutralStep DEF Neutral
<1> QED
  BY <1>1, <1>2

LEMMA PurgeKeeps ==
  ASSUME WriterInv, NEW p \in Shells, PurgeDirectory(p)
  PROVE  WriterInv' /\ EvidenceStep
<1> DEFINE name == Op(p)[2]
<1>1. Running(p) /\ Op(p)[1] = "purge" /\ UNCHANGED <<History, Outside>>
  BY DEF PurgeDirectory, At
<1>2. Waits(shells[p], "release")
  BY <1>1, InLock
<1>3. name[1] \in {"stage", "cleanup"}
  <2>1. PICK n : Op(p) = Purge(n) /\ n[1] \in {"stage", "cleanup"}
    BY <1>1, Turn, OpKinds
  <2> QED
    BY <2>1 DEF Purge
<1>4. name # LockFile /\ name[1] \notin {"journal", "active", "backup"}
  BY <1>3, Names
<1>5. CASE Becomes(With(dir, name, Spoiled(dir[name].gen))) /\ UNCHANGED shells
  <2>1. Remembers /\ Same(dir, dir')
    BY <1>4, <1>5, ElsewhereIsSame DEF Becomes, Remembers
  <2>2. Has(dir, LockFile) => Has(dir', LockFile)
    BY <1>5, WithFacts DEF Becomes
  <2>3. ShellInv(shells[p], dir', may', staged)
    <3>1. Ordered(shells[p].todo)
      BY ShellFacts DEF ShellInv
    <3> QED
      BY <1>1, <1>2, <2>1, <2>2, <3>1, NeutralKeeps DEF Neutral
  <2>4. DiskTyped(dir', staged) /\ StandingIn(dir') = StandingIn(dir)
    BY <2>1, SameFacts, Counters
  <2>5. shells[p] \in Commands /\ shells' = [shells EXCEPT ![p] = shells[p]]
    BY <1>5 DEF WriterInv, Typed
  <2> QED
    BY <1>1, <1>2, <2>1, <2>3, <2>4, <2>5, HolderStep
<1>6. CASE Becomes(Without(dir, name)) /\ GoesOn(p, Rest(p))
  <2>1. Remembers /\ Same(dir, dir')
    BY <1>4, <1>6, ElsewhereIsSame DEF Becomes, Remembers
  <2>2. Has(dir, LockFile) => Has(dir', LockFile)
    BY <1>4, <1>6, WithoutFacts DEF Becomes
  <2> QED
    BY <1>1, <1>2, <1>6, <2>1, <2>2, NeutralStep DEF Neutral
<1> QED
  BY <1>5, <1>6 DEF PurgeDirectory

LEMMA SettleKeeps ==
  ASSUME WriterInv, NEW p \in Shells, SettleJournal(p)
  PROVE  WriterInv' /\ EvidenceStep
<1> DEFINE phase == IF Op(p)[2] = "committed" THEN "committed" ELSE "journaled"
           s == [shells[p] EXCEPT !.todo = Rest(p), !.phase = phase]
<1>1. /\ Running(p) /\ Op(p)[1] = "settle" /\ may' = {dir} /\ dir' = dir
      /\ journaled' = journaled \cup {shells[p].gen} /\ UNCHANGED <<staged, reported, Outside>>
      /\ shells' = [shells EXCEPT ![p].todo = Rest(p), ![p].phase = phase]
  BY DEF SettleJournal, At
<1>2. Waits(shells[p], "release")
  BY <1>1, InLock
<1>3. /\ Rest(p) \in Seq(Ops) /\ Ordered(Rest(p))
      /\ Pending(shells[p]) = {Op(p)} \cup Range(Rest(p))
      /\ Op(p) \in Pending(shells[p])
  BY <1>1, Turn
<1>4. shells \in [Shells -> Commands]
  BY DEF WriterInv, Typed
<1>5. /\ s \in Commands /\ s.todo = Rest(p) /\ Pending(s) = Range(Rest(p))
      /\ s.gen = shells[p].gen /\ s.old = shells[p].old /\ s.failed = shells[p].failed
      /\ shells' = [shells EXCEPT ![p] = s]
  BY <1>1, <1>3, <1>4 DEF Commands, Phases, Pending
<1> HIDE DEF s, phase
<1>6. Remembers /\ Same(dir, dir') /\ (Has(dir, LockFile) => Has(dir', LockFile))
  BY <1>1, SameFollows DEF Remembers
<1>7. ShellInv(s, dir', may', staged)
  BY <1>1, <1>2, <1>3, <1>5, <1>6, NeutralKeeps DEF Neutral
<1>8. shells[p].gen \in Generations
  <2>1. ~RecoveryInv(shells[p], dir)
    BY <1>1, <1>3, RecoveryKinds
  <2>2. InstallInv(shells[p], dir, may, staged)
    BY <1>2, <2>1, HolderFacts
  <2>3. shells[p].gen \in Numbers /\ shells[p].old \in Numbers
    BY <1>4 DEF Commands
  <2> QED
    BY <2>2, <2>3, BoundsAssumption DEF InstallInv, Numbers, Generations, BoundsAssumption
<1>9. Recorded /\ reported' = reported /\ staged' = staged
  BY <1>1, <1>8 DEF Recorded, Outside, WriterInv, Typed
<1>10. /\ DiskTyped(dir', staged) /\ StandingIn(dir') = StandingIn(dir) /\ dir \in may
       /\ StandingIn(dir) \in Nat /\ staged \in Nat /\ staged \in Numbers
  BY <1>1, Counters
<1>11. EvidenceStep
  BY <1>6, <1>9, <1>10, QuietStep
<1>12. /\ staged' \in Numbers /\ staged <= staged' /\ DiskTyped(dir', staged')
       /\ StandingIn(dir) <= StandingIn(dir') /\ ShellInv(s, dir', may', staged')
  BY <1>7, <1>9, <1>10
<1>13. WriterInv'
  BY <1>2, <1>5, <1>6, <1>9, <1>12, HolderKeeps
<1> QED
  BY <1>11, <1>13

----------------------------------------------------------------------------
(* In the lock: the recovery, and what a catch puts in its place.          *)

LEMMA StillRecovering ==
  ASSUME WriterInv, NEW p \in Shells, Waits(shells[p], "release"),
         Waits(shells[p], "stage") \/ shells[p].failed,
         NEW s, Ordered(s.todo), s.failed = shells[p].failed, Waits(s, "release"),
         Waits(s, "stage") <=> Waits(shells[p], "stage"),
         Has(dir, LockFile) => Has(dir', LockFile), RecoveryInv(s, dir')
  PROVE  ShellInv(s, dir', may', staged)
<1>1. ShellInv(shells[p], dir, may, staged)
  BY ShellFacts
<1> QED
  BY <1>1 DEF ShellInv

LEMMA StillInstalling ==
  ASSUME WriterInv, NEW p \in Shells, Waits(shells[p], "release"),
         ~Waits(shells[p], "stage"), ~shells[p].failed,
         NEW s, Ordered(s.todo), s.failed = shells[p].failed, Waits(s, "release"),
         ~Waits(s, "stage"),
         Has(dir, LockFile) => Has(dir', LockFile), InstallInv(s, dir', may', staged)
  PROVE  ShellInv(s, dir', may', staged)
<1>1. ShellInv(shells[p], dir, may, staged)
  BY ShellFacts
<1> QED
  BY <1>1 DEF ShellInv

\* What tells operations apart.
LEMMA Tags ==
  /\ \A what : Do(what)[1] = what
  /\ \A name : Purge(name)[1] = "purge"
  /\ \A g : /\ RemoveStage(g)[1] = "remove" /\ RemoveStage(g)[2][1] = "stage"
            /\ RemoveActive(g)[1] = "remove" /\ RemoveActive(g)[2][1] = "active"
  /\ \A g, old : /\ RemoveBackup(g, old)[1] = "remove" /\ RemoveBackup(g, old)[2][1] = "backup"
                 /\ Move(Active, Backup(g), old)[1] = "move"
                 /\ Move(Active, Backup(g), old)[2][1] = "active"
                 /\ Move(Stage(g), Active, old)[1] = "move"
                 /\ Move(Stage(g), Active, old)[2][1] = "stage"
                 /\ Move(Backup(g), Active, old)[1] = "move"
                 /\ Move(Backup(g), Active, old)[2][1] = "backup"
  /\ \A state : /\ WriteJournal(state)[1] = "journal" /\ WriteJournal(state)[2] = state
                /\ Publish(state)[1] = "publish" /\ Publish(state)[2] = state
                /\ Settle(state)[1] = "settle" /\ Settle(state)[2] = state
<1>1. /\ \A what : Do(what)[1] = what
      /\ \A name : Purge(name)[1] = "purge"
      /\ \A state : /\ WriteJournal(state)[1] = "journal" /\ WriteJournal(state)[2] = state
                    /\ Publish(state)[1] = "publish" /\ Publish(state)[2] = state
                    /\ Settle(state)[1] = "settle" /\ Settle(state)[2] = state
  BY DEF Do, Purge, WriteJournal, Publish, Settle
<1>2. \A g, old : /\ RemoveStage(g)[1] = "remove" /\ RemoveStage(g)[2][1] = "stage"
                  /\ RemoveActive(g)[1] = "remove" /\ RemoveActive(g)[2][1] = "active"
                  /\ RemoveBackup(g, old)[1] = "remove" /\ RemoveBackup(g, old)[2][1] = "backup"
  BY Names DEF RemoveStage, RemoveActive, RemoveBackup, Remove
<1>3. \A g, old : /\ Move(Active, Backup(g), old)[1] = "move"
                  /\ Move(Active, Backup(g), old)[2][1] = "active"
                  /\ Move(Stage(g), Active, old)[1] = "move"
                  /\ Move(Stage(g), Active, old)[2][1] = "stage"
                  /\ Move(Backup(g), Active, old)[1] = "move"
                  /\ Move(Backup(g), Active, old)[2][1] = "backup"
  BY Names DEF Move
<1> QED
  BY <1>1, <1>2, <1>3

\* The removals of a recovery come in order, and end at those of the stage or backup.
LEMMA RemovalsFacts ==
  ASSUME NEW d, Has(d, Journal), d[Journal].gen \in Numbers, d[Journal].old \in Numbers
  PROVE  LET j == d[Journal]
             restores == j.old = None \/ Has(d, Backup(j.gen))
         IN /\ Removals(d) \in Seq(Ops) /\ Ordered(Removals(d))
            /\ j.state = "committed" =>
                 Range(Removals(d)) = {RemoveStage(j.gen)}
                   \cup (IF j.old = None THEN {} ELSE {RemoveBackup(j.gen, j.old)})
            /\ j.state # "committed" =>
                 Range(Removals(d)) =
                   ((IF restores THEN {RemoveActive(j.gen)} ELSE {})
                    \cup (IF j.old # None /\ restores
                          THEN {Move(Backup(j.gen), Active, j.old), Do("sync")} ELSE {}))
                   \cup {RemoveStage(j.gen)}
<1> DEFINE j == d[Journal]
           restores == j.old = None \/ Has(d, Backup(j.gen))
           removed == IF j.old = None THEN <<>> ELSE <<RemoveBackup(j.gen, j.old)>>
           rolled == IF restores THEN <<RemoveActive(j.gen)>> ELSE <<>>
           moved == IF j.old # None /\ restores
                    THEN <<Move(Backup(j.gen), Active, j.old), Do("sync")>> ELSE <<>>
<1>1. /\ RemoveStage(j.gen) \in Ops /\ RemoveActive(j.gen) \in Ops
      /\ RemoveBackup(j.gen, j.old) \in Ops /\ Move(Backup(j.gen), Active, j.old) \in Ops
      /\ Do("sync") \in Ops
  BY OpsAre DEF Plain
<1>2. /\ Rank(RemoveStage(j.gen)) = 15 /\ Rank(RemoveActive(j.gen)) = 13
      /\ Rank(RemoveBackup(j.gen, j.old)) = 16 /\ Rank(Move(Backup(j.gen), Active, j.old)) = 14
      /\ Rank(Do("sync")) = 0
  BY RankOf
<1>3. /\ removed \in Seq(Ops) /\ Ordered(removed)
      /\ Range(removed) = IF j.old = None THEN {} ELSE {RemoveBackup(j.gen, j.old)}
  BY <1>1, EmptyFacts, OneFacts
<1>4. /\ rolled \in Seq(Ops) /\ Ordered(rolled)
      /\ Range(rolled) = IF restores THEN {RemoveActive(j.gen)} ELSE {}
  BY <1>1, EmptyFacts, OneFacts
<1>5. /\ moved \in Seq(Ops) /\ Ordered(moved)
      /\ Range(moved) = IF j.old # None /\ restores
                        THEN {Move(Backup(j.gen), Active, j.old), Do("sync")} ELSE {}
  <2>1. Before(Move(Backup(j.gen), Active, j.old), Do("sync"))
    BY <1>2 DEF Before
  <2> QED
    BY <1>1, <2>1, EmptyFacts, PairFacts
<1>6. /\ <<RemoveStage(j.gen)>> \in Seq(Ops) /\ Ordered(<<RemoveStage(j.gen)>>)
      /\ Range(<<RemoveStage(j.gen)>>) = {RemoveStage(j.gen)}
  BY <1>1, OneFacts
<1> HIDE DEF removed, rolled, moved
<1>7. CASE j.state = "committed"
  <2>1. \A a \in {RemoveStage(j.gen)}, b \in Range(removed) : Before(a, b)
    BY <1>2, <1>3 DEF Before
  <2>2. Removals(d) = <<RemoveStage(j.gen)>> \o removed
    BY <1>7 DEF Removals, removed
  <2>3. /\ <<RemoveStage(j.gen)>> \o removed \in Seq(Ops) /\ Ordered(<<RemoveStage(j.gen)>> \o removed)
        /\ Range(<<RemoveStage(j.gen)>> \o removed) = {RemoveStage(j.gen)} \cup Range(removed)
    BY <1>1, <1>3, <2>1, ConsFacts
  <2> QED
    BY <1>3, <1>7, <2>2, <2>3
<1>8. CASE j.state # "committed"
  <2>1. \A a \in Range(rolled), b \in Range(moved) : Before(a, b)
    BY <1>2, <1>4, <1>5 DEF Before
  <2>2. /\ rolled \o moved \in Seq(Ops) /\ Ordered(rolled \o moved)
        /\ Range(rolled \o moved) = Range(rolled) \cup Range(moved)
    BY <1>4, <1>5, <2>1, ConcatFacts
  <2>3. \A a \in Range(rolled \o moved), b \in Range(<<RemoveStage(j.gen)>>) : Before(a, b)
    BY <1>2, <1>4, <1>5, <1>6, <2>2 DEF Before
  <2>4. /\ (rolled \o moved) \o <<RemoveStage(j.gen)>> \in Seq(Ops)
        /\ Ordered((rolled \o moved) \o <<RemoveStage(j.gen)>>)
        /\ Range((rolled \o moved) \o <<RemoveStage(j.gen)>>)
             = Range(rolled \o moved) \cup {RemoveStage(j.gen)}
    BY <1>6, <2>2, <2>3, ConcatFacts
  <2>5. Removals(d) = (rolled \o moved) \o <<RemoveStage(j.gen)>>
    BY <1>8 DEF Removals, rolled, moved
  <2> QED
    BY <1>4, <1>5, <1>8, <2>2, <2>4, <2>5
<1> QED
  BY <1>7, <1>8

\* A recovery and the rest of its command, as a set.
LEMMA RecoveryFacts ==
  ASSUME NEW d, Has(d, Journal), d[Journal].gen \in Numbers, d[Journal].old \in Numbers,
         NEW t \in Seq(Ops), Ordered(t), Range(t) \subseteq {Do("stage"), Do("release")}
  PROVE  /\ Recovery(d) \o t \in Seq(Ops) /\ Ordered(Recovery(d) \o t)
         /\ Range(Recovery(d) \o t) =
              (Range(Removals(d)) \cup {Do("sync"), Do("unjournal")}) \cup Range(t)
<1> DEFINE j == d[Journal]
           end == <<Do("sync"), Do("unjournal"), Do("sync")>>
<1>1. Removals(d) \in Seq(Ops) /\ Ordered(Removals(d))
  BY RemovalsFacts
<1>2. \A a \in Range(Removals(d)) : Rank(a) \in {0, 13, 14, 15, 16}
  <2>1. Range(Removals(d)) \subseteq {RemoveStage(j.gen), RemoveActive(j.gen), Do("sync"),
          RemoveBackup(j.gen, j.old), Move(Backup(j.gen), Active, j.old)}
    BY RemovalsFacts
  <2> QED
    BY <2>1, RankOf
<1>3. /\ Rank(Do("sync")) = 0 /\ Rank(Do("unjournal")) = 17
      /\ Rank(Do("stage")) = 18 /\ Rank(Do("release")) = 19
  BY RankOf
<1>4. end \in Seq(Ops) /\ Ordered(end) /\ Range(end) = {Do("sync"), Do("unjournal")}
  <2>1. Do("sync") \in Ops /\ Do("unjournal") \in Ops
    BY OpsAre DEF Plain
  <2>2. /\ Before(Do("sync"), Do("unjournal")) /\ Before(Do("sync"), Do("sync"))
        /\ Before(Do("unjournal"), Do("sync"))
    BY <1>3 DEF Before
  <2>3. Range(end) = {Do("sync"), Do("unjournal"), Do("sync")}
    BY <2>1, <2>2, TripleFacts
  <2> QED
    BY <2>1, <2>2, <2>3, TripleFacts
<1> HIDE DEF end
<1>5. \A a \in Range(Removals(d)), b \in Range(end) : Before(a, b)
  BY <1>2, <1>3, <1>4 DEF Before
<1>6. /\ Removals(d) \o end \in Seq(Ops) /\ Ordered(Removals(d) \o end)
      /\ Range(Removals(d) \o end) = Range(Removals(d)) \cup Range(end)
  BY <1>1, <1>4, <1>5, ConcatFacts
<1>7. \A a \in Range(Removals(d) \o end), b \in Range(t) : Before(a, b)
  <2> SUFFICES ASSUME NEW a \in Range(Removals(d) \o end), NEW b \in Range(t) PROVE Before(a, b)
    OBVIOUS
  <2>1. Rank(a) \in {0, 13, 14, 15, 16, 17}
    BY <1>2, <1>3, <1>4, <1>6
  <2>2. Rank(b) \in {18, 19}
    BY <1>3
  <2> QED
    BY <2>1, <2>2 DEF Before
<1>8. Recovery(d) = Removals(d) \o end
  BY DEF Recovery, end
<1>9. /\ (Removals(d) \o end) \o t \in Seq(Ops) /\ Ordered((Removals(d) \o end) \o t)
      /\ Range((Removals(d) \o end) \o t) = Range(Removals(d) \o end) \cup Range(t)
  BY <1>6, <1>7, ConcatFacts
<1> QED
  BY <1>4, <1>6, <1>8, <1>9

LEMMA RecoverKeeps ==
  ASSUME WriterInv, NEW p \in Shells, Recover(p)
  PROVE  WriterInv' /\ EvidenceStep
<1>1. Running(p) /\ Op(p)[1] = "recover" /\ UNCHANGED <<History, Outside>> /\ UNCHANGED <<dir, may>>
  BY DEF Recover, At, Checked
<1>2. CASE Throws(p)
  BY <1>1, <1>2, QuietThrow
<1>3. CASE Recovers(dir) /\ GoesOn(p, Recovery(dir) \o Rest(p))
  <2> DEFINE t == Recovery(dir) \o Rest(p)
             s == [shells[p] EXCEPT !.todo = t]
             j == dir[Journal]
  <2>1. /\ Op(p) = Do("recover") /\ Rest(p) \in Seq(Ops) /\ Ordered(Rest(p))
        /\ Pending(shells[p]) = {Do("recover")} \cup Range(Rest(p))
        /\ \A op \in Range(Rest(p)) : Before(Do("recover"), op)
    BY <1>1, Turn, OpKinds DEF Plain
  <2>2. Waits(shells[p], "release")
    BY <1>1, InLock
  <2>3. /\ Waits(shells[p], "stage") \/ shells[p].failed
        /\ RecoveryInv(shells[p], dir)
    <3>1. ~InstallInv(shells[p], dir, may, staged)
      BY <1>1, <2>1, InstallKinds
    <3> QED
      BY <2>2, <3>1, HolderFacts
  <2>4. /\ Range(Rest(p)) \subseteq {Do("stage"), Do("release")}
        /\ Do("release") \in Range(Rest(p))
        /\ Do("stage") \in Range(Rest(p)) <=> Waits(shells[p], "stage")
    <3>1. Do("recover") \notin Range(Rest(p))
      BY <2>1, RankOf DEF Before
    <3>2. Do("release") # Do("recover") /\ Do("stage") # Do("recover")
      BY DEF Do
    <3> QED
      BY <2>1, <2>2, <2>3, <3>1, <3>2 DEF RecoveryInv, Waits
  <2>5. /\ Remembers /\ dir' = dir /\ DiskTyped(dir', staged) /\ StandingIn(dir') = StandingIn(dir)
        /\ Has(dir, LockFile) => Has(dir', LockFile)
    BY <1>1, Unmoved, Counters
  <2>6. CASE ~Has(dir, Journal)
    <3>1. Recovery(dir) = <<>>
      BY <2>6 DEF Recovery
    <3>2. t \in Seq(Ops) /\ Ordered(t) /\ Range(t) = Range(Rest(p))
      BY <2>1, <3>1, EmptyFacts, ConcatFacts
    <3>3. /\ s \in Commands /\ Pending(s) = Range(Rest(p)) /\ s.todo = t
          /\ s.failed = shells[p].failed /\ shells' = [shells EXCEPT ![p] = s]
      BY <1>3, <3>2, Replaced DEF GoesOn
    <3>4. Do("recover") \notin Pending(s) /\ Do("unjournal") \notin Pending(s)
      BY <2>4, <3>3 DEF Do
    <3> HIDE DEF s, t
    <3>5. RecoveryInv(s, dir')
      BY <2>4, <2>5, <2>6, <3>3, <3>4 DEF RecoveryInv, Waits
    <3>6. Waits(s, "release") /\ (Waits(s, "stage") <=> Waits(shells[p], "stage"))
      BY <2>4, <3>3 DEF Waits
    <3>7. ShellInv(s, dir', may', staged)
      BY <2>2, <2>3, <2>5, <3>2, <3>3, <3>5, <3>6, StillRecovering
    <3> QED
      BY <1>1, <2>2, <2>5, <3>3, <3>7, HolderStep
  <2>7. CASE Has(dir, Journal)
    <3>1. j.gen \in Numbers /\ j.old \in Numbers
      BY <2>7, Counters, BoundsAssumption DEF DiskTyped, Numbers, BoundsAssumption
    <3>2. /\ t \in Seq(Ops) /\ Ordered(t)
          /\ Range(t) = (Range(Removals(dir)) \cup {Do("sync"), Do("unjournal")}) \cup Range(Rest(p))
      BY <2>1, <2>4, <2>7, <3>1, RecoveryFacts
    <3>3. /\ s \in Commands /\ Pending(s) = Range(t) /\ s.todo = t
          /\ s.failed = shells[p].failed /\ shells' = [shells EXCEPT ![p] = s]
      BY <1>3, <3>2, Replaced DEF GoesOn
    <3> HIDE DEF s, t
    <3>4. Unambiguous(dir)
      BY <1>3, <2>7 DEF Recovers
    <3>5. RecoversInv(s, dir)
      <4>1. CASE j.state = "committed"
        <5>1. Range(Removals(dir)) \subseteq {RemoveStage(j.gen), RemoveBackup(j.gen, j.old)}
          BY <2>7, <3>1, <4>1, RemovalsFacts
        <5>2. Pending(s) \subseteq {RemoveStage(j.gen), RemoveBackup(j.gen, j.old), Do("sync"),
                                   Do("unjournal"), Do("stage"), Do("release")}
          BY <2>4, <3>2, <3>3, <5>1
        <5>3. RemoveActive(j.gen) \notin Pending(s) /\ Move(Backup(j.gen), Active, j.old) \notin Pending(s)
          BY <5>2, Tags
        <5>4. Holds(dir, Active, j.gen)
          BY <3>4, <4>1 DEF Unambiguous
        <5>5. Pending(s) \subseteq RecoveryOps(j.gen, j.old)
          BY <5>2 DEF RecoveryOps
        <5> QED
          BY <2>7, <4>1, <5>3, <5>4, <5>5 DEF RecoversInv
      <4>2. CASE j.state # "committed"
        <5> DEFINE restores == j.old = None \/ Has(dir, Backup(j.gen))
        <5>1. Range(Removals(dir)) =
                ((IF restores THEN {RemoveActive(j.gen)} ELSE {})
                 \cup (IF j.old # None /\ restores
                       THEN {Move(Backup(j.gen), Active, j.old), Do("sync")} ELSE {}))
                \cup {RemoveStage(j.gen)}
          BY <2>7, <3>1, <4>2, RemovalsFacts
        <5>2. Pending(s) \subseteq {RemoveStage(j.gen), RemoveActive(j.gen),
                Move(Backup(j.gen), Active, j.old), Do("sync"), Do("unjournal"), Do("stage"),
                Do("release")}
          BY <2>4, <3>2, <3>3, <5>1
        <5>3. RemoveBackup(j.gen, j.old) \notin Pending(s)
          BY <5>2, Tags
        <5>4. /\ restores => RemoveActive(j.gen) \in Pending(s)
              /\ j.old # None /\ restores => Move(Backup(j.gen), Active, j.old) \in Pending(s)
          BY <3>2, <3>3, <5>1
        <5>5. Move(Backup(j.gen), Active, j.old) \in Pending(s) => j.old # None
          <6> SUFFICES ASSUME j.old = None PROVE Move(Backup(j.gen), Active, j.old) \notin Pending(s)
            OBVIOUS
          <6>1. Pending(s) \subseteq {RemoveStage(j.gen), RemoveActive(j.gen), Do("sync"),
                                     Do("unjournal"), Do("stage"), Do("release")}
            BY <2>4, <3>2, <3>3, <5>1
          <6> QED
            BY <6>1, Tags
        <5>6. RemoveActive(j.gen) \in Pending(s) => restores
          <6> SUFFICES ASSUME ~restores PROVE RemoveActive(j.gen) \notin Pending(s)
            OBVIOUS
          <6>1. Pending(s) \subseteq {RemoveStage(j.gen), Do("sync"), Do("unjournal"), Do("stage"),
                                     Do("release")}
            BY <2>4, <3>2, <3>3, <5>1
          <6> QED
            BY <6>1, Tags
        <5>7. ~restores => InPlace(dir, j.old)
          BY <3>4, <4>2 DEF Unambiguous, InPlace
        <5>8. Pending(s) \subseteq RecoveryOps(j.gen, j.old)
          BY <5>2 DEF RecoveryOps
        <5> QED
          BY <2>7, <4>2, <5>3, <5>4, <5>5, <5>6, <5>7, <5>8 DEF RecoversInv
      <4> QED
        BY <4>1, <4>2
    <3>6. /\ Waits(s, "unjournal") /\ ~Waits(s, "recover")
          /\ Waits(s, "release") /\ (Waits(s, "stage") <=> Waits(shells[p], "stage"))
      <4>1. \A op \in Range(Removals(dir)) : op[1] \in {"remove", "move", "sync"}
        <5>1. Range(Removals(dir)) \subseteq {RemoveStage(j.gen), RemoveActive(j.gen), Do("sync"),
                RemoveBackup(j.gen, j.old), Move(Backup(j.gen), Active, j.old)}
          BY <2>7, <3>1, RemovalsFacts
        <5> QED
          BY <5>1, Tags
      <4>2. /\ Do("recover") \notin Range(Removals(dir)) /\ Do("stage") \notin Range(Removals(dir))
            /\ Do("recover") \notin {Do("sync"), Do("unjournal"), Do("stage"), Do("release")}
            /\ Do("stage") \notin {Do("sync"), Do("unjournal")}
        BY <4>1, Tags
      <4> QED
        BY <2>4, <3>2, <3>3, <4>2 DEF Waits
    <3>7. RecoveryInv(s, dir')
      BY <2>5, <3>5, <3>6 DEF RecoveryInv
    <3>8. ShellInv(s, dir', may', staged)
      BY <2>2, <2>3, <2>5, <3>2, <3>3, <3>6, <3>7, StillRecovering
    <3> QED
      BY <1>1, <2>2, <2>5, <3>3, <3>8, HolderStep
  <2> QED
    BY <2>6, <2>7
<1> QED
  BY <1>2, <1>3 DEF Recover, Checked

----------------------------------------------------------------------------
(* In the lock: removals, the journal's removal, and the release.          *)

\* An operation of an installation that comes after the commit.
LEMMA AfterCommit ==
  ASSUME WriterInv, NEW p \in Shells, Running(p), Rank(Op(p)) > 12, Rank(Op(p)) \in Nat,
         InstallInv(shells[p], dir, may, staged)
  PROVE  CommittedInv(shells[p], dir)
<1>1. /\ Pending(shells[p]) = {Op(p)} \cup Range(Rest(p))
      /\ \A op \in Range(Rest(p)) : Before(Op(p), op)
  BY Turn
<1>2. \A op \in Pending(shells[p]) : Rank(op) # 12
  BY <1>1 DEF Before
<1>3. ~Writes(shells[p], "committed")
  BY <1>2, RankOf DEF Writes
<1> QED
  BY <1>3 DEF InstallInv

\* What a removal puts before the rest.
LEMMA PurgeFirst ==
  ASSUME NEW rest \in Seq(Ops), Ordered(rest), NEW op, Rank(op) \in Nat,
         \A b \in Range(rest) : Before(op, b),
         NEW name, Purge(name) \in Ops, Rank(Purge(name)) = Rank(op),
         NEW t \in {<<Do("sync")>> \o <<Purge(name), Do("sync")>> \o rest,
                    <<Purge(name), Do("sync")>> \o rest, <<>> \o rest}
  PROVE  /\ t \in Seq(Ops) /\ Ordered(t)
         /\ Range(t) \subseteq {Do("sync"), Purge(name)} \cup Range(rest)
         /\ Range(rest) \subseteq Range(t)
<1> DEFINE purge == <<Purge(name), Do("sync")>>
<1>1. Do("sync") \in Ops /\ Rank(Do("sync")) = 0
  BY OpsAre, RankOf DEF Plain
<1>2. /\ purge \in Seq(Ops) /\ Ordered(purge) /\ Range(purge) = {Purge(name), Do("sync")}
  <2>1. Before(Purge(name), Do("sync"))
    BY <1>1 DEF Before
  <2> QED
    BY <1>1, <2>1, PairFacts
<1> HIDE DEF purge
<1>3. \A b \in Range(rest) : Before(Purge(name), b) /\ Before(Do("sync"), b)
  BY <1>1 DEF Before
<1>4. \A a \in Range(purge), b \in Range(rest) : Before(a, b)
  BY <1>2, <1>3
<1>5. /\ purge \o rest \in Seq(Ops) /\ Ordered(purge \o rest)
      /\ Range(purge \o rest) = Range(purge) \cup Range(rest)
  BY <1>2, <1>4, ConcatFacts
<1>6. \A b \in Range(purge) : Before(Do("sync"), b)
  BY <1>1 DEF Before
<1>7. /\ <<Do("sync")>> \o purge \in Seq(Ops) /\ Ordered(<<Do("sync")>> \o purge)
      /\ Range(<<Do("sync")>> \o purge) = {Do("sync")} \cup Range(purge)
  BY <1>1, <1>2, <1>6, ConsFacts
<1>8. \A a \in Range(<<Do("sync")>> \o purge), b \in Range(rest) : Before(a, b)
  BY <1>2, <1>3, <1>7
<1>9. /\ (<<Do("sync")>> \o purge) \o rest \in Seq(Ops)
      /\ Ordered((<<Do("sync")>> \o purge) \o rest)
      /\ Range((<<Do("sync")>> \o purge) \o rest) = Range(<<Do("sync")>> \o purge) \cup Range(rest)
  BY <1>7, <1>8, ConcatFacts
<1>10. /\ <<>> \o rest \in Seq(Ops) /\ Ordered(<<>> \o rest)
       /\ Range(<<>> \o rest) = Range(rest)
  BY EmptyFacts, ConcatFacts
<1>11. t \in {(<<Do("sync")>> \o purge) \o rest, purge \o rest, <<>> \o rest}
  BY DEF purge
<1>12. CASE t = (<<Do("sync")>> \o purge) \o rest
  BY <1>2, <1>7, <1>9, <1>12
<1>13. CASE t = purge \o rest
  BY <1>2, <1>5, <1>13
<1>14. CASE t = <<>> \o rest
  BY <1>10, <1>14
<1> QED
  BY <1>11, <1>12, <1>13, <1>14

\* What a removal does: the generation is renamed, or was before.
LEMMA RemovalStep ==
  ASSUME WriterInv, NEW p \in Shells, RemoveGeneration(p), Removable(dir, Op(p)),
         NEW from, NEW q, NEW k, Op(p) = Remove(from, q, k),
         q[1] = "cleanup", from[1] \in {"stage", "active", "backup"},
         Purge(q) \in Ops, Rank(Op(p)) = Rank(Purge(q)), Rank(Op(p)) \in Nat
  PROVE  /\ Remembers /\ (Has(dir, LockFile) => Has(dir', LockFile))
         /\ ~Has(dir', from) /\ (Has(dir, from) => Holds(dir, from, k))
         /\ \A name : name[1] # "cleanup" /\ name # from => Agree(dir, dir', name)
         /\ \E t \in Seq(Ops) :
              /\ Ordered(t) /\ GoesOn(p, t)
              /\ Range(t) \subseteq {Do("sync"), Purge(q)} \cup Range(Rest(p))
              /\ Range(Rest(p)) \subseteq Range(t)
<1> DEFINE purge == <<Purge(q), Do("sync")>>
<1>1. Op(p)[2] = from /\ Op(p)[3] = q /\ Op(p)[4] = k
  BY DEF Remove
<1>2. q # from /\ from # LockFile /\ q # LockFile
  BY Names
<1>3. /\ Rest(p) \in Seq(Ops) /\ Ordered(Rest(p)) /\ \A op \in Range(Rest(p)) : Before(Op(p), op)
  BY Turn DEF RemoveGeneration, At
<1>4. /\ \/ /\ Has(dir, from) /\ Becomes(Moved(dir, from, q))
            /\ GoesOn(p, <<Do("sync")>> \o purge \o Rest(p))
         \/ /\ ~Has(dir, from) /\ UNCHANGED <<dir, may>>
            /\ \/ GoesOn(p, purge \o Rest(p))
               \/ GoesOn(p, <<>> \o Rest(p))
  BY <1>1 DEF RemoveGeneration
<1>5. ASSUME Has(dir, from), Becomes(Moved(dir, from, q))
      PROVE  /\ Remembers /\ (Has(dir, LockFile) => Has(dir', LockFile))
             /\ ~Has(dir', from) /\ (Has(dir, from) => Holds(dir, from, k))
             /\ \A name : name[1] # "cleanup" /\ name # from => Agree(dir, dir', name)
  <2>1. Remembers
    BY <1>5 DEF Becomes, Remembers
  <2>2. /\ \A n : Has(dir', n) <=> n = q \/ (n # from /\ Has(dir, n))
        /\ \A n : n # from /\ n # q /\ Has(dir, n) => dir'[n] = dir[n]
    BY <1>2, <1>5, MovedFacts DEF Becomes
  <2>3. ~Has(dir', from) /\ (Has(dir, LockFile) => Has(dir', LockFile))
    BY <1>2, <2>2
  <2>4. Holds(dir, from, k)
    BY <1>1, <1>5 DEF Removable
  <2>5. \A name : name[1] # "cleanup" /\ name # from => Agree(dir, dir', name)
    BY <2>2 DEF Agree
  <2> QED
    BY <2>1, <2>3, <2>4, <2>5
<1>6. ASSUME ~Has(dir, from), UNCHANGED <<dir, may>>
      PROVE  /\ Remembers /\ (Has(dir, LockFile) => Has(dir', LockFile))
             /\ ~Has(dir', from) /\ (Has(dir, from) => Holds(dir, from, k))
             /\ \A name : name[1] # "cleanup" /\ name # from => Agree(dir, dir', name)
  BY <1>6, Unmoved
<1>7. \E t \in Seq(Ops) :
        /\ Ordered(t) /\ GoesOn(p, t)
        /\ Range(t) \subseteq {Do("sync"), Purge(q)} \cup Range(Rest(p))
        /\ Range(Rest(p)) \subseteq Range(t)
  <2>1. PICK t \in {<<Do("sync")>> \o purge \o Rest(p), purge \o Rest(p), <<>> \o Rest(p)} :
          GoesOn(p, t)
    BY <1>4
  <2>2. /\ t \in Seq(Ops) /\ Ordered(t)
        /\ Range(t) \subseteq {Do("sync"), Purge(q)} \cup Range(Rest(p))
        /\ Range(Rest(p)) \subseteq Range(t)
    BY <1>3, <2>1, PurgeFirst
  <2> QED
    BY <2>1, <2>2
<1> QED
  BY <1>4, <1>5, <1>6, <1>7

\* A recovery that removes a generation has the others to remove, and what it
\* leaves in place is there when it has none to move.
LEMMA RecoversOn ==
  ASSUME WriterInv, NEW p \in Shells, Running(p), Waits(shells[p], "release"),
         Waits(shells[p], "stage") \/ shells[p].failed, Waits(shells[p], "unjournal"),
         RecoversInv(shells[p], dir), UNCHANGED <<History, Outside>>,
         Op(p) \in {RemoveStage(dir[Journal].gen), RemoveActive(dir[Journal].gen),
                    RemoveBackup(dir[Journal].gen, dir[Journal].old)},
         Remembers, Has(dir, LockFile) => Has(dir', LockFile), Agree(dir, dir', Journal),
         NEW role \in Roles, NEW t \in Seq(Ops), Ordered(t), GoesOn(p, t),
         Range(t) \subseteq {Do("sync"), Purge(Cleanup(<<role, dir[Journal].gen>>))} \cup Range(Rest(p)),
         Range(Rest(p)) \subseteq Range(t),
         DiskTyped(dir', staged), StandingIn(dir') = StandingIn(dir),
         IF Op(p) = RemoveActive(dir[Journal].gen) THEN ~Has(dir', Active)
         ELSE Agree(dir, dir', Active)
  PROVE  WriterInv' /\ EvidenceStep
<1> DEFINE j == dir[Journal]
           o == shells[p]
           s == [shells[p] EXCEPT !.todo = t]
           stage == RemoveStage(j.gen)
           active == RemoveActive(j.gen)
           backup == RemoveBackup(j.gen, j.old)
           back == Move(Backup(j.gen), Active, j.old)
           purge == Purge(Cleanup(<<role, j.gen>>))
<1>1. /\ Pending(o) = {Op(p)} \cup Range(Rest(p))
      /\ \A op \in Range(Rest(p)) : Before(Op(p), op)
  BY Turn
<1>2. /\ s \in Commands /\ Pending(s) = Range(t) /\ s.todo = t
      /\ s.failed = o.failed /\ shells' = [shells EXCEPT ![p] = s]
  BY Replaced DEF GoesOn
<1>3. /\ stage # active /\ stage # backup /\ active # backup
      /\ back \notin {stage, active, backup}
      /\ {stage, active, backup, back} \cap {Do("sync"), purge} = {}
      /\ \A what \in {"unjournal", "stage", "release", "recover"} :
           Do(what) \notin {stage, active, backup, Do("sync"), purge}
  BY Tags
<1>4. Rank(Op(p)) \in {13, 15, 16}
  BY RankOf
<1>5. Op(p) \notin Range(Rest(p))
  BY <1>1, <1>4 DEF Before
<1>6. Has(dir, Journal) /\ Has(dir', Journal) /\ dir'[Journal] = j
  BY DEF RecoversInv, Agree
<1>7. /\ Op(p) \in {stage, active, backup} /\ Range(Rest(p)) \subseteq Pending(s)
      /\ Pending(s) \subseteq {Do("sync"), purge} \cup Range(Rest(p))
      /\ Op(p) = active => ~Has(dir', Active)
      /\ Op(p) # active => Agree(dir, dir', Active)
  BY <1>2
<1>8. /\ Pending(o) \subseteq RecoveryOps(j.gen, j.old)
      /\ backup \in Pending(o) => j.state = "committed"
      /\ {active, back} \cap Pending(o) # {} => j.state # "committed"
      /\ back \in Pending(o) => j.old # None
      /\ active \in Pending(o) /\ j.old # None => back \in Pending(o)
      /\ {active, back} \cap Pending(o) = {} =>
           IF j.state = "committed" THEN Holds(dir, Active, j.gen) ELSE InPlace(dir, j.old)
  BY DEF RecoversInv
<1>9. Do("sync") \in RecoveryOps(j.gen, j.old) /\ purge \in RecoveryOps(j.gen, j.old)
  BY DEF RecoveryOps
<1>10. \A what \in {"unjournal", "stage", "release", "recover"} : Waits(s, what) <=> Waits(o, what)
  BY <1>1, <1>3, <1>7 DEF Waits
<1> HIDE DEF s, stage, active, backup, back, purge
<1>11. /\ backup \in Pending(s) => backup \in Pending(o)
       /\ active \in Pending(s) => active \in Pending(o)
       /\ back \in Pending(s) <=> back \in Pending(o)
       /\ Op(p) # active => (active \in Pending(s) <=> active \in Pending(o))
       /\ Op(p) \notin Pending(s)
  BY <1>1, <1>3, <1>5, <1>7
<1>12. ASSUME {active, back} \cap Pending(s) = {}
       PROVE  IF j.state = "committed" THEN Holds(dir', Active, j.gen) ELSE InPlace(dir', j.old)
  <2>1. CASE Op(p) = active
    <3>1. active \in Pending(o)
      BY <1>1, <2>1
    <3>2. j.state # "committed" /\ j.old = None
      BY <1>8, <1>11, <1>12, <3>1
    <3> QED
      BY <1>7, <2>1, <3>2 DEF InPlace
  <2>2. CASE Op(p) # active
    <3>1. {active, back} \cap Pending(o) = {}
      BY <1>11, <1>12, <2>2
    <3>2. Agree(dir, dir', Active)
      BY <1>7, <2>2
    <3>3. (\A g : Holds(dir, Active, g) => Holds(dir', Active, g)) /\ (Has(dir', Active) <=> Has(dir, Active))
      BY <3>2 DEF Agree, Holds
    <3> QED
      BY <1>8, <3>1, <3>3 DEF InPlace
  <2> QED
    BY <2>1, <2>2
<1>13. RecoversInv(s, dir')
  <2>1. Pending(s) \subseteq RecoveryOps(j.gen, j.old)
    BY <1>1, <1>7, <1>8, <1>9
  <2>2. /\ backup \in Pending(s) => j.state = "committed"
        /\ {active, back} \cap Pending(s) # {} => j.state # "committed"
        /\ back \in Pending(s) => j.old # None
        /\ active \in Pending(s) /\ j.old # None => back \in Pending(s)
    BY <1>8, <1>11
  <2> QED
    BY <1>6, <1>12, <2>1, <2>2 DEF RecoversInv, backup, active, back
<1>14. ~Waits(o, "recover")
  <2>1. Do("recover") \notin RecoveryOps(j.gen, j.old)
    BY Tags, RecoveryOpKinds
  <2> QED
    BY <1>8, <2>1 DEF Waits
<1>15. RecoveryInv(s, dir')
  BY <1>10, <1>13, <1>14 DEF RecoveryInv
<1>16. ShellInv(s, dir', may', staged)
  BY <1>2, <1>10, <1>15, StillRecovering
<1> QED
  BY <1>2, <1>16, HolderStep

\* Where nothing is committed, the generation being installed does not stand.
LEMMA StandsWithout ==
  ASSUME NEW d, NEW e, Has(d, Journal), d[Journal].state # "committed",
         d[Journal].gen # d[Journal].old,
         Agree(d, e, Journal), Agree(d, e, Backup(d[Journal].gen)),
         Has(d, Active) => Holds(d, Active, d[Journal].gen),
         Has(e, Active) => Holds(e, Active, d[Journal].gen)
  PROVE  StandingIn(e) = StandingIn(d)
<1>1. /\ ~Holds(d, Active, d[Journal].old) /\ ~Holds(e, Active, d[Journal].old)
  BY HoldsOne DEF Holds
<1>2. Has(e, Journal) /\ e[Journal] = d[Journal]
  BY DEF Agree
<1>3. \A g : Holds(e, Backup(d[Journal].gen), g) <=> Holds(d, Backup(d[Journal].gen), g)
  BY DEF Agree, Holds
<1>4. Wanted(e) = Wanted(d)
  BY <1>1, <1>2, <1>3 DEF Wanted
<1> QED
  BY <1>4, StandingWanted

LEMMA RecoveryRemoves ==
  ASSUME WriterInv, NEW p \in Shells, RemoveGeneration(p), Removable(dir, Op(p)),
         Waits(shells[p], "release"), Waits(shells[p], "stage") \/ shells[p].failed
  PROVE  WriterInv' /\ EvidenceStep
<1> DEFINE j == dir[Journal]
           o == shells[p]
<1>1. /\ Running(p) /\ Op(p)[1] = "remove" /\ UNCHANGED <<History, Outside>>
  BY DEF RemoveGeneration, At
<1>2. Op(p) \in Pending(o)
  BY <1>1, Turn
<1>3. RecoveryInv(o, dir)
  BY HolderFacts
<1>4. RecoversInv(o, dir) /\ Waits(o, "unjournal")
  <2>1. Op(p) \notin {Do("recover"), Do("stage"), Do("release"), Do("sync"), Do("discard"),
                      Purge(Stage(o.gen))}
    BY <1>1, Tags
  <2> QED
    BY <1>2, <1>3, <2>1 DEF RecoveryInv
<1>5. Op(p) \in {RemoveStage(j.gen), RemoveActive(j.gen), RemoveBackup(j.gen, j.old)}
  <2>1. Op(p) \in RecoveryOps(j.gen, j.old)
    BY <1>2, <1>4 DEF RecoversInv
  <2>2. /\ Op(p) \notin {Do("sync"), Do("unjournal"), Do("stage"), Do("release"),
                         Move(Backup(j.gen), Active, j.old)}
        /\ \A role : Op(p) # Purge(Cleanup(<<role, j.gen>>))
    BY <1>1, Tags
  <2> QED
    BY <2>1, <2>2 DEF RecoveryOps
<1>6. /\ Has(dir, Journal) /\ j.gen \in 1 .. staged /\ j.old \in 0 .. staged /\ j.gen # j.old
      /\ j.gen \in Numbers /\ j.old \in Numbers /\ j.gen \in Generations
      /\ DiskTyped(dir, staged) /\ staged \in Nat
  BY <1>4, Counters, BoundsAssumption DEF RecoversInv, DiskTyped, Numbers, Generations, BoundsAssumption
<1>7. /\ Journal[1] = "journal" /\ Active[1] = "active" /\ LockFile[1] = "lock"
      /\ \A g : Stage(g)[1] = "stage" /\ Backup(g)[1] = "backup"
      /\ \A role, g : Cleanup(<<role, g>>)[1] = "cleanup"
      /\ {"stage", "active", "backup"} = Roles
  BY Names DEF Roles
<1>8. CASE Op(p) = RemoveStage(j.gen)
  <2> DEFINE from == Stage(j.gen)
  <2>1. /\ Op(p) = Remove(from, Cleanup(<<"stage", j.gen>>), j.gen)
        /\ Rank(Op(p)) = Rank(Purge(Cleanup(<<"stage", j.gen>>))) /\ Rank(Op(p)) \in Nat
        /\ Purge(Cleanup(<<"stage", j.gen>>)) \in Ops /\ Cleanup(<<"stage", j.gen>>)[1] = "cleanup"
        /\ from[1] \in {"stage", "active", "backup"}
    BY <1>6, <1>7, OpsAre, <1>8, RankOf DEF RemoveStage
  <2>2. /\ from # Journal /\ from # Active
        /\ \A g : from # Backup(g)
    BY <1>7
  <2>3. /\ Remembers /\ (Has(dir, LockFile) => Has(dir', LockFile))
        /\ \A name : name[1] # "cleanup" /\ name # from => Agree(dir, dir', name)
        /\ \E t \in Seq(Ops) :
             /\ Ordered(t) /\ GoesOn(p, t)
             /\ Range(t) \subseteq {Do("sync"), Purge(Cleanup(<<"stage", j.gen>>))} \cup Range(Rest(p))
             /\ Range(Rest(p)) \subseteq Range(t)
    <3> HIDE DEF from
    <3> QED
      BY <2>1, RemovalStep
  <2>4. Same(dir, dir')
    BY <1>7, <2>2, <2>3 DEF Same
  <2>5. DiskTyped(dir', staged) /\ StandingIn(dir') = StandingIn(dir)
    BY <1>6, <2>4, SameFacts
  <2>6. Agree(dir, dir', Journal) /\ Agree(dir, dir', Active)
    BY <2>4 DEF Same
  <2>7. Op(p) # RemoveActive(j.gen)
    BY <1>8, Tags
  <2> QED
    BY <1>1, <1>4, <1>5, <1>7, <2>3, <2>5, <2>6, <2>7, RecoversOn
<1>9. CASE Op(p) = RemoveActive(j.gen)
  <2>1. /\ Op(p) = Remove(Active, Cleanup(<<"active", j.gen>>), j.gen)
        /\ Rank(Op(p)) = Rank(Purge(Cleanup(<<"active", j.gen>>))) /\ Rank(Op(p)) \in Nat
        /\ Purge(Cleanup(<<"active", j.gen>>)) \in Ops /\ Cleanup(<<"active", j.gen>>)[1] = "cleanup"
        /\ Active[1] \in {"stage", "active", "backup"}
    BY <1>6, <1>7, OpsAre, <1>9, RankOf DEF RemoveActive
  <2>2. /\ Active # Journal
        /\ \A g : Active # Backup(g)
    BY <1>7
  <2>3. /\ Remembers /\ (Has(dir, LockFile) => Has(dir', LockFile))
        /\ ~Has(dir', Active) /\ (Has(dir, Active) => Holds(dir, Active, j.gen))
        /\ \A name : name[1] # "cleanup" /\ name # Active => Agree(dir, dir', name)
        /\ \E t \in Seq(Ops) :
             /\ Ordered(t) /\ GoesOn(p, t)
             /\ Range(t) \subseteq {Do("sync"), Purge(Cleanup(<<"active", j.gen>>))} \cup Range(Rest(p))
             /\ Range(Rest(p)) \subseteq Range(t)
    BY <2>1, RemovalStep
  <2>4. Agree(dir, dir', Journal) /\ Agree(dir, dir', Backup(j.gen))
    BY <1>7, <2>2, <2>3
  <2>5. j.state # "committed"
    BY <1>2, <1>4, <1>9 DEF RecoversInv
  <2>6. StandingIn(dir') = StandingIn(dir)
    BY <1>6, <2>3, <2>4, <2>5, StandsWithout
  <2>7. DiskTyped(dir', staged)
    BY <1>6, <2>3, <2>4 DEF DiskTyped, Agree
  <2> QED
    BY <1>1, <1>4, <1>5, <1>7, <1>9, <2>3, <2>4, <2>6, <2>7, RecoversOn
<1>10. CASE Op(p) = RemoveBackup(j.gen, j.old)
  <2> DEFINE from == Backup(j.gen)
  <2>1. /\ Op(p) = Remove(from, Cleanup(<<"backup", j.gen>>), j.old)
        /\ Rank(Op(p)) = Rank(Purge(Cleanup(<<"backup", j.gen>>))) /\ Rank(Op(p)) \in Nat
        /\ Purge(Cleanup(<<"backup", j.gen>>)) \in Ops /\ Cleanup(<<"backup", j.gen>>)[1] = "cleanup"
        /\ from[1] \in {"stage", "active", "backup"}
    BY <1>6, <1>7, OpsAre, <1>10, RankOf DEF RemoveBackup
  <2>2. /\ from # Journal /\ from # Active
    BY <1>7
  <2>3. /\ Remembers /\ (Has(dir, LockFile) => Has(dir', LockFile))
        /\ \A name : name[1] # "cleanup" /\ name # from => Agree(dir, dir', name)
        /\ \E t \in Seq(Ops) :
             /\ Ordered(t) /\ GoesOn(p, t)
             /\ Range(t) \subseteq {Do("sync"), Purge(Cleanup(<<"backup", j.gen>>))} \cup Range(Rest(p))
             /\ Range(Rest(p)) \subseteq Range(t)
    <3> HIDE DEF from
    <3> QED
      BY <2>1, RemovalStep
  <2>4. Agree(dir, dir', Journal) /\ Agree(dir, dir', Active)
    BY <1>7, <2>2, <2>3
  <2>5. j.state = "committed"
    BY <1>2, <1>4, <1>10 DEF RecoversInv
  <2>6. StandingIn(dir') = StandingIn(dir)
    <3>1. Has(dir', Journal) /\ dir'[Journal] = j
      BY <1>6, <2>4 DEF Agree
    <3>2. \A g : Holds(dir', Active, g) <=> Holds(dir, Active, g)
      BY <2>4 DEF Agree, Holds
    <3>3. Wanted(dir') = Wanted(dir)
      BY <1>6, <2>5, <3>1, <3>2 DEF Wanted
    <3> QED
      BY <3>3, StandingWanted
  <2>7. DiskTyped(dir', staged)
    BY <1>6, <2>4 DEF DiskTyped, Agree
  <2>8. Op(p) # RemoveActive(j.gen)
    BY <1>10, Tags
  <2> QED
    BY <1>1, <1>4, <1>5, <1>7, <2>3, <2>4, <2>6, <2>7, <2>8, RecoversOn
<1> QED
  BY <1>5, <1>8, <1>9, <1>10

\* After the commit nothing of the journal is still to be written.
LEMMA CommittedInstalls ==
  ASSUME NEW s, NEW d, NEW m, NEW n, CommittedInv(s, d), s.gen = n, s.old < s.gen
  PROVE  InstallInv(s, d, m, n)
<1>1. Pending(s) \subseteq {Settle("committed"), RemoveBackup(s.gen, s.old),
                            Purge(Cleanup(<<"backup", s.gen>>)), Do("sync"), Do("unjournal"),
                            Do("release")}
  BY DEF CommittedInv
<1>2. \A state : WriteJournal(state) \notin Pending(s) /\ Publish(state) \notin Pending(s)
  BY <1>1, Tags
<1>3. Pending(s) \subseteq InstallOps(s.gen, s.old)
  BY <1>1 DEF InstallOps, States
<1> QED
  BY <1>2, <1>3 DEF InstallInv, Writes

LEMMA InstallRemoves ==
  ASSUME WriterInv, NEW p \in Shells, RemoveGeneration(p), Removable(dir, Op(p)),
         Waits(shells[p], "release"), ~Waits(shells[p], "stage"), ~shells[p].failed
  PROVE  WriterInv' /\ EvidenceStep
<1> DEFINE o == shells[p]
           g == o.gen
           from == Backup(g)
           q == Cleanup(<<"backup", g>>)
<1>1. Running(p) /\ Op(p)[1] = "remove" /\ UNCHANGED <<History, Outside>>
  BY DEF RemoveGeneration, At
<1>2. /\ Pending(o) = {Op(p)} \cup Range(Rest(p)) /\ Op(p) \in Pending(o)
  BY <1>1, Turn
<1>3. InstallInv(o, dir, may, staged)
  BY HolderFacts
<1>4. Op(p) = RemoveBackup(g, o.old)
  <2>1. Op(p) \in InstallOps(g, o.old)
    BY <1>2, <1>3 DEF InstallInv
  <2> QED
    BY <1>1, <2>1, Tags DEF InstallOps
<1>5. g \in Numbers /\ o.old \in Numbers /\ g = staged /\ o.old < g /\ g \in Generations
  <2>1. g \in Numbers /\ o.old \in Numbers
    BY ShellFacts DEF Commands
  <2> QED
    BY <1>3, <2>1, BoundsAssumption DEF InstallInv, Numbers, Generations, BoundsAssumption
<1>6. CommittedInv(o, dir)
  BY <1>1, <1>3, <1>4, RankOf, AfterCommit
<1>7. /\ Waits(o, "unjournal") /\ Holds(dir, Active, g)
      /\ Has(dir, Journal) /\ dir[Journal].gen = g /\ dir[Journal].old = o.old
      /\ dir[Journal].state = "committed"
  BY <1>2, <1>4, <1>6 DEF CommittedInv, OwnJournal
<1>8. /\ Op(p) = Remove(from, q, o.old) /\ q[1] = "cleanup" /\ from[1] \in {"stage", "active", "backup"}
      /\ Purge(q) \in Ops /\ Rank(Op(p)) = Rank(Purge(q)) /\ Rank(Op(p)) \in Nat
  <2>1. Op(p) = Remove(from, q, o.old)
    BY <1>4 DEF RemoveBackup
  <2>2. "backup" \in Roles /\ q[1] = "cleanup" /\ from[1] = "backup"
    BY Names DEF Roles
  <2>3. Rank(Op(p)) = 16 /\ Rank(Purge(q)) = 16
    BY <1>4, RankOf
  <2>4. Purge(q) \in Ops
    BY <1>5, <2>2, OpsAre
  <2> QED
    BY <2>1, <2>2, <2>3, <2>4
<1>9. Journal # from /\ Active # from /\ Journal[1] # "cleanup" /\ Active[1] # "cleanup"
  BY Names
<1> HIDE DEF from, q
<1>10. /\ Remembers /\ (Has(dir, LockFile) => Has(dir', LockFile))
       /\ \A name : name[1] # "cleanup" /\ name # from => Agree(dir, dir', name)
       /\ \E t \in Seq(Ops) :
            /\ Ordered(t) /\ GoesOn(p, t)
            /\ Range(t) \subseteq {Do("sync"), Purge(q)} \cup Range(Rest(p))
            /\ Range(Rest(p)) \subseteq Range(t)
  BY <1>8, RemovalStep
<1>11. PICK t \in Seq(Ops) :
         /\ Ordered(t) /\ GoesOn(p, t)
         /\ Range(t) \subseteq {Do("sync"), Purge(q)} \cup Range(Rest(p))
         /\ Range(Rest(p)) \subseteq Range(t)
  BY <1>10
<1>12. Agree(dir, dir', Journal) /\ Agree(dir, dir', Active)
  BY <1>9, <1>10
<1>13. /\ Has(dir', Journal) /\ dir'[Journal] = dir[Journal] /\ Holds(dir', Active, g)
  BY <1>7, <1>12 DEF Agree, Holds
<1>14. StandingIn(dir') = StandingIn(dir)
  <2>1. StandingIn(dir) = g
    BY <1>5, <1>7, StandsCommitted
  <2>2. StandingIn(dir') = g
    BY <1>5, <1>7, <1>13, StandsCommitted
  <2> QED
    BY <2>1, <2>2
<1>15. DiskTyped(dir', staged)
  BY <1>12, Counters DEF DiskTyped, Agree
<1> DEFINE s == [shells[p] EXCEPT !.todo = t]
<1>16. /\ s \in Commands /\ Pending(s) = Range(t) /\ s.todo = t /\ s.gen = g /\ s.old = o.old
       /\ s.failed = o.failed /\ shells' = [shells EXCEPT ![p] = s]
  BY <1>11, Replaced DEF GoesOn
<1> HIDE DEF s
<1>17. /\ Waits(s, "unjournal") /\ Waits(s, "release") /\ ~Waits(s, "stage")
  <2>1. Op(p)[1] = "remove" /\ Do("unjournal") # Op(p) /\ Do("release") # Op(p)
        /\ Do("stage") \notin {Do("sync"), Purge(q)}
    BY <1>1, Tags
  <2> QED
    BY <1>2, <1>7, <1>11, <1>16, <2>1 DEF Waits
<1>18. CommittedInv(s, dir')
  <2>1. Pending(s) \subseteq
         {Settle("committed"), RemoveBackup(g, o.old), Purge(q), Do("sync"), Do("unjournal"),
          Do("release")}
    BY <1>2, <1>6, <1>11, <1>16 DEF CommittedInv, q
  <2> QED
    BY <1>7, <1>13, <1>16, <1>17, <2>1 DEF CommittedInv, OwnJournal, q
<1>19. InstallInv(s, dir', may', staged)
  BY <1>5, <1>16, <1>18, CommittedInstalls
<1>20. ShellInv(s, dir', may', staged)
  BY <1>10, <1>11, <1>16, <1>17, <1>19, StillInstalling
<1> QED
  BY <1>1, <1>10, <1>14, <1>15, <1>16, <1>20, HolderStep

LEMMA RemoveKeeps ==
  ASSUME WriterInv, NEW p \in Shells, RemoveGeneration(p)
  PROVE  WriterInv' /\ EvidenceStep
<1>1. Running(p) /\ Op(p)[1] = "remove" /\ UNCHANGED <<History, Outside>>
  BY DEF RemoveGeneration, At
<1>2. Waits(shells[p], "release")
  BY <1>1, InLock
<1>3. CASE ~Removable(dir, Op(p))
  <2>1. Throws(p) /\ UNCHANGED <<dir, may>>
    BY <1>3 DEF RemoveGeneration
  <2> QED
    BY <1>1, <2>1, QuietThrow
<1>4. CASE Removable(dir, Op(p))
  BY <1>2, <1>4, RecoveryRemoves, InstallRemoves
<1> QED
  BY <1>3, <1>4

LEMMA DiscardKeeps ==
  ASSUME WriterInv, NEW p \in Shells, DiscardStage(p)
  PROVE  WriterInv' /\ EvidenceStep
<1> DEFINE o == shells[p]
           purge == Purge(Stage(o.gen))
           t == <<purge>> \o Rest(p)
           s == [shells[p] EXCEPT !.todo = t]
<1>1. /\ Running(p) /\ Op(p)[1] = "discard" /\ UNCHANGED <<History, Outside>>
      /\ UNCHANGED <<dir, may>>
  BY DEF DiscardStage, At, Checked
<1>2. CASE Throws(p)
  BY <1>1, <1>2, QuietThrow
<1>3. CASE GoesOn(p, t)
  <2>1. /\ Op(p) = Do("discard") /\ Rest(p) \in Seq(Ops) /\ Ordered(Rest(p))
        /\ Pending(o) = {Do("discard")} \cup Range(Rest(p))
        /\ \A op \in Range(Rest(p)) : Before(Do("discard"), op)
    BY <1>1, Turn, OpKinds DEF Plain
  <2>2. Waits(o, "release")
    BY <1>1, InLock
  <2>3. /\ Waits(o, "stage") \/ o.failed
        /\ RecoveryInv(o, dir)
    <3>1. ~InstallInv(o, dir, may, staged)
      BY <1>1, <2>1, InstallKinds
    <3> QED
      BY <2>2, <3>1, HolderFacts
  <2>4. /\ ~Waits(o, "recover") /\ ~Waits(o, "unjournal") /\ ~Waits(o, "stage")
        /\ Pending(o) \subseteq {Do("sync"), Do("release"), Do("discard"), purge}
    <3>1. Do("discard") \in Pending(o)
      BY <2>1
    <3>2. \A g, old : Do("discard") \notin RecoveryOps(g, old)
      BY Tags, RecoveryOpKinds
    <3>3. Do("discard") \notin {Do("recover"), Do("stage"), Do("release"), Do("sync")}
      BY Tags
    <3> QED
      BY <2>3, <3>1, <3>2, <3>3 DEF RecoveryInv, RecoversInv
  <2>5. purge \in Ops /\ Rank(purge) = 4 /\ Rank(Do("discard")) = 4
    BY ShellFacts, OpsAre, RankOf DEF Commands
  <2> HIDE DEF purge
  <2>6. \A op \in Range(Rest(p)) : Before(purge, op)
    BY <2>1, <2>5 DEF Before
  <2>7. t \in Seq(Ops) /\ Ordered(t) /\ Range(t) = {purge} \cup Range(Rest(p))
    BY <2>1, <2>5, <2>6, ConsFacts
  <2>8. /\ s \in Commands /\ Pending(s) = Range(t) /\ s.todo = t /\ s.gen = o.gen
        /\ s.failed = o.failed /\ shells' = [shells EXCEPT ![p] = s]
    BY <1>3, <2>7, Replaced DEF GoesOn
  <2> HIDE DEF s, t
  <2>9. /\ ~Waits(s, "recover") /\ ~Waits(s, "unjournal") /\ ~Waits(s, "stage") /\ Waits(s, "release")
    <3>1. /\ purge[1] = "purge" /\ Do("release") # Do("discard")
          /\ purge \notin {Do("recover"), Do("unjournal"), Do("stage")}
      BY Tags DEF purge
    <3> QED
      BY <2>1, <2>2, <2>4, <2>7, <2>8, <3>1 DEF Waits
  <2>10. RecoveryInv(s, dir')
    BY <2>1, <2>4, <2>7, <2>8, <2>9 DEF RecoveryInv, purge
  <2>11. /\ Remembers /\ DiskTyped(dir', staged) /\ StandingIn(dir') = StandingIn(dir)
         /\ Has(dir, LockFile) => Has(dir', LockFile)
    BY <1>1, Unmoved, Counters
  <2>12. ShellInv(s, dir', may', staged)
    BY <2>2, <2>3, <2>4, <2>7, <2>8, <2>9, <2>10, <2>11, StillRecovering
  <2> QED
    BY <1>1, <2>2, <2>8, <2>11, <2>12, HolderStep
<1> QED
  BY <1>2, <1>3 DEF DiscardStage, Checked

\* The rest of a command, taken as it is.
LEMMA RestFacts ==
  ASSUME WriterInv, NEW p \in Shells, Running(p)
  PROVE  LET s == [shells[p] EXCEPT !.todo = Rest(p)]
         IN /\ s \in Commands /\ Pending(s) = Range(Rest(p)) /\ Ordered(s.todo)
            /\ s.gen = shells[p].gen /\ s.old = shells[p].old /\ s.failed = shells[p].failed
            /\ GoesOn(p, Rest(p)) => shells' = [shells EXCEPT ![p] = s]
            /\ Pending(shells[p]) = {Op(p)} \cup Pending(s)
            /\ \A op \in Pending(s) : Before(Op(p), op)
<1> DEFINE s == [shells[p] EXCEPT !.todo = Rest(p)]
<1>1. /\ Rest(p) \in Seq(Ops) /\ Ordered(Rest(p))
      /\ Pending(shells[p]) = {Op(p)} \cup Range(Rest(p))
      /\ \A op \in Range(Rest(p)) : Before(Op(p), op)
  BY Turn
<1>2. /\ s \in Commands /\ Pending(s) = Range(Rest(p)) /\ s.todo = Rest(p)
      /\ s.gen = shells[p].gen /\ s.old = shells[p].old /\ s.failed = shells[p].failed
      /\ [shells EXCEPT ![p].todo = Rest(p)] = [shells EXCEPT ![p] = s]
  BY <1>1, Replaced
<1> HIDE DEF s
<1>3. /\ s \in Commands /\ Pending(s) = Range(Rest(p)) /\ Ordered(s.todo)
      /\ s.gen = shells[p].gen /\ s.old = shells[p].old /\ s.failed = shells[p].failed
      /\ GoesOn(p, Rest(p)) => shells' = [shells EXCEPT ![p] = s]
      /\ Pending(shells[p]) = {Op(p)} \cup Pending(s)
      /\ \A op \in Pending(s) : Before(Op(p), op)
  BY <1>1, <1>2 DEF GoesOn
<1> QED
  BY <1>3 DEF s

\* What is left of a recovery once its journal is removed.
LEMMA AfterRecovery ==
  ASSUME NEW g, NEW old, NEW op \in RecoveryOps(g, old), Rank(op) = 0 \/ Rank(op) > 17
  PROVE  op \in {Do("sync"), Do("stage"), Do("release")}
<1>1. \A role \in Roles : Rank(Purge(Cleanup(<<role, g>>))) \in {13, 15, 16}
  BY RankOf DEF Roles
<1>2. CASE \E role \in Roles : op = Purge(Cleanup(<<role, g>>))
  BY <1>1, <1>2
<1>3. CASE op \in {RemoveStage(g), RemoveActive(g), RemoveBackup(g, old), Do("unjournal"),
                   Move(Backup(g), Active, old)}
  BY <1>3, RankOf
<1> QED
  BY <1>2, <1>3 DEF RecoveryOps

LEMMA UnjournalKeeps ==
  ASSUME WriterInv, NEW p \in Shells, Unjournal(p)
  PROVE  WriterInv' /\ EvidenceStep
<1> DEFINE o == shells[p]
           s == [shells[p] EXCEPT !.todo = Rest(p)]
           j == dir[Journal]
<1>1. /\ Running(p) /\ Op(p)[1] = "unjournal" /\ UNCHANGED <<History, Outside>>
      /\ dir' = Without(dir, Journal) /\ may' = may \cup {dir'} /\ GoesOn(p, Rest(p))
  BY DEF Unjournal, At, Becomes
<1>2. Waits(o, "release")
  BY <1>1, InLock
<1>3. Op(p) = Do("unjournal") /\ Op(p) \in Pending(o) /\ Rank(Op(p)) = 17
  BY <1>1, Turn, OpKinds, RankOf DEF Plain
<1>4. /\ s \in Commands /\ Ordered(s.todo)
      /\ s.gen = o.gen /\ s.old = o.old /\ s.failed = o.failed
      /\ shells' = [shells EXCEPT ![p] = s]
      /\ Pending(o) = {Op(p)} \cup Pending(s)
      /\ \A op \in Pending(s) : Before(Op(p), op)
  BY <1>1, RestFacts
<1> HIDE DEF s
<1>5. \A op \in Pending(s) : Rank(op) # 0 => 17 < Rank(op)
  BY <1>3, <1>4 DEF Before
<1>6. /\ ~Waits(s, "unjournal") /\ (Waits(s, "release") <=> Waits(o, "release"))
      /\ Waits(s, "stage") <=> Waits(o, "stage")
  <2>1. Do("release") # Op(p) /\ Do("stage") # Op(p)
    BY <1>3 DEF Do
  <2>2. Do("unjournal") \notin Pending(s)
    BY <1>3, <1>5
  <2> QED
    BY <1>4, <2>1, <2>2 DEF Waits
<1>7. /\ ~Has(dir', Journal) /\ (Has(dir, LockFile) => Has(dir', LockFile))
      /\ Agree(dir, dir', Active)
      /\ Remembers
  <2>1. Journal # LockFile /\ Journal # Active
    BY Names
  <2> QED
    BY <1>1, <2>1, WithoutFacts, AgreeElsewhere DEF Remembers
<1>8. DiskTyped(dir', staged) /\ DiskTyped(dir, staged) /\ staged \in Nat
  BY <1>7, Counters DEF DiskTyped, Agree
<1>9. /\ \A g : Holds(dir, Active, g) => Holds(dir', Active, g)
      /\ \A old : InPlace(dir, old) => InPlace(dir', old)
  BY <1>7 DEF Agree, Holds, InPlace
<1>10. ASSUME Has(dir, Journal),
              IF j.state = "committed" THEN Holds(dir, Active, j.gen) ELSE InPlace(dir, j.old)
       PROVE  StandingIn(dir') = StandingIn(dir)
  <2>1. j.gen \in Generations /\ j.gen \in Numbers /\ j.old \in Numbers
    BY <1>8, <1>10, Counters, BoundsAssumption DEF DiskTyped, Numbers, Generations, BoundsAssumption
  <2>2. CASE j.state = "committed"
    <3>1. StandingIn(dir) = j.gen
      BY <1>10, <2>1, <2>2, StandsCommitted
    <3>2. InPlace(dir', j.gen)
      BY <1>9, <1>10, <2>1, <2>2 DEF InPlace, Generations, None
    <3>3. StandingIn(dir') = j.gen
      BY <1>7, <2>1, <3>2, StandsUnjournaled
    <3> QED
      BY <3>1, <3>3
  <2>3. CASE j.state # "committed"
    <3>1. StandingIn(dir) = j.old
      <4>1. j.old = None \/ Holds(dir, Active, j.old)
        BY <1>10, <2>3 DEF InPlace
      <4> QED
        BY <1>10, <2>1, <2>3, <4>1, StandsUncommitted
    <3>2. StandingIn(dir') = j.old
      BY <1>7, <1>9, <1>10, <2>1, <2>3, StandsUnjournaled
    <3> QED
      BY <3>1, <3>2
  <2> QED
    BY <2>2, <2>3
<1>11. CASE Waits(o, "stage") \/ o.failed
  <2>1. RecoveryInv(o, dir)
    BY <1>2, <1>11, HolderFacts
  <2>2. RecoversInv(o, dir) /\ ~Waits(o, "recover")
    <3>1. Do("unjournal") \notin {Do("recover"), Do("stage"), Do("release")}
      BY DEF Do
    <3> QED
      BY <1>3, <2>1, <3>1 DEF RecoveryInv, Waits
  <2>3. /\ RemoveActive(j.gen) \notin Pending(o) /\ Move(Backup(j.gen), Active, j.old) \notin Pending(o)
    <3>1. /\ Rank(RemoveActive(j.gen)) = 13 /\ Rank(Move(Backup(j.gen), Active, j.old)) = 14
      BY RankOf
    <3> QED
      BY <1>3, <1>4, <1>5, <3>1
  <2>4. /\ Has(dir, Journal)
        /\ IF j.state = "committed" THEN Holds(dir, Active, j.gen) ELSE InPlace(dir, j.old)
    BY <2>2, <2>3 DEF RecoversInv
  <2>5. StandingIn(dir') = StandingIn(dir)
    BY <1>10, <2>4
  <2>6. Pending(s) \subseteq {Do("sync"), Do("stage"), Do("release")}
    <3>1. Pending(s) \subseteq RecoveryOps(j.gen, j.old)
      BY <1>4, <2>2 DEF RecoversInv
    <3>2. \A op \in Pending(s) : Rank(op) = 0 \/ Rank(op) > 17
      BY <1>5, <3>1, RankOf DEF RecoveryOps, Roles
    <3> QED
      BY <3>1, <3>2, AfterRecovery
  <2>7. ~Waits(s, "recover")
    BY <1>4, <2>2 DEF Waits
  <2>8. ~Waits(s, "stage") => Pending(s) \subseteq {Do("sync"), Do("release")}
    BY <2>6 DEF Waits
  <2>9. RecoveryInv(s, dir')
    BY <1>6, <1>7, <2>6, <2>7, <2>8 DEF RecoveryInv
  <2>10. ShellInv(s, dir', may', staged)
    BY <1>2, <1>4, <1>6, <1>7, <1>11, <2>9, StillRecovering
  <2> QED
    BY <1>1, <1>2, <1>4, <1>7, <1>8, <2>5, <2>10, HolderStep
<1>12. CASE ~Waits(o, "stage") /\ ~o.failed
  <2>1. InstallInv(o, dir, may, staged)
    BY <1>2, <1>12, HolderFacts
  <2>2. CommittedInv(o, dir)
    BY <1>1, <1>3, <2>1, AfterCommit
  <2>3. /\ OwnJournal(dir, o.gen, o.old) /\ j.state = "committed" /\ Holds(dir, Active, o.gen)
    BY <1>3, <2>2 DEF CommittedInv, Waits
  <2>4. StandingIn(dir') = StandingIn(dir)
    BY <1>10, <2>3 DEF OwnJournal
  <2>5. CommittedInv(s, dir')
    <3>1. RemoveBackup(s.gen, s.old) \notin Pending(s)
      BY <1>5, RankOf
    <3> QED
      BY <1>4, <1>6, <1>7, <1>9, <2>2, <2>3, <3>1 DEF CommittedInv
  <2>6. InstallInv(s, dir', may', staged)
    BY <1>4, <2>1, <2>5, CommittedInstalls DEF InstallInv
  <2>7. ShellInv(s, dir', may', staged)
    BY <1>2, <1>4, <1>6, <1>7, <1>12, <2>6, StillInstalling
  <2> QED
    BY <1>1, <1>2, <1>4, <1>7, <1>8, <2>4, <2>7, HolderStep
<1> QED
  BY <1>11, <1>12

\* The lock is given up by a command whose generation stands, or that failed.
LEMMA ReleaseKeeps ==
  ASSUME WriterInv, NEW p \in Shells, Release(p)
  PROVE  WriterInv' /\ EvidenceStep
<1> DEFINE o == shells[p]
           t == <<Do("sync"), Do("report")>>
           s == [shells[p] EXCEPT !.todo = t]
<1>1. /\ Running(p) /\ Op(p)[1] = "release" /\ UNCHANGED <<History, Outside>>
      /\ dir' = Without(dir, LockFile) /\ may' = may \cup {dir'} /\ GoesOn(p, t)
  BY DEF Release, At, Becomes
<1>2. Waits(o, "release")
  BY <1>1, InLock
<1>3. /\ Op(p) = Do("release") /\ Rank(Op(p)) = 19
      /\ Pending(o) = {Op(p)} \cup Range(Rest(p))
      /\ \A op \in Range(Rest(p)) : Before(Op(p), op)
  BY <1>1, Turn, OpKinds, RankOf DEF Plain
<1>4. /\ s \in Commands /\ Pending(s) = {Do("sync"), Do("report")} /\ s.todo = t
      /\ s.gen = o.gen /\ s.failed = o.failed /\ shells' = [shells EXCEPT ![p] = s]
      /\ o.gen \in Numbers
  BY <1>1, ReportLast, Replaced DEF GoesOn
<1>5. \A op \in Pending(o) : op = Do("release") \/ Rank(op) = 0 \/ 19 < Rank(op)
  BY <1>3 DEF Before
<1>6. ~Waits(o, "stage") /\ ~Waits(o, "unjournal")
  <2>1. Do("stage") # Do("release") /\ Do("unjournal") # Do("release")
    BY DEF Do
  <2> QED
    BY <1>5, <2>1, RankOf DEF Waits
<1>7. Same(dir, dir') /\ Remembers
  BY <1>1, Names, ElsewhereIsSame DEF Remembers
<1>8. DiskTyped(dir', staged) /\ StandingIn(dir') = StandingIn(dir)
  BY <1>7, SameFacts, Counters
<1>9. ~o.failed => o.gen # None /\ o.gen <= StandingIn(dir')
  <2> SUFFICES ASSUME ~o.failed PROVE o.gen # None /\ o.gen <= StandingIn(dir')
    OBVIOUS
  <2>1. InstallInv(o, dir, may, staged)
    BY <1>2, <1>6, HolderFacts
  <2>2. CommittedInv(o, dir)
    BY <1>1, <1>3, <2>1, AfterCommit
  <2>3. ~Has(dir, Journal) /\ Holds(dir, Active, o.gen)
    BY <1>6, <2>2 DEF CommittedInv
  <2>4. o.gen # None /\ o.gen \in Nat
    <3>1. o.old \in Numbers
      BY ShellFacts DEF Commands
    <3> QED
      BY <1>4, <2>1, <3>1, BoundsAssumption DEF InstallInv, Numbers, None, BoundsAssumption
  <2>5. InPlace(dir, o.gen)
    BY <2>3, <2>4 DEF InPlace
  <2>6. StandingIn(dir) = o.gen
    BY <1>4, <2>3, <2>5, StandsUnjournaled
  <2> QED
    BY <1>8, <2>4, <2>6
<1> HIDE DEF s
<1>10. ShellInv(s, dir', may', staged)
  <2>1. /\ ~Waits(s, "release") /\ ~Waits(s, "lock") /\ ~Waits(s, "stage") /\ Waits(s, "sync")
    BY <1>4 DEF Waits, Do
  <2> QED
    BY <1>4, <1>9, <2>1, ReportLast DEF ShellInv, OutsiderInv
<1> QED
  BY <1>1, <1>2, <1>4, <1>7, <1>8, <1>10, HolderStep

----------------------------------------------------------------------------
(* In the lock: the installation.                                          *)

Advance(g) ==
  <<WriteJournal("backed_up"), Move(Stage(g), Active, g), Do("sync"),
    WriteJournal("activated"), Do("validate"), WriteJournal("committed")>>

LEMMA AdvanceFacts ==
  ASSUME NEW g \in Numbers
  PROVE  /\ Advance(g) \in Seq(Ops) /\ Ordered(Advance(g))
         /\ Range(Advance(g)) = {WriteJournal("backed_up"), Move(Stage(g), Active, g), Do("sync"),
                                 WriteJournal("activated"), Do("validate"),
                                 WriteJournal("committed")}
<1> DEFINE c == Advance(g)
<1>1. /\ WriteJournal("backed_up") \in Ops /\ Move(Stage(g), Active, g) \in Ops
      /\ Do("sync") \in Ops /\ WriteJournal("activated") \in Ops /\ Do("validate") \in Ops
      /\ WriteJournal("committed") \in Ops
  BY OpsAre DEF Plain, States
<1>2. /\ c \in Seq(Ops) /\ DOMAIN c = 1 .. 6 /\ 1 .. 6 = {1, 2, 3, 4, 5, 6}
      /\ c[1] = WriteJournal("backed_up") /\ c[2] = Move(Stage(g), Active, g)
      /\ c[3] = Do("sync") /\ c[4] = WriteJournal("activated") /\ c[5] = Do("validate")
      /\ c[6] = WriteJournal("committed")
  BY <1>1 DEF Advance
<1> HIDE DEF c
<1>3. /\ Rank(c[1]) = 8 /\ Rank(c[2]) = 9 /\ Rank(c[3]) = 0
      /\ Rank(c[4]) = 10 /\ Rank(c[5]) = 11 /\ Rank(c[6]) = 12
  BY <1>2, RankOf
<1>4. Ordered(c)
  BY <1>2, <1>3 DEF Ordered, Before
<1>5. Range(c) = {c[1], c[2], c[3], c[4], c[5], c[6]}
  BY <1>2 DEF Range
<1> QED
  BY <1>2, <1>4, <1>5 DEF c

LEMMA InstallationFacts ==
  ASSUME NEW g \in Numbers, NEW old \in Numbers
  PROVE  /\ Installation(g, old) \in Seq(Ops) /\ Ordered(Installation(g, old))
         /\ Range(Installation(g, old)) \subseteq
              {Do("sync"), Do("admit"), Do("validate"), Do("unjournal"),
               Move(Active, Backup(g), old), Move(Stage(g), Active, g), RemoveBackup(g, old)}
              \cup {WriteJournal(state) : state \in States}
         /\ {WriteJournal("prepared"), WriteJournal("committed"), Do("unjournal"), Do("validate")}
              \subseteq Range(Installation(g, old))
         /\ \A op \in Range(Installation(g, old)) : Rank(op) = 0 \/ Rank(op) \in 5 .. 17
         /\ Move(Stage(g), Active, g) \in Range(Installation(g, old))
         /\ old # None => {Move(Active, Backup(g), old), RemoveBackup(g, old)}
                            \subseteq Range(Installation(g, old))
         /\ Move(Active, Backup(g), old) \in Range(Installation(g, old)) => old # None
<1> DEFINE a == <<WriteJournal("prepared"), Do("admit")>>
           b == IF old = None THEN <<>> ELSE <<Move(Active, Backup(g), old), Do("sync")>>
           c == Advance(g)
           d == IF old = None THEN <<>> ELSE <<Remove(Backup(g), Cleanup(<<"backup", g>>), old)>>
           e == <<Do("sync"), Do("unjournal"), Do("sync")>>
<1>1. /\ WriteJournal("prepared") \in Ops /\ Do("admit") \in Ops /\ Do("sync") \in Ops
      /\ Do("unjournal") \in Ops /\ Move(Active, Backup(g), old) \in Ops
      /\ RemoveBackup(g, old) \in Ops
  BY OpsAre DEF Plain, States
<1>2. /\ Rank(WriteJournal("prepared")) = 5 /\ Rank(Do("admit")) = 6 /\ Rank(Do("sync")) = 0
      /\ Rank(Do("unjournal")) = 17 /\ Rank(Move(Active, Backup(g), old)) = 7
      /\ Rank(RemoveBackup(g, old)) = 16
  BY RankOf
<1>3. a \in Seq(Ops) /\ Ordered(a) /\ Range(a) = {WriteJournal("prepared"), Do("admit")}
  <2>1. Before(WriteJournal("prepared"), Do("admit"))
    BY <1>2 DEF Before
  <2> QED
    BY <1>1, <2>1, PairFacts
<1>4. /\ b \in Seq(Ops) /\ Ordered(b)
      /\ Range(b) = IF old = None THEN {} ELSE {Move(Active, Backup(g), old), Do("sync")}
  <2>1. Before(Move(Active, Backup(g), old), Do("sync"))
    BY <1>2 DEF Before
  <2> QED
    BY <1>1, <2>1, PairFacts, EmptyFacts
<1>5. /\ c \in Seq(Ops) /\ Ordered(c)
      /\ Range(c) = {WriteJournal("backed_up"), Move(Stage(g), Active, g), Do("sync"),
                     WriteJournal("activated"), Do("validate"), WriteJournal("committed")}
  BY AdvanceFacts
<1>6. /\ d \in Seq(Ops) /\ Ordered(d)
      /\ Range(d) = IF old = None THEN {} ELSE {RemoveBackup(g, old)}
  BY <1>1, OneFacts, EmptyFacts DEF RemoveBackup
<1>7. e \in Seq(Ops) /\ Ordered(e) /\ Range(e) = {Do("sync"), Do("unjournal")}
  <2>1. /\ Before(Do("sync"), Do("unjournal")) /\ Before(Do("sync"), Do("sync"))
        /\ Before(Do("unjournal"), Do("sync"))
    BY <1>2 DEF Before
  <2>2. /\ e \in Seq(Ops) /\ Ordered(e) /\ Range(e) = {Do("sync"), Do("unjournal"), Do("sync")}
    BY <1>1, <2>1, TripleFacts
  <2> QED
    BY <2>2
<1> HIDE DEF a, b, c, d, e
<1>8. /\ \A op \in Range(a) : Rank(op) \in {5, 6}
      /\ \A op \in Range(b) : Rank(op) \in {0, 7}
      /\ \A op \in Range(c) : Rank(op) \in {0, 8, 9, 10, 11, 12}
      /\ \A op \in Range(d) : Rank(op) = 16
      /\ \A op \in Range(e) : Rank(op) \in {0, 17}
  <2>1. \A op \in Range(a) : Rank(op) \in {5, 6}
    BY <1>2, <1>3
  <2>2. \A op \in Range(b) : Rank(op) \in {0, 7}
    BY <1>2, <1>4
  <2>3. \A op \in Range(c) : Rank(op) \in {0, 8, 9, 10, 11, 12}
    BY <1>2, <1>5, RankOf
  <2>4. \A op \in Range(d) : Rank(op) = 16
    BY <1>2, <1>6
  <2>5. \A op \in Range(e) : Rank(op) \in {0, 17}
    BY <1>2, <1>7
  <2> QED
    BY <2>1, <2>2, <2>3, <2>4, <2>5
<1>9. a \o b \in Seq(Ops) /\ Ordered(a \o b) /\ Range(a \o b) = Range(a) \cup Range(b)
  <2>1. \A x \in Range(a), y \in Range(b) : Before(x, y)
    BY <1>8 DEF Before
  <2> QED
    BY <1>3, <1>4, <2>1, ConcatFacts
<1>10. /\ (a \o b) \o c \in Seq(Ops) /\ Ordered((a \o b) \o c)
       /\ Range((a \o b) \o c) = (Range(a) \cup Range(b)) \cup Range(c)
  <2>1. \A x \in Range(a \o b), y \in Range(c) : Before(x, y)
    BY <1>8, <1>9 DEF Before
  <2> QED
    BY <1>5, <1>9, <2>1, ConcatFacts
<1>11. /\ ((a \o b) \o c) \o d \in Seq(Ops) /\ Ordered(((a \o b) \o c) \o d)
       /\ Range(((a \o b) \o c) \o d) = ((Range(a) \cup Range(b)) \cup Range(c)) \cup Range(d)
  <2>1. \A x \in Range((a \o b) \o c), y \in Range(d) : Before(x, y)
    BY <1>8, <1>10 DEF Before
  <2> QED
    BY <1>6, <1>10, <2>1, ConcatFacts
<1>12. /\ (((a \o b) \o c) \o d) \o e \in Seq(Ops) /\ Ordered((((a \o b) \o c) \o d) \o e)
       /\ Range((((a \o b) \o c) \o d) \o e)
            = (((Range(a) \cup Range(b)) \cup Range(c)) \cup Range(d)) \cup Range(e)
  <2>1. \A x \in Range(((a \o b) \o c) \o d) : Rank(x) \in {0} \cup 5 .. 16
    BY <1>8, <1>11
  <2>2. \A x \in Range(((a \o b) \o c) \o d), y \in Range(e) : Before(x, y)
    BY <1>8, <2>1 DEF Before
  <2> QED
    BY <1>7, <1>11, <2>2, ConcatFacts
<1>13. Installation(g, old) = (((a \o b) \o c) \o d) \o e
  BY DEF Installation, Advance, a, b, c, d, e
<1>14. \A op \in Range(Installation(g, old)) : Rank(op) = 0 \/ Rank(op) \in 5 .. 17
  BY <1>8, <1>12, <1>13
<1>15. Range(Installation(g, old)) \subseteq
         {Do("sync"), Do("admit"), Do("validate"), Do("unjournal"),
          Move(Active, Backup(g), old), Move(Stage(g), Active, g), RemoveBackup(g, old)}
         \cup {WriteJournal(state) : state \in States}
  <2>1. \A state \in States : WriteJournal(state) \in {WriteJournal(st) : st \in States}
    OBVIOUS
  <2>2. {"prepared", "backed_up", "activated", "committed"} = States
    BY DEF States
  <2> QED
    BY <1>3, <1>4, <1>5, <1>6, <1>7, <1>12, <1>13, <2>1, <2>2
<1>16. {WriteJournal("prepared"), WriteJournal("committed"), Do("unjournal"), Do("validate")}
         \subseteq Range(Installation(g, old))
  BY <1>3, <1>5, <1>7, <1>12, <1>13
<1>17. /\ Move(Stage(g), Active, g) \in Range(Installation(g, old))
       /\ old # None => {Move(Active, Backup(g), old), RemoveBackup(g, old)}
                          \subseteq Range(Installation(g, old))
  BY <1>4, <1>5, <1>6, <1>12, <1>13
<1>18. Move(Active, Backup(g), old) \in Range(Installation(g, old)) => old # None
  <2>1. Move(Active, Backup(g), old) \notin Range(a) \cup Range(c) \cup Range(d) \cup Range(e)
    BY <1>2, <1>8
  <2>2. Move(Active, Backup(g), old) \in Range(b) => old # None
    BY <1>4
  <2> QED
    BY <1>12, <1>13, <2>1, <2>2
<1> QED
  BY <1>12, <1>13, <1>14, <1>15, <1>16, <1>17, <1>18

\* The new generation is made beside the one in place, under the next number.
LEMMA StageKeeps ==
  ASSUME WriterInv, NEW p \in Shells, StageGeneration(p)
  PROVE  WriterInv' /\ EvidenceStep
<1> DEFINE o == shells[p]
           old == IF Has(dir, Active) THEN dir[Active].gen ELSE None
           g == staged + 1
           t == <<Do("fill")>> \o Installation(g, old) \o Rest(p)
           s == [shells[p] EXCEPT !.todo = t, !.gen = g, !.old = old, !.phase = "staged"]
           Stops == staged = LastGeneration \/ (old # None /\ ~dir[Active].whole)
<1>1. Running(p) /\ Op(p)[1] = "stage" /\ UNCHANGED <<journaled, reported, Outside>>
  BY DEF StageGeneration, At
<1>2. CASE Stops
  <2>1. Throws(p) /\ UNCHANGED <<dir, may, staged>>
    BY <1>2 DEF StageGeneration
  <2> QED
    BY <1>1, <2>1, QuietThrow DEF History
<1>3. CASE ~Stops
  <2>1. /\ dir' = With(dir, Stage(g), Spoiled(g)) /\ may' = may \cup {dir'} /\ staged' = g
        /\ shells' = [shells EXCEPT
             ![p].todo = t, ![p].gen = g, ![p].old = old, ![p].phase = "staged"]
    BY <1>3 DEF StageGeneration, Becomes
  <2>2. Waits(o, "release")
    BY <1>1, InLock
  <2>3. /\ Op(p) = Do("stage") /\ Rank(Op(p)) = 18 /\ Op(p) \in Pending(o)
        /\ Rest(p) \in Seq(Ops) /\ Ordered(Rest(p))
        /\ Pending(o) = {Op(p)} \cup Range(Rest(p))
        /\ \A op \in Range(Rest(p)) : Before(Op(p), op)
    BY <1>1, Turn, OpKinds, RankOf DEF Plain
  <2>4. /\ staged \in Nat /\ g \in Nat /\ g \in Numbers /\ staged \in Numbers /\ staged < g
        /\ g \in Generations /\ DiskTyped(dir, staged)
    <3>1. staged \in 0 .. LastGeneration /\ staged # LastGeneration
      BY <1>3, Counters DEF Numbers
    <3> QED
      BY <3>1, Counters, BoundsAssumption DEF Numbers, Generations, BoundsAssumption
  <2>5. old \in 0 .. staged /\ InPlace(dir, old)
    <3>1. CASE Has(dir, Active)
      <4>1. PICK h \in 1 .. staged : dir[Active] = Whole(h)
        BY <2>4, <3>1 DEF DiskTyped
      <4> QED
        BY <2>4, <3>1, <4>1 DEF Whole, InPlace, Holds, None
    <3>2. CASE ~Has(dir, Active)
      BY <2>4, <3>2 DEF InPlace, None
    <3> QED
      BY <3>1, <3>2
  <2>6. old \in Numbers /\ old < g
    BY <2>4, <2>5, BoundsAssumption DEF Numbers, BoundsAssumption
  <2> HIDE DEF old, g
  <2>7. /\ ~o.failed /\ ~Has(dir, Journal)
        /\ Range(Rest(p)) \subseteq {Do("sync"), Do("release")}
        /\ Do("release") \in Range(Rest(p))
    <3>1. RecoveryInv(o, dir) /\ ~o.failed
      <4>1. Waits(o, "stage") => ~o.failed
        BY ShellFacts DEF ShellInv
      <4> QED
        BY <2>2, <2>3, <4>1, HolderFacts DEF Waits
    <3>2. \A op \in Pending(o) : op = Do("stage") \/ Rank(op) = 0 \/ 18 < Rank(op)
      BY <2>3 DEF Before
    <3>3. ~Waits(o, "recover") /\ ~Waits(o, "unjournal")
      <4>1. Do("recover") # Do("stage") /\ Do("unjournal") # Do("stage")
        BY DEF Do
      <4> QED
        BY <3>2, <4>1, RankOf DEF Waits
    <3>4. Pending(o) \subseteq {Do("sync"), Do("stage"), Do("release")} /\ ~Has(dir, Journal)
      BY <2>3, <3>1, <3>3 DEF RecoveryInv, Waits
    <3>5. Do("stage") \notin Range(Rest(p))
      BY <2>3 DEF Before
    <3>6. Do("release") # Do("stage")
      BY DEF Do
    <3> QED
      BY <2>2, <2>3, <3>1, <3>4, <3>5, <3>6 DEF Waits
  <2>8. /\ t \in Seq(Ops) /\ Ordered(t)
        /\ Range(t) = ({Do("fill")} \cup Range(Installation(g, old))) \cup Range(Rest(p))
    <3>1. Do("fill") \in Ops /\ Rank(Do("fill")) = 4
      BY OpsAre, RankOf DEF Plain
    <3>2. \A op \in Range(Installation(g, old)) : Rank(op) = 0 \/ Rank(op) \in 5 .. 17
      BY <2>4, <2>6, InstallationFacts
    <3>3. \A op \in Range(Installation(g, old)) : Before(Do("fill"), op)
      BY <3>1, <3>2 DEF Before
    <3>4. /\ <<Do("fill")>> \o Installation(g, old) \in Seq(Ops)
          /\ Ordered(<<Do("fill")>> \o Installation(g, old))
          /\ Range(<<Do("fill")>> \o Installation(g, old)) = {Do("fill")} \cup Range(Installation(g, old))
      BY <2>4, <2>6, <3>1, <3>3, InstallationFacts, ConsFacts
    <3>5. \A b \in Range(Rest(p)) : Rank(b) \in {0, 19}
      BY <2>7, RankOf
    <3>6. \A a \in {Do("fill")} \cup Range(Installation(g, old)) : Rank(a) = 0 \/ Rank(a) \in 0 .. 17
      BY <3>1, <2>4, <2>6, InstallationFacts
    <3>7. \A a \in Range(<<Do("fill")>> \o Installation(g, old)), b \in Range(Rest(p)) : Before(a, b)
      BY <3>4, <3>5, <3>6 DEF Before
    <3> QED
      BY <2>3, <3>4, <3>7, ConcatFacts
  <2>9. /\ s \in Commands /\ Pending(s) = Range(t) /\ s.todo = t /\ s.gen = g /\ s.old = old
        /\ s.failed = o.failed /\ shells' = [shells EXCEPT ![p] = s]
    <3>1. shells \in [Shells -> Commands]
      BY DEF WriterInv, Typed
    <3> QED
      BY <2>1, <2>4, <2>6, <2>8, <3>1 DEF Commands, Phases, Pending
  <2> HIDE DEF s, t
  <2>10. Same(dir, dir') /\ Remembers /\ (Has(dir, LockFile) => Has(dir', LockFile))
    <3>1. Stage(g)[1] \notin {"journal", "active", "backup"}
      BY Names
    <3> QED
      BY <2>1, <3>1, ElsewhereIsSame, WithFacts DEF Remembers
  <2>11. /\ StandingIn(dir') = StandingIn(dir) /\ DiskTyped(dir', staged)
         /\ ~Has(dir', Journal) /\ InPlace(dir', old)
    BY <2>4, <2>5, <2>7, <2>10, SameFacts
  <2>12. Pending(s) \subseteq InstallOps(g, old) /\ ~Waits(s, "stage")
         /\ \A state : Publish(state) \notin Pending(s)
    <3>1. Pending(s) \subseteq
            {Do("fill"), Do("sync"), Do("admit"), Do("validate"), Do("unjournal"), Do("release"),
             Move(Active, Backup(g), old), Move(Stage(g), Active, g), RemoveBackup(g, old)}
            \cup {WriteJournal(state) : state \in States}
      BY <2>4, <2>6, <2>7, <2>8, <2>9, InstallationFacts
    <3>2. \A op \in Pending(s) : op[1] # "publish" /\ op[1] # "stage"
      BY <3>1, Tags
    <3>3. \A state : Publish(state) \notin Pending(s)
      BY <3>2, Tags
    <3>4. ~Waits(s, "stage")
      BY <3>2, Tags DEF Waits
    <3> QED
      BY <3>1, <3>3, <3>4 DEF InstallOps
  <2>13. /\ Writes(s, "prepared") /\ Writes(s, "committed") /\ Waits(s, "unjournal")
         /\ Waits(s, "validate") /\ Waits(s, "release")
    BY <2>4, <2>6, <2>7, <2>8, <2>9, InstallationFacts DEF Writes, Waits
  <2>14. \A e \in may' : StandingIn(e) < g
    <3>1. \A e \in may : StandingIn(e) \in 0 .. staged
      BY Counters
    <3>2. StandingIn(dir') \in 0 .. staged
      BY <2>11, Counters
    <3> QED
      BY <2>1, <2>4, <3>1, <3>2
  <2>15. UncommittedInv(s, dir', may')
    BY <2>9, <2>11, <2>13, <2>14 DEF UncommittedInv
  <2>16. InstallInv(s, dir', may', staged')
    BY <2>1, <2>6, <2>9, <2>12, <2>13, <2>15 DEF InstallInv
  <2>17. ShellInv(s, dir', may', staged')
    <3>1. Has(dir, LockFile)
      BY <2>2, HolderFacts
    <3> QED
      BY <2>7, <2>8, <2>9, <2>10, <2>12, <2>13, <2>16, <3>1 DEF ShellInv
  <2>18. Recorded /\ reported' = reported
    BY <1>1 DEF Recorded, Outside, WriterInv, Typed
  <2>19. EvidenceStep
    BY <2>10, <2>11, <2>18, QuietStep, Counters
  <2>20. /\ staged' \in Numbers /\ staged <= staged' /\ DiskTyped(dir', staged')
         /\ StandingIn(dir) <= StandingIn(dir')
    BY <2>1, <2>4, <2>11, Widened, Counters
  <2>21. WriterInv'
    BY <2>2, <2>9, <2>10, <2>17, <2>18, <2>20, HolderKeeps
  <2> QED
    BY <2>19, <2>21
<1> QED
  BY <1>2, <1>3

\* A journal is written by an installation, under its own generation.
LEMMA Installs ==
  ASSUME WriterInv, NEW p \in Shells, Running(p), Op(p)[1] \in {"journal", "publish"}
  PROVE  /\ Waits(shells[p], "release") /\ ~Waits(shells[p], "stage") /\ ~shells[p].failed
         /\ InstallInv(shells[p], dir, may, staged)
         /\ UncommittedInv(shells[p], dir, may) /\ Writes(shells[p], "committed")
         /\ shells[p].gen \in 1 .. staged /\ shells[p].old \in 0 .. staged
         /\ shells[p].gen # shells[p].old /\ shells[p].gen \in Generations
<1>1. Waits(shells[p], "release") /\ Op(p) \in Pending(shells[p])
  BY InLock, Turn
<1>2. ~RecoveryInv(shells[p], dir)
  BY <1>1, RecoveryKinds
<1>3. ~Waits(shells[p], "stage") /\ ~shells[p].failed /\ InstallInv(shells[p], dir, may, staged)
  BY <1>1, <1>2, HolderFacts
<1>4. ~CommittedInv(shells[p], dir)
  <2>1. Op(p) \notin {Settle("committed"), RemoveBackup(shells[p].gen, shells[p].old),
                      Purge(Cleanup(<<"backup", shells[p].gen>>)), Do("sync"), Do("unjournal"),
                      Do("release")}
    BY Tags
  <2> QED
    BY <1>1, <2>1 DEF CommittedInv
<1>5. UncommittedInv(shells[p], dir, may) /\ Writes(shells[p], "committed")
  BY <1>3, <1>4 DEF InstallInv
<1>6. shells[p].gen \in Numbers /\ shells[p].old \in Numbers
  BY ShellFacts DEF Commands
<1>7. /\ shells[p].gen \in 1 .. staged /\ shells[p].old \in 0 .. staged
      /\ shells[p].gen # shells[p].old /\ shells[p].gen \in Generations
  BY <1>3, <1>6, BoundsAssumption DEF InstallInv, Numbers, Generations, BoundsAssumption
<1> QED
  BY <1>1, <1>3, <1>5, <1>7

LEMMA PendingOps ==
  ASSUME NEW s \in Commands, NEW op \in Pending(s)
  PROVE  op \in Ops
BY DEF Commands, Pending, Range

LEMMA BeginKeeps ==
  ASSUME WriterInv, NEW p \in Shells, BeginJournal(p)
  PROVE  WriterInv' /\ EvidenceStep
<1> DEFINE o == shells[p]
           st == Op(p)[2]
           entry == [state |-> st, gen |-> o.gen, old |-> o.old]
           t == <<Publish(st)>> \o Rest(p)
           s == [shells[p] EXCEPT !.todo = t]
<1>1. /\ Running(p) /\ Op(p)[1] = "journal" /\ UNCHANGED <<History, Outside>>
      /\ dir' = With(dir, JournalWrite, entry) /\ may' = may \cup {dir'} /\ GoesOn(p, t)
  BY DEF BeginJournal, At, Becomes
<1>2. /\ Waits(o, "release") /\ ~Waits(o, "stage") /\ ~o.failed
      /\ InstallInv(o, dir, may, staged) /\ UncommittedInv(o, dir, may) /\ Writes(o, "committed")
  BY <1>1, Installs
<1>3. /\ st \in States /\ Op(p) = WriteJournal(st)
      /\ Rest(p) \in Seq(Ops) /\ Ordered(Rest(p))
      /\ Pending(o) = {Op(p)} \cup Range(Rest(p))
      /\ \A op \in Range(Rest(p)) : Before(Op(p), op)
  BY <1>1, Turn, OpKinds
<1>4. Publish(st) \in Ops /\ Rank(Publish(st)) = Rank(Op(p)) /\ Rank(Op(p)) \in {5, 8, 10, 12}
  BY <1>3, OpsAre, RankOf DEF States
<1> HIDE DEF st, entry
<1>5. \A op \in Range(Rest(p)) : Before(Publish(st), op)
  BY <1>3, <1>4 DEF Before
<1>6. t \in Seq(Ops) /\ Ordered(t) /\ Range(t) = {Publish(st)} \cup Range(Rest(p))
  BY <1>3, <1>4, <1>5, ConsFacts
<1>7. Head(t) = Publish(st)
  BY <1>3, <1>4
<1>8. /\ s \in Commands /\ Pending(s) = {Publish(st)} \cup Range(Rest(p)) /\ s.todo = t
      /\ s.gen = o.gen /\ s.old = o.old /\ s.failed = o.failed
      /\ shells' = [shells EXCEPT ![p] = s]
  BY <1>1, <1>6, Replaced DEF GoesOn
<1> HIDE DEF s, t
<1>9. /\ Same(dir, dir') /\ Remembers /\ (Has(dir, LockFile) => Has(dir', LockFile))
      /\ Has(dir', JournalWrite) /\ dir'[JournalWrite] = entry
  <2>1. JournalWrite[1] \notin {"journal", "active", "backup"}
    BY Names
  <2>2. Same(dir, dir')
    BY <1>1, <2>1, ElsewhereIsSame
  <2>3. /\ Has(dir, LockFile) => Has(dir', LockFile)
        /\ Has(dir', JournalWrite) /\ dir'[JournalWrite] = entry
    BY <1>1, WithFacts
  <2> QED
    BY <1>1, <2>2, <2>3 DEF Remembers
<1>10. \A state : Publish(state) \in Pending(s) => state = st
  <2> SUFFICES ASSUME NEW state, Publish(state) \in Pending(s), state # st PROVE FALSE
    OBVIOUS
  <2>1. Publish(state) # Publish(st) /\ Publish(state) # Op(p)
    BY <1>3, Tags
  <2>2. Publish(state) \in Pending(o)
    BY <1>3, <1>8, <2>1
  <2>3. Publish(state) \in Ops
    BY <2>2, ShellFacts, PendingOps
  <2>4. state \in States
    BY <2>3, Tags, OpKinds
  <2>5. Head(o.todo) = Publish(state)
    BY <1>2, <2>2, <2>4 DEF InstallInv
  <2> QED
    BY <2>1, <2>5 DEF Op
<1>11. \A state : Writes(s, state) <=> Writes(o, state)
  <2>1. \A state : WriteJournal(state) \in Pending(s) <=> WriteJournal(state) \in Range(Rest(p))
    BY <1>8, Tags
  <2>2. \A state : WriteJournal(state) \in Pending(o) <=> state = st \/ WriteJournal(state) \in Range(Rest(p))
    BY <1>3, Tags
  <2>3. \A state : Publish(state) \in Pending(s) <=> state = st \/ Publish(state) \in Range(Rest(p))
    BY <1>8, Tags
  <2>4. \A state : Publish(state) \in Pending(o) <=> Publish(state) \in Range(Rest(p))
    BY <1>3, Tags
  <2> QED
    BY <2>1, <2>2, <2>3, <2>4 DEF Writes
<1>12. \A what \in {"release", "stage", "unjournal", "validate"} : Waits(s, what) <=> Waits(o, what)
  <2>1. \A what \in {"release", "stage", "unjournal", "validate"} :
          Do(what) # Publish(st) /\ Do(what) # Op(p)
    BY <1>3, Tags
  <2> QED
    BY <1>3, <1>8, <2>1 DEF Waits
<1>13. Writes(s, "committed")
  BY <1>2, <1>11
<1>14. UncommittedInv(s, dir', may')
  <2>1. \A e \in may' : \E d \in may : StandingIn(e) = StandingIn(d)
    BY <1>9, SameFacts, Counters DEF Remembers
  <2> QED
    BY <1>2, <1>8, <1>9, <1>11, <1>12, <2>1, SameFacts DEF UncommittedInv, OwnJournal
<1>15. Pending(s) \subseteq InstallOps(s.gen, s.old)
  BY <1>2, <1>3, <1>8 DEF InstallInv, InstallOps
<1>16. InstallInv(s, dir', may', staged)
  BY <1>2, <1>7, <1>8, <1>9, <1>10, <1>13, <1>14, <1>15 DEF InstallInv, entry
<1>17. ShellInv(s, dir', may', staged)
  BY <1>2, <1>6, <1>8, <1>9, <1>12, <1>16, StillInstalling
<1>18. DiskTyped(dir', staged) /\ StandingIn(dir') = StandingIn(dir)
  BY <1>9, SameFacts, Counters
<1> QED
  BY <1>1, <1>2, <1>8, <1>9, <1>17, <1>18, HolderStep

\* What is left of an installation once it is committed.
LEMMA LateInstallOps ==
  ASSUME NEW g, NEW old, NEW op \in InstallOps(g, old), Rank(op) = 0 \/ 12 < Rank(op)
  PROVE  op \in {Settle("committed"), RemoveBackup(g, old), Purge(Cleanup(<<"backup", g>>)),
                 Do("sync"), Do("unjournal"), Do("release")}
<1>1. CASE \E state \in States : op \in {WriteJournal(state), Publish(state), Settle(state)}
  <2>1. PICK state \in States : op \in {WriteJournal(state), Publish(state), Settle(state)}
    BY <1>1
  <2>2. Rank(op) \in {5, 8, 10, 12}
    BY <2>1, RankOf DEF States
  <2> QED
    BY <2>2
<1>2. CASE op \in {Do("fill"), Do("admit"), Do("validate"), Move(Active, Backup(g), old),
                   Move(Stage(g), Active, g)}
  BY <1>2, RankOf
<1> QED
  BY <1>1, <1>2 DEF InstallOps

\* The rename of a journal.  The one that says committed is where the new
\* generation takes the place of the old.
LEMMA PublishKeeps ==
  ASSUME WriterInv, NEW p \in Shells, PublishJournal(p)
  PROVE  WriterInv' /\ EvidenceStep
<1> DEFINE o == shells[p]
           g == o.gen
           st == Op(p)[2]
           t == <<Settle(st)>> \o Rest(p)
           s == [shells[p] EXCEPT !.todo = t]
<1>1. /\ Running(p) /\ Op(p)[1] = "publish" /\ UNCHANGED <<History, Outside>>
      /\ dir' = Moved(dir, JournalWrite, Journal) /\ may' = may \cup {dir'} /\ GoesOn(p, t)
  BY DEF PublishJournal, At, Becomes
<1>2. /\ Waits(o, "release") /\ ~Waits(o, "stage") /\ ~o.failed
      /\ InstallInv(o, dir, may, staged) /\ UncommittedInv(o, dir, may)
      /\ g \in 1 .. staged /\ o.old \in 0 .. staged /\ g # o.old /\ g \in Generations
  BY <1>1, Installs
<1>3. /\ st \in States /\ Op(p) = Publish(st) /\ Op(p) \in Pending(o)
      /\ Rest(p) \in Seq(Ops) /\ Ordered(Rest(p))
      /\ Pending(o) = {Op(p)} \cup Range(Rest(p))
      /\ \A op \in Range(Rest(p)) : Before(Op(p), op)
  BY <1>1, Turn, OpKinds
<1>4. Settle(st) \in Ops /\ Rank(Settle(st)) = Rank(Op(p)) /\ Rank(Op(p)) \in {5, 8, 10, 12}
      /\ (st = "committed" <=> Rank(Op(p)) = 12)
  BY <1>3, OpsAre, RankOf DEF States
<1> HIDE DEF st
<1>5. \A op \in Range(Rest(p)) : Before(Settle(st), op)
  BY <1>3, <1>4 DEF Before
<1>6. t \in Seq(Ops) /\ Ordered(t) /\ Range(t) = {Settle(st)} \cup Range(Rest(p))
  BY <1>3, <1>4, <1>5, ConsFacts
<1>7. /\ s \in Commands /\ Pending(s) = {Settle(st)} \cup Range(Rest(p)) /\ s.todo = t
      /\ s.gen = g /\ s.old = o.old /\ s.failed = o.failed
      /\ shells' = [shells EXCEPT ![p] = s]
  BY <1>1, <1>6, Replaced DEF GoesOn
<1> HIDE DEF s, t
<1>8. /\ Has(dir, JournalWrite)
      /\ dir[JournalWrite].state = st /\ dir[JournalWrite].gen = g /\ dir[JournalWrite].old = o.old
  <2>1. Publish(st) \in Pending(o)
    BY <1>3
  <2>2. Has(dir, JournalWrite) /\ dir[JournalWrite] = [state |-> st, gen |-> g, old |-> o.old]
    BY <1>2, <1>3, <2>1 DEF InstallInv
  <2> QED
    BY <2>2
<1>9. /\ Has(dir', Journal)
      /\ dir'[Journal].state = st /\ dir'[Journal].gen = g /\ dir'[Journal].old = o.old
      /\ Agree(dir, dir', Active) /\ \A k : Agree(dir, dir', Backup(k))
      /\ Remembers /\ (Has(dir, LockFile) => Has(dir', LockFile))
  <2>1. /\ JournalWrite # Journal /\ Active \notin {Journal, JournalWrite}
        /\ LockFile \notin {Journal, JournalWrite}
        /\ \A k : Backup(k) \notin {Journal, JournalWrite}
    BY Names
  <2>2. /\ \A n : Has(dir', n) <=> n = Journal \/ (n # JournalWrite /\ Has(dir, n))
        /\ dir'[Journal] = dir[JournalWrite]
        /\ \A n : n # JournalWrite /\ n # Journal /\ Has(dir, n) => dir'[n] = dir[n]
    BY <1>1, <1>8, <2>1, MovedFacts
  <2> QED
    BY <1>1, <1>8, <2>1, <2>2 DEF Agree, Remembers
<1>10. /\ \A k : Holds(dir', Active, k) <=> Holds(dir, Active, k)
       /\ \A k, h : Holds(dir', Backup(k), h) <=> Holds(dir, Backup(k), h)
  BY <1>9 DEF Agree, Holds
<1>11. DiskTyped(dir', staged)
  BY <1>2, <1>9, Counters DEF DiskTyped, Agree
<1>12. \A state : Publish(state) \notin Pending(s)
  <2> SUFFICES ASSUME NEW state, Publish(state) \in Pending(s) PROVE FALSE
    OBVIOUS
  <2>1. Publish(state) \in Range(Rest(p)) /\ Publish(state) \in Pending(o)
    BY <1>3, <1>7, Tags
  <2>2. state \in States
    BY <2>1, ShellFacts, PendingOps, Tags, OpKinds
  <2>3. Head(o.todo) = Publish(state)
    BY <1>2, <2>1, <2>2 DEF InstallInv
  <2>4. Op(p) = Publish(state)
    BY <2>3 DEF Op
  <2> QED
    BY <1>3, <1>4, <2>1, <2>4 DEF Before
<1>13. \A what \in {"release", "stage", "unjournal", "validate"} : Waits(s, what) <=> Waits(o, what)
  <2>1. \A what \in {"release", "stage", "unjournal", "validate"} :
          Do(what) # Settle(st) /\ Do(what) # Op(p)
    BY <1>3, Tags
  <2> QED
    BY <1>3, <1>7, <2>1 DEF Waits
<1>14. Pending(s) \subseteq InstallOps(s.gen, s.old)
  BY <1>2, <1>3, <1>7 DEF InstallInv, InstallOps
<1>15. Waits(o, "unjournal") /\ \A e \in may : StandingIn(e) < g
  BY <1>2 DEF UncommittedInv
<1>16. /\ Recorded /\ reported' = reported /\ staged' = staged
       /\ staged' \in Numbers /\ staged <= staged' /\ DiskTyped(dir', staged')
       /\ dir \in may /\ StandingIn(dir) \in Nat /\ staged \in Nat
  BY <1>1, <1>11, Counters
<1>17. CASE st = "committed"
  <2>1. Holds(dir', Active, g)
    <3>1. ~Waits(o, "validate")
      <4>1. Do("validate") # Op(p) /\ Rank(Do("validate")) = 11
        BY <1>3, Tags, RankOf
      <4> QED
        BY <1>3, <1>4, <1>17, <4>1 DEF Waits, Before
    <3> QED
      BY <1>2, <1>10, <3>1 DEF UncommittedInv
  <2>2. StandingIn(dir') = g
    BY <1>2, <1>9, <1>17, <2>1, StandsCommitted
  <2>3. CommittedInv(s, dir')
    <3>1. \A op \in Range(Rest(p)) : Rank(op) = 0 \/ 12 < Rank(op)
      BY <1>3, <1>4, <1>17 DEF Before
    <3>2. Pending(s) \subseteq
           {Settle("committed"), RemoveBackup(g, o.old), Purge(Cleanup(<<"backup", g>>)),
            Do("sync"), Do("unjournal"), Do("release")}
      <4>1. \A op \in Range(Rest(p)) : op \in InstallOps(g, o.old)
        BY <1>2, <1>3 DEF InstallInv
      <4> QED
        BY <1>7, <1>17, <3>1, <4>1, LateInstallOps
    <3>3. Waits(s, "unjournal")
      BY <1>13, <1>15
    <3> QED
      BY <1>7, <1>9, <1>17, <2>1, <3>2, <3>3 DEF CommittedInv, OwnJournal
  <2>4. InstallInv(s, dir', may', staged')
    BY <1>2, <1>7, <1>16, <2>3, CommittedInstalls DEF InstallInv
  <2>5. ShellInv(s, dir', may', staged')
    BY <1>2, <1>6, <1>7, <1>9, <1>13, <1>16, <2>4, StillInstalling
  <2>6. WriterInv'
    <3>1. StandingIn(dir) <= StandingIn(dir')
      BY <1>2, <1>15, <1>16, <2>2
    <3> QED
      BY <1>2, <1>7, <1>9, <1>16, <2>5, <3>1, HolderKeeps
  <2>7. EvidenceStep
    <3>1. {StandingIn(d) : d \in may'} = {StandingIn(d) : d \in may} \cup {g}
      BY <1>1, <2>2
    <3>2. \A m \in {StandingIn(d) : d \in may} : m < g
      BY <1>15
    <3>3. Evidence!Commit(g)
      BY <1>16, <2>2, <3>1, <3>2 DEF Evidence!Commit
    <3> QED
      BY <1>2, <3>3 DEF EvidenceStep, Evidence!Next
  <2> QED
    BY <2>6, <2>7
<1>18. CASE st # "committed"
  <2>1. StandingIn(dir') = StandingIn(dir)
    <3>1. CASE Writes(o, "prepared")
      <4>1. ~Has(dir, Journal) /\ InPlace(dir, o.old)
        BY <1>2, <3>1 DEF UncommittedInv
      <4>2. o.old \in Numbers
        BY ShellFacts DEF Commands
      <4>3. StandingIn(dir) = o.old
        BY <4>1, <4>2, StandsUnjournaled
      <4>4. o.old = None \/ Holds(dir', Active, o.old)
        BY <1>10, <4>1 DEF InPlace
      <4>5. StandingIn(dir') = o.old
        BY <1>9, <1>18, <4>2, <4>4, StandsUncommitted
      <4> QED
        BY <4>3, <4>5
    <3>2. CASE ~Writes(o, "prepared")
      <4>1. /\ Has(dir, Journal) /\ dir[Journal].gen = g /\ dir[Journal].old = o.old
            /\ dir[Journal].state # "committed"
        BY <1>2, <3>2 DEF UncommittedInv, OwnJournal
      <4>2. Wanted(dir') = Wanted(dir)
        BY <1>9, <1>10, <1>18, <4>1 DEF Wanted
      <4> QED
        BY <4>2, StandingWanted
    <3> QED
      BY <3>1, <3>2
  <2>2. ~Writes(s, "prepared")
    <3>1. Rank(WriteJournal("prepared")) = 5 /\ WriteJournal("prepared") # Settle(st)
      BY RankOf, Tags
    <3>2. WriteJournal("prepared") \notin Pending(s)
      BY <1>3, <1>4, <1>7, <3>1 DEF Before
    <3> QED
      BY <1>12, <3>2 DEF Writes
  <2>3. Writes(s, "committed")
    <3>1. Writes(o, "committed")
      BY <1>1, Installs
    <3>2. Publish("committed") # Op(p) /\ WriteJournal("committed") # Op(p)
      BY <1>3, <1>18, Tags
    <3> QED
      BY <1>3, <1>7, <3>1, <3>2 DEF Writes
  <2>4. UncommittedInv(s, dir', may')
    <3>1. \A e \in may' : StandingIn(e) < g
      BY <1>1, <1>15, <1>16, <2>1
    <3>2. ~Waits(s, "validate") => Holds(dir', Active, g)
      BY <1>2, <1>10, <1>13 DEF UncommittedInv
    <3> QED
      BY <1>7, <1>9, <1>13, <1>15, <1>18, <2>2, <3>1, <3>2 DEF UncommittedInv, OwnJournal
  <2>5. InstallInv(s, dir', may', staged)
    BY <1>2, <1>7, <1>12, <1>14, <2>3, <2>4 DEF InstallInv
  <2>6. ShellInv(s, dir', may', staged)
    BY <1>2, <1>6, <1>7, <1>9, <1>13, <2>5, StillInstalling
  <2> QED
    BY <1>1, <1>2, <1>7, <1>9, <1>11, <2>1, <2>6, HolderStep
<1> QED
  BY <1>17, <1>18

\* The renames of generations: the old one out of the way, the new one in its
\* place, and a recovery's, back.
LEMMA MovesAre ==
  ASSUME WriterInv, NEW p \in Shells, Running(p), Op(p)[1] = "move"
  PROVE  LET o == shells[p]
             j == dir[Journal]
         IN \/ /\ Waits(o, "stage") \/ o.failed
               /\ RecoversInv(o, dir) /\ ~Waits(o, "recover") /\ Waits(o, "unjournal")
               /\ Op(p) = Move(Backup(j.gen), Active, j.old)
            \/ /\ ~Waits(o, "stage") /\ ~o.failed /\ InstallInv(o, dir, may, staged)
               /\ UncommittedInv(o, dir, may) /\ Writes(o, "committed")
               /\ ~Writes(o, "prepared")
               /\ Op(p) \in {Move(Active, Backup(o.gen), o.old), Move(Stage(o.gen), Active, o.gen)}
<1> DEFINE o == shells[p]
           j == dir[Journal]
<1>1. /\ Waits(o, "release") /\ Op(p) \in Pending(o)
      /\ Pending(o) = {Op(p)} \cup Range(Rest(p))
      /\ \A op \in Range(Rest(p)) : Before(Op(p), op)
  BY InLock, Turn
<1>2. Op(p) \notin {Do("recover"), Do("stage"), Do("release"), Do("sync"), Do("discard"),
                    Do("unjournal"), Purge(Stage(o.gen))}
  BY Tags
<1>3. CASE Waits(o, "stage") \/ o.failed
  <2>1. RecoveryInv(o, dir)
    BY <1>1, <1>3, HolderFacts
  <2>2. RecoversInv(o, dir) /\ ~Waits(o, "recover") /\ Waits(o, "unjournal")
    BY <1>1, <1>2, <2>1 DEF RecoveryInv
  <2>3. Op(p) \in RecoveryOps(j.gen, j.old)
    BY <1>1, <2>2 DEF RecoversInv
  <2>4. Op(p) = Move(Backup(j.gen), Active, j.old)
    <3>1. /\ Op(p) \notin {RemoveStage(j.gen), RemoveActive(j.gen), RemoveBackup(j.gen, j.old)}
          /\ \A role : Op(p) # Purge(Cleanup(<<role, j.gen>>))
      BY Tags
    <3> QED
      BY <1>2, <2>3, <3>1 DEF RecoveryOps
  <2> QED
    BY <1>3, <2>2, <2>4
<1>4. CASE ~Waits(o, "stage") /\ ~o.failed
  <2>1. InstallInv(o, dir, may, staged)
    BY <1>1, <1>4, HolderFacts
  <2>2. Op(p) \in InstallOps(o.gen, o.old)
    BY <1>1, <2>1 DEF InstallInv
  <2>3. Op(p) \in {Move(Active, Backup(o.gen), o.old), Move(Stage(o.gen), Active, o.gen)}
    BY <2>2, Tags DEF InstallOps
  <2>4. ~CommittedInv(o, dir)
    BY <1>1, Tags DEF CommittedInv
  <2>5. Rank(Op(p)) \in {7, 9}
    BY <2>3, RankOf
  <2>6. ~Writes(o, "prepared")
    <3>1. /\ Rank(WriteJournal("prepared")) = 5 /\ Rank(Publish("prepared")) = 5
          /\ WriteJournal("prepared") # Op(p) /\ Publish("prepared") # Op(p)
      BY RankOf, Tags
    <3> QED
      BY <1>1, <2>5, <3>1 DEF Writes, Before
  <2> QED
    BY <1>4, <2>1, <2>3, <2>4, <2>6 DEF InstallInv
<1> QED
  BY <1>3, <1>4

\* What is left of a command when a generation is moved within an installation.
LEMMA InstallMoves ==
  ASSUME WriterInv, NEW p \in Shells, MoveGeneration(p), UNCHANGED <<History, Outside>>,
         Running(p), Op(p)[1] = "move", GoesOn(p, Rest(p)),
         ~Waits(shells[p], "stage"), ~shells[p].failed,
         InstallInv(shells[p], dir, may, staged), UncommittedInv(shells[p], dir, may),
         Writes(shells[p], "committed"), ~Writes(shells[p], "prepared"),
         may' = may \cup {dir'}, Has(dir, LockFile) => Has(dir', LockFile),
         Agree(dir, dir', Journal), DiskTyped(dir', staged),
         StandingIn(dir') = StandingIn(dir),
         Waits(shells[p], "validate") \/ Holds(dir', Active, shells[p].gen)
  PROVE  WriterInv' /\ EvidenceStep
<1> DEFINE o == shells[p]
           s == [shells[p] EXCEPT !.todo = Rest(p)]
<1>1. Waits(o, "release")
  BY InLock
<1>2. /\ s \in Commands /\ Ordered(s.todo)
      /\ s.gen = o.gen /\ s.old = o.old /\ s.failed = o.failed
      /\ shells' = [shells EXCEPT ![p] = s]
      /\ Pending(o) = {Op(p)} \cup Pending(s)
  BY RestFacts
<1> HIDE DEF s
<1>3. \A what \in {"release", "stage", "unjournal", "validate"} : Waits(s, what) <=> Waits(o, what)
  BY <1>2, Tags DEF Waits
<1>4. \A state : /\ WriteJournal(state) \in Pending(s) <=> WriteJournal(state) \in Pending(o)
                 /\ Publish(state) \in Pending(s) <=> Publish(state) \in Pending(o)
  BY <1>2, Tags
<1>5. \A state \in States : Publish(state) \notin Pending(s)
  <2> SUFFICES ASSUME NEW state \in States, Publish(state) \in Pending(s) PROVE FALSE
    OBVIOUS
  <2>1. Op(p) = Publish(state)
    BY <1>4 DEF InstallInv, Op
  <2> QED
    BY <2>1, Tags
<1>6. \A e \in may' : StandingIn(e) < o.gen
  BY Counters DEF UncommittedInv
<1>7. UncommittedInv(s, dir', may')
  BY <1>2, <1>3, <1>4, <1>6 DEF UncommittedInv, Writes, OwnJournal, Agree
<1>8. InstallInv(s, dir', may', staged)
  BY <1>2, <1>4, <1>5, <1>7 DEF InstallInv, Writes
<1>9. ShellInv(s, dir', may', staged)
  BY <1>1, <1>2, <1>3, <1>8, StillInstalling
<1>10. Remembers
  BY DEF Remembers
<1> QED
  BY <1>1, <1>2, <1>9, <1>10, HolderStep

LEMMA MoveKeeps ==
  ASSUME WriterInv, NEW p \in Shells, MoveGeneration(p)
  PROVE  WriterInv' /\ EvidenceStep
<1> DEFINE o == shells[p]
           j == dir[Journal]
           from == Op(p)[2]
           to == Op(p)[3]
           k == Op(p)[4]
<1>1. Running(p) /\ Op(p)[1] = "move" /\ UNCHANGED <<History, Outside>>
  BY DEF MoveGeneration, At
<1>2. CASE Throws(p) /\ UNCHANGED <<dir, may>>
  BY <1>1, <1>2, QuietThrow
<1>3. CASE /\ Holds(dir, from, k) /\ ~Has(dir, to) /\ Becomes(Moved(dir, from, to))
           /\ GoesOn(p, Rest(p))
  <2>1. /\ Waits(o, "release") /\ staged \in Nat /\ DiskTyped(dir, staged) /\ dir \in may
        /\ o.gen \in Numbers /\ o.old \in Numbers
    BY <1>1, InLock, Counters, ShellFacts DEF Commands
  <2>2. Has(dir, from) /\ dir[from] = Whole(k) /\ from # to /\ dir' = Moved(dir, from, to)
        /\ may' = may \cup {dir'}
    BY <1>3 DEF Holds, Becomes
  <2>3. /\ \A n : Has(dir', n) <=> n = to \/ (n # from /\ Has(dir, n))
        /\ dir'[to] = Whole(k)
        /\ \A n : n # from /\ n # to /\ Has(dir, n) => dir'[n] = dir[n]
    BY <2>2, MovedFacts
  <2>4. ~Has(dir', from) /\ Holds(dir', to, k) /\ \A n : n \notin {from, to} => Agree(dir, dir', n)
    BY <2>2, <2>3 DEF Holds, Agree
  <2>5. /\ Active[1] = "active" /\ Journal[1] = "journal" /\ LockFile[1] = "lock"
        /\ \A g : Stage(g)[1] = "stage" /\ Backup(g)[1] = "backup"
    BY Names
  <2>6. CASE /\ ~Waits(o, "stage") /\ ~o.failed /\ InstallInv(o, dir, may, staged)
             /\ UncommittedInv(o, dir, may) /\ Writes(o, "committed")
             /\ ~Writes(o, "prepared")
             /\ Op(p) \in {Move(Active, Backup(o.gen), o.old), Move(Stage(o.gen), Active, o.gen)}
    <3>1. /\ Has(dir, Journal) /\ j.gen = o.gen /\ j.old = o.old /\ j.state # "committed"
          /\ ~Waits(o, "validate") => Holds(dir, Active, o.gen)
          /\ o.old < o.gen /\ o.gen \in 1 .. staged /\ o.gen # o.old
      BY <2>1, <2>6, BoundsAssumption DEF UncommittedInv, OwnJournal, InstallInv, Numbers, BoundsAssumption
    <3>2. CASE Op(p) = Move(Active, Backup(o.gen), o.old)
      <4>1. from = Active /\ to = Backup(o.gen) /\ k = o.old
        BY <3>2 DEF Move
      <4>2. Agree(dir, dir', Journal) /\ Agree(dir, dir', LockFile)
        BY <2>4, <2>5, <4>1
      <4>3. DiskTyped(dir', staged)
        BY <2>1, <2>4, <4>1, <4>2 DEF DiskTyped, Agree
      <4>4. StandingIn(dir) = o.old
        BY <1>3, <2>1, <3>1, <4>1, StandsUncommitted
      <4>5. StandingIn(dir') = o.old
        <5>1. Has(dir', Journal) /\ dir'[Journal] = j
          BY <3>1, <4>2 DEF Agree
        <5> QED
          BY <2>1, <2>4, <3>1, <4>1, <5>1, StandsUncommitted
      <4>6. Waits(o, "validate")
        BY <1>3, <3>1, <4>1, HoldsOne
      <4> QED
        BY <1>1, <1>3, <2>2, <2>6, <4>2, <4>3, <4>4, <4>5, <4>6, InstallMoves DEF Agree
    <3>3. CASE Op(p) = Move(Stage(o.gen), Active, o.gen)
      <4>1. from = Stage(o.gen) /\ to = Active /\ k = o.gen
        BY <3>3 DEF Move
      <4>2. /\ Agree(dir, dir', Journal) /\ Agree(dir, dir', LockFile)
            /\ Agree(dir, dir', Backup(o.gen))
        BY <2>4, <2>5, <4>1
      <4>3. DiskTyped(dir', staged)
        BY <2>1, <2>3, <3>1, <4>1, <4>2 DEF DiskTyped, Agree
      <4>4. StandingIn(dir') = StandingIn(dir)
        BY <1>3, <2>4, <3>1, <4>1, <4>2, StandsWithout
      <4>5. Holds(dir', Active, o.gen)
        BY <2>4, <4>1
      <4> QED
        BY <1>1, <1>3, <2>2, <2>6, <4>2, <4>3, <4>4, <4>5, InstallMoves DEF Agree
    <3> QED
      BY <2>6, <3>2, <3>3
  <2>7. CASE /\ Waits(o, "stage") \/ o.failed
             /\ RecoversInv(o, dir) /\ ~Waits(o, "recover") /\ Waits(o, "unjournal")
             /\ Op(p) = Move(Backup(j.gen), Active, j.old)
    <3> DEFINE s == [shells[p] EXCEPT !.todo = Rest(p)]
    <3>1. from = Backup(j.gen) /\ to = Active /\ k = j.old
      BY <2>7 DEF Move
    <3>2. /\ s \in Commands /\ Ordered(s.todo) /\ s.failed = o.failed
          /\ shells' = [shells EXCEPT ![p] = s]
          /\ Pending(o) = {Op(p)} \cup Pending(s)
          /\ \A op \in Pending(s) : Before(Op(p), op)
      BY <1>1, <1>3, RestFacts
    <3> HIDE DEF s
    <3>3. /\ Has(dir, Journal) /\ j.state # "committed" /\ j.old # None
          /\ j.gen \in 1 .. staged /\ j.old \in 1 .. staged
      <4>1. Op(p) \in Pending(o)
        BY <3>2
      <4>2. /\ Has(dir, Journal) /\ j.state # "committed" /\ j.old # None
        BY <2>7, <4>1 DEF RecoversInv
      <4> QED
        BY <2>1, <4>2 DEF DiskTyped, None
    <3>4. /\ Agree(dir, dir', Journal) /\ Agree(dir, dir', LockFile)
      BY <2>4, <2>5, <3>1
    <3>5. Has(dir', Journal) /\ dir'[Journal] = j
      BY <3>3, <3>4 DEF Agree
    <3>6. DiskTyped(dir', staged)
      BY <2>1, <2>3, <3>1, <3>3, <3>5 DEF DiskTyped
    <3>7. StandingIn(dir') = StandingIn(dir)
      <4>1. j.old \in Numbers
        BY <3>3, Counters, BoundsAssumption DEF Numbers, BoundsAssumption
      <4>2. StandingIn(dir) = j.old
        BY <1>3, <3>1, <3>3, <4>1, StandsUncommitted
      <4>3. StandingIn(dir') = j.old
        BY <2>4, <3>1, <3>3, <3>5, <4>1, StandsUncommitted
      <4> QED
        BY <4>2, <4>3
    <3>8. \A what \in {"release", "stage", "unjournal", "recover"} : Waits(s, what) <=> Waits(o, what)
      BY <2>7, <3>2, Tags DEF Waits
    <3>9. /\ RemoveActive(j.gen) \notin Pending(s) /\ Op(p) \notin Pending(s)
      <4>1. Rank(RemoveActive(j.gen)) = 13 /\ Rank(Op(p)) = 14
        BY <2>7, RankOf
      <4> QED
        BY <3>2, <4>1 DEF Before
    <3>10. RecoversInv(s, dir')
      <4>1. InPlace(dir', j.old)
        BY <2>4, <3>1, <3>3 DEF InPlace
      <4> QED
        BY <2>7, <3>2, <3>3, <3>5, <3>9, <4>1 DEF RecoversInv
    <3>11. RecoveryInv(s, dir')
      BY <2>7, <3>8, <3>10 DEF RecoveryInv
    <3>12. Has(dir, LockFile) => Has(dir', LockFile)
      BY <3>4 DEF Agree
    <3>13. ShellInv(s, dir', may', staged)
      BY <2>1, <2>7, <3>2, <3>8, <3>11, <3>12, StillRecovering
    <3>14. Remembers
      BY <2>2 DEF Remembers
    <3> QED
      BY <1>1, <2>1, <3>2, <3>6, <3>7, <3>13, <3>14, HolderStep
  <2> QED
    BY <1>1, <2>6, <2>7, MovesAre
<1> QED
  BY <1>2, <1>3 DEF MoveGeneration

----------------------------------------------------------------------------
(* What else happens.                                                      *)

LEMMA FailKeeps ==
  ASSUME WriterInv, NEW p \in Shells, Fail(p)
  PROVE  WriterInv' /\ EvidenceStep
<1> DEFINE entry == [state |-> Op(p)[2], gen |-> shells[p].gen, old |-> shells[p].old]
<1>1. /\ Running(p) /\ UNCHANGED <<staged, journaled, reported, source>>
      /\ faults < MaxFaults /\ faults' = faults + 1
  BY DEF Fail, Faulty, History
<1>2. PICK d \in Leaves(p) : /\ dir' = d /\ may' = may \cup {d}
                             /\ shells' = [shells EXCEPT ![p] = Thrown(p, d)]
  BY DEF Fail, Becomes
<1>3. Recorded
  BY <1>1, BoundsAssumption DEF WriterInv, Typed, Recorded, BoundsAssumption
<1>4. Remembers
  BY <1>2 DEF Remembers
<1> HIDE DEF entry
<1>5. \/ d = dir
      \/ Op(p)[1] = "journal" /\ d = With(dir, JournalWrite, entry)
      \/ Op(p)[1] = "publish" /\ d = Without(dir, JournalWrite)
      \/ Op(p)[1] = "lock" /\ ~Has(dir, LockFile) /\ d = With(dir, LockFile, TRUE)
  BY DEF Leaves, At, entry
<1>6. JournalWrite # LockFile /\ JournalWrite[1] = "journal-write" /\ LockFile[1] = "lock"
  BY Names
<1>7. Same(dir, d)
  BY <1>5, <1>6, SameFollows, ElsewhereIsSame
<1>8. Has(dir, LockFile) => Has(d, LockFile)
  BY <1>5, <1>6, WithFacts, WithoutFacts
<1>9. Waits(shells[p], "release") \/ Agree(dir, d, JournalWrite)
  <2>1. CASE Op(p)[1] \in {"journal", "publish"}
    BY <1>1, <2>1, InLock
  <2>2. CASE Op(p)[1] \notin {"journal", "publish"}
    <3>1. Agree(dir, dir, JournalWrite)
      BY DEF Agree
    <3> QED
      BY <1>5, <1>6, <2>2, <3>1, AgreeElsewhere
  <2> QED
    BY <2>1, <2>2
<1> QED
  BY <1>1, <1>2, <1>3, <1>4, <1>7, <1>8, <1>9, ThrowsKeep

LEMMA PowerLossKeeps ==
  ASSUME WriterInv, PowerLoss
  PROVE  WriterInv' /\ EvidenceStep
<1>1. /\ dir' \in may /\ may' = {dir'} /\ shells' = [p \in Shells |-> Idle]
      /\ UNCHANGED <<staged, journaled, reported, source>>
      /\ faults < MaxFaults /\ faults' = faults + 1
  BY DEF PowerLoss, Faulty, History
<1>2. Typed'
  BY <1>1, IdleFacts, BoundsAssumption DEF WriterInv, Typed, BoundsAssumption
<1>3. Exclusive' /\ \A p \in Shells : ShellInv(shells'[p], dir', may', staged')
  BY <1>1, IdleFacts DEF Exclusive, Waits
<1>4. WriterInv'
  BY <1>2, <1>3 DEF WriterInv
<1>5. Evidence!PowerLoss
  <2>1. StandingIn(dir') \in {StandingIn(d) : d \in may}
    BY <1>1
  <2>2. {StandingIn(d) : d \in may'} = {StandingIn(dir')}
    BY <1>1
  <2> QED
    BY <1>1, <2>1, <2>2 DEF Evidence!PowerLoss
<1> QED
  BY <1>4, <1>5 DEF EvidenceStep, Evidence!Next

LEMMA EditKeeps ==
  ASSUME WriterInv, EditSource
  PROVE  WriterInv' /\ EvidenceStep
<1>1. /\ UNCHANGED <<dir, may, shells, faults, staged, journaled, reported>>
      /\ source < MaxEdits /\ source' = source + 1
  BY DEF EditSource, History
<1>2. Typed'
  BY <1>1, BoundsAssumption DEF WriterInv, Typed, BoundsAssumption
<1>3. WriterInv'
  BY <1>1, <1>2 DEF WriterInv, Exclusive
<1> QED
  BY <1>1, <1>3 DEF EvidenceStep, Evidence!vars

\* What is removed by hand does not stand, and no command is in the lock.
LEMMA OperatorKeeps ==
  ASSUME WriterInv, NEW name \in DOMAIN dir, OperatorRemoves(name)
  PROVE  WriterInv' /\ EvidenceStep
<1>1. /\ dir' = Without(dir, name) /\ may' = may \cup {dir'}
      /\ UNCHANGED <<shells, source, faults, staged, journaled, reported>>
      /\ \A p \in Shells : ~Waits(shells[p], "release")
  BY ShellFacts DEF OperatorRemoves, Becomes, History
<1>2. \/ name[1] \in {"lock", "journal-write", "stage", "cleanup"}
      \/ name[1] = "backup" /\ ~Has(dir, Journal)
  BY Names DEF OperatorRemoves, Residue
<1>3. name # Journal /\ name # Active
  BY <1>2, Names
<1>4. Agree(dir, dir', Journal) /\ Agree(dir, dir', Active)
  BY <1>1, <1>3, AgreeElsewhere
<1>5. StandingIn(dir') = StandingIn(dir)
  <2>1. CASE name[1] \in {"lock", "journal-write", "stage", "cleanup"}
    <3>1. Same(dir, dir')
      BY <1>1, <2>1, ElsewhereIsSame
    <3> QED
      BY <3>1, SameFacts
  <2>2. CASE ~Has(dir, Journal)
    <3>1. ~Has(dir', Journal) /\ \A g : Holds(dir', Active, g) <=> Holds(dir, Active, g)
      BY <1>4, <2>2 DEF Agree, Holds
    <3>2. Wanted(dir') = Wanted(dir)
      BY <2>2, <3>1 DEF Wanted
    <3> QED
      BY <3>2, StandingWanted
  <2> QED
    BY <1>2, <2>1, <2>2
<1>6. DiskTyped(dir', staged)
  BY <1>4, Counters DEF DiskTyped, Agree
<1>7. Typed'
  BY <1>1, <1>6 DEF WriterInv, Typed
<1>8. ASSUME NEW p \in Shells PROVE ShellInv(shells[p], dir', may', staged)
  <2>1. OutsiderInv(shells[p], dir, may) /\ dir \in may
    BY <1>1, OutsideFacts, Counters
  <2>2. OutsiderInv(shells[p], dir', may')
    BY <1>1, <1>5, <2>1 DEF OutsiderInv
  <2> QED
    BY <1>1, <2>2, ShellFacts DEF ShellInv
<1>9. WriterInv'
  BY <1>1, <1>7, <1>8 DEF WriterInv, Exclusive
<1>10. Remembers
  BY <1>1 DEF Remembers
<1>11. EvidenceStep
  BY <1>1, <1>5, <1>10, QuietStep, Counters
<1> QED
  BY <1>9, <1>11

----------------------------------------------------------------------------
(* The theorems.                                                           *)

LEMMA WriterInit == Init => WriterInv /\ Evidence!Init
<1> SUFFICES ASSUME Init PROVE WriterInv /\ Evidence!Init
  OBVIOUS
<1>1. PICK g \in {None, 1} :
        /\ dir = IF g = None THEN <<>> ELSE With(<<>>, Active, Whole(g))
        /\ staged = g
  BY DEF Init
<1>2. /\ may = {dir} /\ shells = [p \in Shells |-> Idle]
      /\ source = 0 /\ journaled = {} /\ reported = {} /\ faults = 0
  BY DEF Init
<1>3. g \in 0 .. 1 /\ g \in Numbers
  BY <1>1, BoundsAssumption DEF None, Numbers, BoundsAssumption
<1>4. \A n : ~Has(<<>>, n)
  BY DEF Has
<1>5. ~Has(dir, Journal) /\ InPlace(dir, g) /\ DiskTyped(dir, g)
  <2>1. CASE g = None
    BY <1>1, <1>4, <2>1 DEF InPlace, DiskTyped
  <2>2. CASE g # None
    <3>1. dir = With(<<>>, Active, Whole(g)) /\ g = 1
      BY <1>1, <2>2
    <3>2. ~Has(dir, Journal) /\ Has(dir, Active) /\ dir[Active] = Whole(g)
      BY <1>4, <3>1, Names, WithFacts
    <3> QED
      BY <2>2, <3>1, <3>2 DEF InPlace, DiskTyped, Holds
  <2> QED
    BY <2>1, <2>2
<1>6. StandingIn(dir) = g
  BY <1>3, <1>5, StandsUnjournaled
<1>7. Typed
  BY <1>1, <1>2, <1>3, <1>5, IdleFacts, BoundsAssumption DEF Typed, BoundsAssumption
<1>8. Exclusive /\ \A p \in Shells : ShellInv(shells[p], dir, may, staged)
  BY <1>2, IdleFacts DEF Exclusive, Waits
<1>9. Evidence!Init
  <2>1. {StandingIn(d) : d \in may} = {StandingIn(dir)}
    BY <1>2
  <2> QED
    BY <1>2, <1>3, <1>6, <2>1 DEF Evidence!Init
<1> QED
  BY <1>7, <1>8, <1>9 DEF WriterInv

LEMMA WriterStep == WriterInv /\ [Next]_vars => WriterInv' /\ EvidenceStep
<1> SUFFICES ASSUME WriterInv, [Next]_vars PROVE WriterInv' /\ EvidenceStep
  OBVIOUS
<1>1. ASSUME NEW p \in Shells, CommandStep(p) PROVE WriterInv' /\ EvidenceStep
  BY <1>1, BuildKeeps, LockKeeps, RecoverKeeps, StageKeeps, FillKeeps, SyncKeeps, BeginKeeps,
     PublishKeeps, SettleKeeps, AdmitKeeps, ValidateKeeps, MoveKeeps, RemoveKeeps, PurgeKeeps,
     DiscardKeeps, UnjournalKeeps, ReleaseKeeps, ReportKeeps DEF CommandStep
<1>2. ASSUME NEW p \in Shells, Start(p) \/ Fail(p) \/ Kill(p) PROVE WriterInv' /\ EvidenceStep
  BY <1>2, StartKeeps, FailKeeps, KillKeeps
<1>3. CASE PowerLoss \/ EditSource
  BY <1>3, PowerLossKeeps, EditKeeps
<1>4. ASSUME NEW name \in DOMAIN dir, OperatorRemoves(name) PROVE WriterInv' /\ EvidenceStep
  BY <1>4, OperatorKeeps
<1>5. CASE UNCHANGED vars
  <2>1. UNCHANGED <<dir, may, shells, source, staged, journaled, reported, faults>>
    BY <1>5 DEF vars
  <2>2. WriterInv'
    BY <2>1 DEF WriterInv, Typed, Exclusive
  <2> QED
    BY <2>1, <2>2 DEF EvidenceStep, Evidence!vars
<1> QED
  BY <1>1, <1>2, <1>3, <1>4, <1>5 DEF Next

LEMMA WriterInvariant == Spec => []WriterInv
<1>1. Init => WriterInv
  BY WriterInit
<1>2. WriterInv /\ [Next]_vars => WriterInv'
  BY WriterStep
<1> QED
  BY <1>1, <1>2, PTL DEF Spec

\* The directory, the commands and the counters keep their types, and the
\* directory is one of the states a power loss may leave (check-final-evidence.mjs).
THEOREM WriterTypeOK == Spec => []TypeOK
<1>1. WriterInv => TypeOK
  <2> SUFFICES ASSUME WriterInv PROVE TypeOK
    OBVIOUS
  <2>1. Typed
    BY DEF WriterInv
  <2>2. Numbers = Generations \cup {None}
    BY BoundsAssumption DEF Numbers, Generations, None, BoundsAssumption
  <2> QED
    BY <2>1, <2>2 DEF Typed, TypeOK, Commands, Phases, Numbers
<1> QED
  BY <1>1, WriterInvariant, PTL

\* The writer implements EvidenceGenerations, whatever is killed, fails or loses
\* power: a generation stands or does not, the journal that says committed is
\* where the new one takes the place of the old, and one told to be written is
\* kept: a power loss leaves it, or a later one (installArtifactsAt).
THEOREM GenerationsImplemented == Spec => ImplementsGenerations
<1>1. Init => Evidence!Init
  BY WriterInit
<1>2. WriterInv /\ [Next]_vars => [Evidence!Next]_(Evidence!vars)
  BY WriterStep DEF EvidenceStep
<1> QED
  BY <1>1, <1>2, WriterInvariant, PTL DEF Spec, ImplementsGenerations, Evidence!Spec

\* The promise with its theorem, of the writer's directory.
Kept == INSTANCE EvidenceGenerationsProofs WITH
  standing <- StandingIn(dir), may <- {StandingIn(d) : d \in may}

\* Evidence a command reported as written stays, whatever fails or is killed
\* afterwards: in every directory a power loss may leave, a recovery ends with
\* that generation or one that took its place (main --write).
THEOREM WrittenStays == Spec => []Evidence!ReportedIsKept
<1>1. Generations \subseteq Nat
  BY BoundsAssumption DEF Generations, BoundsAssumption
<1>2. Kept!Spec => []Kept!ReportedIsKept
  BY <1>1, Kept!ReportedStays
<1>3. Kept!ReportedIsKept <=> Evidence!ReportedIsKept
  BY DEF Kept!ReportedIsKept, Evidence!ReportedIsKept
<1>4. Kept!Init <=> Evidence!Init
  BY DEF Kept!Init, Evidence!Init
<1>5. [Kept!Next]_(Kept!vars) <=> [Evidence!Next]_(Evidence!vars)
  BY DEF Kept!Next, Evidence!Next, Kept!vars, Evidence!vars, Kept!Commit, Evidence!Commit,
         Kept!Report, Evidence!Report, Kept!Settle, Evidence!Settle,
         Kept!PowerLoss, Evidence!PowerLoss
<1> QED
  BY <1>2, <1>3, <1>4, <1>5, GenerationsImplemented, PTL
     DEF ImplementsGenerations, Evidence!Spec, Kept!Spec

----------------------------------------------------------------------------
(* What is left of a generation, in a directory d, when those in done had  *)
(* their first journal written and synced.                                 *)

CleanupOf(role, g) == <<"cleanup", role, g>>

\* A recovery of d goes through, and none of its removals refuses.
Recoverable(d) ==
  LET j == d[Journal]
      g == j.gen
      moved == Has(d, Backup(g))
      away == Has(d, CleanupOf("active", g))
      spent == Has(d, CleanupOf("backup", g))
  IN /\ Has(d, Stage(g)) => Holds(d, Stage(g), g) /\ ~Has(d, CleanupOf("stage", g))
     /\ Has(d, CleanupOf("stage", g)) => d[CleanupOf("stage", g)].gen = g
     /\ moved => j.old # None /\ Holds(d, Backup(g), j.old) /\ ~spent
     /\ spent => j.old # None /\ j.state = "committed" /\ d[CleanupOf("backup", g)].gen = j.old
     /\ IF j.state = "committed" THEN ~away /\ Holds(d, Active, g)
        ELSE IF j.old # None /\ ~moved THEN ~away /\ Holds(d, Active, j.old)
        ELSE /\ Has(d, Active) => ~away /\ Holds(d, Active, g)
             /\ away => d[CleanupOf("active", g)].gen = g

\* A directory without a journal has nothing of a journaled generation.
Tidy(d, done) ==
  IF Has(d, Journal)
  THEN /\ Residue(d) \subseteq Own(d[Journal].gen)
       /\ d[Journal].gen \in done => Recoverable(d)
  ELSE \A name \in Residue(d) : name[Len(name)] \notin done

\* What a recovery still finds is pending.
RecoverySweeps(s, d) ==
  LET j == d[Journal]
      g == j.gen
      back == Move(Backup(g), Active, j.old)
      Removing(op, role) == {op, Purge(Cleanup(<<role, g>>))} \cap Pending(s) # {}
  IN /\ Has(d, Journal)
     /\ Has(d, Stage(g)) => RemoveStage(g) \in Pending(s)
     /\ Has(d, CleanupOf("stage", g)) => Removing(RemoveStage(g), "stage")
     /\ Has(d, CleanupOf("active", g)) => Removing(RemoveActive(g), "active")
     /\ Has(d, Backup(g)) => {RemoveBackup(g, j.old), back} \cap Pending(s) # {}
     /\ Has(d, CleanupOf("backup", g)) => Removing(RemoveBackup(g, j.old), "backup")
     /\ back \in Pending(s) => Has(d, Backup(g))

\* What an installation has made is where its pending operations expect it.
InstallHolds(s, d) ==
  LET aside == Move(Active, Backup(s.gen), s.old)
      forward == Move(Stage(s.gen), Active, s.gen)
      spent == CleanupOf("backup", s.gen)
  IN /\ Residue(d) \subseteq {Stage(s.gen), Backup(s.gen), spent}
     /\ Has(d, Stage(s.gen)) <=> forward \in Pending(s)
     /\ Waits(s, "fill") => s.phase = "staged" /\ forward \in Pending(s)
     /\ Writes(s, "prepared") => s.phase = "staged"
     /\ forward \in Pending(s) /\ ~Waits(s, "fill") => Holds(d, Stage(s.gen), s.gen)
     /\ IF aside \in Pending(s)
        THEN s.old # None /\ Holds(d, Active, s.old) /\ RemoveBackup(s.gen, s.old) \in Pending(s)
        ELSE forward \in Pending(s) => ~Has(d, Active)
     /\ Writes(s, "committed") =>
          /\ forward \notin Pending(s) => Holds(d, Active, s.gen)
          /\ s.old # None /\ aside \notin Pending(s) => Has(d, Backup(s.gen))
     /\ Has(d, Backup(s.gen)) =>
          /\ s.old # None /\ Holds(d, Backup(s.gen), s.old)
          /\ aside \notin Pending(s) /\ RemoveBackup(s.gen, s.old) \in Pending(s)
     /\ Has(d, spent) =>
          /\ s.old # None /\ d[spent].gen = s.old
          /\ ~Writes(s, "committed") /\ Waits(s, "unjournal")
          /\ RemoveBackup(s.gen, s.old) \notin Pending(s)
          /\ Purge(Cleanup(<<"backup", s.gen>>)) \in Pending(s)

HolderTidy(s, d, done) ==
  /\ s.phase = "staged" => s.gen \notin done
  /\ \A op \in Pending(s) : op[1] = "purge" => Has(d, op[2])
  /\ IF ~Waits(s, "stage") /\ ~s.failed THEN InstallHolds(s, d)
     ELSE IF Waits(s, "recover") THEN TRUE
     ELSE IF Waits(s, "unjournal") THEN RecoverySweeps(s, d)
     ELSE IF Waits(s, "stage") THEN Residue(d) = {}
     ELSE {Do("discard"), Purge(Stage(s.gen))} \cap Pending(s) # {} => s.gen \notin done

\* Of a shell: its command holds the lock, or has not staged anything yet.
ShellTidy(s, d, done) ==
  IF Waits(s, "release") THEN HolderTidy(s, d, done) ELSE Waits(s, "lock") => s.phase = "none"

TidyInv ==
  /\ journaled \subseteq 1 .. staged
  /\ \A d \in may : Tidy(d, journaled)
  /\ \A p \in Shells : ShellTidy(shells[p], dir, journaled)

----------------------------------------------------------------------------
(* Names of what is left, and directories that have the same left.         *)

LEMMA CleanupNames ==
  /\ \A role, g : Cleanup(<<role, g>>) = CleanupOf(role, g)
  /\ \A role, g : CleanupOf(role, g)[1] = "cleanup" /\ CleanupOf(role, g)[2] = role
                  /\ CleanupOf(role, g)[3] = g
<1>1. ASSUME NEW role, NEW g
      PROVE  Cleanup(<<role, g>>) = CleanupOf(role, g)
  <2> DEFINE S == {"cleanup", role, g}
  <2>1. /\ <<"cleanup">> \in Seq(S) /\ Len(<<"cleanup">>) = 1
        /\ <<role, g>> \in Seq(S) /\ Len(<<role, g>>) = 2
        /\ CleanupOf(role, g) \in Seq(S) /\ Len(CleanupOf(role, g)) = 3
    BY DEF CleanupOf
  <2>2. /\ <<"cleanup">> \o <<role, g>> \in Seq(S)
        /\ Len(<<"cleanup">> \o <<role, g>>) = 3
        /\ \A i \in 1 .. 3 : (<<"cleanup">> \o <<role, g>>)[i] =
             IF i <= 1 THEN <<"cleanup">>[i] ELSE <<role, g>>[i - 1]
    BY <2>1, ConcatProperties
  <2>3. \A i \in 1 .. 3 : (<<"cleanup">> \o <<role, g>>)[i] = CleanupOf(role, g)[i]
    <3>1. /\ (<<"cleanup">> \o <<role, g>>)[1] = "cleanup"
          /\ (<<"cleanup">> \o <<role, g>>)[2] = role
          /\ (<<"cleanup">> \o <<role, g>>)[3] = g
      BY <2>2
    <3>2. /\ CleanupOf(role, g)[1] = "cleanup" /\ CleanupOf(role, g)[2] = role
          /\ CleanupOf(role, g)[3] = g
      BY DEF CleanupOf
    <3>3. 1 .. 3 = {1, 2, 3}
      OBVIOUS
    <3> QED
      BY <3>1, <3>2, <3>3
  <2> QED
    BY <2>1, <2>2, <2>3, SeqEqual DEF Cleanup
<1>2. \A role, g : CleanupOf(role, g)[1] = "cleanup" /\ CleanupOf(role, g)[2] = role
                   /\ CleanupOf(role, g)[3] = g
  BY DEF CleanupOf
<1> QED
  BY <1>1, <1>2

\* The generation a name ends with.
LEMMA LastNames ==
  ASSUME NEW g
  PROVE  /\ Stage(g)[Len(Stage(g))] = g /\ Backup(g)[Len(Backup(g))] = g
         /\ \A role : CleanupOf(role, g)[Len(CleanupOf(role, g))] = g
<1>1. Len(Stage(g)) = 2 /\ Len(Backup(g)) = 2 /\ \A role : Len(CleanupOf(role, g)) = 3
  BY DEF Stage, Backup, CleanupOf
<1> QED
  BY <1>1 DEF Stage, Backup, CleanupOf

LEMMA OwnNames ==
  ASSUME NEW g
  PROVE  /\ Own(g) = {Stage(g), Backup(g), CleanupOf("stage", g), CleanupOf("active", g),
                      CleanupOf("backup", g)}
         /\ \A name \in Own(g) : name[Len(name)] = g
<1>1. Own(g) = {Stage(g), Backup(g), CleanupOf("stage", g), CleanupOf("active", g),
                CleanupOf("backup", g)}
  BY DEF Own, CleanupOf
<1> QED
  BY <1>1, LastNames

\* What directories say of residues, of the generation in place and of the journal.
Alike(d, e) == \A name : name[1] \notin {"lock", "journal-write"} => Agree(d, e, name)

LEMMA ResidueIs ==
  ASSUME NEW d, NEW name
  PROVE  name \in Residue(d) <=> Has(d, name) /\ name[1] \in {"stage", "backup", "cleanup"}
BY DEF Residue, Has

LEMMA AlikeFacts ==
  ASSUME NEW d, NEW e, Alike(d, e)
  PROVE  /\ Residue(e) = Residue(d)
         /\ \A name : name[1] \notin {"lock", "journal-write"} =>
              /\ Has(e, name) <=> Has(d, name)
              /\ Has(d, name) => e[name] = d[name]
              /\ \A g : Holds(e, name, g) <=> Holds(d, name, g)
         /\ Has(e, Journal) <=> Has(d, Journal)
         /\ Has(d, Journal) => e[Journal] = d[Journal]
<1>1. \A name : name[1] \notin {"lock", "journal-write"} =>
        /\ Has(e, name) <=> Has(d, name)
        /\ Has(d, name) => e[name] = d[name]
        /\ \A g : Holds(e, name, g) <=> Holds(d, name, g)
  BY DEF Alike, Agree, Holds
<1>2. Residue(e) = Residue(d)
  <2>1. \A name : name \in Residue(e) <=> name \in Residue(d)
    BY <1>1, ResidueIs
  <2> QED
    BY <2>1
<1>3. Journal[1] \notin {"lock", "journal-write"}
  BY Names
<1> QED
  BY <1>1, <1>2, <1>3

LEMMA AlikeRecovers ==
  ASSUME NEW d, NEW e, Alike(d, e), Has(d, Journal)
  PROVE  Recoverable(d) => Recoverable(e)
<1>1. /\ \A g : /\ Stage(g)[1] \notin {"lock", "journal-write"}
                /\ Backup(g)[1] \notin {"lock", "journal-write"}
      /\ \A role, g : CleanupOf(role, g)[1] \notin {"lock", "journal-write"}
      /\ Active[1] \notin {"lock", "journal-write"}
  BY Names, CleanupNames
<1>2. e[Journal] = d[Journal]
  BY AlikeFacts
<1> DEFINE g == d[Journal].gen
<1>3. /\ \A name \in {Stage(g), Backup(g), Active, CleanupOf("stage", g), CleanupOf("active", g),
                      CleanupOf("backup", g)} :
           /\ Has(e, name) <=> Has(d, name)
           /\ Has(d, name) => e[name] = d[name]
           /\ \A h : Holds(e, name, h) <=> Holds(d, name, h)
  BY <1>1, AlikeFacts
<1> QED
  BY <1>2, <1>3 DEF Recoverable

LEMMA AlikeTidy ==
  ASSUME NEW d, NEW e, Alike(d, e), NEW done, Tidy(d, done)
  PROVE  Tidy(e, done)
<1>1. /\ Residue(e) = Residue(d)
      /\ Has(e, Journal) <=> Has(d, Journal)
      /\ Has(d, Journal) => e[Journal] = d[Journal]
  BY AlikeFacts
<1> QED
  BY <1>1, AlikeRecovers DEF Tidy

\* What a command in the lock knows, it knows of every directory like its own.
LEMMA AlikeHolder ==
  ASSUME NEW d, NEW e, Alike(d, e), NEW done, NEW s \in Commands, HolderTidy(s, d, done)
  PROVE  HolderTidy(s, e, done)
<1> DEFINE j == d[Journal]
           g == j.gen
<1>1. /\ \A h : /\ Stage(h)[1] \notin {"lock", "journal-write"}
                /\ Backup(h)[1] \notin {"lock", "journal-write"}
      /\ \A role, h : CleanupOf(role, h)[1] \notin {"lock", "journal-write"}
      /\ Active[1] \notin {"lock", "journal-write"}
  BY Names, CleanupNames
<1>2. /\ Residue(e) = Residue(d)
      /\ \A name : name[1] \notin {"lock", "journal-write"} =>
           /\ Has(e, name) <=> Has(d, name)
           /\ Has(d, name) => e[name] = d[name]
           /\ \A h : Holds(e, name, h) <=> Holds(d, name, h)
      /\ Has(d, Journal) => e[Journal] = d[Journal]
  BY AlikeFacts
<1>3. \A op \in Pending(s) : op[1] = "purge" => Has(e, op[2])
  <2> SUFFICES ASSUME NEW op \in Pending(s), op[1] = "purge" PROVE Has(e, op[2])
    OBVIOUS
  <2>1. PICK name : op = Purge(name) /\ name[1] \in {"stage", "cleanup"}
    BY PendingOps, OpKinds
  <2>2. op[2] = name /\ Has(d, name)
    BY <2>1 DEF HolderTidy, Purge
  <2> QED
    BY <1>2, <2>1, <2>2
<1>4. ASSUME RecoverySweeps(s, d) PROVE RecoverySweeps(s, e)
  <2>1. /\ Has(e, Journal) /\ e[Journal] = d[Journal]
        /\ Has(e, Stage(g)) <=> Has(d, Stage(g))
        /\ Has(e, Backup(g)) <=> Has(d, Backup(g))
        /\ \A role : Has(e, CleanupOf(role, g)) <=> Has(d, CleanupOf(role, g))
    BY <1>1, <1>2, <1>4, AlikeFacts DEF RecoverySweeps
  <2> QED
    BY <1>4, <2>1 DEF RecoverySweeps
<1>5. ASSUME InstallHolds(s, d) PROVE InstallHolds(s, e)
  <2>1. \A name \in {Stage(s.gen), Backup(s.gen), Active, CleanupOf("backup", s.gen)} :
          /\ Has(e, name) <=> Has(d, name)
          /\ Has(d, name) => e[name] = d[name]
          /\ \A h : Holds(e, name, h) <=> Holds(d, name, h)
    BY <1>1, <1>2
  <2> QED
    BY <1>2, <1>5, <2>1 DEF InstallHolds
<1> QED
  BY <1>2, <1>3, <1>4, <1>5 DEF HolderTidy

----------------------------------------------------------------------------
(* Steps of one command, and commands that are cut off.                    *)

LEMMA TidyFacts ==
  ASSUME WriterInv, TidyInv
  PROVE  /\ Tidy(dir, journaled) /\ dir \in may
         /\ \A p \in Shells : ShellTidy(shells[p], dir, journaled)
         /\ \A p \in Shells : Waits(shells[p], "release") => HolderTidy(shells[p], dir, journaled)
         /\ journaled \subseteq 1 .. staged
<1>1. dir \in may
  BY Counters
<1> QED
  BY <1>1 DEF TidyInv, ShellTidy

LEMMA HolderTidies ==
  ASSUME WriterInv, TidyInv, NEW p \in Shells, Waits(shells[p], "release"), Remembers,
         NEW s, shells' = [shells EXCEPT ![p] = s], journaled' = journaled,
         staged' \in Nat, staged <= staged',
         Tidy(dir', journaled), ShellTidy(s, dir', journaled)
  PROVE  TidyInv'
<1>1. journaled' \subseteq 1 .. staged'
  BY Counters, TidyFacts
<1>2. \A d \in may' : Tidy(d, journaled')
  BY DEF TidyInv, Remembers
<1>3. ASSUME NEW q \in Shells PROVE ShellTidy(shells'[q], dir', journaled')
  <2>1. shells \in [Shells -> Commands]
    BY DEF WriterInv, Typed
  <2>2. CASE q = p
    BY <2>1, <2>2
  <2>3. CASE q # p
    <3>1. shells'[q] = shells[q] /\ ~Waits(shells[q], "release")
      BY <2>1, <2>3 DEF WriterInv, Exclusive
    <3>2. ShellTidy(shells[q], dir, journaled)
      BY TidyFacts
    <3> QED
      BY <3>1, <3>2 DEF ShellTidy
  <2> QED
    BY <2>2, <2>3
<1> QED
  BY <1>1, <1>2, <1>3 DEF TidyInv

LEMMA OutsiderTidies ==
  ASSUME WriterInv, TidyInv, NEW p \in Shells, Remembers, Alike(dir, dir'),
         NEW s, shells' = [shells EXCEPT ![p] = s], journaled' = journaled, staged' = staged,
         ShellTidy(s, dir', journaled)
  PROVE  TidyInv'
<1>1. journaled' \subseteq 1 .. staged'
  BY TidyFacts
<1>2. Tidy(dir', journaled)
  BY TidyFacts, AlikeTidy
<1>3. \A d \in may' : Tidy(d, journaled')
  BY <1>2 DEF TidyInv, Remembers
<1>4. ASSUME NEW q \in Shells PROVE ShellTidy(shells'[q], dir', journaled')
  <2>1. shells \in [Shells -> Commands]
    BY DEF WriterInv, Typed
  <2>2. CASE q = p
    BY <2>1, <2>2
  <2>3. CASE q # p
    <3>1. shells'[q] = shells[q] /\ shells[q] \in Commands
      BY <2>1, <2>3
    <3>2. ShellTidy(shells[q], dir, journaled)
      BY TidyFacts
    <3>3. HolderTidy(shells[q], dir, journaled) => HolderTidy(shells[q], dir', journaled)
      BY <3>1, AlikeHolder
    <3> QED
      BY <3>1, <3>2, <3>3 DEF ShellTidy
  <2> QED
    BY <2>2, <2>3
<1> QED
  BY <1>1, <1>3, <1>4 DEF TidyInv

LEMMA IdleTidy == \A d, done : ShellTidy(Idle, d, done)
BY IdleFacts DEF ShellTidy, Waits

\* A command that is cut off has at most a stage to discard that was never journaled.
LEMMA ThrownTidy ==
  ASSUME WriterInv, TidyInv, NEW p \in Shells, NEW d, NEW e
  PROVE  ShellTidy(Thrown(p, d), e, journaled)
<1> DEFINE o == shells[p]
           t == Thrown(p, d)
<1>1. o \in Commands /\ (Holding(p) <=> Waits(o, "release"))
  BY ShellFacts
<1>2. CASE t = Idle
  BY <1>2, IdleTidy
<1>3. CASE t # Idle
  <2>1. Waits(o, "release") /\ HolderTidy(o, dir, journaled)
    BY <1>1, <1>3, TidyFacts DEF Thrown
  <2>2. o.phase = "staged" => o.gen \notin journaled
    BY <2>1 DEF HolderTidy
  <2>3. \/ t = [o EXCEPT !.failed = TRUE, !.phase = "none", !.todo = <<Do("recover"), Do("release")>>]
        \/ /\ o.phase = "staged"
           /\ t = [o EXCEPT !.failed = TRUE, !.phase = "none",
                            !.todo = <<Do("discard"), Do("release")>>]
        \/ t = [o EXCEPT !.failed = TRUE, !.phase = o.phase, !.todo = <<Do("release")>>]
    BY <1>1, <1>3 DEF Thrown, Commands
  <2>4. /\ t.failed = TRUE /\ t.gen = o.gen /\ t.phase \in {"none", o.phase}
        /\ \/ t.todo = <<Do("recover"), Do("release")>>
           \/ o.phase = "staged" /\ t.todo = <<Do("discard"), Do("release")>>
           \/ t.todo = <<Do("release")>>
    BY <1>1, <2>3 DEF Commands
  <2>5. /\ Do("release") \in Ops /\ Do("recover") \in Ops /\ Do("discard") \in Ops
        /\ Before(Do("recover"), Do("release")) /\ Before(Do("discard"), Do("release"))
    BY OpsAre, RankOf DEF Plain, Before
  <2>6. /\ Range(<<Do("recover"), Do("release")>>) = {Do("recover"), Do("release")}
        /\ Range(<<Do("discard"), Do("release")>>) = {Do("discard"), Do("release")}
        /\ Range(<<Do("release")>>) = {Do("release")}
    BY <2>5, PairFacts, OneFacts
  <2> HIDE DEF t
  <2>7. \/ Pending(t) = {Do("recover"), Do("release")}
        \/ o.phase = "staged" /\ Pending(t) = {Do("discard"), Do("release")}
        \/ Pending(t) = {Do("release")}
    BY <2>4, <2>6 DEF Pending
  <2>8. \A op \in Pending(t) : op[1] \in {"recover", "discard", "release"}
    BY <2>7, Tags
  <2>9. /\ ~Waits(t, "unjournal") /\ ~Waits(t, "stage")
        /\ Purge(Stage(t.gen)) \notin Pending(t)
        /\ Do("discard") \in Pending(t) => o.phase = "staged"
    <3>1. Do("discard") \notin {Do("recover"), Do("release")}
      BY DEF Do
    <3> QED
      BY <2>7, <2>8, <3>1, Tags DEF Waits
  <2>10. HolderTidy(t, e, journaled)
    BY <2>2, <2>4, <2>8, <2>9 DEF HolderTidy
  <2>11. Waits(t, "release")
    BY <2>7 DEF Waits
  <2> QED
    BY <2>10, <2>11 DEF ShellTidy, t
<1> QED
  BY <1>2, <1>3

LEMMA UnmovedAlike ==
  ASSUME UNCHANGED dir
  PROVE  Alike(dir, dir')
BY DEF Alike, Agree

LEMMA QuietThrowTidies ==
  ASSUME WriterInv, TidyInv, NEW p \in Shells, Throws(p), UNCHANGED <<dir, may>>,
         journaled' = journaled, staged' = staged
  PROVE  TidyInv'
<1>1. shells' = [shells EXCEPT ![p] = Thrown(p, dir)]
  BY DEF Throws
<1>2. Remembers /\ Alike(dir, dir')
  BY Unmoved, UnmovedAlike
<1> QED
  BY <1>1, <1>2, ThrownTidy, OutsiderTidies

\* A shell's command with other operations to make.
LEMMA ReplacedToo ==
  ASSUME WriterInv, NEW p \in Shells, NEW t \in Seq(Ops)
  PROVE  LET s == [shells[p] EXCEPT !.todo = t]
         IN /\ s \in Commands /\ Pending(s) = Range(t)
            /\ s.gen = shells[p].gen /\ s.old = shells[p].old /\ s.failed = shells[p].failed
            /\ s.phase = shells[p].phase
            /\ GoesOn(p, t) => shells' = [shells EXCEPT ![p] = s]
<1>1. shells \in [Shells -> Commands]
  BY DEF WriterInv, Typed
<1> QED
  BY <1>1 DEF Commands, Pending, GoesOn

----------------------------------------------------------------------------
(* Outside the lock, and what cuts a command off.                          *)

LEMMA StartTidies ==
  ASSUME WriterInv, TidyInv, NEW p \in Shells, Start(p)
  PROVE  TidyInv'
<1> DEFINE s == [Idle EXCEPT !.todo = WriteCommand, !.seen = source]
<1>1. /\ shells' = [shells EXCEPT ![p] = s] /\ UNCHANGED <<dir, may>>
      /\ journaled' = journaled /\ staged' = staged
  BY DEF Start, History
<1>2. Remembers /\ Alike(dir, dir')
  BY <1>1, Unmoved, UnmovedAlike
<1>3. s.todo = WriteCommand /\ s.phase = "none"
  BY DEF Idle
<1> HIDE DEF s
<1>4. ~Waits(s, "release")
  <2>1. \A i \in DOMAIN WriteCommand : WriteCommand[i] # Do("release")
    BY DEF WriteCommand, Do
  <2> QED
    BY <1>3, <2>1 DEF Waits, Pending, Range
<1>5. ShellTidy(s, dir', journaled)
  BY <1>3, <1>4 DEF ShellTidy
<1> QED
  BY <1>1, <1>2, <1>5, OutsiderTidies

LEMMA KillTidies ==
  ASSUME WriterInv, TidyInv, NEW p \in Shells, Kill(p)
  PROVE  TidyInv'
<1>1. /\ shells' = [shells EXCEPT ![p] = Idle] /\ UNCHANGED <<dir, may>>
      /\ journaled' = journaled /\ staged' = staged
  BY DEF Kill, History
<1>2. Remembers /\ Alike(dir, dir')
  BY <1>1, Unmoved, UnmovedAlike
<1> QED
  BY <1>1, <1>2, IdleTidy, OutsiderTidies

LEMMA FailTidies ==
  ASSUME WriterInv, TidyInv, NEW p \in Shells, Fail(p)
  PROVE  TidyInv'
<1>1. PICK d \in Leaves(p) : Becomes(d) /\ shells' = [shells EXCEPT ![p] = Thrown(p, d)]
  BY DEF Fail
<1>2. journaled' = journaled /\ staged' = staged
  BY DEF Fail, History
<1>3. Remembers
  BY <1>1 DEF Becomes, Remembers
<1>4. Alike(dir, d)
  <2>1. \/ d = dir
        \/ \E content : d = With(dir, JournalWrite, content)
        \/ d = Without(dir, JournalWrite)
        \/ d = With(dir, LockFile, TRUE)
    BY DEF Leaves
  <2>2. \A name : name[1] \notin {"lock", "journal-write"} => name # JournalWrite /\ name # LockFile
    BY Names
  <2>3. \A name : name[1] \notin {"lock", "journal-write"} =>
          /\ \A content : Agree(dir, With(dir, JournalWrite, content), name)
          /\ Agree(dir, With(dir, LockFile, TRUE), name)
          /\ Agree(dir, Without(dir, JournalWrite), name)
    BY <2>2, AgreeElsewhere
  <2>4. CASE d = dir
    BY <2>4 DEF Alike, Agree
  <2> QED
    BY <2>1, <2>3, <2>4 DEF Alike
<1> QED
  BY <1>1, <1>2, <1>3, <1>4, ThrownTidy, OutsiderTidies DEF Becomes

LEMMA PowerLossTidies ==
  ASSUME WriterInv, TidyInv, PowerLoss
  PROVE  TidyInv'
<1>1. /\ dir' \in may /\ may' = {dir'} /\ shells' = [p \in Shells |-> Idle]
      /\ journaled' = journaled /\ staged' = staged
  BY DEF PowerLoss, History
<1> QED
  BY <1>1, IdleTidy DEF TidyInv

LEMMA EditTidies ==
  ASSUME WriterInv, TidyInv, EditSource
  PROVE  TidyInv'
BY DEF EditSource, History, TidyInv

\* What an operator removes is nothing a recovery needs.
LEMMA OperatorTidies ==
  ASSUME WriterInv, TidyInv, NEW name \in DOMAIN dir, OperatorRemoves(name)
  PROVE  TidyInv'
<1>1. /\ dir' = Without(dir, name) /\ may' = may \cup {dir'} /\ shells' = shells
      /\ journaled' = journaled /\ staged' = staged
      /\ \A p \in Shells : ~Waits(shells[p], "release")
  BY ShellFacts DEF OperatorRemoves, Becomes, History
<1>2. Tidy(dir, journaled)
  BY TidyFacts
<1>3. /\ \A n : Has(dir', n) <=> n # name /\ Has(dir, n)
      /\ \A n : n # name /\ Has(dir, n) => dir'[n] = dir[n]
  BY <1>1, WithoutFacts
<1>4. Residue(dir') = Residue(dir) \ {name}
  <2>1. \A n : n \in Residue(dir') <=> n \in Residue(dir) \ {name}
    BY <1>3, ResidueIs
  <2> QED
    BY <2>1
<1>5. Tidy(dir', journaled)
  <2>1. CASE name \in {LockFile, JournalWrite}
    <3>1. \A n : n[1] \notin {"lock", "journal-write"} => n # name
      BY <2>1, Names
    <3>2. Alike(dir, dir')
      BY <1>3, <3>1 DEF Alike, Agree
    <3> QED
      BY <1>2, <3>2, AlikeTidy
  <2>2. CASE name \in Residue(dir) /\ ~Has(dir, Journal)
    BY <1>2, <1>3, <1>4, <2>2 DEF Tidy
  <2>3. CASE name[1] = "stage" /\ ~dir[name].whole /\ Has(dir, Journal)
    <3> DEFINE g == dir[Journal].gen
    <3>1. Has(dir', Journal) /\ dir'[Journal] = dir[Journal]
      BY <1>3, <2>3, Names
    <3>2. name \in Residue(dir)
      BY <2>3, ResidueIs DEF Has
    <3>3. name = Stage(g)
      <4>1. name \in Own(g)
        BY <1>2, <2>3, <3>2 DEF Tidy
      <4> QED
        BY <2>3, <4>1, OwnNames, Names, CleanupNames
    <3>4. ~Holds(dir, Stage(g), g)
      BY <2>3, <3>3 DEF Holds, Whole
    <3>5. ~Recoverable(dir)
      BY <3>2, <3>3, <3>4, ResidueIs DEF Recoverable
    <3> QED
      BY <1>2, <1>4, <2>3, <3>1, <3>5 DEF Tidy
  <2>4. CASE name[1] = "stage" /\ ~Has(dir, Journal)
    BY <2>2, <2>4, ResidueIs DEF Has
  <2> QED
    BY <2>1, <2>2, <2>3, <2>4 DEF OperatorRemoves
<1>6. \A p \in Shells : ShellTidy(shells[p], dir', journaled)
  BY <1>1, TidyFacts DEF ShellTidy
<1> QED
  BY <1>1, <1>5, <1>6, TidyFacts DEF TidyInv

----------------------------------------------------------------------------
(* In the lock: an installation.                                           *)

\* The journal of an installation is its own, and says committed once it is.
LEMMA InstallJournal ==
  ASSUME NEW s, NEW d, NEW m, NEW n, InstallInv(s, d, m, n)
  PROVE  /\ Writes(s, "committed") =>
              IF Writes(s, "prepared") THEN ~Has(d, Journal)
              ELSE OwnJournal(d, s.gen, s.old) /\ d[Journal].state # "committed"
         /\ ~Writes(s, "committed") =>
              /\ \A from, to, k : Move(from, to, k) \notin Pending(s)
              /\ RemoveBackup(s.gen, s.old) \in Pending(s) => Waits(s, "unjournal")
              /\ Holds(d, Active, s.gen)
              /\ IF Waits(s, "unjournal")
                 THEN OwnJournal(d, s.gen, s.old) /\ d[Journal].state = "committed"
                 ELSE ~Has(d, Journal)
<1>1. CASE Writes(s, "committed")
  BY <1>1 DEF InstallInv, UncommittedInv
<1>2. CASE ~Writes(s, "committed")
  <2>1. CommittedInv(s, d)
    BY <1>2 DEF InstallInv
  <2>2. \A from, to, k : Move(from, to, k)[1] = "move"
    BY DEF Move
  <2>3. \A from, to, k : Move(from, to, k) \notin Pending(s)
    BY <2>1, <2>2, Tags DEF CommittedInv
  <2> QED
    BY <1>2, <2>1, <2>3 DEF CommittedInv
<1> QED
  BY <1>1, <1>2

\* What an installation knows of its directory is enough for a recovery of it.
LEMMA InstallTidy ==
  ASSUME NEW s, NEW d, NEW m, NEW n, NEW done, InstallInv(s, d, m, n), InstallHolds(s, d),
         s.phase = "staged" => s.gen \notin done
  PROVE  Tidy(d, done)
<1> DEFINE g == s.gen
           aside == Move(Active, Backup(g), s.old)
           forward == Move(Stage(g), Active, g)
           spent == CleanupOf("backup", g)
<1>1. Residue(d) \subseteq {Stage(g), Backup(g), spent}
  BY DEF InstallHolds
<1>2. /\ ~Has(d, CleanupOf("stage", g)) /\ ~Has(d, CleanupOf("active", g))
  <2>1. \A role \in {"stage", "active"} : CleanupOf(role, g) \notin {Stage(g), Backup(g), spent}
    BY CleanupNames, Names
  <2>2. \A role : CleanupOf(role, g)[1] \in {"stage", "backup", "cleanup"}
    BY CleanupNames
  <2> QED
    BY <1>1, <2>1, <2>2, ResidueIs
<1>3. CASE Has(d, Journal)
  <2>1. OwnJournal(d, g, s.old)
    BY <1>3, InstallJournal
  <2>2. Residue(d) \subseteq Own(d[Journal].gen)
    BY <1>1, <2>1, OwnNames DEF OwnJournal
  <2>3. ASSUME g \in done PROVE Recoverable(d)
    <3>1. ~Waits(s, "fill")
      BY <2>3 DEF InstallHolds
    <3>2. Has(d, Stage(g)) => Holds(d, Stage(g), g)
      BY <3>1 DEF InstallHolds
    <3>3. Has(d, Backup(g)) => s.old # None /\ Holds(d, Backup(g), s.old) /\ ~Has(d, spent)
      BY DEF InstallHolds
    <3>4. CASE Writes(s, "committed")
      <4>1. d[Journal].state # "committed"
        BY <1>3, <3>4, InstallJournal
      <4>2. ~Has(d, spent)
        BY <3>4 DEF InstallHolds
      <4>3. s.old # None /\ ~Has(d, Backup(g)) => Holds(d, Active, s.old)
        BY <3>4 DEF InstallHolds
      <4>4. s.old = None \/ Has(d, Backup(g)) => (Has(d, Active) => Holds(d, Active, g))
        BY <3>4 DEF InstallHolds
      <4> QED
        BY <1>2, <2>1, <3>2, <3>3, <4>1, <4>2, <4>3, <4>4 DEF Recoverable, OwnJournal
    <3>5. CASE ~Writes(s, "committed")
      <4>1. d[Journal].state = "committed" /\ Holds(d, Active, g)
        BY <1>3, <3>5, InstallJournal
      <4>2. Has(d, spent) => s.old # None /\ d[spent].gen = s.old
        BY DEF InstallHolds
      <4> QED
        BY <1>2, <2>1, <3>2, <3>3, <4>1, <4>2 DEF Recoverable, OwnJournal
    <3> QED
      BY <3>4, <3>5
  <2> QED
    BY <1>3, <2>1, <2>2, <2>3 DEF Tidy, OwnJournal
<1>4. CASE ~Has(d, Journal)
  <2>1. CASE Writes(s, "committed")
    <3>1. Writes(s, "prepared")
      BY <1>4, <2>1, InstallJournal DEF OwnJournal
    <3>2. g \notin done
      BY <3>1 DEF InstallHolds
    <3>3. \A name \in Residue(d) : name[Len(name)] = g
      BY <1>1, LastNames
    <3> QED
      BY <1>4, <3>2, <3>3 DEF Tidy
  <2>2. CASE ~Writes(s, "committed")
    <3>1. ~Waits(s, "unjournal") /\ forward \notin Pending(s) /\ RemoveBackup(g, s.old) \notin Pending(s)
      BY <1>4, <2>2, InstallJournal DEF OwnJournal
    <3>2. ~Has(d, Stage(g)) /\ ~Has(d, Backup(g)) /\ ~Has(d, spent)
      BY <3>1 DEF InstallHolds
    <3>3. Residue(d) = {}
      BY <1>1, <3>2, ResidueIs
    <3> QED
      BY <1>4, <3>3 DEF Tidy
  <2> QED
    BY <2>1, <2>2
<1> QED
  BY <1>3, <1>4

\* Which of the two a command in the lock is.
LEMMA Installing ==
  ASSUME WriterInv, TidyInv, NEW p \in Shells, Waits(shells[p], "release"),
         ~Waits(shells[p], "stage"), ~shells[p].failed
  PROVE  /\ InstallInv(shells[p], dir, may, staged) /\ InstallHolds(shells[p], dir)
         /\ shells[p].phase = "staged" => shells[p].gen \notin journaled
         /\ \A op \in Pending(shells[p]) : op[1] = "purge" => Has(dir, op[2])
BY HolderFacts, TidyFacts DEF HolderTidy

LEMMA InstallTidies ==
  ASSUME WriterInv, TidyInv, WriterInv', NEW p \in Shells, Waits(shells[p], "release"),
         ~Waits(shells[p], "stage"), ~shells[p].failed, Remembers,
         NEW s, shells' = [shells EXCEPT ![p] = s], journaled' = journaled, staged' = staged,
         s.gen = shells[p].gen, s.failed = shells[p].failed, s.phase = shells[p].phase,
         Waits(s, "release"), ~Waits(s, "stage"), InstallHolds(s, dir'),
         \A op \in Pending(s) : op[1] = "purge" => Has(dir', op[2])
  PROVE  TidyInv'
<1>1. shells'[p] = s
  BY DEF WriterInv, Typed
<1>2. ShellInv(s, dir', may', staged')
  BY <1>1 DEF WriterInv
<1>3. InstallInv(s, dir', may', staged')
  BY <1>2 DEF ShellInv
<1>4. s.phase = "staged" => s.gen \notin journaled
  BY Installing
<1>5. Tidy(dir', journaled)
  BY <1>3, <1>4, InstallTidy
<1>6. ShellTidy(s, dir', journaled)
  BY <1>4 DEF ShellTidy, HolderTidy
<1>7. staged' \in Nat /\ staged <= staged'
  BY Counters
<1> QED
  BY <1>5, <1>6, <1>7, HolderTidies

\* The operations that what is left says something of, and the names.
Sweeping == {"move", "remove", "purge", "unjournal", "fill"}
Alongside(d, e) == \A name : name[1] \in {"active", "stage", "backup", "cleanup"} => Agree(d, e, name)

LEMMA AlongsideFacts ==
  ASSUME NEW d, NEW e, Alongside(d, e)
  PROVE  /\ Residue(e) = Residue(d)
         /\ \A name : name[1] \in {"active", "stage", "backup", "cleanup"} =>
              /\ Has(e, name) <=> Has(d, name)
              /\ Has(d, name) => e[name] = d[name]
              /\ \A g : Holds(e, name, g) <=> Holds(d, name, g)
<1>1. \A name : name[1] \in {"active", "stage", "backup", "cleanup"} =>
        /\ Has(e, name) <=> Has(d, name)
        /\ Has(d, name) => e[name] = d[name]
        /\ \A g : Holds(e, name, g) <=> Holds(d, name, g)
  BY DEF Alongside, Agree, Holds
<1>2. \A name : name \in Residue(e) <=> name \in Residue(d)
  BY <1>1, ResidueIs
<1> QED
  BY <1>1, <1>2

LEMMA InstallHoldsOn ==
  ASSUME NEW o, NEW s, NEW d, NEW e, Alongside(d, e), InstallHolds(o, d),
         s.gen = o.gen, s.old = o.old,
         \A op : op[1] \in Sweeping => (op \in Pending(s) <=> op \in Pending(o)),
         Writes(s, "committed") => Writes(o, "committed"),
         Writes(s, "prepared") => Writes(o, "prepared"),
         s.phase = o.phase \/ (~Waits(s, "fill") /\ ~Writes(s, "prepared"))
  PROVE  InstallHolds(s, e)
<1> DEFINE g == o.gen
           aside == Move(Active, Backup(g), o.old)
           forward == Move(Stage(g), Active, g)
           spent == CleanupOf("backup", g)
           P == {aside, forward, RemoveBackup(g, o.old), Purge(Cleanup(<<"backup", g>>)),
                 Do("fill"), Do("unjournal")}
<1>1. \A op \in P : op \in Pending(s) <=> op \in Pending(o)
  BY Tags DEF Sweeping
<1>2. /\ Residue(e) = Residue(d)
      /\ \A name \in {Stage(g), Backup(g), Active, spent} :
           /\ Has(e, name) <=> Has(d, name)
           /\ Has(d, name) => e[name] = d[name]
           /\ \A h : Holds(e, name, h) <=> Holds(d, name, h)
  BY AlongsideFacts, Names, CleanupNames
<1>3. /\ Residue(d) \subseteq {Stage(g), Backup(g), spent}
      /\ Has(d, Stage(g)) <=> forward \in Pending(o)
      /\ Waits(o, "fill") => o.phase = "staged" /\ forward \in Pending(o)
      /\ Writes(o, "prepared") => o.phase = "staged"
      /\ forward \in Pending(o) /\ ~Waits(o, "fill") => Holds(d, Stage(g), g)
      /\ IF aside \in Pending(o)
         THEN o.old # None /\ Holds(d, Active, o.old) /\ RemoveBackup(g, o.old) \in Pending(o)
         ELSE forward \in Pending(o) => ~Has(d, Active)
      /\ Writes(o, "committed") =>
           /\ forward \notin Pending(o) => Holds(d, Active, g)
           /\ o.old # None /\ aside \notin Pending(o) => Has(d, Backup(g))
      /\ Has(d, Backup(g)) =>
           /\ o.old # None /\ Holds(d, Backup(g), o.old)
           /\ aside \notin Pending(o) /\ RemoveBackup(g, o.old) \in Pending(o)
      /\ Has(d, spent) =>
           /\ o.old # None /\ d[spent].gen = o.old
           /\ ~Writes(o, "committed") /\ Waits(o, "unjournal")
           /\ RemoveBackup(g, o.old) \notin Pending(o)
           /\ Purge(Cleanup(<<"backup", g>>)) \in Pending(o)
  BY DEF InstallHolds
<1>4. /\ aside \in Pending(s) <=> aside \in Pending(o)
      /\ forward \in Pending(s) <=> forward \in Pending(o)
      /\ RemoveBackup(g, o.old) \in Pending(s) <=> RemoveBackup(g, o.old) \in Pending(o)
      /\ Purge(Cleanup(<<"backup", g>>)) \in Pending(s) <=> Purge(Cleanup(<<"backup", g>>)) \in Pending(o)
      /\ Waits(s, "fill") <=> Waits(o, "fill")
      /\ Waits(s, "unjournal") <=> Waits(o, "unjournal")
  BY <1>1 DEF Waits
<1> HIDE DEF aside, forward, spent
<1>5. /\ Residue(e) \subseteq {Stage(g), Backup(g), spent}
      /\ Has(e, Stage(g)) <=> forward \in Pending(s)
      /\ Waits(s, "fill") => s.phase = "staged" /\ forward \in Pending(s)
      /\ Writes(s, "prepared") => s.phase = "staged"
      /\ forward \in Pending(s) /\ ~Waits(s, "fill") => Holds(e, Stage(g), g)
      /\ IF aside \in Pending(s)
         THEN o.old # None /\ Holds(e, Active, o.old) /\ RemoveBackup(g, o.old) \in Pending(s)
         ELSE forward \in Pending(s) => ~Has(e, Active)
  BY <1>2, <1>3, <1>4
<1>6. /\ Writes(s, "committed") =>
           /\ forward \notin Pending(s) => Holds(e, Active, g)
           /\ o.old # None /\ aside \notin Pending(s) => Has(e, Backup(g))
      /\ Has(e, Backup(g)) =>
           /\ o.old # None /\ Holds(e, Backup(g), o.old)
           /\ aside \notin Pending(s) /\ RemoveBackup(g, o.old) \in Pending(s)
      /\ Has(e, spent) =>
           /\ o.old # None /\ e[spent].gen = o.old
           /\ ~Writes(s, "committed") /\ Waits(s, "unjournal")
           /\ RemoveBackup(g, o.old) \notin Pending(s)
           /\ Purge(Cleanup(<<"backup", g>>)) \in Pending(s)
  BY <1>2, <1>3, <1>4
<1> QED
  BY <1>5, <1>6 DEF InstallHolds, aside, forward, spent

\* A purge that is pending has its directory, as long as those are left alone.
LEMMA PurgesOn ==
  ASSUME NEW o \in Commands, NEW s \in Commands, NEW d, NEW e, Alongside(d, e),
         \A op \in Pending(o) : op[1] = "purge" => Has(d, op[2]),
         \A op : op[1] = "purge" => (op \in Pending(s) => op \in Pending(o))
  PROVE  \A op \in Pending(s) : op[1] = "purge" => Has(e, op[2])
<1> SUFFICES ASSUME NEW op \in Pending(s), op[1] = "purge" PROVE Has(e, op[2])
  OBVIOUS
<1>1. PICK name : op = Purge(name) /\ name[1] \in {"stage", "cleanup"}
  BY PendingOps, OpKinds
<1>2. op[2] = name /\ Has(d, name)
  BY <1>1 DEF Purge
<1> QED
  BY <1>1, <1>2, AlongsideFacts

LEMMA InstallGoesOn ==
  ASSUME WriterInv, TidyInv, WriterInv', NEW p \in Shells, Waits(shells[p], "release"),
         ~Waits(shells[p], "stage"), ~shells[p].failed, Remembers, Alongside(dir, dir'),
         NEW s \in Commands, shells' = [shells EXCEPT ![p] = s],
         journaled' = journaled, staged' = staged,
         s.gen = shells[p].gen, s.old = shells[p].old, s.failed = shells[p].failed,
         s.phase = shells[p].phase,
         \A op : op[1] \in Sweeping \cup {"release", "stage"} =>
           (op \in Pending(s) <=> op \in Pending(shells[p])),
         Writes(s, "committed") => Writes(shells[p], "committed"),
         Writes(s, "prepared") => Writes(shells[p], "prepared")
  PROVE  TidyInv'
<1>1. /\ InstallHolds(shells[p], dir)
      /\ \A op \in Pending(shells[p]) : op[1] = "purge" => Has(dir, op[2])
  BY Installing
<1>2. InstallHolds(s, dir')
  BY <1>1, InstallHoldsOn
<1>3. \A op : op[1] = "purge" => (op \in Pending(s) => op \in Pending(shells[p]))
  BY DEF Sweeping
<1>4. \A op \in Pending(s) : op[1] = "purge" => Has(dir', op[2])
  <2>1. shells[p] \in Commands
    BY ShellFacts
  <2> QED
    BY <1>1, <1>3, <2>1, PurgesOn
<1>5. Waits(s, "release") /\ ~Waits(s, "stage")
  BY Tags DEF Waits
<1> QED
  BY <1>2, <1>4, <1>5, InstallTidies

LEMMA UnmovedAlongside ==
  ASSUME UNCHANGED dir
  PROVE  Alongside(dir, dir')
BY DEF Alongside, Agree

\* The phase of a command that only goes on.
LEMMA RestPhase ==
  ASSUME WriterInv, NEW p \in Shells, Running(p)
  PROVE  [shells[p] EXCEPT !.todo = Rest(p)].phase = shells[p].phase
<1>1. shells[p] \in Commands
  BY ShellFacts
<1> QED
  BY <1>1 DEF Commands

\* A step that leaves the directory alone, and nothing more to do of its own.
LEMMA InstallPasses ==
  ASSUME WriterInv, TidyInv, WriterInv', NEW p \in Shells, Running(p),
         Op(p)[1] \in {"sync", "admit", "validate"}, GoesOn(p, Rest(p)),
         Waits(shells[p], "release"), ~Waits(shells[p], "stage"), ~shells[p].failed,
         UNCHANGED dir, Remembers, journaled' = journaled, staged' = staged
  PROVE  TidyInv'
<1> DEFINE s == [shells[p] EXCEPT !.todo = Rest(p)]
<1>1. /\ s \in Commands /\ s.gen = shells[p].gen /\ s.old = shells[p].old
      /\ s.failed = shells[p].failed /\ shells' = [shells EXCEPT ![p] = s]
      /\ Pending(shells[p]) = {Op(p)} \cup Pending(s)
  BY RestFacts
<1>2. s.phase = shells[p].phase
  BY RestPhase
<1> HIDE DEF s
<1>3. \A op : op[1] \in Sweeping \cup {"release", "stage"} =>
        (op \in Pending(s) <=> op \in Pending(shells[p]))
  BY <1>1 DEF Sweeping
<1>4. \A state : Writes(s, state) => Writes(shells[p], state)
  BY <1>1 DEF Writes
<1> QED
  BY <1>1, <1>2, <1>3, <1>4, UnmovedAlongside, InstallGoesOn

LEMMA AdmitTidies ==
  ASSUME WriterInv, TidyInv, WriterInv', NEW p \in Shells, Admit(p)
  PROVE  TidyInv'
<1>1. /\ Running(p) /\ Op(p)[1] = "admit" /\ UNCHANGED <<dir, may>>
      /\ journaled' = journaled /\ staged' = staged
  BY DEF Admit, At, Checked, History
<1>2. CASE Throws(p)
  BY <1>1, <1>2, QuietThrowTidies
<1>3. CASE GoesOn(p, Rest(p))
  <2>1. Waits(shells[p], "release") /\ Op(p) \in Pending(shells[p])
    BY <1>1, InLock, Turn
  <2>2. ~RecoveryInv(shells[p], dir)
    BY <1>1, <2>1, RecoveryKinds
  <2>3. ~Waits(shells[p], "stage") /\ ~shells[p].failed
    BY <2>1, <2>2, HolderFacts
  <2>4. Remembers
    BY <1>1, Unmoved
  <2> QED
    BY <1>1, <1>3, <2>1, <2>3, <2>4, InstallPasses
<1> QED
  BY <1>2, <1>3 DEF Admit, Checked

LEMMA ValidateTidies ==
  ASSUME WriterInv, TidyInv, WriterInv', NEW p \in Shells, Validate(p)
  PROVE  TidyInv'
<1>1. /\ Running(p) /\ Op(p)[1] = "validate" /\ UNCHANGED <<dir, may>>
      /\ journaled' = journaled /\ staged' = staged
  BY DEF Validate, At, Checked, History
<1>2. CASE Throws(p)
  BY <1>1, <1>2, QuietThrowTidies
<1>3. CASE GoesOn(p, Rest(p))
  <2>1. Waits(shells[p], "release") /\ Op(p) \in Pending(shells[p])
    BY <1>1, InLock, Turn
  <2>2. ~RecoveryInv(shells[p], dir)
    BY <1>1, <2>1, RecoveryKinds
  <2>3. ~Waits(shells[p], "stage") /\ ~shells[p].failed
    BY <2>1, <2>2, HolderFacts
  <2>4. Remembers
    BY <1>1, Unmoved
  <2> QED
    BY <1>1, <1>3, <2>1, <2>3, <2>4, InstallPasses
<1> QED
  BY <1>2, <1>3 DEF Validate, Checked

\* What a command knows of the directory does not depend on its syncs.
LEMMA SyncedHolder ==
  ASSUME NEW o, NEW s, NEW d, NEW done, HolderTidy(o, d, done),
         s.gen = o.gen, s.old = o.old, s.failed = o.failed, s.phase = o.phase,
         \A op : op[1] # "sync" => (op \in Pending(s) <=> op \in Pending(o))
  PROVE  HolderTidy(s, d, done)
<1>1. \A what \in {"stage", "recover", "unjournal"} : Waits(s, what) <=> Waits(o, what)
  BY Tags DEF Waits
<1>2. InstallHolds(o, d) => InstallHolds(s, d)
  <2>1. \A op : op[1] \in Sweeping => (op \in Pending(s) <=> op \in Pending(o))
    BY DEF Sweeping
  <2>2. \A state : Writes(s, state) => Writes(o, state)
    BY Tags DEF Writes
  <2>3. Alongside(d, d)
    BY DEF Alongside, Agree
  <2> QED
    BY <2>1, <2>2, <2>3, InstallHoldsOn
<1>3. RecoverySweeps(o, d) => RecoverySweeps(s, d)
  <2> DEFINE j == d[Journal]
  <2>1. \A op \in {RemoveStage(j.gen), RemoveActive(j.gen), RemoveBackup(j.gen, j.old)} :
          op \in Pending(s) <=> op \in Pending(o)
    BY Tags
  <2>2. \A name : Purge(name) \in Pending(s) <=> Purge(name) \in Pending(o)
    BY Tags
  <2>3. Move(Backup(j.gen), Active, j.old) \in Pending(s)
          <=> Move(Backup(j.gen), Active, j.old) \in Pending(o)
    BY Tags
  <2> QED
    BY <2>1, <2>2, <2>3 DEF RecoverySweeps
<1>4. {Do("discard"), Purge(Stage(s.gen))} \cap Pending(s) # {}
        => {Do("discard"), Purge(Stage(o.gen))} \cap Pending(o) # {}
  BY Tags
<1>5. \A op \in Pending(s) : op[1] = "purge" => Has(d, op[2])
  BY DEF HolderTidy
<1> QED
  BY <1>1, <1>2, <1>3, <1>4, <1>5 DEF HolderTidy

LEMMA SyncTidies ==
  ASSUME WriterInv, TidyInv, NEW p \in Shells, Sync(p)
  PROVE  TidyInv'
<1> DEFINE s == [shells[p] EXCEPT !.todo = Rest(p)]
<1>1. /\ Running(p) /\ Op(p)[1] = "sync" /\ may' = {dir} /\ dir' = dir /\ GoesOn(p, Rest(p))
      /\ journaled' = journaled /\ staged' = staged
  BY DEF Sync, At, History
<1>2. /\ s.gen = shells[p].gen /\ s.old = shells[p].old
      /\ s.failed = shells[p].failed /\ shells' = [shells EXCEPT ![p] = s]
      /\ Pending(shells[p]) = {Op(p)} \cup Pending(s)
  BY <1>1, RestFacts
<1>3. s.phase = shells[p].phase
  BY <1>1, RestPhase
<1> HIDE DEF s
<1>4. \A op : op[1] # "sync" => (op \in Pending(s) <=> op \in Pending(shells[p]))
  BY <1>1, <1>2
<1>5. \A what \in {"lock", "release"} : Waits(s, what) <=> Waits(shells[p], what)
  BY <1>4, Tags DEF Waits
<1>6. HolderTidy(shells[p], dir, journaled) => HolderTidy(s, dir, journaled)
  BY <1>2, <1>3, <1>4, SyncedHolder
<1>7. ShellTidy(s, dir, journaled)
  BY <1>3, <1>5, <1>6, TidyFacts DEF ShellTidy
<1>8. Remembers /\ Alike(dir, dir')
  BY <1>1, UnmovedAlike DEF Remembers
<1> QED
  BY <1>1, <1>2, <1>7, <1>8, OutsiderTidies

\* A journal's operation makes way for the next of its three.
LEMMA NextOfJournal ==
  ASSUME WriterInv, NEW p \in Shells, Running(p), Op(p)[1] \in {"journal", "publish"},
         NEW next \in {Publish(Op(p)[2]), Settle(Op(p)[2])}
  PROVE  LET t == <<next>> \o Rest(p)
         IN t \in Seq(Ops) /\ Range(t) = {next} \cup Range(Rest(p))
<1>1. /\ Op(p) \in Ops /\ Rest(p) \in Seq(Ops) /\ Ordered(Rest(p))
      /\ \A op \in Range(Rest(p)) : Before(Op(p), op)
  BY Turn
<1>2. PICK state \in States : Op(p) \in {WriteJournal(state), Publish(state)} /\ Op(p)[2] = state
  BY <1>1, OpKinds
<1>3. next \in Ops /\ Rank(next) = Rank(Op(p))
  BY <1>2, OpsAre, RankOf DEF States
<1>4. \A op \in Range(Rest(p)) : Before(next, op)
  BY <1>1, <1>3 DEF Before
<1> QED
  BY <1>1, <1>3, <1>4, ConsFacts

LEMMA BeginTidies ==
  ASSUME WriterInv, TidyInv, WriterInv', NEW p \in Shells, BeginJournal(p)
  PROVE  TidyInv'
<1> DEFINE o == shells[p]
           st == Op(p)[2]
           t == <<Publish(st)>> \o Rest(p)
           s == [shells[p] EXCEPT !.todo = t]
           entry == [state |-> st, gen |-> o.gen, old |-> o.old]
<1>1. /\ Running(p) /\ Op(p)[1] = "journal" /\ journaled' = journaled /\ staged' = staged
      /\ dir' = With(dir, JournalWrite, entry) /\ may' = may \cup {dir'} /\ GoesOn(p, t)
  BY DEF BeginJournal, At, Becomes, History
<1>2. /\ Waits(o, "release") /\ ~Waits(o, "stage") /\ ~o.failed
  BY <1>1, Installs
<1>3. /\ Op(p) = WriteJournal(st) /\ Pending(o) = {Op(p)} \cup Range(Rest(p))
  BY <1>1, Turn, OpKinds
<1> HIDE DEF entry
<1>4. t \in Seq(Ops) /\ Range(t) = {Publish(st)} \cup Range(Rest(p))
  BY <1>1, NextOfJournal
<1> HIDE DEF st, t
<1>5. /\ s \in Commands /\ Pending(s) = {Publish(st)} \cup Range(Rest(p))
      /\ s.gen = o.gen /\ s.old = o.old /\ s.failed = o.failed /\ s.phase = o.phase
      /\ shells' = [shells EXCEPT ![p] = s]
  BY <1>1, <1>4, ReplacedToo
<1> HIDE DEF s
<1>6. \A op : op[1] \notin {"journal", "publish"} => (op \in Pending(s) <=> op \in Pending(o))
  BY <1>3, <1>5, Tags
<1>7. \A state : Writes(s, state) => Writes(o, state)
  <2>1. \A state : Publish(state) = Publish(st) => state = st
    BY Tags
  <2>2. \A state : WriteJournal(state) # Publish(st)
    BY Tags
  <2> QED
    BY <1>3, <1>5, <2>1, <2>2 DEF Writes
<1>8. Alongside(dir, dir') /\ Remembers
  BY <1>1, Names, AgreeElsewhere DEF Alongside, Remembers
<1>9. \A op : op[1] \in Sweeping \cup {"release", "stage"} => (op \in Pending(s) <=> op \in Pending(o))
  BY <1>6 DEF Sweeping
<1> QED
  BY <1>1, <1>2, <1>5, <1>7, <1>8, <1>9, InstallGoesOn

LEMMA PublishTidies ==
  ASSUME WriterInv, TidyInv, WriterInv', NEW p \in Shells, PublishJournal(p)
  PROVE  TidyInv'
<1> DEFINE o == shells[p]
           st == Op(p)[2]
           t == <<Settle(st)>> \o Rest(p)
           s == [shells[p] EXCEPT !.todo = t]
<1>1. /\ Running(p) /\ Op(p)[1] = "publish" /\ journaled' = journaled /\ staged' = staged
      /\ dir' = Moved(dir, JournalWrite, Journal) /\ may' = may \cup {dir'} /\ GoesOn(p, t)
  BY DEF PublishJournal, At, Becomes, History
<1>2. /\ Waits(o, "release") /\ ~Waits(o, "stage") /\ ~o.failed /\ InstallInv(o, dir, may, staged)
  BY <1>1, Installs
<1>3. /\ Op(p) = Publish(st) /\ st \in States /\ Pending(o) = {Op(p)} \cup Range(Rest(p))
      /\ Op(p) \in Pending(o)
  BY <1>1, Turn, OpKinds
<1>4. t \in Seq(Ops) /\ Range(t) = {Settle(st)} \cup Range(Rest(p))
  BY <1>1, NextOfJournal
<1>5. Has(dir, JournalWrite)
  BY <1>2, <1>3 DEF InstallInv
<1> HIDE DEF st, t
<1>6. /\ s \in Commands /\ Pending(s) = {Settle(st)} \cup Range(Rest(p))
      /\ s.gen = o.gen /\ s.old = o.old /\ s.failed = o.failed /\ s.phase = o.phase
      /\ shells' = [shells EXCEPT ![p] = s]
  BY <1>1, <1>4, ReplacedToo
<1> HIDE DEF s
<1>7. \A op : op[1] \in Sweeping \cup {"release", "stage"} => (op \in Pending(s) <=> op \in Pending(o))
  BY <1>3, <1>6, Tags DEF Sweeping
<1>8. \A state : Writes(s, state) => Writes(o, state)
  <2>1. \A state : WriteJournal(state) # Settle(st) /\ Publish(state) # Settle(st)
    BY Tags
  <2> QED
    BY <1>3, <1>6, <2>1 DEF Writes
<1>9. Alongside(dir, dir')
  <2>1. JournalWrite # Journal
    BY Names
  <2>2. \A name : name[1] \in {"active", "stage", "backup", "cleanup"} =>
          name # JournalWrite /\ name # Journal
    BY Names
  <2>3. /\ \A n : Has(dir', n) <=> n = Journal \/ (n # JournalWrite /\ Has(dir, n))
        /\ \A n : n # JournalWrite /\ n # Journal /\ Has(dir, n) => dir'[n] = dir[n]
    BY <1>1, <1>5, <2>1, MovedFacts
  <2> QED
    BY <2>2, <2>3 DEF Alongside, Agree
<1>10. Remembers
  BY <1>1 DEF Remembers
<1> QED
  BY <1>1, <1>2, <1>6, <1>7, <1>8, <1>9, <1>10, InstallGoesOn

\* The journal is durable: from here on what is left of its generation is to be
\* recovered.
LEMMA SettleTidies ==
  ASSUME WriterInv, TidyInv, WriterInv', NEW p \in Shells, SettleJournal(p)
  PROVE  TidyInv'
<1> DEFINE o == shells[p]
           phase == IF Op(p)[2] = "committed" THEN "committed" ELSE "journaled"
           s == [shells[p] EXCEPT !.todo = Rest(p), !.phase = phase]
<1>1. /\ Running(p) /\ Op(p)[1] = "settle" /\ may' = {dir} /\ dir' = dir
      /\ journaled' = journaled \cup {o.gen} /\ staged' = staged
      /\ shells' = [shells EXCEPT ![p].todo = Rest(p), ![p].phase = phase]
  BY DEF SettleJournal, At
<1>2. /\ Waits(o, "release") /\ Op(p) \in Pending(o) /\ Pending(o) = {Op(p)} \cup Range(Rest(p))
      /\ \A op \in Range(Rest(p)) : Before(Op(p), op)
      /\ Rest(p) \in Seq(Ops)
  BY <1>1, InLock, Turn
<1>3. ~RecoveryInv(o, dir)
  BY <1>1, <1>2, RecoveryKinds
<1>4. ~Waits(o, "stage") /\ ~o.failed /\ InstallInv(o, dir, may, staged)
  BY <1>2, <1>3, HolderFacts
<1>5. shells \in [Shells -> Commands]
  BY DEF WriterInv, Typed
<1>6. /\ s \in Commands /\ Pending(s) = Range(Rest(p))
      /\ s.gen = o.gen /\ s.old = o.old /\ s.failed = o.failed
      /\ s.phase = phase /\ phase # "staged"
      /\ shells' = [shells EXCEPT ![p] = s]
  BY <1>1, <1>2, <1>5 DEF Commands, Phases, Pending
<1> HIDE DEF s, phase
<1>7. \A op : op[1] # "settle" => (op \in Pending(s) <=> op \in Pending(o))
  BY <1>1, <1>2, <1>6
<1>8. Rank(Op(p)) \in {5, 8, 10, 12}
  <2>1. Op(p)[2] \in States /\ Op(p) = Settle(Op(p)[2])
    BY <1>1, Turn, OpKinds
  <2> QED
    BY <2>1, RankOf DEF States
<1>9. ~Waits(s, "fill") /\ ~Writes(s, "prepared")
  BY <1>2, <1>6, <1>8, RankOf DEF Waits, Writes, Before
<1>10. InstallHolds(s, dir')
  <2>1. \A op : op[1] \in Sweeping => (op \in Pending(s) <=> op \in Pending(o))
    BY <1>7 DEF Sweeping
  <2>2. \A state : Writes(s, state) => Writes(o, state)
    BY <1>7, Tags DEF Writes
  <2>3. InstallHolds(o, dir) /\ Alongside(dir, dir')
    BY <1>1, <1>2, <1>4, Installing, UnmovedAlongside
  <2> QED
    BY <1>6, <1>9, <2>1, <2>2, <2>3, InstallHoldsOn
<1>11. Waits(s, "release") /\ ~Waits(s, "stage")
  BY <1>2, <1>4, <1>7, Tags DEF Waits
<1>12. shells'[p] = s /\ \A q \in Shells : q # p => shells'[q] = shells[q]
  BY <1>5, <1>6
<1>13. Tidy(dir', journaled')
  <2>1. ShellInv(s, dir', may', staged')
    BY <1>12 DEF WriterInv
  <2>2. InstallInv(s, dir', may', staged')
    BY <1>4, <1>6, <1>11, <2>1 DEF ShellInv
  <2> QED
    BY <1>6, <1>10, <2>2, InstallTidy
<1>14. ShellTidy(s, dir', journaled')
  <2>1. \A op \in Pending(s) : op[1] = "purge" => Has(dir', op[2])
    BY <1>1, <1>2, <1>4, <1>7, Installing
  <2> QED
    BY <1>4, <1>6, <1>10, <1>11, <2>1 DEF ShellTidy, HolderTidy
<1>15. ASSUME NEW q \in Shells PROVE ShellTidy(shells'[q], dir', journaled')
  <2>1. CASE q = p
    BY <1>12, <1>14, <2>1
  <2>2. CASE q # p
    <3>1. ~Waits(shells[q], "release")
      BY <1>2, <2>2 DEF WriterInv, Exclusive
    <3> QED
      BY <1>12, <2>2, <3>1, TidyFacts DEF ShellTidy
  <2> QED
    BY <2>1, <2>2
<1>16. journaled' \subseteq 1 .. staged'
  <2>1. o.gen \in Nat /\ o.old \in Nat /\ o.gen = staged /\ o.old < o.gen
    BY <1>4, <1>5, BoundsAssumption DEF InstallInv, Commands, Numbers, BoundsAssumption
  <2>2. o.gen \in 1 .. staged
    BY <2>1
  <2> QED
    BY <1>1, <2>2, TidyFacts
<1> QED
  BY <1>1, <1>13, <1>15, <1>16 DEF TidyInv

\* The stage that is filled is the one the forward move expects.
LEMMA FillTidies ==
  ASSUME WriterInv, TidyInv, WriterInv', NEW p \in Shells, FillStage(p)
  PROVE  TidyInv'
<1> DEFINE o == shells[p]
           s == [shells[p] EXCEPT !.todo = Rest(p)]
           stage == Stage(o.gen)
           forward == Move(Stage(o.gen), Active, o.gen)
           spent == CleanupOf("backup", o.gen)
<1>1. /\ Running(p) /\ Op(p)[1] = "fill" /\ journaled' = journaled /\ staged' = staged
      /\ dir' = With(dir, stage, Whole(o.gen)) /\ may' = may \cup {dir'} /\ GoesOn(p, Rest(p))
  BY DEF FillStage, At, Becomes, History
<1>2. /\ Waits(o, "release") /\ Op(p) \in Pending(o) /\ Op(p) = Do("fill")
  BY <1>1, InLock, Turn, OpKinds DEF Plain
<1>3. ~RecoveryInv(o, dir)
  BY <1>1, <1>2, RecoveryKinds
<1>4. ~Waits(o, "stage") /\ ~o.failed
  BY <1>2, <1>3, HolderFacts
<1>5. /\ InstallHolds(o, dir) /\ \A op \in Pending(o) : op[1] = "purge" => Has(dir, op[2])
  BY <1>2, <1>4, Installing
<1>6. /\ s \in Commands /\ s.gen = o.gen /\ s.old = o.old /\ s.failed = o.failed
      /\ shells' = [shells EXCEPT ![p] = s] /\ Pending(o) = {Op(p)} \cup Pending(s)
  BY <1>1, RestFacts
<1>7. s.phase = o.phase
  BY <1>1, RestPhase
<1> HIDE DEF s
<1>8. \A op : op[1] # "fill" => (op \in Pending(s) <=> op \in Pending(o))
  BY <1>1, <1>6
<1>9. /\ \A n : Has(dir', n) <=> n = stage \/ Has(dir, n)
      /\ dir'[stage] = Whole(o.gen)
      /\ \A n : n # stage /\ Has(dir, n) => dir'[n] = dir[n]
  BY <1>1, WithFacts
<1>10. \A name \in {Active, Backup(o.gen), spent} :
         /\ Has(dir', name) <=> Has(dir, name)
         /\ Has(dir, name) => dir'[name] = dir[name]
         /\ \A h : Holds(dir', name, h) <=> Holds(dir, name, h)
  BY <1>9, Names, CleanupNames DEF Holds
<1>11. Residue(dir') \subseteq {Stage(o.gen), Backup(o.gen), spent}
  <2>1. Residue(dir) \subseteq {Stage(o.gen), Backup(o.gen), spent}
    BY <1>5 DEF InstallHolds
  <2> QED
    BY <1>9, <2>1, ResidueIs
<1>12. /\ forward \in Pending(s)
       /\ Has(dir', Stage(o.gen)) /\ Holds(dir', Stage(o.gen), o.gen)
       /\ Waits(o, "fill") /\ o.phase = "staged"
  <2>1. Waits(o, "fill")
    BY <1>2 DEF Waits
  <2>2. forward \in Pending(o) /\ o.phase = "staged"
    BY <1>5, <2>1 DEF InstallHolds
  <2> QED
    BY <1>8, <1>9, <2>1, <2>2, Tags DEF Holds
<1>13. /\ Move(Active, Backup(o.gen), o.old) \in Pending(s)
            <=> Move(Active, Backup(o.gen), o.old) \in Pending(o)
       /\ RemoveBackup(o.gen, o.old) \in Pending(s) <=> RemoveBackup(o.gen, o.old) \in Pending(o)
       /\ forward \in Pending(s) <=> forward \in Pending(o)
       /\ Purge(Cleanup(<<"backup", o.gen>>)) \in Pending(s)
            <=> Purge(Cleanup(<<"backup", o.gen>>)) \in Pending(o)
       /\ Waits(s, "unjournal") <=> Waits(o, "unjournal")
       /\ \A state : Writes(s, state) <=> Writes(o, state)
  BY <1>8, Tags DEF Writes, Waits
<1> HIDE DEF stage, forward, spent
<1>14. InstallHolds(s, dir')
  BY <1>5, <1>6, <1>7, <1>10, <1>11, <1>12, <1>13 DEF InstallHolds, forward, spent
<1>15. \A op \in Pending(s) : op[1] = "purge" => Has(dir', op[2])
  BY <1>5, <1>8, <1>9
<1>16. Waits(s, "release") /\ ~Waits(s, "stage")
  BY <1>2, <1>4, <1>8, Tags DEF Waits
<1>17. Remembers
  BY <1>1 DEF Remembers
<1> QED
  BY <1>1, <1>2, <1>4, <1>6, <1>7, <1>14, <1>15, <1>16, <1>17, InstallTidies

----------------------------------------------------------------------------
(* Into the lock, out of it, and the start of a recovery.                  *)

LEMMA BuildTidies ==
  ASSUME WriterInv, TidyInv, NEW p \in Shells, Build(p)
  PROVE  TidyInv'
<1>1. /\ Running(p) /\ Op(p)[1] = "build" /\ UNCHANGED <<dir, may>>
      /\ journaled' = journaled /\ staged' = staged
  BY DEF Build, At, Checked, History
<1>2. CASE Throws(p)
  BY <1>1, <1>2, QuietThrowTidies
<1>3. CASE GoesOn(p, Rest(p))
  <2> DEFINE s == [shells[p] EXCEPT !.todo = Rest(p)]
  <2>1. /\ shells' = [shells EXCEPT ![p] = s] /\ Pending(shells[p]) = {Op(p)} \cup Pending(s)
        /\ Op(p) \in Pending(shells[p]) /\ Op(p) = Do("build")
    BY <1>1, <1>3, RestFacts, Turn, OpKinds DEF Plain
  <2>2. s.phase = shells[p].phase
    BY <1>1, RestPhase
  <2> HIDE DEF s
  <2>3. ~Waits(shells[p], "release")
    BY <2>1, HolderFacts DEF Waits
  <2>4. ~Waits(s, "release") /\ (Waits(s, "lock") => Waits(shells[p], "lock"))
    BY <2>1, <2>3 DEF Waits
  <2>5. ShellTidy(s, dir', journaled)
    BY <2>2, <2>3, <2>4, TidyFacts DEF ShellTidy
  <2>6. Remembers /\ Alike(dir, dir')
    BY <1>1, Unmoved, UnmovedAlike
  <2> QED
    BY <1>1, <2>1, <2>5, <2>6, OutsiderTidies
<1> QED
  BY <1>2, <1>3 DEF Build, Checked

LEMMA LockTidies ==
  ASSUME WriterInv, TidyInv, NEW p \in Shells, AcquireLock(p)
  PROVE  TidyInv'
<1>1. Running(p) /\ Op(p)[1] = "lock" /\ journaled' = journaled /\ staged' = staged
  BY DEF AcquireLock, At, History
<1>2. CASE Throws(p) /\ UNCHANGED <<dir, may>>
  BY <1>1, <1>2, QuietThrowTidies
<1>3. CASE Becomes(With(dir, LockFile, TRUE)) /\ GoesOn(p, Append(Rest(p), Do("release")))
  <2> DEFINE t == Append(Rest(p), Do("release"))
             s == [shells[p] EXCEPT !.todo = t]
  <2>1. /\ Op(p) = Do("lock") /\ Rest(p) \in Seq(Ops) /\ Ordered(Rest(p))
        /\ Pending(shells[p]) = {Do("lock")} \cup Range(Rest(p))
    BY <1>1, Turn, OpKinds DEF Plain
  <2>2. ~Waits(shells[p], "release") /\ Waits(shells[p], "lock")
    BY <2>1, HolderFacts DEF Waits
  <2>3. /\ Pending(shells[p]) \subseteq {Do("build"), Do("lock"), Do("recover"), Do("stage")}
        /\ Waits(shells[p], "recover") /\ Waits(shells[p], "stage")
    BY <2>2, OutsideFacts DEF OutsiderInv
  <2>4. Do("release") \in Ops /\ \A a \in Range(Rest(p)) : Before(a, Do("release"))
    BY <2>1, <2>3, OpsAre, RankOf DEF Plain, Before
  <2>5. t \in Seq(Ops) /\ Range(t) = Range(Rest(p)) \cup {Do("release")}
    BY <2>1, <2>4, AppendFacts
  <2> HIDE DEF t
  <2>6. /\ Pending(s) = Range(Rest(p)) \cup {Do("release")} /\ s.phase = shells[p].phase
        /\ shells' = [shells EXCEPT ![p] = s]
    BY <1>3, <2>5, ReplacedToo DEF t
  <2> HIDE DEF s
  <2>7. /\ Waits(s, "release") /\ Waits(s, "recover") /\ Waits(s, "stage")
        /\ \A op \in Pending(s) : op[1] # "purge"
    <3>1. Do("recover") # Do("lock") /\ Do("stage") # Do("lock")
      BY DEF Do
    <3> QED
      BY <2>1, <2>3, <2>6, <3>1, Tags DEF Waits
  <2>8. s.phase = "none"
    BY <2>2, <2>6, TidyFacts DEF ShellTidy
  <2>9. ShellTidy(s, dir', journaled)
    BY <2>7, <2>8 DEF ShellTidy, HolderTidy
  <2>10. Alike(dir, dir') /\ Remembers
    <3>1. \A name : name[1] \notin {"lock", "journal-write"} => name # LockFile
      BY Names
    <3> QED
      BY <1>3, <3>1, AgreeElsewhere DEF Alike, Becomes, Remembers
  <2> QED
    BY <1>1, <2>6, <2>9, <2>10, OutsiderTidies
<1> QED
  BY <1>2, <1>3 DEF AcquireLock

LEMMA ReportTidies ==
  ASSUME WriterInv, TidyInv, NEW p \in Shells, Report(p)
  PROVE  TidyInv'
<1>1. /\ shells' = [shells EXCEPT ![p] = Idle] /\ UNCHANGED <<dir, may>>
      /\ journaled' = journaled /\ staged' = staged
  BY DEF Report
<1>2. Remembers /\ Alike(dir, dir')
  BY <1>1, Unmoved, UnmovedAlike
<1> QED
  BY <1>1, <1>2, IdleTidy, OutsiderTidies

LEMMA ReleaseTidies ==
  ASSUME WriterInv, TidyInv, NEW p \in Shells, Release(p)
  PROVE  TidyInv'
<1> DEFINE t == <<Do("sync"), Do("report")>>
           s == [shells[p] EXCEPT !.todo = t]
<1>1. /\ dir' = Without(dir, LockFile) /\ may' = may \cup {dir'} /\ GoesOn(p, t)
      /\ journaled' = journaled /\ staged' = staged
  BY DEF Release, Becomes, History
<1>2. t \in Seq(Ops) /\ Range(t) = {Do("sync"), Do("report")}
  BY ReportLast
<1> HIDE DEF t
<1>3. Pending(s) = {Do("sync"), Do("report")} /\ shells' = [shells EXCEPT ![p] = s]
  BY <1>1, <1>2, ReplacedToo
<1> HIDE DEF s
<1>4. ShellTidy(s, dir', journaled)
  BY <1>3, Tags DEF ShellTidy, Waits
<1>5. Alike(dir, dir') /\ Remembers
  <2>1. \A name : name[1] \notin {"lock", "journal-write"} => name # LockFile
    BY Names
  <2> QED
    BY <1>1, <2>1, AgreeElsewhere DEF Alike, Remembers
<1> QED
  BY <1>1, <1>3, <1>4, <1>5, OutsiderTidies

\* What an unambiguous journal leaves to sweep, its recovery sweeps.
LEMMA RecoveryBegins ==
  ASSUME NEW s, NEW d, Has(d, Journal), Unambiguous(d),
         d[Journal].gen \in Numbers, d[Journal].old \in Numbers,
         Range(Removals(d)) \subseteq Pending(s),
         \A op \in Pending(s) : op[1] = "move" => op \in Range(Removals(d))
  PROVE  RecoverySweeps(s, d)
<1> DEFINE j == d[Journal]
           g == j.gen
           back == Move(Backup(g), Active, j.old)
           restores == j.old = None \/ Has(d, Backup(g))
<1>1. /\ j.state = "committed" =>
           Range(Removals(d)) = {RemoveStage(g)}
             \cup (IF j.old = None THEN {} ELSE {RemoveBackup(g, j.old)})
      /\ j.state # "committed" =>
           Range(Removals(d)) =
             ((IF restores THEN {RemoveActive(g)} ELSE {})
              \cup (IF j.old # None /\ restores THEN {back, Do("sync")} ELSE {}))
             \cup {RemoveStage(g)}
  BY RemovalsFacts
<1>2. RemoveStage(g) \in Pending(s)
  BY <1>1
<1>3. back \in Pending(s) => Has(d, Backup(g))
  <2> SUFFICES ASSUME back \in Pending(s), ~Has(d, Backup(g)) PROVE FALSE
    OBVIOUS
  <2>1. back \in Range(Removals(d))
    BY Tags
  <2>2. back \in {RemoveStage(g), RemoveBackup(g, j.old), RemoveActive(g)}
    BY <1>1, <2>1
  <2> QED
    BY <2>2, Tags
<1>4. CASE j.state = "committed"
  <2>1. /\ ~Has(d, CleanupOf("active", g))
        /\ Has(d, Backup(g)) \/ Has(d, CleanupOf("backup", g)) => j.old # None
    BY <1>4 DEF Unambiguous, CleanupOf
  <2>2. j.old # None => RemoveBackup(g, j.old) \in Pending(s)
    BY <1>1, <1>4
  <2> QED
    BY <1>2, <1>3, <2>1, <2>2 DEF RecoverySweeps
<1>5. CASE j.state # "committed"
  <2>1. /\ ~Has(d, CleanupOf("backup", g))
        /\ Has(d, Backup(g)) => j.old # None
        /\ j.old # None /\ ~Has(d, Backup(g)) => ~Has(d, CleanupOf("active", g))
    BY <1>5 DEF Unambiguous, CleanupOf
  <2>2. /\ restores => RemoveActive(g) \in Pending(s)
        /\ Has(d, Backup(g)) => back \in Pending(s)
    BY <1>1, <1>5, <2>1
  <2> QED
    BY <1>2, <1>3, <2>1, <2>2 DEF RecoverySweeps
<1> QED
  BY <1>4, <1>5

LEMMA RecoverTidies ==
  ASSUME WriterInv, TidyInv, NEW p \in Shells, Recover(p)
  PROVE  TidyInv'
<1>1. /\ Running(p) /\ Op(p)[1] = "recover" /\ UNCHANGED <<dir, may>>
      /\ journaled' = journaled /\ staged' = staged
  BY DEF Recover, At, Checked, History
<1>2. CASE Throws(p)
  BY <1>1, <1>2, QuietThrowTidies
<1>3. CASE Recovers(dir) /\ GoesOn(p, Recovery(dir) \o Rest(p))
  <2> DEFINE o == shells[p]
             t == Recovery(dir) \o Rest(p)
             s == [shells[p] EXCEPT !.todo = t]
             j == dir[Journal]
  <2>1. /\ Op(p) = Do("recover") /\ Rest(p) \in Seq(Ops) /\ Ordered(Rest(p))
        /\ Pending(o) = {Do("recover")} \cup Range(Rest(p))
        /\ \A op \in Range(Rest(p)) : Before(Do("recover"), op)
    BY <1>1, Turn, OpKinds DEF Plain
  <2>2. Waits(o, "release") /\ Do("recover") \in Pending(o)
    BY <1>1, <2>1, InLock
  <2>3. RecoveryInv(o, dir) /\ (Waits(o, "stage") \/ o.failed)
    <3>1. ~InstallInv(o, dir, may, staged)
      BY <2>2, Tags, InstallKinds
    <3> QED
      BY <2>2, <3>1, HolderFacts
  <2>4. /\ Range(Rest(p)) \subseteq {Do("stage"), Do("release")}
        /\ Do("release") \in Range(Rest(p))
        /\ Waits(o, "stage") => Do("stage") \in Range(Rest(p))
    <3>1. Do("recover") \notin Range(Rest(p))
      BY <2>1, RankOf DEF Before
    <3>2. Do("release") # Do("recover") /\ Do("stage") # Do("recover")
      BY DEF Do
    <3> QED
      BY <2>1, <2>2, <2>3, <3>1, <3>2 DEF RecoveryInv, Waits
  <2>5. HolderTidy(o, dir, journaled)
    BY <2>2, TidyFacts
  <2>6. Remembers /\ Alike(dir, dir')
    BY <1>1, Unmoved, UnmovedAlike
  <2>7. CASE ~Has(dir, Journal)
    <3>1. Recovery(dir) = <<>> /\ Residue(dir) = {}
      BY <1>3, <2>7 DEF Recovery, Recovers
    <3>2. t \in Seq(Ops) /\ Range(t) = Range(Rest(p))
      BY <2>1, <3>1, EmptyFacts, JoinedRange
    <3> HIDE DEF t
    <3>3. /\ Pending(s) = Range(Rest(p)) /\ s.phase = o.phase /\ s.gen = o.gen
          /\ s.failed = o.failed /\ shells' = [shells EXCEPT ![p] = s]
      BY <1>3, <3>2, ReplacedToo DEF t
    <3> HIDE DEF s
    <3>4. /\ Waits(s, "release") /\ (Waits(s, "stage") \/ s.failed)
          /\ ~Waits(s, "recover") /\ ~Waits(s, "unjournal")
          /\ {Do("discard"), Purge(Stage(s.gen))} \cap Pending(s) = {}
          /\ \A op \in Pending(s) : op[1] # "purge"
      BY <2>3, <2>4, <3>3, Tags DEF Waits
    <3>5. HolderTidy(s, dir, journaled)
      BY <2>5, <3>1, <3>3, <3>4 DEF HolderTidy
    <3> QED
      BY <1>1, <2>6, <3>3, <3>4, <3>5, OutsiderTidies DEF ShellTidy
  <2>8. CASE Has(dir, Journal)
    <3>1. j.gen \in Numbers /\ j.old \in Numbers
      BY <2>8, Counters, BoundsAssumption DEF DiskTyped, Numbers, BoundsAssumption
    <3>2. /\ t \in Seq(Ops)
          /\ Range(t) = (Range(Removals(dir)) \cup {Do("sync"), Do("unjournal")}) \cup Range(Rest(p))
      BY <2>1, <2>4, <2>8, <3>1, RecoveryFacts
    <3> HIDE DEF t
    <3>3. /\ Pending(s) = Range(t) /\ s.phase = o.phase /\ s.gen = o.gen
          /\ s.failed = o.failed /\ shells' = [shells EXCEPT ![p] = s]
      BY <1>3, <3>2, ReplacedToo DEF t
    <3> HIDE DEF s
    <3>4. \A op \in Range(Removals(dir)) : op[1] \in {"remove", "move", "sync"}
      <4>1. Range(Removals(dir)) \subseteq {RemoveStage(j.gen), RemoveActive(j.gen), Do("sync"),
              RemoveBackup(j.gen, j.old), Move(Backup(j.gen), Active, j.old)}
        BY <2>8, <3>1, RemovalsFacts
      <4> QED
        BY <4>1, Tags
    <3>5. /\ Waits(s, "release") /\ (Waits(s, "stage") \/ s.failed)
          /\ ~Waits(s, "recover") /\ Waits(s, "unjournal")
          /\ \A op \in Pending(s) : op[1] # "purge"
      BY <2>3, <2>4, <3>2, <3>3, <3>4, Tags DEF Waits
    <3>6. Unambiguous(dir)
      BY <1>3, <2>8 DEF Recovers
    <3>7. \A op \in Pending(s) : op[1] = "move" => op \in Range(Removals(dir))
      BY <2>4, <3>2, <3>3, Tags
    <3>8. RecoverySweeps(s, dir)
      BY <2>8, <3>1, <3>2, <3>3, <3>6, <3>7, RecoveryBegins
    <3>9. HolderTidy(s, dir, journaled)
      BY <2>5, <3>3, <3>5, <3>8 DEF HolderTidy
    <3> QED
      BY <1>1, <2>6, <3>3, <3>5, <3>9, OutsiderTidies DEF ShellTidy
  <2> QED
    BY <2>7, <2>8
<1> QED
  BY <1>2, <1>3 DEF Recover, Checked

----------------------------------------------------------------------------
(* Stages: discarded, and made.                                            *)

\* Where a command is that is not installing.
LEMMA NotInstalling ==
  ASSUME WriterInv, TidyInv, NEW p \in Shells, Waits(shells[p], "release"),
         ~InstallInv(shells[p], dir, may, staged)
  PROVE  /\ Waits(shells[p], "stage") \/ shells[p].failed
         /\ RecoveryInv(shells[p], dir)
         /\ Waits(shells[p], "recover") \/
              IF Waits(shells[p], "unjournal") THEN RecoverySweeps(shells[p], dir)
              ELSE IF Waits(shells[p], "stage") THEN Residue(dir) = {}
              ELSE {Do("discard"), Purge(Stage(shells[p].gen))} \cap Pending(shells[p]) # {}
                     => shells[p].gen \notin journaled
<1>1. (Waits(shells[p], "stage") \/ shells[p].failed) /\ RecoveryInv(shells[p], dir)
  BY HolderFacts
<1>2. HolderTidy(shells[p], dir, journaled)
  BY TidyFacts
<1> QED
  BY <1>1, <1>2 DEF HolderTidy

LEMMA DiscardTidies ==
  ASSUME WriterInv, TidyInv, NEW p \in Shells, DiscardStage(p)
  PROVE  TidyInv'
<1> DEFINE o == shells[p]
           purge == Purge(Stage(o.gen))
           t == <<purge>> \o Rest(p)
           s == [shells[p] EXCEPT !.todo = t]
<1>1. /\ Running(p) /\ Op(p)[1] = "discard" /\ UNCHANGED <<dir, may>>
      /\ journaled' = journaled /\ staged' = staged
  BY DEF DiscardStage, At, Checked, History
<1>2. CASE Throws(p)
  BY <1>1, <1>2, QuietThrowTidies
<1>3. CASE GoesOn(p, t) /\ Holds(dir, Stage(o.gen), o.gen)
  <2>1. /\ Op(p) = Do("discard") /\ Rest(p) \in Seq(Ops)
        /\ Pending(o) = {Do("discard")} \cup Range(Rest(p)) /\ Waits(o, "release")
    BY <1>1, Turn, OpKinds, InLock DEF Plain
  <2>2. ~InstallInv(o, dir, may, staged)
    BY <2>1, Tags, InstallKinds
  <2>3. /\ ~Waits(o, "recover") /\ ~Waits(o, "unjournal") /\ ~Waits(o, "stage") /\ o.failed
    <3>1. Do("discard") \in Pending(o)
      BY <2>1
    <3>2. \A g, old : Do("discard") \notin RecoveryOps(g, old)
      BY Tags, RecoveryOpKinds
    <3>3. Do("discard") \notin {Do("recover"), Do("stage"), Do("release"), Do("sync")}
      BY Tags
    <3>4. RecoveryInv(o, dir) /\ (Waits(o, "stage") \/ o.failed)
      BY <2>1, <2>2, NotInstalling
    <3> QED
      BY <3>1, <3>2, <3>3, <3>4 DEF RecoveryInv, RecoversInv
  <2>4. o.gen \notin journaled
    BY <2>1, <2>2, <2>3, NotInstalling
  <2>5. purge \in Ops
    BY ShellFacts, OpsAre DEF Commands
  <2>6. t \in Seq(Ops) /\ Range(t) = {purge} \cup Range(Rest(p))
    BY <2>1, <2>5, OneFacts, JoinedRange
  <2> HIDE DEF t
  <2>7. /\ Pending(s) = {purge} \cup Range(Rest(p)) /\ s.phase = o.phase /\ s.gen = o.gen
        /\ s.failed = o.failed /\ shells' = [shells EXCEPT ![p] = s]
    BY <1>3, <2>6, ReplacedToo
  <2> HIDE DEF s
  <2>8. \A what \in {"recover", "unjournal", "stage", "release"} : Waits(s, what) <=> Waits(o, what)
    BY <2>1, <2>7, Tags DEF Waits
  <2>9. \A op \in Pending(s) : op[1] = "purge" => Has(dir, op[2])
    <3>1. Has(dir, purge[2])
      BY <1>3 DEF Holds, Purge
    <3>2. \A op \in Pending(o) : op[1] = "purge" => Has(dir, op[2])
      BY <2>1, TidyFacts DEF HolderTidy
    <3> QED
      BY <2>1, <2>7, <3>1, <3>2
  <2>10. HolderTidy(s, dir, journaled)
    BY <2>3, <2>4, <2>7, <2>8, <2>9 DEF HolderTidy
  <2>11. ShellTidy(s, dir', journaled)
    BY <1>1, <2>1, <2>8, <2>10 DEF ShellTidy
  <2>12. Remembers /\ Alike(dir, dir')
    BY <1>1, Unmoved, UnmovedAlike
  <2> QED
    BY <1>1, <2>7, <2>11, <2>12, OutsiderTidies
<1> QED
  BY <1>2, <1>3 DEF DiscardStage, Checked

\* The new generation is alone beside the one in place, and not yet journaled.
LEMMA StageTidies ==
  ASSUME WriterInv, TidyInv, WriterInv', NEW p \in Shells, StageGeneration(p)
  PROVE  TidyInv'
<1> DEFINE o == shells[p]
           old == IF Has(dir, Active) THEN dir[Active].gen ELSE None
           g == staged + 1
           t == <<Do("fill")>> \o Installation(g, old) \o Rest(p)
           s == [shells[p] EXCEPT !.todo = t, !.gen = g, !.old = old, !.phase = "staged"]
           Stops == staged = LastGeneration \/ (old # None /\ ~dir[Active].whole)
<1>1. Running(p) /\ Op(p)[1] = "stage" /\ journaled' = journaled
  BY DEF StageGeneration, At
<1>2. CASE Stops
  <2>1. Throws(p) /\ UNCHANGED <<dir, may, staged>>
    BY <1>2 DEF StageGeneration
  <2> QED
    BY <1>1, <2>1, QuietThrowTidies
<1>3. CASE ~Stops
  <2>1. /\ dir' = With(dir, Stage(g), Spoiled(g)) /\ may' = may \cup {dir'} /\ staged' = g
        /\ shells' = [shells EXCEPT
             ![p].todo = t, ![p].gen = g, ![p].old = old, ![p].phase = "staged"]
    BY <1>3 DEF StageGeneration, Becomes
  <2>2. /\ Op(p) = Do("stage") /\ Rank(Op(p)) = 18
        /\ Rest(p) \in Seq(Ops) /\ Pending(o) = {Op(p)} \cup Range(Rest(p))
        /\ \A op \in Range(Rest(p)) : Before(Op(p), op)
        /\ Waits(o, "release") /\ Waits(o, "stage") /\ o \in Commands
    BY <1>1, Turn, OpKinds, RankOf, InLock, ShellFacts DEF Plain, Waits
  <2>3. RecoveryInv(o, dir) /\ ~o.failed /\ HolderTidy(o, dir, journaled)
    <3>1. Waits(o, "stage") => ~o.failed
      BY ShellFacts DEF ShellInv
    <3> QED
      BY <2>2, <3>1, HolderFacts, TidyFacts
  <2>4. ~Waits(o, "recover") /\ ~Waits(o, "unjournal")
    <3>1. Rank(Do("recover")) = 3 /\ Rank(Do("unjournal")) = 17
      BY RankOf
    <3>2. {Do("recover"), Do("unjournal")} \cap Range(Rest(p)) = {}
      BY <2>2, <3>1 DEF Before
    <3>3. Do("recover") # Op(p) /\ Do("unjournal") # Op(p)
      BY <2>2, <3>1
    <3> QED
      BY <2>2, <3>2, <3>3 DEF Waits
  <2>5. /\ ~Has(dir, Journal) /\ Residue(dir) = {}
        /\ Pending(o) \subseteq {Do("sync"), Do("stage"), Do("release")}
    BY <2>2, <2>3, <2>4 DEF RecoveryInv, HolderTidy
  <2>6. /\ Range(Rest(p)) \subseteq {Do("sync"), Do("release")} /\ Do("release") \in Range(Rest(p))
    <3>1. Do("stage") \notin Range(Rest(p))
      BY <2>2 DEF Before
    <3>2. Do("release") # Do("stage")
      BY DEF Do
    <3> QED
      BY <2>2, <2>5, <3>1, <3>2 DEF Waits
  <2>7. /\ staged \in Nat /\ g \in Numbers /\ g \in Nat /\ staged < g
        /\ old \in 0 .. staged /\ InPlace(dir, old)
    <3>1. staged \in 0 .. LastGeneration /\ staged # LastGeneration /\ DiskTyped(dir, staged)
      BY <1>3, Counters DEF Numbers
    <3>2. staged \in Nat /\ g \in Numbers /\ g \in Nat /\ staged < g
      BY <3>1, Counters, BoundsAssumption DEF Numbers, BoundsAssumption
    <3>3. CASE Has(dir, Active)
      <4>1. PICK h \in 1 .. staged : dir[Active] = Whole(h)
        BY <3>1, <3>3 DEF DiskTyped
      <4> QED
        <5>1. old = h /\ Holds(dir, Active, h)
          BY <3>3, <4>1 DEF Whole, Holds
        <5>2. h \in 0 .. staged /\ h # None
          BY <3>1, <4>1 DEF None
        <5> QED
          BY <3>2, <5>1, <5>2 DEF InPlace
    <3>4. CASE ~Has(dir, Active)
      BY <3>2, <3>4 DEF InPlace, None
    <3> QED
      BY <3>2, <3>3, <3>4
  <2>8. old \in Numbers
    BY <2>7, Counters, BoundsAssumption DEF Numbers, BoundsAssumption
  <2>9. g \notin journaled
    <3>1. g \notin 1 .. staged
      BY <2>7
    <3> QED
      BY <3>1, TidyFacts
  <2> HIDE DEF old, g
  <2>10. /\ t \in Seq(Ops)
         /\ Range(t) = ({Do("fill")} \cup Range(Installation(g, old))) \cup Range(Rest(p))
    <3>1. Do("fill") \in Ops /\ Installation(g, old) \in Seq(Ops)
      BY <2>7, <2>8, OpsAre, InstallationFacts DEF Plain
    <3>2. <<Do("fill")>> \in Seq(Ops) /\ Range(<<Do("fill")>>) = {Do("fill")}
      BY <3>1, OneFacts
    <3>3. /\ <<Do("fill")>> \o Installation(g, old) \in Seq(Ops)
          /\ Range(<<Do("fill")>> \o Installation(g, old))
               = Range(<<Do("fill")>>) \cup Range(Installation(g, old))
      BY <3>1, <3>2, JoinedRange
    <3>4. \A u \in Seq(Ops) : /\ u \o Rest(p) \in Seq(Ops)
                             /\ Range(u \o Rest(p)) = Range(u) \cup Range(Rest(p))
      BY <2>2, JoinedRange
    <3> QED
      BY <3>2, <3>3, <3>4
  <2>11. /\ s \in Commands /\ Pending(s) = Range(t) /\ s.gen = g /\ s.old = old
         /\ s.phase = "staged" /\ s.failed = o.failed /\ shells' = [shells EXCEPT ![p] = s]
    <3>1. shells \in [Shells -> Commands]
      BY DEF WriterInv, Typed
    <3> QED
      BY <2>1, <2>7, <2>8, <2>10, <3>1 DEF Commands, Phases, Pending
  <2> HIDE DEF s, t
  <2>12. /\ Waits(s, "release") /\ ~Waits(s, "stage") /\ Waits(s, "fill")
         /\ \A op \in Pending(s) : op[1] # "purge"
    <3>1. Pending(s) \subseteq
            {Do("fill"), Do("sync"), Do("admit"), Do("validate"), Do("unjournal"), Do("release"),
             Move(Active, Backup(g), old), Move(Stage(g), Active, g), RemoveBackup(g, old)}
            \cup {WriteJournal(state) : state \in States}
      BY <2>6, <2>7, <2>8, <2>10, <2>11, InstallationFacts
    <3>2. \A op \in Pending(s) : op[1] # "purge" /\ op[1] # "stage"
      BY <3>1, Tags
    <3> QED
      BY <2>6, <2>10, <2>11, <3>2, Tags DEF Waits
  <2>13. /\ Move(Stage(g), Active, g) \in Pending(s)
         /\ old # None => {Move(Active, Backup(g), old), RemoveBackup(g, old)} \subseteq Pending(s)
         /\ Move(Active, Backup(g), old) \in Pending(s) => old # None
    <3>1. /\ Move(Stage(g), Active, g) \in Range(Installation(g, old))
          /\ old # None => {Move(Active, Backup(g), old), RemoveBackup(g, old)}
                             \subseteq Range(Installation(g, old))
          /\ Move(Active, Backup(g), old) \in Range(Installation(g, old)) => old # None
      BY <2>7, <2>8, InstallationFacts
    <3>2. Move(Active, Backup(g), old) \notin {Do("fill"), Do("sync"), Do("release")}
      BY Tags
    <3> QED
      BY <2>6, <2>10, <2>11, <3>1, <3>2
  <2>14. /\ \A n : Has(dir', n) <=> n = Stage(g) \/ Has(dir, n)
         /\ \A n : n # Stage(g) /\ Has(dir, n) => dir'[n] = dir[n]
    BY <2>1, WithFacts
  <2>15. /\ Residue(dir') = {Stage(g)}
         /\ ~Has(dir', Backup(g)) /\ ~Has(dir', CleanupOf("backup", g)) /\ Has(dir', Stage(g))
    <3>1. \A n : n \in Residue(dir') <=> n = Stage(g)
      BY <2>5, <2>14, Names, ResidueIs
    <3>2. Residue(dir') = {Stage(g)}
      BY <3>1
    <3>3. /\ Backup(g) # Stage(g) /\ CleanupOf("backup", g) # Stage(g)
          /\ Backup(g)[1] = "backup" /\ CleanupOf("backup", g)[1] = "cleanup"
      BY Names, CleanupNames
    <3> QED
      BY <2>14, <3>2, <3>3, ResidueIs
  <2>16. InPlace(dir', old)
    <3>1. Active # Stage(g)
      BY Names
    <3> QED
      BY <2>7, <2>14, <3>1 DEF InPlace, Holds
  <2>17. InstallHolds(s, dir')
    BY <2>11, <2>12, <2>13, <2>15, <2>16 DEF InstallHolds, InPlace
  <2>18. InstallInv(s, dir', may', staged')
    <3>1. shells'[p] = s
      BY <2>11 DEF WriterInv, Typed
    <3>2. ShellInv(s, dir', may', staged')
      BY <3>1 DEF WriterInv
    <3> QED
      BY <2>3, <2>11, <2>12, <3>2 DEF ShellInv
  <2>19. Tidy(dir', journaled)
    BY <2>9, <2>11, <2>17, <2>18, InstallTidy
  <2>20. ShellTidy(s, dir', journaled)
    BY <2>3, <2>9, <2>11, <2>12, <2>17 DEF ShellTidy, HolderTidy
  <2>21. Remembers
    BY <2>1 DEF Remembers
  <2>22. staged' \in Nat /\ staged <= staged'
    BY <2>1, <2>7
  <2> QED
    BY <1>1, <2>2, <2>11, <2>19, <2>20, <2>21, <2>22, HolderTidies
<1> QED
  BY <1>2, <1>3

----------------------------------------------------------------------------
(* Generations moved into place, and aside.                                *)

LEMMA InstallPurges ==
  ASSUME NEW s, NEW d, NEW m, NEW n, InstallInv(s, d, m, n), NEW op \in Pending(s), op[1] = "purge"
  PROVE  op = Purge(CleanupOf("backup", s.gen)) /\ op[2] = CleanupOf("backup", s.gen)
<1>1. op \in InstallOps(s.gen, s.old)
  BY DEF InstallInv
<1>2. op = Purge(Cleanup(<<"backup", s.gen>>))
  BY <1>1, Tags DEF InstallOps
<1> QED
  BY <1>2, CleanupNames DEF Purge

LEMMA RecoveryPurges ==
  ASSUME NEW g, NEW old, NEW op \in RecoveryOps(g, old), op[1] = "purge"
  PROVE  \E role \in Roles : op = Purge(CleanupOf(role, g)) /\ op[2] = CleanupOf(role, g)
<1>1. PICK role \in Roles : op = Purge(Cleanup(<<role, g>>))
  BY Tags DEF RecoveryOps
<1> QED
  BY <1>1, CleanupNames DEF Purge

\* A step of a recovery that leaves it something to recover, or nothing.
LEMMA RecoveryGoesOn ==
  ASSUME WriterInv, TidyInv, NEW p \in Shells, Waits(shells[p], "release"),
         Waits(shells[p], "stage") \/ shells[p].failed,
         ~Waits(shells[p], "recover"), Waits(shells[p], "unjournal"),
         Remembers, journaled' = journaled, staged' = staged,
         NEW s, shells' = [shells EXCEPT ![p] = s],
         s.gen = shells[p].gen, s.failed = shells[p].failed, s.phase = shells[p].phase,
         \A what \in {"release", "stage", "unjournal", "recover"} :
           Waits(s, what) <=> Waits(shells[p], what),
         Has(dir, Journal), Agree(dir, dir', Journal),
         Residue(dir) \subseteq Own(dir[Journal].gen) => Residue(dir') \subseteq Own(dir[Journal].gen),
         Recoverable(dir) => Recoverable(dir'),
         RecoverySweeps(s, dir'),
         \A op \in Pending(s) : op[1] = "purge" => Has(dir', op[2])
  PROVE  TidyInv'
<1>1. Has(dir', Journal) /\ dir'[Journal] = dir[Journal]
  BY DEF Agree
<1>2. Tidy(dir, journaled) /\ HolderTidy(shells[p], dir, journaled)
  BY TidyFacts
<1>3. Tidy(dir', journaled)
  BY <1>1, <1>2 DEF Tidy
<1>4. ShellTidy(s, dir', journaled)
  BY <1>2 DEF ShellTidy, HolderTidy
<1>5. staged' \in Nat /\ staged <= staged'
  BY Counters
<1> QED
  BY <1>3, <1>4, <1>5, HolderTidies

\* The old generation is moved back.
LEMMA BackTidies ==
  ASSUME WriterInv, TidyInv, NEW p \in Shells, MoveGeneration(p), GoesOn(p, Rest(p)),
         Op(p) = Move(Backup(dir[Journal].gen), Active, dir[Journal].old),
         ~Has(dir, Active), Holds(dir, Backup(dir[Journal].gen), dir[Journal].old),
         dir' = Moved(dir, Backup(dir[Journal].gen), Active), may' = may \cup {dir'},
         Waits(shells[p], "stage") \/ shells[p].failed, RecoversInv(shells[p], dir),
         ~Waits(shells[p], "recover"), Waits(shells[p], "unjournal")
  PROVE  TidyInv'
<1> DEFINE o == shells[p]
           j == dir[Journal]
           g == j.gen
           s == [shells[p] EXCEPT !.todo = Rest(p)]
<1>1. /\ Running(p) /\ Op(p)[1] = "move" /\ journaled' = journaled /\ staged' = staged
  BY DEF MoveGeneration, At, History
<1>2. /\ Waits(o, "release") /\ Op(p) \in Pending(o) /\ Rank(Op(p)) = 14
  BY <1>1, InLock, Turn, RankOf
<1>3. /\ s.gen = o.gen /\ s.failed = o.failed /\ shells' = [shells EXCEPT ![p] = s]
      /\ Pending(o) = {Op(p)} \cup Pending(s) /\ \A op \in Pending(s) : Before(Op(p), op)
  BY <1>1, RestFacts
<1>4. s.phase = o.phase
  BY <1>1, RestPhase
<1> HIDE DEF s
<1>5. /\ Has(dir, Journal) /\ j.state # "committed" /\ j.old # None
      /\ Pending(o) \subseteq RecoveryOps(g, j.old)
  BY <1>2 DEF RecoversInv
<1>6. RecoverySweeps(o, dir)
  BY <1>2, TidyFacts, Tags, InstallKinds DEF HolderTidy
<1>7. \A op : op # Op(p) => (op \in Pending(s) <=> op \in Pending(o))
  BY <1>3
<1>8. /\ \A n : Has(dir', n) <=> n = Active \/ (n # Backup(g) /\ Has(dir, n))
      /\ dir'[Active] = dir[Backup(g)]
      /\ \A n : n # Backup(g) /\ n # Active /\ Has(dir, n) => dir'[n] = dir[n]
  <2>1. Backup(g) # Active /\ Has(dir, Backup(g))
    BY Names DEF Holds
  <2> QED
    BY <2>1, MovedFacts
<1>9. /\ ~Has(dir', Backup(g)) /\ Holds(dir', Active, j.old)
      /\ \A role : Agree(dir, dir', CleanupOf(role, g))
      /\ Agree(dir, dir', Stage(g)) /\ Agree(dir, dir', Journal)
  BY <1>8, Names, CleanupNames DEF Holds, Agree
<1>10. ~Has(dir, CleanupOf("active", g))
  <2>1. Rank(RemoveActive(g)) = 13 /\ Rank(Purge(Cleanup(<<"active", g>>))) = 13
    BY RankOf
  <2>2. RemoveActive(g) \notin Pending(o) /\ Purge(Cleanup(<<"active", g>>)) \notin Pending(o)
    BY <1>2, <1>3, <2>1 DEF Before
  <2> QED
    BY <1>6, <2>2 DEF RecoverySweeps
<1>11. Residue(dir) \subseteq Own(g) => Residue(dir') \subseteq Own(g)
  <2>1. \A n \in Residue(dir') : n \in Residue(dir)
    BY <1>8, Names, ResidueIs
  <2> QED
    BY <2>1
<1>12. Recoverable(dir) => Recoverable(dir')
  <2>1. dir'[Journal] = j
    BY <1>5, <1>9 DEF Agree
  <2>2. \A role : /\ Has(dir', CleanupOf(role, g)) <=> Has(dir, CleanupOf(role, g))
                  /\ Has(dir, CleanupOf(role, g)) => dir'[CleanupOf(role, g)] = dir[CleanupOf(role, g)]
    BY <1>9 DEF Agree
  <2>3. Holds(dir', Stage(g), g) <=> Holds(dir, Stage(g), g)
    BY <1>9 DEF Agree, Holds
  <2>4. Has(dir', Stage(g)) <=> Has(dir, Stage(g))
    BY <1>9 DEF Agree
  <2>5. Has(dir, Backup(g))
    BY DEF Holds
  <2> QED
    BY <1>5, <1>9, <1>10, <2>1, <2>2, <2>3, <2>4, <2>5 DEF Recoverable
<1>13. RecoverySweeps(s, dir')
  <2>1. dir'[Journal] = j /\ Has(dir', Journal)
    BY <1>5, <1>9 DEF Agree
  <2>2. /\ \A op \in {RemoveStage(g), RemoveActive(g), RemoveBackup(g, j.old)} :
             op \in Pending(s) <=> op \in Pending(o)
        /\ \A name : Purge(name) \in Pending(s) <=> Purge(name) \in Pending(o)
    BY <1>7, Tags
  <2>3. Op(p) \notin Pending(s)
    BY <1>2, <1>3 DEF Before
  <2>4. /\ \A role : Has(dir', CleanupOf(role, g)) <=> Has(dir, CleanupOf(role, g))
        /\ Has(dir', Stage(g)) <=> Has(dir, Stage(g))
    BY <1>9 DEF Agree
  <2> QED
    BY <1>6, <1>9, <2>1, <2>2, <2>3, <2>4 DEF RecoverySweeps
<1>14. \A op \in Pending(s) : op[1] = "purge" => Has(dir', op[2])
  <2> SUFFICES ASSUME NEW op \in Pending(s), op[1] = "purge" PROVE Has(dir', op[2])
    OBVIOUS
  <2>1. PICK role \in Roles : op[2] = CleanupOf(role, g)
    BY <1>3, <1>5, RecoveryPurges
  <2>2. Has(dir, op[2])
    BY <1>2, <1>3, TidyFacts DEF HolderTidy
  <2> QED
    BY <1>9, <2>1, <2>2 DEF Agree
<1>15. \A what \in {"release", "stage", "unjournal", "recover"} : Waits(s, what) <=> Waits(o, what)
  BY <1>7, Tags DEF Waits
<1>16. Remembers
  BY DEF Remembers
<1> QED
  BY <1>1, <1>2, <1>3, <1>4, <1>5, <1>9, <1>11, <1>12, <1>13, <1>14, <1>15, <1>16, RecoveryGoesOn

\* What an installation knows and needs to know at a move.
LEMMA MovedAway ==
  ASSUME NEW d, NEW e, NEW from, NEW to, from # to, Has(d, from), e = Moved(d, from, to)
  PROVE  /\ Has(e, to) /\ e[to] = d[from] /\ ~Has(e, from)
         /\ \A k : Holds(d, from, k) => Holds(e, to, k)
         /\ \A n : n \notin {from, to} =>
              /\ Has(e, n) <=> Has(d, n)
              /\ Has(d, n) => e[n] = d[n]
              /\ \A k : Holds(e, n, k) <=> Holds(d, n, k)
         /\ \A n \in Residue(e) : n = to \/ n \in Residue(d)
<1>1. /\ \A n : Has(e, n) <=> n = to \/ (n # from /\ Has(d, n))
      /\ e[to] = d[from]
      /\ \A n : n # from /\ n # to /\ Has(d, n) => e[n] = d[n]
  BY MovedFacts
<1> QED
  BY <1>1, ResidueIs DEF Holds

LEMMA AsideTidies ==
  ASSUME WriterInv, TidyInv, WriterInv', NEW p \in Shells, MoveGeneration(p), GoesOn(p, Rest(p)),
         Op(p) = Move(Active, Backup(shells[p].gen), shells[p].old),
         Holds(dir, Active, shells[p].old),
         dir' = Moved(dir, Active, Backup(shells[p].gen)), may' = may \cup {dir'},
         ~Waits(shells[p], "stage"), ~shells[p].failed, InstallInv(shells[p], dir, may, staged),
         Writes(shells[p], "committed")
  PROVE  TidyInv'
<1> DEFINE o == shells[p]
           g == o.gen
           s == [shells[p] EXCEPT !.todo = Rest(p)]
           forward == Move(Stage(g), Active, g)
           spent == CleanupOf("backup", g)
<1>1. /\ Running(p) /\ Op(p)[1] = "move" /\ journaled' = journaled /\ staged' = staged
  BY DEF MoveGeneration, At, History
<1>2. /\ Waits(o, "release") /\ Op(p) \in Pending(o) /\ Rank(Op(p)) = 7
  BY <1>1, InLock, Turn, RankOf
<1>3. /\ s.gen = o.gen /\ s.old = o.old /\ s.failed = o.failed /\ shells' = [shells EXCEPT ![p] = s]
      /\ Pending(o) = {Op(p)} \cup Pending(s) /\ \A op \in Pending(s) : Before(Op(p), op)
  BY <1>1, RestFacts
<1>4. s.phase = o.phase
  BY <1>1, RestPhase
<1> HIDE DEF s
<1>5. /\ InstallHolds(o, dir) /\ \A op \in Pending(o) : op[1] = "purge" => Has(dir, op[2])
  BY <1>2, Installing
<1>6. Op(p) \notin Pending(s) /\ \A op : op # Op(p) => (op \in Pending(s) <=> op \in Pending(o))
  BY <1>2, <1>3 DEF Before
<1>7. /\ Has(dir', Backup(g)) /\ ~Has(dir', Active) /\ Holds(dir', Backup(g), o.old)
      /\ \A n : n \notin {Active, Backup(g)} =>
           /\ Has(dir', n) <=> Has(dir, n)
           /\ Has(dir, n) => dir'[n] = dir[n]
           /\ \A k : Holds(dir', n, k) <=> Holds(dir, n, k)
      /\ \A n \in Residue(dir') : n = Backup(g) \/ n \in Residue(dir)
  <2>1. Active # Backup(g) /\ Has(dir, Active)
    BY Names DEF Holds
  <2> QED
    BY <2>1, MovedAway
<1>8. \A n \in {Stage(g), spent} :
        /\ Has(dir', n) <=> Has(dir, n)
        /\ Has(dir, n) => dir'[n] = dir[n]
        /\ \A k : Holds(dir', n, k) <=> Holds(dir, n, k)
  <2>1. \A n \in {Stage(g), spent} : n \notin {Active, Backup(g)}
    BY Names, CleanupNames
  <2> QED
    BY <1>7, <2>1
<1>9. forward # Op(p) /\ RemoveBackup(g, o.old) # Op(p)
  BY Tags, Names
<1>10. /\ \A what \in {"fill", "unjournal", "release", "stage"} : Waits(s, what) <=> Waits(o, what)
       /\ \A state : Writes(s, state) <=> Writes(o, state)
  BY <1>1, <1>6, Tags DEF Waits, Writes
<1>11. /\ Residue(dir) \subseteq {Stage(g), Backup(g), spent}
       /\ Has(dir, Stage(g)) <=> forward \in Pending(o)
       /\ Waits(o, "fill") => o.phase = "staged" /\ forward \in Pending(o)
       /\ Writes(o, "prepared") => o.phase = "staged"
       /\ forward \in Pending(o) /\ ~Waits(o, "fill") => Holds(dir, Stage(g), g)
       /\ o.old # None /\ RemoveBackup(g, o.old) \in Pending(o)
       /\ forward \notin Pending(o) => Holds(dir, Active, g)
       /\ ~Has(dir, spent)
  BY <1>2, <1>5 DEF InstallHolds
<1>12. forward \in Pending(o)
  <2>1. o.old \in Nat /\ o.gen \in Nat /\ o.old < o.gen
    BY ShellFacts, BoundsAssumption DEF InstallInv, Commands, Numbers, BoundsAssumption
  <2> QED
    BY <1>11, <2>1, HoldsOne
<1>13. forward \in Pending(s) /\ RemoveBackup(g, o.old) \in Pending(s)
  BY <1>6, <1>9, <1>11, <1>12
<1> HIDE DEF forward, spent
<1>14. InstallHolds(s, dir')
  <2>1. /\ Residue(dir') \subseteq {Stage(g), Backup(g), spent}
        /\ Has(dir', Stage(g)) /\ ~Has(dir', spent)
        /\ Waits(s, "fill") => s.phase = "staged" /\ forward \in Pending(s)
        /\ Writes(s, "prepared") => s.phase = "staged"
        /\ ~Waits(s, "fill") => Holds(dir', Stage(g), g)
    BY <1>4, <1>7, <1>8, <1>10, <1>11, <1>12, <1>13
  <2> QED
    BY <1>3, <1>6, <1>7, <1>11, <1>13, <2>1 DEF InstallHolds, forward, spent
<1>15. \A op \in Pending(s) : op[1] = "purge" => Has(dir', op[2])
  <2> SUFFICES ASSUME NEW op \in Pending(s), op[1] = "purge" PROVE Has(dir', op[2])
    OBVIOUS
  <2>1. op \in Pending(o)
    BY <1>3
  <2>2. op[2] = spent /\ Has(dir, op[2])
    BY <1>5, <2>1, InstallPurges DEF spent
  <2> QED
    BY <1>8, <2>2
<1>16. Remembers /\ Waits(s, "release") /\ ~Waits(s, "stage")
  BY <1>2, <1>10 DEF Remembers
<1> QED
  BY <1>1, <1>2, <1>3, <1>4, <1>14, <1>15, <1>16, InstallTidies

LEMMA ForwardTidies ==
  ASSUME WriterInv, TidyInv, WriterInv', NEW p \in Shells, MoveGeneration(p), GoesOn(p, Rest(p)),
         Op(p) = Move(Stage(shells[p].gen), Active, shells[p].gen),
         Holds(dir, Stage(shells[p].gen), shells[p].gen), ~Has(dir, Active),
         dir' = Moved(dir, Stage(shells[p].gen), Active), may' = may \cup {dir'},
         ~Waits(shells[p], "stage"), ~shells[p].failed, InstallInv(shells[p], dir, may, staged),
         Writes(shells[p], "committed"), ~Writes(shells[p], "prepared")
  PROVE  TidyInv'
<1> DEFINE o == shells[p]
           g == o.gen
           s == [shells[p] EXCEPT !.todo = Rest(p)]
           aside == Move(Active, Backup(g), o.old)
           spent == CleanupOf("backup", g)
<1>1. /\ Running(p) /\ Op(p)[1] = "move" /\ journaled' = journaled /\ staged' = staged
  BY DEF MoveGeneration, At, History
<1>2. /\ Waits(o, "release") /\ Op(p) \in Pending(o) /\ Rank(Op(p)) = 9
  BY <1>1, InLock, Turn, RankOf
<1>3. /\ s.gen = o.gen /\ s.old = o.old /\ s.failed = o.failed /\ shells' = [shells EXCEPT ![p] = s]
      /\ Pending(o) = {Op(p)} \cup Pending(s) /\ \A op \in Pending(s) : Before(Op(p), op)
  BY <1>1, RestFacts
<1>4. s.phase = o.phase
  BY <1>1, RestPhase
<1> HIDE DEF s
<1>5. /\ InstallHolds(o, dir) /\ \A op \in Pending(o) : op[1] = "purge" => Has(dir, op[2])
  BY <1>2, Installing
<1>6. Op(p) \notin Pending(s) /\ \A op : op # Op(p) => (op \in Pending(s) <=> op \in Pending(o))
  BY <1>2, <1>3 DEF Before
<1>7. /\ ~Has(dir', Stage(g)) /\ Holds(dir', Active, g)
      /\ \A n : n \notin {Active, Stage(g)} =>
           /\ Has(dir', n) <=> Has(dir, n)
           /\ Has(dir, n) => dir'[n] = dir[n]
           /\ \A k : Holds(dir', n, k) <=> Holds(dir, n, k)
      /\ \A n \in Residue(dir') : n = Active \/ n \in Residue(dir)
  <2>1. Active # Stage(g) /\ Has(dir, Stage(g))
    BY Names DEF Holds
  <2> QED
    BY <2>1, MovedAway
<1>8. \A n \in {Backup(g), spent} :
        /\ Has(dir', n) <=> Has(dir, n)
        /\ Has(dir, n) => dir'[n] = dir[n]
        /\ \A k : Holds(dir', n, k) <=> Holds(dir, n, k)
  <2>1. \A n \in {Backup(g), spent} : n \notin {Active, Stage(g)}
    BY Names, CleanupNames
  <2> QED
    BY <1>7, <2>1
<1>9. aside # Op(p) /\ RemoveBackup(g, o.old) # Op(p)
  BY Tags, Names
<1>10. /\ \A what \in {"fill", "unjournal", "release", "stage"} : Waits(s, what) <=> Waits(o, what)
       /\ \A state : Writes(s, state) <=> Writes(o, state)
  BY <1>1, <1>6, Tags DEF Waits, Writes
<1>11. ~Waits(s, "fill") /\ ~Writes(s, "prepared")
  <2>1. Rank(Do("fill")) = 4
    BY RankOf
  <2>2. Do("fill") \notin Pending(s)
    BY <1>2, <1>3, <2>1 DEF Before
  <2> QED
    BY <1>10, <2>2 DEF Waits
<1>12. /\ Residue(dir) \subseteq {Stage(g), Backup(g), spent}
       /\ aside \notin Pending(o)
       /\ o.old # None => Has(dir, Backup(g))
       /\ Has(dir, Backup(g)) =>
            /\ o.old # None /\ Holds(dir, Backup(g), o.old)
            /\ RemoveBackup(g, o.old) \in Pending(o)
       /\ ~Has(dir, spent)
  BY <1>5 DEF InstallHolds, Holds
<1>13. aside \notin Pending(s) /\ (RemoveBackup(g, o.old) \in Pending(o) => RemoveBackup(g, o.old) \in Pending(s))
  BY <1>6, <1>9, <1>12
<1>14. \A n \in Residue(dir') : n # Active
  BY Names, ResidueIs
<1> HIDE DEF aside, spent
<1>15. InstallHolds(s, dir')
  <2>1. Residue(dir') \subseteq {Stage(g), Backup(g), spent}
    BY <1>7, <1>12, <1>14
  <2>2. ~Has(dir', spent)
    BY <1>8, <1>12
  <2>3. /\ o.old # None => Has(dir', Backup(g))
        /\ Has(dir', Backup(g)) =>
             /\ o.old # None /\ Holds(dir', Backup(g), o.old)
             /\ RemoveBackup(g, o.old) \in Pending(s)
    BY <1>8, <1>12, <1>13
  <2> QED
    BY <1>3, <1>6, <1>7, <1>11, <1>13, <2>1, <2>2, <2>3 DEF InstallHolds, aside, spent
<1>16. \A op \in Pending(s) : op[1] = "purge" => Has(dir', op[2])
  <2> SUFFICES ASSUME NEW op \in Pending(s), op[1] = "purge" PROVE Has(dir', op[2])
    OBVIOUS
  <2>1. op \in Pending(o)
    BY <1>3
  <2>2. op[2] = spent /\ Has(dir, op[2])
    BY <1>5, <2>1, InstallPurges DEF spent
  <2> QED
    BY <1>8, <2>2
<1>17. Remembers /\ Waits(s, "release") /\ ~Waits(s, "stage")
  BY <1>2, <1>10 DEF Remembers
<1> QED
  BY <1>1, <1>2, <1>3, <1>4, <1>15, <1>16, <1>17, InstallTidies

LEMMA MoveTidies ==
  ASSUME WriterInv, TidyInv, WriterInv', NEW p \in Shells, MoveGeneration(p)
  PROVE  TidyInv'
<1> DEFINE o == shells[p]
           j == dir[Journal]
           from == Op(p)[2]
           to == Op(p)[3]
           k == Op(p)[4]
<1>1. /\ Running(p) /\ Op(p)[1] = "move" /\ journaled' = journaled /\ staged' = staged
  BY DEF MoveGeneration, At, History
<1>2. CASE Throws(p) /\ UNCHANGED <<dir, may>>
  BY <1>1, <1>2, QuietThrowTidies
<1>3. CASE /\ Holds(dir, from, k) /\ ~Has(dir, to) /\ Becomes(Moved(dir, from, to))
           /\ GoesOn(p, Rest(p))
  <2>1. dir' = Moved(dir, from, to) /\ may' = may \cup {dir'}
    BY <1>3 DEF Becomes
  <2>2. CASE /\ Waits(o, "stage") \/ o.failed
             /\ RecoversInv(o, dir) /\ ~Waits(o, "recover") /\ Waits(o, "unjournal")
             /\ Op(p) = Move(Backup(j.gen), Active, j.old)
    <3>1. from = Backup(j.gen) /\ to = Active /\ k = j.old
      BY <2>2 DEF Move
    <3> QED
      BY <1>3, <2>1, <2>2, <3>1, BackTidies
  <2>3. CASE /\ ~Waits(o, "stage") /\ ~o.failed /\ InstallInv(o, dir, may, staged)
             /\ Writes(o, "committed") /\ ~Writes(o, "prepared")
             /\ Op(p) \in {Move(Active, Backup(o.gen), o.old), Move(Stage(o.gen), Active, o.gen)}
    <3>1. CASE Op(p) = Move(Active, Backup(o.gen), o.old)
      <4>1. from = Active /\ to = Backup(o.gen) /\ k = o.old
        BY <3>1 DEF Move
      <4> QED
        BY <1>3, <2>1, <2>3, <3>1, <4>1, AsideTidies
    <3>2. CASE Op(p) = Move(Stage(o.gen), Active, o.gen)
      <4>1. from = Stage(o.gen) /\ to = Active /\ k = o.gen
        BY <3>2 DEF Move
      <4> QED
        BY <1>3, <2>1, <2>3, <3>2, <4>1, ForwardTidies
    <3> QED
      BY <2>3, <3>1, <3>2
  <2> QED
    BY <1>1, <2>2, <2>3, MovesAre
<1> QED
  BY <1>2, <1>3 DEF MoveGeneration

----------------------------------------------------------------------------
(* Generations removed: into quarantine, then file by file.                *)

\* A removal that goes through, wherever an earlier one was cut off.
LEMMA RemovalFinds ==
  ASSUME WriterInv, NEW p \in Shells, RemoveGeneration(p), Removable(dir, Op(p)),
         NEW from, NEW q, NEW k, Op(p) = Remove(from, q, k), from # q,
         Purge(q) \in Ops, Rank(Op(p)) = Rank(Purge(q)), Rank(Op(p)) \in Nat
  PROVE  /\ Remembers /\ ~Has(dir', from)
         /\ Has(dir', q) <=> Has(dir, from) \/ Has(dir, q)
         /\ Has(dir', q) => dir'[q].gen = k
         /\ \A n : n \notin {from, q} => Agree(dir, dir', n)
         /\ \E t \in Seq(Ops) :
              /\ GoesOn(p, t)
              /\ Op(p) \notin Range(t)
              /\ Purge(q) \in Range(t) <=> Has(dir', q)
              /\ \A op : op \notin {Op(p), Do("sync"), Purge(q)} =>
                   (op \in Range(t) <=> op \in Pending(shells[p]))
<1> DEFINE purge == <<Purge(q), Do("sync")>>
<1>1. Op(p)[2] = from /\ Op(p)[3] = q /\ Op(p)[4] = k /\ Op(p)[1] = "remove"
  BY DEF Remove
<1>2. /\ Rest(p) \in Seq(Ops) /\ \A op \in Range(Rest(p)) : Before(Op(p), op)
      /\ Pending(shells[p]) = {Op(p)} \cup Range(Rest(p)) /\ Op(p) \in Ops
  BY Turn DEF RemoveGeneration, At
<1>3. Rank(Op(p)) # 0
  BY <1>1, <1>2, OpKinds, RankOf
<1>4. Op(p) \notin Range(Rest(p)) /\ Purge(q) \notin Range(Rest(p))
  BY <1>2, <1>3 DEF Before
<1>5. Do("sync") # Op(p) /\ Purge(q) # Op(p) /\ Purge(q) # Do("sync")
  BY <1>1, Tags
<1>6. /\ purge \in Seq(Ops) /\ Range(purge) = {Purge(q), Do("sync")}
      /\ <<Do("sync")>> \in Seq(Ops) /\ Range(<<Do("sync")>>) = {Do("sync")}
  BY OpsAre, RankOf, PairFacts, OneFacts DEF Plain, Before
<1> HIDE DEF purge
<1>7. /\ purge \o Rest(p) \in Seq(Ops)
      /\ Range(purge \o Rest(p)) = {Purge(q), Do("sync")} \cup Range(Rest(p))
      /\ <<Do("sync")>> \o purge \in Seq(Ops)
      /\ Range(<<Do("sync")>> \o purge) = {Purge(q), Do("sync")}
  BY <1>2, <1>6, JoinedRange
<1>8. /\ <<Do("sync")>> \o purge \o Rest(p) \in Seq(Ops)
      /\ Range(<<Do("sync")>> \o purge \o Rest(p)) = {Purge(q), Do("sync")} \cup Range(Rest(p))
  BY <1>2, <1>7, JoinedRange
<1>9. <<>> \o Rest(p) \in Seq(Ops) /\ Range(<<>> \o Rest(p)) = Range(Rest(p))
  BY <1>2, EmptyFacts, JoinedRange
<1>10. CASE Has(dir, from)
  <2>1. /\ dir' = Moved(dir, from, q) /\ may' = may \cup {dir'}
        /\ GoesOn(p, <<Do("sync")>> \o purge \o Rest(p))
    BY <1>1, <1>10 DEF RemoveGeneration, Becomes, purge
  <2>2. Holds(dir, from, k)
    BY <1>1, <1>10 DEF Removable
  <2>3. /\ \A n : Has(dir', n) <=> n = q \/ (n # from /\ Has(dir, n))
        /\ dir'[q] = dir[from]
        /\ \A n : n # from /\ n # q /\ Has(dir, n) => dir'[n] = dir[n]
    BY <1>10, <2>1, MovedFacts
  <2>4. /\ ~Has(dir', from) /\ Has(dir', q) /\ dir'[q].gen = k
        /\ \A n : n \notin {from, q} => Agree(dir, dir', n)
    BY <2>2, <2>3 DEF Agree, Holds, Whole
  <2>5. Remembers
    BY <2>1 DEF Remembers
  <2> QED
    BY <1>2, <1>4, <1>5, <1>8, <1>10, <2>1, <2>4, <2>5
<1>11. CASE ~Has(dir, from)
  <2>1. UNCHANGED <<dir, may>>
    BY <1>1, <1>11 DEF RemoveGeneration
  <2>2. Has(dir, q) => dir[q].gen = k
    BY <1>1, <1>11 DEF Removable
  <2>3. Remembers /\ \A n : Agree(dir, dir', n)
    BY <2>1, Unmoved
  <2>4. CASE Has(dir, q)
    <3>1. GoesOn(p, purge \o Rest(p))
      BY <1>1, <1>11, <2>4 DEF RemoveGeneration, purge
    <3> QED
      BY <1>2, <1>4, <1>5, <1>7, <1>11, <2>1, <2>2, <2>3, <2>4, <3>1
  <2>5. CASE ~Has(dir, q)
    <3>1. GoesOn(p, <<>> \o Rest(p))
      BY <1>1, <1>11, <2>5 DEF RemoveGeneration
    <3> QED
      BY <1>2, <1>4, <1>5, <1>9, <1>11, <2>1, <2>3, <2>5, <3>1
  <2> QED
    BY <2>4, <2>5
<1> QED
  BY <1>10, <1>11

\* The three that a recovery removes, and where their files go first.
LEMMA RecoveryRemovalIs ==
  ASSUME WriterInv, NEW p \in Shells, RemoveGeneration(p), Waits(shells[p], "release"),
         Waits(shells[p], "stage") \/ shells[p].failed
  PROVE  LET o == shells[p]
             j == dir[Journal]
             g == j.gen
         IN /\ RecoversInv(o, dir) /\ ~Waits(o, "recover") /\ Waits(o, "unjournal")
            /\ Op(p) \in Pending(o) /\ g \in Numbers /\ j.old \in Numbers
            /\ Op(p) \in {RemoveStage(g), RemoveActive(g), RemoveBackup(g, j.old)}
<1> DEFINE o == shells[p]
           j == dir[Journal]
<1>1. /\ Running(p) /\ Op(p)[1] = "remove"
  BY DEF RemoveGeneration, At
<1>2. Op(p) \in Pending(o)
  BY <1>1, Turn
<1>3. RecoversInv(o, dir) /\ ~Waits(o, "recover") /\ Waits(o, "unjournal")
  <2>1. Op(p) \notin {Do("recover"), Do("stage"), Do("release"), Do("sync"), Do("discard"),
                      Purge(Stage(o.gen))}
    BY <1>1, Tags
  <2> QED
    BY <1>2, <2>1, HolderFacts DEF RecoveryInv
<1>4. Op(p) \in {RemoveStage(j.gen), RemoveActive(j.gen), RemoveBackup(j.gen, j.old)}
  <2>1. Op(p) \in RecoveryOps(j.gen, j.old)
    BY <1>2, <1>3 DEF RecoversInv
  <2>2. /\ Op(p) \notin {Do("sync"), Do("unjournal"), Do("stage"), Do("release"),
                         Move(Backup(j.gen), Active, j.old)}
        /\ \A role : Op(p) # Purge(Cleanup(<<role, j.gen>>))
    BY <1>1, Tags
  <2> QED
    BY <2>1, <2>2 DEF RecoveryOps
<1>5. j.gen \in Numbers /\ j.old \in Numbers
  BY <1>3, Counters, BoundsAssumption DEF RecoversInv, DiskTyped, Numbers, BoundsAssumption
<1> QED
  BY <1>2, <1>3, <1>4, <1>5

\* What a recovery has still to find, once one of its removals is under way.
LEMMA RemovalSweeps ==
  ASSUME NEW o, NEW s, NEW d, NEW e, RecoverySweeps(o, d), RecoversInv(o, d),
         NEW role, NEW op, NEW from,
         \/ role = "stage" /\ op = RemoveStage(d[Journal].gen) /\ from = Stage(d[Journal].gen)
         \/ role = "active" /\ op = RemoveActive(d[Journal].gen) /\ from = Active
         \/ /\ role = "backup" /\ op = RemoveBackup(d[Journal].gen, d[Journal].old)
            /\ from = Backup(d[Journal].gen),
         op \in Pending(o), ~Has(e, from),
         \A n : n \notin {from, CleanupOf(role, d[Journal].gen)} => Agree(d, e, n),
         Purge(CleanupOf(role, d[Journal].gen)) \in Pending(s)
           <=> Has(e, CleanupOf(role, d[Journal].gen)),
         \A x : x \notin {op, Do("sync"), Purge(CleanupOf(role, d[Journal].gen))} =>
           (x \in Pending(s) <=> x \in Pending(o))
  PROVE  RecoverySweeps(s, e)
<1> DEFINE j == d[Journal]
           g == j.gen
           q == CleanupOf(role, g)
           back == Move(Backup(g), Active, j.old)
<1>1. /\ Journal \notin {from, q} /\ Has(d, Journal)
  BY Names, CleanupNames DEF RecoversInv
<1>2. Has(e, Journal) /\ e[Journal] = j
  BY <1>1 DEF Agree
<1>3. \A name : Cleanup(<<name, g>>) = CleanupOf(name, g)
  BY CleanupNames
<1>4. /\ Has(d, Stage(g)) => RemoveStage(g) \in Pending(o)
      /\ Has(d, CleanupOf("stage", g)) =>
           {RemoveStage(g), Purge(CleanupOf("stage", g))} \cap Pending(o) # {}
      /\ Has(d, CleanupOf("active", g)) =>
           {RemoveActive(g), Purge(CleanupOf("active", g))} \cap Pending(o) # {}
      /\ Has(d, Backup(g)) => {RemoveBackup(g, j.old), back} \cap Pending(o) # {}
      /\ Has(d, CleanupOf("backup", g)) =>
           {RemoveBackup(g, j.old), Purge(CleanupOf("backup", g))} \cap Pending(o) # {}
      /\ back \in Pending(o) => Has(d, Backup(g))
  BY <1>3 DEF RecoverySweeps
<1>5. /\ back # op /\ back # Do("sync") /\ back # Purge(q)
      /\ \A x \in {RemoveStage(g), RemoveActive(g), RemoveBackup(g, j.old)} :
           x # Do("sync") /\ x # Purge(q)
  BY Tags
<1>6. back \in Pending(s) <=> back \in Pending(o)
  BY <1>5
<1>7. /\ RemoveStage(g) # RemoveActive(g) /\ RemoveStage(g) # RemoveBackup(g, j.old)
      /\ RemoveActive(g) # RemoveBackup(g, j.old)
      /\ \A a, b : Purge(a) = Purge(b) => a = b
      /\ \A a : Purge(a) # op
  BY Tags DEF Purge
<1>8. /\ \A a, b : CleanupOf(a, g) = CleanupOf(b, g) => a = b
      /\ \A a : CleanupOf(a, g) # from /\ CleanupOf(a, g) # Stage(g) /\ CleanupOf(a, g) # Backup(g)
      /\ Stage(g) # Backup(g) /\ Stage(g) # Active /\ Backup(g) # Active
  BY CleanupNames, Names
<1>9. /\ role # "stage" => /\ Has(e, Stage(g)) <=> Has(d, Stage(g))
                           /\ RemoveStage(g) \in Pending(s) <=> RemoveStage(g) \in Pending(o)
      /\ role # "backup" =>
           /\ Has(e, Backup(g)) <=> Has(d, Backup(g))
           /\ RemoveBackup(g, j.old) \in Pending(s) <=> RemoveBackup(g, j.old) \in Pending(o)
      /\ role # "active" => (RemoveActive(g) \in Pending(s) <=> RemoveActive(g) \in Pending(o))
  BY <1>5, <1>7, <1>8 DEF Agree
<1>10. \A a : a # role => /\ Has(e, CleanupOf(a, g)) <=> Has(d, CleanupOf(a, g))
                          /\ Purge(CleanupOf(a, g)) \in Pending(s) <=> Purge(CleanupOf(a, g)) \in Pending(o)
  <2> SUFFICES ASSUME NEW a, a # role
               PROVE  /\ Has(e, CleanupOf(a, g)) <=> Has(d, CleanupOf(a, g))
                      /\ Purge(CleanupOf(a, g)) \in Pending(s) <=> Purge(CleanupOf(a, g)) \in Pending(o)
    OBVIOUS
  <2>1. CleanupOf(a, g) \notin {from, q}
    BY <1>8
  <2>2. Purge(CleanupOf(a, g)) \notin {op, Do("sync"), Purge(q)}
    BY <1>7, <1>8, Tags
  <2> QED
    BY <2>1, <2>2 DEF Agree
<1>11. /\ role = "stage" => ~Has(e, Stage(g))
       /\ role = "backup" => ~Has(e, Backup(g))
  OBVIOUS
<1>12. role = "backup" => back \notin Pending(o)
  BY Tags DEF RecoversInv
<1> HIDE DEF j, g, q, back
<1>13. /\ Has(e, Stage(g)) => RemoveStage(g) \in Pending(s)
       /\ Has(e, CleanupOf("stage", g)) =>
            {RemoveStage(g), Purge(CleanupOf("stage", g))} \cap Pending(s) # {}
       /\ Has(e, CleanupOf("active", g)) =>
            {RemoveActive(g), Purge(CleanupOf("active", g))} \cap Pending(s) # {}
       /\ Has(e, Backup(g)) => {RemoveBackup(g, j.old), back} \cap Pending(s) # {}
       /\ Has(e, CleanupOf("backup", g)) =>
            {RemoveBackup(g, j.old), Purge(CleanupOf("backup", g))} \cap Pending(s) # {}
       /\ back \in Pending(s) => Has(e, Backup(g))
  <2>1. CASE role = "stage"
    <3>1. Purge(CleanupOf("stage", g)) \in Pending(s) <=> Has(e, CleanupOf("stage", g))
      BY <2>1 DEF g, j
    <3> QED
      BY <1>4, <1>6, <1>9, <1>10, <1>11, <2>1, <3>1
  <2>2. CASE role = "active"
    <3>1. Purge(CleanupOf("active", g)) \in Pending(s) <=> Has(e, CleanupOf("active", g))
      BY <2>2 DEF g, j
    <3> QED
      BY <1>4, <1>6, <1>9, <1>10, <2>2, <3>1
  <2>3. CASE role = "backup"
    <3>1. Purge(CleanupOf("backup", g)) \in Pending(s) <=> Has(e, CleanupOf("backup", g))
      BY <2>3 DEF g, j
    <3> QED
      BY <1>4, <1>6, <1>9, <1>10, <1>11, <1>12, <2>3, <3>1
  <2> QED
    BY <2>1, <2>2, <2>3
<1> QED
  BY <1>2, <1>3, <1>13 DEF RecoverySweeps, j, g, q, back

\* A removal of a recovery leaves what another recovery goes through with.
LEMMA RemovalRecovers ==
  ASSUME NEW o, NEW d, NEW e, RecoversInv(o, d), RecoverySweeps(o, d), Recoverable(d),
         NEW role, NEW from, NEW k,
         \/ /\ role = "stage" /\ RemoveStage(d[Journal].gen) \in Pending(o)
            /\ from = Stage(d[Journal].gen) /\ k = d[Journal].gen
         \/ /\ role = "active" /\ RemoveActive(d[Journal].gen) \in Pending(o)
            /\ from = Active /\ k = d[Journal].gen
         \/ /\ role = "backup" /\ RemoveBackup(d[Journal].gen, d[Journal].old) \in Pending(o)
            /\ from = Backup(d[Journal].gen) /\ k = d[Journal].old,
         ~Has(e, from),
         \A n : n \notin {from, CleanupOf(role, d[Journal].gen)} => Agree(d, e, n),
         Has(e, CleanupOf(role, d[Journal].gen))
           <=> Has(d, from) \/ Has(d, CleanupOf(role, d[Journal].gen)),
         Has(e, CleanupOf(role, d[Journal].gen)) => e[CleanupOf(role, d[Journal].gen)].gen = k
  PROVE  Recoverable(e)
<1> DEFINE j == d[Journal]
           g == j.gen
           q == CleanupOf(role, g)
<1>1. Journal \notin {from, q} /\ Has(d, Journal)
  BY Names, CleanupNames DEF RecoversInv
<1>2. Has(e, Journal) /\ e[Journal] = j
  BY <1>1 DEF Agree
<1>3. /\ \A a : CleanupOf(a, g) # from /\ (a # role => CleanupOf(a, g) # q)
      /\ \A n \in {Stage(g), Backup(g), Active} : n # q
      /\ Stage(g) # Backup(g) /\ Stage(g) # Active /\ Backup(g) # Active
  BY CleanupNames, Names
<1>4. \A a : a # role => /\ Has(e, CleanupOf(a, g)) <=> Has(d, CleanupOf(a, g))
                         /\ Has(d, CleanupOf(a, g)) => e[CleanupOf(a, g)] = d[CleanupOf(a, g)]
  BY <1>3 DEF Agree
<1>5. \A n \in {Stage(g), Backup(g), Active} : n # from =>
        /\ Has(e, n) <=> Has(d, n)
        /\ \A h : Holds(e, n, h) <=> Holds(d, n, h)
  BY <1>3 DEF Agree, Holds
<1>6. CASE role = "stage"
  BY <1>2, <1>3, <1>4, <1>5, <1>6 DEF Recoverable
<1>7. CASE role = "active"
  <2>1. j.state # "committed" /\ (j.old # None => Has(d, Backup(g)))
    BY <1>7, Tags DEF RecoversInv, RecoverySweeps
  <2> QED
    BY <1>2, <1>3, <1>4, <1>5, <1>7, <2>1 DEF Recoverable
<1>8. CASE role = "backup"
  <2>1. j.state = "committed"
    BY <1>8, Tags DEF RecoversInv
  <2> QED
    BY <1>2, <1>3, <1>4, <1>5, <1>8, <2>1 DEF Recoverable
<1> QED
  BY <1>6, <1>7, <1>8

LEMMA RecoveryRemovalTidies ==
  ASSUME WriterInv, TidyInv, NEW p \in Shells, RemoveGeneration(p), Removable(dir, Op(p)),
         Waits(shells[p], "release"), Waits(shells[p], "stage") \/ shells[p].failed,
         NEW role \in Roles, NEW from, NEW k,
         Op(p) = Remove(from, CleanupOf(role, dir[Journal].gen), k),
         \/ /\ role = "stage" /\ Op(p) = RemoveStage(dir[Journal].gen)
            /\ from = Stage(dir[Journal].gen) /\ k = dir[Journal].gen
         \/ /\ role = "active" /\ Op(p) = RemoveActive(dir[Journal].gen)
            /\ from = Active /\ k = dir[Journal].gen
         \/ /\ role = "backup" /\ Op(p) = RemoveBackup(dir[Journal].gen, dir[Journal].old)
            /\ from = Backup(dir[Journal].gen) /\ k = dir[Journal].old
  PROVE  TidyInv'
<1> DEFINE o == shells[p]
           j == dir[Journal]
           g == j.gen
           q == CleanupOf(role, g)
<1>1. journaled' = journaled /\ staged' = staged
  BY DEF RemoveGeneration, History
<1>2. /\ RecoversInv(o, dir) /\ ~Waits(o, "recover") /\ Waits(o, "unjournal")
      /\ Op(p) \in Pending(o) /\ g \in Numbers
  BY RecoveryRemovalIs
<1>3. /\ q = Cleanup(<<role, g>>) /\ q[1] = "cleanup" /\ from[1] # "cleanup" /\ from # Journal
      /\ Journal # q
  BY CleanupNames, Names
<1>4. Purge(q) \in Ops /\ Rank(Op(p)) = Rank(Purge(q)) /\ Rank(Op(p)) \in Nat
  BY <1>2, <1>3, OpsAre, RankOf
<1>5. from # q
  BY <1>3
<1> HIDE DEF q
<1>6. /\ Remembers /\ ~Has(dir', from)
      /\ Has(dir', q) <=> Has(dir, from) \/ Has(dir, q)
      /\ Has(dir', q) => dir'[q].gen = k
      /\ \A n : n \notin {from, q} => Agree(dir, dir', n)
      /\ \E t \in Seq(Ops) :
           /\ GoesOn(p, t)
           /\ Op(p) \notin Range(t)
           /\ Purge(q) \in Range(t) <=> Has(dir', q)
           /\ \A op : op \notin {Op(p), Do("sync"), Purge(q)} =>
                (op \in Range(t) <=> op \in Pending(o))
  BY <1>4, <1>5, RemovalFinds DEF q
<1>7. PICK t \in Seq(Ops) :
        /\ GoesOn(p, t)
        /\ Op(p) \notin Range(t)
        /\ Purge(q) \in Range(t) <=> Has(dir', q)
        /\ \A op : op \notin {Op(p), Do("sync"), Purge(q)} =>
             (op \in Range(t) <=> op \in Pending(o))
  BY <1>6
<1> DEFINE s == [shells[p] EXCEPT !.todo = t]
<1>8. /\ Pending(s) = Range(t) /\ s.gen = o.gen /\ s.failed = o.failed /\ s.phase = o.phase
      /\ shells' = [shells EXCEPT ![p] = s]
  BY <1>7, ReplacedToo
<1> HIDE DEF s
<1>9. RecoverySweeps(o, dir)
  BY <1>2, TidyFacts, Tags, InstallKinds DEF HolderTidy
<1>10. RecoverySweeps(s, dir')
  <2>1. \/ role = "stage" /\ Op(p) = RemoveStage(g) /\ from = Stage(g)
        \/ role = "active" /\ Op(p) = RemoveActive(g) /\ from = Active
        \/ role = "backup" /\ Op(p) = RemoveBackup(g, j.old) /\ from = Backup(g)
    OBVIOUS
  <2>2. /\ Purge(CleanupOf(role, g)) \in Pending(s) <=> Has(dir', CleanupOf(role, g))
        /\ \A x : x \notin {Op(p), Do("sync"), Purge(CleanupOf(role, g))} =>
             (x \in Pending(s) <=> x \in Pending(o))
        /\ \A n : n \notin {from, CleanupOf(role, g)} => Agree(dir, dir', n)
    BY <1>6, <1>7, <1>8 DEF q
  <2> QED
    BY <1>2, <1>6, <1>9, <2>1, <2>2, RemovalSweeps
<1>11. Recoverable(dir) => Recoverable(dir')
  BY <1>2, <1>6, <1>9, RemovalRecovers DEF q
<1>12. Residue(dir) \subseteq Own(g) => Residue(dir') \subseteq Own(g)
  <2>1. q \in Own(g)
    BY OwnNames DEF Roles, q
  <2>2. \A n \in Residue(dir') : n = q \/ n \in Residue(dir)
    BY <1>6, ResidueIs DEF Agree
  <2> QED
    BY <2>1, <2>2
<1>13. \A op \in Pending(s) : op[1] = "purge" => Has(dir', op[2])
  <2> SUFFICES ASSUME NEW op \in Pending(s), op[1] = "purge" PROVE Has(dir', op[2])
    OBVIOUS
  <2>1. CASE op = Purge(q)
    BY <1>7, <1>8, <2>1 DEF Purge
  <2>2. CASE op # Purge(q)
    <3>1. op # Op(p) /\ op # Do("sync")
      BY Tags
    <3>2. op \in Pending(o) /\ Pending(o) \subseteq RecoveryOps(g, j.old)
      BY <1>2, <1>7, <1>8, <2>2, <3>1 DEF RecoversInv
    <3>3. PICK other \in Roles : op = Purge(CleanupOf(other, g)) /\ op[2] = CleanupOf(other, g)
      BY <3>2, RecoveryPurges
    <3>4. op[2] \notin {from, q}
      BY <1>3, <2>2, <3>3, CleanupNames
    <3>5. Has(dir, op[2])
      BY <3>2, TidyFacts DEF HolderTidy
    <3> QED
      BY <1>6, <3>4, <3>5 DEF Agree
  <2> QED
    BY <2>1, <2>2
<1>14. \A what \in {"release", "stage", "unjournal", "recover"} : Waits(s, what) <=> Waits(o, what)
  <2>1. \A what \in {"release", "stage", "unjournal", "recover"} :
          Do(what) \notin {Op(p), Do("sync"), Purge(q)}
    BY Tags
  <2> QED
    BY <1>7, <1>8, <2>1 DEF Waits
<1>15. Has(dir, Journal) /\ Agree(dir, dir', Journal)
  BY <1>2, <1>3, <1>6 DEF RecoversInv
<1> QED
  BY <1>1, <1>2, <1>6, <1>8, <1>10, <1>11, <1>12, <1>13, <1>14, <1>15, RecoveryGoesOn

LEMMA RecoveryRemovesTidies ==
  ASSUME WriterInv, TidyInv, NEW p \in Shells, RemoveGeneration(p), Removable(dir, Op(p)),
         Waits(shells[p], "release"), Waits(shells[p], "stage") \/ shells[p].failed
  PROVE  TidyInv'
<1> DEFINE j == dir[Journal]
           g == j.gen
<1>1. Op(p) \in {RemoveStage(g), RemoveActive(g), RemoveBackup(g, j.old)}
  BY RecoveryRemovalIs
<1>2. /\ RemoveStage(g) = Remove(Stage(g), CleanupOf("stage", g), g)
      /\ RemoveActive(g) = Remove(Active, CleanupOf("active", g), g)
      /\ RemoveBackup(g, j.old) = Remove(Backup(g), CleanupOf("backup", g), j.old)
  BY CleanupNames DEF RemoveStage, RemoveActive, RemoveBackup
<1>3. CASE Op(p) = RemoveStage(g)
  BY <1>2, <1>3, RecoveryRemovalTidies DEF Roles
<1>4. CASE Op(p) = RemoveActive(g)
  BY <1>2, <1>4, RecoveryRemovalTidies DEF Roles
<1>5. CASE Op(p) = RemoveBackup(g, j.old)
  BY <1>2, <1>5, RecoveryRemovalTidies DEF Roles
<1> QED
  BY <1>1, <1>3, <1>4, <1>5

\* The old generation of an installation is removed once the new one is committed.
LEMMA InstallRemovesTidies ==
  ASSUME WriterInv, TidyInv, WriterInv', NEW p \in Shells, RemoveGeneration(p),
         Removable(dir, Op(p)), Waits(shells[p], "release"), ~Waits(shells[p], "stage"),
         ~shells[p].failed
  PROVE  TidyInv'
<1> DEFINE o == shells[p]
           g == o.gen
           from == Backup(g)
           q == CleanupOf("backup", g)
           forward == Move(Stage(g), Active, g)
           aside == Move(Active, Backup(g), o.old)
<1>1. /\ Running(p) /\ Op(p)[1] = "remove" /\ journaled' = journaled /\ staged' = staged
  BY DEF RemoveGeneration, At, History
<1>2. /\ Op(p) \in Pending(o) /\ InstallInv(o, dir, may, staged) /\ InstallHolds(o, dir)
      /\ \A op \in Pending(o) : op[1] = "purge" => Has(dir, op[2])
  BY <1>1, Turn, Installing
<1>3. Op(p) = RemoveBackup(g, o.old)
  <2>1. Op(p) \in InstallOps(g, o.old)
    BY <1>2 DEF InstallInv
  <2> QED
    BY <1>1, <2>1, Tags DEF InstallOps
<1>4. CommittedInv(o, dir)
  BY <1>1, <1>2, <1>3, RankOf, AfterCommit
<1>5. /\ Waits(o, "unjournal") /\ ~Waits(o, "fill")
      /\ forward \notin Pending(o) /\ aside \notin Pending(o)
      /\ \A state : ~Writes(o, state)
  <2>1. \A op \in Pending(o) : op[1] \in {"settle", "remove", "purge", "sync", "unjournal", "release"}
    BY <1>4, Tags DEF CommittedInv
  <2> QED
    BY <1>2, <1>3, <1>4, <2>1, Tags DEF CommittedInv, Waits, Writes
<1>6. /\ Op(p) = Remove(from, q, o.old) /\ q = Cleanup(<<"backup", g>>)
  BY <1>3, CleanupNames DEF RemoveBackup
<1>7. Purge(q) \in Ops /\ Rank(Op(p)) = Rank(Purge(q)) /\ Rank(Op(p)) \in Nat
  <2>1. g \in Numbers
    BY ShellFacts DEF Commands
  <2>2. Rank(Op(p)) = 16 /\ Rank(Purge(Cleanup(<<"backup", g>>))) = 16
    BY <1>3, RankOf
  <2>3. Purge(Cleanup(<<"backup", g>>)) \in Ops
    BY <2>1, OpsAre DEF Roles
  <2> QED
    BY <1>6, <2>2, <2>3
<1>8. /\ from # q /\ Active \notin {from, q} /\ Stage(g) \notin {from, q}
  BY CleanupNames, Names
<1> HIDE DEF from, q
<1>9. /\ Remembers /\ ~Has(dir', from)
      /\ Has(dir', q) <=> Has(dir, from) \/ Has(dir, q)
      /\ Has(dir', q) => dir'[q].gen = o.old
      /\ \A n : n \notin {from, q} => Agree(dir, dir', n)
      /\ \E t \in Seq(Ops) :
           /\ GoesOn(p, t)
           /\ Op(p) \notin Range(t)
           /\ Purge(q) \in Range(t) <=> Has(dir', q)
           /\ \A op : op \notin {Op(p), Do("sync"), Purge(q)} =>
                (op \in Range(t) <=> op \in Pending(o))
  BY <1>6, <1>7, <1>8, RemovalFinds
<1>10. PICK t \in Seq(Ops) :
         /\ GoesOn(p, t)
         /\ Op(p) \notin Range(t)
         /\ Purge(q) \in Range(t) <=> Has(dir', q)
         /\ \A op : op \notin {Op(p), Do("sync"), Purge(q)} =>
              (op \in Range(t) <=> op \in Pending(o))
  BY <1>9
<1> DEFINE s == [shells[p] EXCEPT !.todo = t]
<1>11. /\ Pending(s) = Range(t) /\ s.gen = g /\ s.old = o.old /\ s.failed = o.failed
       /\ s.phase = o.phase /\ shells' = [shells EXCEPT ![p] = s]
  BY <1>10, ReplacedToo
<1> HIDE DEF s
<1>12. /\ \A what \in {"fill", "unjournal", "release", "stage"} : Waits(s, what) <=> Waits(o, what)
       /\ forward \notin Pending(s) /\ aside \notin Pending(s)
       /\ \A state : ~Writes(s, state)
  <2>1. \A what \in {"fill", "unjournal", "release", "stage"} :
          Do(what) \notin {Op(p), Do("sync"), Purge(q)}
    BY <1>1, Tags
  <2>2. \A x \in {"move", "journal", "publish"} : \A op : op[1] = x =>
          op \notin {Op(p), Do("sync"), Purge(q)}
    BY <1>1, Tags
  <2> QED
    BY <1>5, <1>10, <1>11, <2>1, <2>2, Tags DEF Waits, Writes
<1>13. /\ Residue(dir) \subseteq {Stage(g), from, q}
       /\ ~Has(dir, Stage(g))
       /\ Has(dir, from) \/ Has(dir, q) => o.old # None
  BY <1>2, <1>5 DEF InstallHolds, from, q
<1>14. /\ Residue(dir') \subseteq {Stage(g), from, q}
       /\ ~Has(dir', Stage(g))
       /\ Has(dir', q) => o.old # None
  <2>1. \A n \in Residue(dir') : n = q \/ n \in Residue(dir)
    BY <1>9, ResidueIs DEF Agree
  <2> QED
    BY <1>8, <1>9, <1>13, <2>1 DEF Agree
<1>15. InstallHolds(s, dir')
  <2>1. /\ Has(dir', q) => Purge(q) \in Pending(s)
        /\ RemoveBackup(g, o.old) \notin Pending(s)
        /\ ~Waits(s, "fill") /\ Waits(s, "unjournal")
    BY <1>3, <1>5, <1>10, <1>11, <1>12
  <2> QED
    BY <1>6, <1>9, <1>11, <1>12, <1>14, <2>1 DEF InstallHolds, from, q
<1>16. \A op \in Pending(s) : op[1] = "purge" => Has(dir', op[2])
  <2> SUFFICES ASSUME NEW op \in Pending(s), op[1] = "purge" PROVE Has(dir', op[2])
    OBVIOUS
  <2>1. op = Purge(q)
    <3>1. CASE op \in Pending(o)
      BY <1>2, <3>1, InstallPurges DEF q
    <3>2. CASE op \notin Pending(o)
      BY <1>10, <1>11, <3>2, Tags
    <3> QED
      BY <3>1, <3>2
  <2> QED
    BY <1>10, <1>11, <2>1 DEF Purge
<1> QED
  BY <1>1, <1>9, <1>11, <1>12, <1>15, <1>16, InstallTidies

LEMMA RemoveTidies ==
  ASSUME WriterInv, TidyInv, WriterInv', NEW p \in Shells, RemoveGeneration(p)
  PROVE  TidyInv'
<1>1. /\ Running(p) /\ Op(p)[1] = "remove" /\ journaled' = journaled /\ staged' = staged
  BY DEF RemoveGeneration, At, History
<1>2. Waits(shells[p], "release")
  BY <1>1, InLock
<1>3. CASE Removable(dir, Op(p))
  BY <1>2, <1>3, RecoveryRemovesTidies, InstallRemovesTidies
<1>4. CASE ~Removable(dir, Op(p))
  <2>1. Throws(p) /\ UNCHANGED <<dir, may>>
    BY <1>4 DEF RemoveGeneration
  <2> QED
    BY <1>1, <2>1, QuietThrowTidies
<1> QED
  BY <1>3, <1>4

----------------------------------------------------------------------------
(* Directories purged, and the journal removed.                            *)

LEMMA PurgeFinds ==
  ASSUME WriterInv, NEW p \in Shells, PurgeDirectory(p), NEW name, Op(p) = Purge(name), Has(dir, name)
  PROVE  /\ Remembers
         /\ Has(dir', name) => dir'[name].gen = dir[name].gen
         /\ \A n : n # name => Agree(dir, dir', n)
         /\ \E s \in Commands :
              /\ shells' = [shells EXCEPT ![p] = s]
              /\ s.gen = shells[p].gen /\ s.old = shells[p].old /\ s.failed = shells[p].failed
              /\ s.phase = shells[p].phase
              /\ Purge(name) \in Pending(s) <=> Has(dir', name)
              /\ \A op : op # Purge(name) => (op \in Pending(s) <=> op \in Pending(shells[p]))
<1>1. /\ Running(p) /\ Op(p)[1] = "purge" /\ Op(p)[2] = name
  BY Tags DEF PurgeDirectory, At, Purge
<1>2. Op(p) \in Pending(shells[p]) /\ shells \in [Shells -> Commands]
  BY <1>1, Turn DEF WriterInv, Typed
<1>3. CASE Becomes(With(dir, name, Spoiled(dir[name].gen))) /\ UNCHANGED shells
  <2>1. /\ \A n : Has(dir', n) <=> n = name \/ Has(dir, n)
        /\ dir'[name] = Spoiled(dir[name].gen)
        /\ \A n : n # name /\ Has(dir, n) => dir'[n] = dir[n]
    BY <1>3, WithFacts DEF Becomes
  <2>2. Has(dir', name) /\ dir'[name].gen = dir[name].gen /\ \A n : n # name => Agree(dir, dir', n)
    BY <2>1 DEF Spoiled, Agree
  <2>3. shells' = [shells EXCEPT ![p] = shells[p]] /\ shells[p] \in Commands
    BY <1>2, <1>3
  <2>4. Remembers
    BY <1>3 DEF Becomes, Remembers
  <2> QED
    BY <1>2, <2>2, <2>3, <2>4
<1>4. CASE Becomes(Without(dir, name)) /\ GoesOn(p, Rest(p))
  <2> DEFINE s == [shells[p] EXCEPT !.todo = Rest(p)]
  <2>1. /\ \A n : Has(dir', n) <=> n # name /\ Has(dir, n)
        /\ \A n : n # name /\ Has(dir, n) => dir'[n] = dir[n]
    BY <1>4, WithoutFacts DEF Becomes
  <2>2. ~Has(dir', name) /\ \A n : n # name => Agree(dir, dir', n)
    BY <2>1 DEF Agree
  <2>3. /\ s \in Commands /\ s.gen = shells[p].gen /\ s.old = shells[p].old
        /\ s.failed = shells[p].failed /\ shells' = [shells EXCEPT ![p] = s]
        /\ Pending(shells[p]) = {Op(p)} \cup Pending(s)
        /\ \A op \in Pending(s) : Before(Op(p), op)
    BY <1>1, <1>4, RestFacts
  <2>4. s.phase = shells[p].phase
    BY <1>1, RestPhase
  <2> HIDE DEF s
  <2>5. Rank(Op(p)) # 0
    BY <1>1 DEF Rank
  <2>6. Rank(Op(p)) \in Nat
    BY <1>1 DEF Rank
  <2>7. Op(p) \notin Pending(s)
    BY <2>3, <2>5, <2>6 DEF Before
  <2>8. Remembers
    BY <1>4 DEF Becomes, Remembers
  <2> QED
    BY <2>2, <2>3, <2>4, <2>7, <2>8
<1> QED
  BY <1>1, <1>3, <1>4 DEF PurgeDirectory

\* The quarantine of a recovery.
LEMMA RecoveryPurgeTidies ==
  ASSUME WriterInv, TidyInv, NEW p \in Shells, PurgeDirectory(p), Waits(shells[p], "release"),
         Waits(shells[p], "stage") \/ shells[p].failed, Waits(shells[p], "unjournal")
  PROVE  TidyInv'
<1> DEFINE o == shells[p]
           j == dir[Journal]
           g == j.gen
           back == Move(Backup(g), Active, j.old)
<1>1. /\ Running(p) /\ Op(p)[1] = "purge" /\ journaled' = journaled /\ staged' = staged
  BY DEF PurgeDirectory, At, History
<1>2. Op(p) \in Pending(o) /\ HolderTidy(o, dir, journaled)
  BY <1>1, Turn, TidyFacts
<1>3. RecoversInv(o, dir) /\ ~Waits(o, "recover")
  <2>1. Op(p) \notin {Do("recover"), Do("stage"), Do("release")}
    BY <1>1, Tags
  <2> QED
    BY <1>2, <2>1, HolderFacts DEF RecoveryInv
<1>4. Has(dir, Journal) /\ Pending(o) \subseteq RecoveryOps(g, j.old) /\ RecoverySweeps(o, dir)
  BY <1>2, <1>3 DEF RecoversInv, HolderTidy
<1>5. PICK role \in Roles : Op(p) = Purge(CleanupOf(role, g)) /\ Op(p)[2] = CleanupOf(role, g)
  BY <1>1, <1>2, <1>4, RecoveryPurges
<1> DEFINE q == CleanupOf(role, g)
<1>6. Has(dir, q)
  BY <1>1, <1>2, <1>5 DEF HolderTidy
<1> HIDE DEF q
<1>7. /\ Remembers
      /\ Has(dir', q) => dir'[q].gen = dir[q].gen
      /\ \A n : n # q => Agree(dir, dir', n)
      /\ \E s \in Commands :
           /\ shells' = [shells EXCEPT ![p] = s]
           /\ s.gen = o.gen /\ s.old = o.old /\ s.failed = o.failed /\ s.phase = o.phase
           /\ Purge(q) \in Pending(s) <=> Has(dir', q)
           /\ \A op : op # Purge(q) => (op \in Pending(s) <=> op \in Pending(o))
  BY <1>5, <1>6, PurgeFinds DEF q
<1>8. PICK s \in Commands :
        /\ shells' = [shells EXCEPT ![p] = s]
        /\ s.gen = o.gen /\ s.old = o.old /\ s.failed = o.failed /\ s.phase = o.phase
        /\ Purge(q) \in Pending(s) <=> Has(dir', q)
        /\ \A op : op # Purge(q) => (op \in Pending(s) <=> op \in Pending(o))
  BY <1>7
<1>9. /\ \A a : a # role => CleanupOf(a, g) # q
      /\ Stage(g) # q /\ Backup(g) # q /\ Active # q /\ Journal # q
  BY CleanupNames, Names DEF q
<1>10. /\ \A a : a # role => Agree(dir, dir', CleanupOf(a, g))
       /\ \A n \in {Stage(g), Backup(g), Active, Journal} : Agree(dir, dir', n)
       /\ \A n \in {Stage(g), Backup(g), Active} : \A h : Holds(dir', n, h) <=> Holds(dir, n, h)
  BY <1>7, <1>9 DEF Agree, Holds
<1>11. \A a : /\ Has(dir', CleanupOf(a, g)) => Has(dir, CleanupOf(a, g))
              /\ Has(dir', CleanupOf(a, g)) =>
                   dir'[CleanupOf(a, g)].gen = dir[CleanupOf(a, g)].gen
  BY <1>6, <1>7, <1>10 DEF Agree, q
<1>12. Has(dir', Journal) /\ dir'[Journal] = j
  BY <1>4, <1>10 DEF Agree
<1>13. Recoverable(dir) => Recoverable(dir')
  <2>1. \A n \in {Stage(g), Backup(g), Active} : Has(dir', n) <=> Has(dir, n)
    BY <1>10 DEF Agree
  <2> QED
    BY <1>10, <1>11, <1>12, <2>1 DEF Recoverable
<1>14. RecoverySweeps(s, dir')
  <2>1. \A n \in {Stage(g), Backup(g)} : Has(dir', n) <=> Has(dir, n)
    BY <1>10 DEF Agree
  <2>2. /\ \A op \in {RemoveStage(g), RemoveActive(g), RemoveBackup(g, j.old), back} :
             op \in Pending(s) <=> op \in Pending(o)
    BY <1>8, Tags
  <2>3. \A a : Cleanup(<<a, g>>) = CleanupOf(a, g)
    BY CleanupNames
  <2>4. \A a : /\ Has(dir', CleanupOf(a, g)) => Has(dir, CleanupOf(a, g))
               /\ Has(dir', CleanupOf(a, g)) /\ Purge(CleanupOf(a, g)) \in Pending(o)
                    => Purge(CleanupOf(a, g)) \in Pending(s)
    <3>1. \A a, b : Purge(a) = Purge(b) => a = b
      BY DEF Purge
    <3> QED
      BY <1>8, <1>11, <3>1
  <2>5. /\ Has(dir, Stage(g)) => RemoveStage(g) \in Pending(o)
        /\ Has(dir, CleanupOf("stage", g)) =>
             {RemoveStage(g), Purge(CleanupOf("stage", g))} \cap Pending(o) # {}
        /\ Has(dir, CleanupOf("active", g)) =>
             {RemoveActive(g), Purge(CleanupOf("active", g))} \cap Pending(o) # {}
        /\ Has(dir, Backup(g)) => {RemoveBackup(g, j.old), back} \cap Pending(o) # {}
        /\ Has(dir, CleanupOf("backup", g)) =>
             {RemoveBackup(g, j.old), Purge(CleanupOf("backup", g))} \cap Pending(o) # {}
        /\ back \in Pending(o) => Has(dir, Backup(g))
    BY <1>4, <2>3 DEF RecoverySweeps
  <2> HIDE DEF j, g, back
  <2>6. /\ Has(dir', Stage(g)) => RemoveStage(g) \in Pending(s)
        /\ Has(dir', CleanupOf("stage", g)) =>
             {RemoveStage(g), Purge(CleanupOf("stage", g))} \cap Pending(s) # {}
        /\ Has(dir', CleanupOf("active", g)) =>
             {RemoveActive(g), Purge(CleanupOf("active", g))} \cap Pending(s) # {}
        /\ Has(dir', Backup(g)) => {RemoveBackup(g, j.old), back} \cap Pending(s) # {}
        /\ Has(dir', CleanupOf("backup", g)) =>
             {RemoveBackup(g, j.old), Purge(CleanupOf("backup", g))} \cap Pending(s) # {}
        /\ back \in Pending(s) => Has(dir', Backup(g))
    BY <2>1, <2>2, <2>4, <2>5
  <2> QED
    BY <1>12, <2>3, <2>6 DEF RecoverySweeps, j, g, back
<1>15. Residue(dir) \subseteq Own(g) => Residue(dir') \subseteq Own(g)
  <2>1. \A n \in Residue(dir') : n \in Residue(dir)
    BY <1>6, <1>7, ResidueIs DEF Agree
  <2> QED
    BY <2>1
<1>16. \A op \in Pending(s) : op[1] = "purge" => Has(dir', op[2])
  <2> SUFFICES ASSUME NEW op \in Pending(s), op[1] = "purge" PROVE Has(dir', op[2])
    OBVIOUS
  <2>1. CASE op = Purge(q)
    BY <1>8, <2>1 DEF Purge
  <2>2. CASE op # Purge(q)
    <3>1. op \in Pending(o)
      BY <1>8, <2>2
    <3>2. PICK other \in Roles : op = Purge(CleanupOf(other, g)) /\ op[2] = CleanupOf(other, g)
      BY <1>4, <3>1, RecoveryPurges
    <3>3. op[2] # q /\ Has(dir, op[2])
      BY <1>2, <2>2, <3>1, <3>2 DEF HolderTidy
    <3> QED
      BY <1>7, <3>3 DEF Agree
  <2> QED
    BY <2>1, <2>2
<1>17. \A what \in {"release", "stage", "unjournal", "recover"} : Waits(s, what) <=> Waits(o, what)
  BY <1>8, Tags DEF Waits
<1>18. Agree(dir, dir', Journal)
  BY <1>10
<1> QED
  BY <1>1, <1>3, <1>4, <1>7, <1>8, <1>13, <1>14, <1>15, <1>16, <1>17, <1>18, RecoveryGoesOn

\* The quarantine of an installation.
LEMMA InstallPurgeTidies ==
  ASSUME WriterInv, TidyInv, WriterInv', NEW p \in Shells, PurgeDirectory(p),
         Waits(shells[p], "release"), ~Waits(shells[p], "stage"), ~shells[p].failed
  PROVE  TidyInv'
<1> DEFINE o == shells[p]
           g == o.gen
           q == CleanupOf("backup", g)
           forward == Move(Stage(g), Active, g)
           aside == Move(Active, Backup(g), o.old)
<1>1. /\ Running(p) /\ Op(p)[1] = "purge" /\ journaled' = journaled /\ staged' = staged
  BY DEF PurgeDirectory, At, History
<1>2. /\ Op(p) \in Pending(o) /\ InstallInv(o, dir, may, staged) /\ InstallHolds(o, dir)
      /\ \A op \in Pending(o) : op[1] = "purge" => Has(dir, op[2])
  BY <1>1, Turn, Installing
<1>3. Op(p) = Purge(q) /\ Has(dir, q)
  BY <1>1, <1>2, InstallPurges
<1> HIDE DEF q
<1>4. /\ Remembers
      /\ Has(dir', q) => dir'[q].gen = dir[q].gen
      /\ \A n : n # q => Agree(dir, dir', n)
      /\ \E s \in Commands :
           /\ shells' = [shells EXCEPT ![p] = s]
           /\ s.gen = o.gen /\ s.old = o.old /\ s.failed = o.failed /\ s.phase = o.phase
           /\ Purge(q) \in Pending(s) <=> Has(dir', q)
           /\ \A op : op # Purge(q) => (op \in Pending(s) <=> op \in Pending(o))
  BY <1>3, PurgeFinds
<1>5. PICK s \in Commands :
        /\ shells' = [shells EXCEPT ![p] = s]
        /\ s.gen = o.gen /\ s.old = o.old /\ s.failed = o.failed /\ s.phase = o.phase
        /\ Purge(q) \in Pending(s) <=> Has(dir', q)
        /\ \A op : op # Purge(q) => (op \in Pending(s) <=> op \in Pending(o))
  BY <1>4
<1>6. Stage(g) # q /\ Backup(g) # q /\ Active # q
  BY CleanupNames, Names DEF q
<1>7. \A n \in {Stage(g), Backup(g), Active} :
        /\ Has(dir', n) <=> Has(dir, n)
        /\ \A h : Holds(dir', n, h) <=> Holds(dir, n, h)
  BY <1>4, <1>6 DEF Agree, Holds
<1>8. /\ \A what : Waits(s, what) <=> Waits(o, what)
      /\ \A state : Writes(s, state) <=> Writes(o, state)
      /\ \A op \in {forward, aside, RemoveBackup(g, o.old)} : op \in Pending(s) <=> op \in Pending(o)
  <2>1. \A what : Do(what) # Purge(q)
    BY DEF Do, Purge
  <2> QED
    BY <1>5, <2>1, Tags DEF Waits, Writes
<1>9. /\ Residue(dir) \subseteq {Stage(g), Backup(g), q}
      /\ Has(dir, Stage(g)) <=> forward \in Pending(o)
      /\ Waits(o, "fill") => o.phase = "staged" /\ forward \in Pending(o)
      /\ Writes(o, "prepared") => o.phase = "staged"
      /\ forward \in Pending(o) /\ ~Waits(o, "fill") => Holds(dir, Stage(g), g)
      /\ IF aside \in Pending(o)
         THEN o.old # None /\ Holds(dir, Active, o.old) /\ RemoveBackup(g, o.old) \in Pending(o)
         ELSE forward \in Pending(o) => ~Has(dir, Active)
      /\ Has(dir, Backup(g)) =>
           /\ o.old # None /\ Holds(dir, Backup(g), o.old)
           /\ aside \notin Pending(o) /\ RemoveBackup(g, o.old) \in Pending(o)
      /\ o.old # None /\ dir[q].gen = o.old
      /\ ~Writes(o, "committed") /\ Waits(o, "unjournal")
      /\ RemoveBackup(g, o.old) \notin Pending(o)
  BY <1>2, <1>3 DEF InstallHolds, q
<1>10. Residue(dir') \subseteq {Stage(g), Backup(g), q}
  <2>1. \A n \in Residue(dir') : n = q \/ n \in Residue(dir)
    BY <1>4, ResidueIs DEF Agree
  <2> QED
    BY <1>9, <2>1
<1>11. Cleanup(<<"backup", g>>) = q
  BY CleanupNames DEF q
<1> HIDE DEF forward, aside
<1>12. InstallHolds(s, dir')
  <2>1. /\ Has(dir', Stage(g)) <=> forward \in Pending(s)
        /\ Waits(s, "fill") => s.phase = "staged" /\ forward \in Pending(s)
        /\ Writes(s, "prepared") => s.phase = "staged"
        /\ forward \in Pending(s) /\ ~Waits(s, "fill") => Holds(dir', Stage(g), g)
        /\ IF aside \in Pending(s)
           THEN o.old # None /\ Holds(dir', Active, o.old) /\ RemoveBackup(g, o.old) \in Pending(s)
           ELSE forward \in Pending(s) => ~Has(dir', Active)
        /\ ~Writes(s, "committed")
        /\ Has(dir', Backup(g)) =>
             /\ o.old # None /\ Holds(dir', Backup(g), o.old)
             /\ aside \notin Pending(s) /\ RemoveBackup(g, o.old) \in Pending(s)
    BY <1>5, <1>7, <1>8, <1>9
  <2>2. Has(dir', q) =>
          /\ o.old # None /\ dir'[q].gen = o.old
          /\ ~Writes(s, "committed") /\ Waits(s, "unjournal")
          /\ RemoveBackup(g, o.old) \notin Pending(s)
          /\ Purge(Cleanup(<<"backup", g>>)) \in Pending(s)
    BY <1>4, <1>5, <1>8, <1>9, <1>11
  <2> QED
    BY <1>5, <1>10, <2>1, <2>2 DEF InstallHolds, forward, aside, q
<1>13. \A op \in Pending(s) : op[1] = "purge" => Has(dir', op[2])
  <2> SUFFICES ASSUME NEW op \in Pending(s), op[1] = "purge" PROVE Has(dir', op[2])
    OBVIOUS
  <2>1. op = Purge(q)
    <3>1. CASE op \in Pending(o)
      BY <1>2, <3>1, InstallPurges DEF q
    <3>2. CASE op \notin Pending(o)
      BY <1>5, <3>2
    <3> QED
      BY <3>1, <3>2
  <2> QED
    BY <1>5, <2>1 DEF Purge
<1> QED
  BY <1>1, <1>4, <1>5, <1>8, <1>12, <1>13, InstallTidies

\* A stage that was never journaled.
LEMMA DiscardPurgeTidies ==
  ASSUME WriterInv, TidyInv, NEW p \in Shells, PurgeDirectory(p), Waits(shells[p], "release"),
         Waits(shells[p], "stage") \/ shells[p].failed, ~Waits(shells[p], "unjournal")
  PROVE  TidyInv'
<1> DEFINE o == shells[p]
           q == Stage(o.gen)
           j == dir[Journal]
<1>1. /\ Running(p) /\ Op(p)[1] = "purge" /\ journaled' = journaled /\ staged' = staged
  BY DEF PurgeDirectory, At, History
<1>2. Op(p) \in Pending(o) /\ HolderTidy(o, dir, journaled) /\ RecoveryInv(o, dir)
  BY <1>1, Turn, TidyFacts, HolderFacts
<1>3. /\ ~Waits(o, "recover") /\ ~Waits(o, "stage") /\ o.failed
      /\ Pending(o) \subseteq {Do("sync"), Do("release"), Do("discard"), Purge(q)}
      /\ Op(p) = Purge(q)
  BY <1>1, <1>2, Tags DEF RecoveryInv
<1>4. Has(dir, q) /\ o.gen \notin journaled
  <2>1. Op(p)[2] = q
    BY <1>3 DEF Purge
  <2>2. {Do("discard"), Purge(Stage(o.gen))} \cap Pending(o) # {}
    BY <1>2, <1>3
  <2> QED
    BY <1>1, <1>2, <1>3, <2>1, <2>2 DEF HolderTidy
<1> HIDE DEF q
<1>5. /\ Remembers
      /\ Has(dir', q) => dir'[q].gen = dir[q].gen
      /\ \A n : n # q => Agree(dir, dir', n)
      /\ \E s \in Commands :
           /\ shells' = [shells EXCEPT ![p] = s]
           /\ s.gen = o.gen /\ s.old = o.old /\ s.failed = o.failed /\ s.phase = o.phase
           /\ Purge(q) \in Pending(s) <=> Has(dir', q)
           /\ \A op : op # Purge(q) => (op \in Pending(s) <=> op \in Pending(o))
  BY <1>3, <1>4, PurgeFinds
<1>6. PICK s \in Commands :
        /\ shells' = [shells EXCEPT ![p] = s]
        /\ s.gen = o.gen /\ s.old = o.old /\ s.failed = o.failed /\ s.phase = o.phase
        /\ Purge(q) \in Pending(s) <=> Has(dir', q)
        /\ \A op : op # Purge(q) => (op \in Pending(s) <=> op \in Pending(o))
  BY <1>5
<1>7. Residue(dir') \subseteq Residue(dir) /\ q \in Residue(dir)
  <2>1. q[1] = "stage"
    BY Names DEF q
  <2>2. \A n \in Residue(dir') : n \in Residue(dir)
    BY <1>4, <1>5, <2>1, ResidueIs DEF Agree
  <2> QED
    BY <1>4, <2>1, <2>2, ResidueIs
<1>8. (Has(dir', Journal) <=> Has(dir, Journal)) /\ (Has(dir, Journal) => dir'[Journal] = j)
  <2>1. Journal # q
    BY Names DEF q
  <2> QED
    BY <1>5, <2>1 DEF Agree
<1>9. Tidy(dir', journaled)
  <2>1. Tidy(dir, journaled)
    BY TidyFacts
  <2>2. CASE Has(dir, Journal)
    <3>1. q \in Own(j.gen) /\ Residue(dir') \subseteq Own(j.gen)
      BY <1>7, <2>1, <2>2 DEF Tidy
    <3>2. q[Len(q)] = o.gen /\ q[Len(q)] = j.gen
      BY <3>1, LastNames, OwnNames DEF q
    <3> QED
      BY <1>4, <1>8, <2>2, <3>1, <3>2 DEF Tidy
  <2>3. CASE ~Has(dir, Journal)
    BY <1>7, <1>8, <2>1, <2>3 DEF Tidy
  <2> QED
    BY <2>2, <2>3
<1>10. \A what : Waits(s, what) <=> Waits(o, what)
  <2>1. \A what : Do(what) # Purge(q)
    BY DEF Do, Purge
  <2> QED
    BY <1>6, <2>1 DEF Waits
<1>11. \A op \in Pending(s) : op[1] = "purge" => Has(dir', op[2])
  <2> SUFFICES ASSUME NEW op \in Pending(s), op[1] = "purge" PROVE Has(dir', op[2])
    OBVIOUS
  <2>1. op = Purge(q)
    BY <1>3, <1>6, Tags
  <2> QED
    BY <1>6, <2>1 DEF Purge
<1>12. HolderTidy(s, dir', journaled)
  BY <1>2, <1>3, <1>4, <1>6, <1>10, <1>11 DEF HolderTidy
<1>13. ShellTidy(s, dir', journaled)
  BY <1>10, <1>12 DEF ShellTidy
<1>14. staged' \in Nat /\ staged <= staged'
  BY <1>1, Counters
<1> QED
  BY <1>1, <1>5, <1>6, <1>9, <1>13, <1>14, HolderTidies

LEMMA PurgeTidies ==
  ASSUME WriterInv, TidyInv, WriterInv', NEW p \in Shells, PurgeDirectory(p)
  PROVE  TidyInv'
<1>1. Running(p) /\ Op(p)[1] = "purge"
  BY DEF PurgeDirectory, At
<1>2. Waits(shells[p], "release")
  BY <1>1, InLock
<1> QED
  BY <1>2, RecoveryPurgeTidies, InstallPurgeTidies, DiscardPurgeTidies

\* The journal goes when nothing is left that its generation made.
LEMMA UnjournalTidies ==
  ASSUME WriterInv, TidyInv, WriterInv', NEW p \in Shells, Unjournal(p)
  PROVE  TidyInv'
<1> DEFINE o == shells[p]
           j == dir[Journal]
           s == [shells[p] EXCEPT !.todo = Rest(p)]
<1>1. /\ Running(p) /\ Op(p)[1] = "unjournal" /\ journaled' = journaled /\ staged' = staged
      /\ dir' = Without(dir, Journal) /\ may' = may \cup {dir'} /\ GoesOn(p, Rest(p))
  BY DEF Unjournal, At, Becomes, History
<1>2. /\ Waits(o, "release") /\ Op(p) = Do("unjournal") /\ Op(p) \in Pending(o)
      /\ Rank(Op(p)) = 17
  BY <1>1, InLock, Turn, OpKinds, RankOf DEF Plain
<1>3. /\ s.gen = o.gen /\ s.old = o.old /\ s.failed = o.failed /\ shells' = [shells EXCEPT ![p] = s]
      /\ Pending(o) = {Op(p)} \cup Pending(s) /\ \A op \in Pending(s) : Before(Op(p), op)
  BY <1>1, RestFacts
<1>4. s.phase = o.phase
  BY <1>1, RestPhase
<1> HIDE DEF s
<1>5. \A op \in Pending(o) : op # Op(p) /\ Rank(op) # 0 => 17 < Rank(op)
  BY <1>2, <1>3 DEF Before
<1>6. /\ Waits(s, "release") /\ ~Waits(s, "unjournal")
      /\ \A what \in {"stage", "fill", "recover"} : Waits(s, what) <=> Waits(o, what)
  <2>1. Op(p) \notin Pending(s)
    BY <1>2, <1>3 DEF Before
  <2> QED
    BY <1>2, <1>3, <2>1, Tags DEF Waits
<1>7. /\ ~Has(dir', Journal) /\ \A n : n # Journal => Agree(dir, dir', n)
  BY <1>1, WithoutFacts DEF Agree
<1>8. Residue(dir') = Residue(dir)
  <2>1. \A n : n \in Residue(dir') <=> n \in Residue(dir)
    BY <1>7, Names, ResidueIs DEF Agree
  <2> QED
    BY <2>1
<1>9. Remembers
  BY <1>1 DEF Remembers
<1>10. CASE Waits(o, "stage") \/ o.failed
  <2> DEFINE g == j.gen
  <2>1. RecoversInv(o, dir) /\ ~Waits(o, "recover")
    <3>1. Op(p) \notin {Do("recover"), Do("stage"), Do("release")}
      BY <1>2, Tags
    <3> QED
      BY <1>2, <1>10, <3>1, HolderFacts DEF RecoveryInv, Waits
  <2>2. /\ HolderTidy(o, dir, journaled) /\ Waits(o, "unjournal")
        /\ Has(dir, Journal) /\ Pending(o) \subseteq RecoveryOps(g, j.old)
    BY <1>2, <2>1, TidyFacts DEF RecoversInv, Waits
  <2>3. RecoverySweeps(o, dir)
    BY <1>10, <2>1, <2>2 DEF HolderTidy
  <2>4. /\ {RemoveStage(g), RemoveActive(g), RemoveBackup(g, j.old),
            Move(Backup(g), Active, j.old)} \cap Pending(o) = {}
        /\ \A role \in Roles : Purge(Cleanup(<<role, g>>)) \notin Pending(o)
    <3>1. /\ Rank(RemoveStage(g)) = 15 /\ Rank(RemoveActive(g)) = 13
          /\ Rank(RemoveBackup(g, j.old)) = 16 /\ Rank(Move(Backup(g), Active, j.old)) = 14
          /\ Rank(Purge(Cleanup(<<"stage", g>>))) = 15
          /\ Rank(Purge(Cleanup(<<"active", g>>))) = 13
          /\ Rank(Purge(Cleanup(<<"backup", g>>))) = 16
      BY RankOf
    <3> QED
      BY <1>2, <1>5, <3>1 DEF Roles
  <2>5. \A n \in Own(g) : ~Has(dir, n)
    <3>1. /\ ~Has(dir, Stage(g)) /\ ~Has(dir, Backup(g)) /\ ~Has(dir, CleanupOf("stage", g))
          /\ ~Has(dir, CleanupOf("active", g)) /\ ~Has(dir, CleanupOf("backup", g))
      BY <2>3, <2>4 DEF RecoverySweeps, Roles
    <3> QED
      BY <3>1, OwnNames
  <2>6. Residue(dir) = {}
    <3>1. Residue(dir) \subseteq Own(g)
      BY <2>2, TidyFacts DEF Tidy
    <3> QED
      BY <2>5, <3>1, ResidueIs
  <2>7. Tidy(dir', journaled)
    BY <1>7, <1>8, <2>6 DEF Tidy
  <2>8. \A op \in Pending(s) : op \in {Do("sync"), Do("stage"), Do("release")}
    <3>1. \A op \in Pending(s) : op \in RecoveryOps(g, j.old)
      BY <1>3, <2>2
    <3>2. \A op \in Pending(s) : Rank(op) = 0 \/ Rank(op) > 17
      BY <1>2, <1>3, <3>1, RankOf DEF Before, RecoveryOps, Roles
    <3> QED
      BY <3>1, <3>2, AfterRecovery
  <2>9. HolderTidy(s, dir', journaled)
    <3>1. {Do("discard"), Purge(Stage(s.gen))} \cap Pending(s) = {}
      BY <2>8, Tags
    <3>2. \A op \in Pending(s) : op[1] # "purge"
      BY <2>8, Tags
    <3> QED
      BY <1>3, <1>4, <1>6, <1>8, <1>10, <2>2, <2>6, <3>1, <3>2 DEF HolderTidy
  <2>10. ShellTidy(s, dir', journaled)
    BY <1>6, <2>9 DEF ShellTidy
  <2>11. staged' \in Nat /\ staged <= staged'
    BY <1>1, Counters
  <2> QED
    BY <1>1, <1>2, <1>3, <1>9, <2>7, <2>10, <2>11, HolderTidies
<1>11. CASE ~Waits(o, "stage") /\ ~o.failed
  <2> DEFINE g == o.gen
             forward == Move(Stage(g), Active, g)
             aside == Move(Active, Backup(g), o.old)
             spent == CleanupOf("backup", g)
  <2>1. InstallInv(o, dir, may, staged) /\ InstallHolds(o, dir)
    BY <1>2, <1>11, Installing
  <2>2. /\ forward \notin Pending(o) /\ aside \notin Pending(o)
        /\ RemoveBackup(g, o.old) \notin Pending(o)
        /\ Purge(Cleanup(<<"backup", g>>)) \notin Pending(o) /\ ~Waits(o, "fill")
        /\ ~Writes(o, "committed") /\ ~Writes(o, "prepared")
    <3>1. /\ Rank(forward) = 9 /\ Rank(aside) = 7 /\ Rank(RemoveBackup(g, o.old)) = 16
          /\ Rank(Purge(Cleanup(<<"backup", g>>))) = 16 /\ Rank(Do("fill")) = 4
          /\ Rank(WriteJournal("committed")) = 12 /\ Rank(Publish("committed")) = 12
          /\ Rank(WriteJournal("prepared")) = 5 /\ Rank(Publish("prepared")) = 5
      BY RankOf
    <3> QED
      BY <1>2, <1>5, <3>1 DEF Waits, Writes
  <2>3. /\ forward \notin Pending(s) /\ aside \notin Pending(s) /\ ~Waits(s, "fill")
        /\ ~Writes(s, "committed") /\ ~Writes(s, "prepared")
    BY <1>3, <2>2 DEF Waits, Writes
  <2>4. ~Has(dir, Stage(g)) /\ ~Has(dir, Backup(g)) /\ ~Has(dir, spent)
    BY <2>1, <2>2 DEF InstallHolds
  <2>5. Residue(dir') = {}
    <3>1. Residue(dir) \subseteq {Stage(g), Backup(g), spent}
      BY <2>1 DEF InstallHolds
    <3> QED
      BY <1>8, <2>4, <3>1, ResidueIs
  <2>6. ~Has(dir', Stage(g)) /\ ~Has(dir', Backup(g)) /\ ~Has(dir', spent)
    <3>1. Stage(g) # Journal /\ Backup(g) # Journal /\ spent # Journal
      BY Names, CleanupNames
    <3> QED
      BY <1>7, <2>4, <3>1 DEF Agree
  <2>7. InstallHolds(s, dir')
    BY <1>3, <2>3, <2>5, <2>6 DEF InstallHolds
  <2>8. \A op \in Pending(s) : op[1] # "purge"
    <3> SUFFICES ASSUME NEW op \in Pending(s), op[1] = "purge" PROVE FALSE
      OBVIOUS
    <3>1. op = Purge(CleanupOf("backup", g))
      BY <1>3, <2>1, InstallPurges
    <3> QED
      BY <1>3, <2>2, <3>1, CleanupNames
  <2> QED
    BY <1>1, <1>2, <1>3, <1>4, <1>6, <1>9, <1>11, <2>7, <2>8, InstallTidies
<1> QED
  BY <1>10, <1>11

----------------------------------------------------------------------------
(* The invariant, and what it says of an operator.                         *)

LEMMA TidyInit == Init => TidyInv
<1> SUFFICES ASSUME Init PROVE TidyInv
  OBVIOUS
<1>1. PICK g \in {None, 1} : dir = IF g = None THEN <<>> ELSE With(<<>>, Active, Whole(g))
  BY DEF Init
<1>2. may = {dir} /\ shells = [p \in Shells |-> Idle] /\ journaled = {}
  BY DEF Init
<1>3. \A n : Has(dir, n) => n = Active
  <2>1. \A n : ~Has(<<>>, n)
    BY DEF Has
  <2> QED
    BY <1>1, <2>1, WithFacts
<1>4. ~Has(dir, Journal) /\ Residue(dir) = {}
  BY <1>3, Names, ResidueIs
<1> QED
  BY <1>2, <1>4, IdleTidy DEF TidyInv, Tidy

LEMMA TidyStep == WriterInv /\ TidyInv /\ WriterInv' /\ [Next]_vars => TidyInv'
<1> SUFFICES ASSUME WriterInv, TidyInv, WriterInv', [Next]_vars PROVE TidyInv'
  OBVIOUS
<1>1. ASSUME NEW p \in Shells, CommandStep(p) PROVE TidyInv'
  BY <1>1, BuildTidies, LockTidies, RecoverTidies, StageTidies, FillTidies, SyncTidies, BeginTidies,
     PublishTidies, SettleTidies, AdmitTidies, ValidateTidies, MoveTidies, RemoveTidies, PurgeTidies,
     DiscardTidies, UnjournalTidies, ReleaseTidies, ReportTidies DEF CommandStep
<1>2. ASSUME NEW p \in Shells, Start(p) \/ Fail(p) \/ Kill(p) PROVE TidyInv'
  BY <1>2, StartTidies, FailTidies, KillTidies
<1>3. CASE PowerLoss \/ EditSource
  BY <1>3, PowerLossTidies, EditTidies
<1>4. ASSUME NEW name \in DOMAIN dir, OperatorRemoves(name) PROVE TidyInv'
  BY <1>4, OperatorTidies
<1>5. CASE UNCHANGED vars
  BY <1>5 DEF vars, TidyInv
<1> QED
  BY <1>1, <1>2, <1>3, <1>4, <1>5 DEF Next

LEMMA TidyInvariant == Spec => [](WriterInv /\ TidyInv)
<1>1. Init => WriterInv /\ TidyInv
  BY WriterInit, TidyInit
<1>2. WriterInv /\ TidyInv /\ [Next]_vars => (WriterInv /\ TidyInv)'
  BY WriterStep, TidyStep
<1> QED
  BY <1>1, <1>2, PTL DEF Spec

\* A recovery that finds its generation as it left it goes through to its end.
LEMMA RecoverableRecovers ==
  ASSUME NEW d, Has(d, Journal), d[Journal].gen \in Numbers, d[Journal].old \in Numbers,
         Residue(d) \subseteq Own(d[Journal].gen), Recoverable(d), ~Has(d, JournalWrite)
  PROVE  /\ Recovers(d)
         /\ \A i \in DOMAIN Recovery(d) :
              Recovery(d)[i][1] = "remove" => Removable(d, Recovery(d)[i])
<1> DEFINE j == d[Journal]
           g == j.gen
<1>1. /\ Has(d, Stage(g)) => Holds(d, Stage(g), g) /\ ~Has(d, CleanupOf("stage", g))
      /\ Has(d, CleanupOf("stage", g)) => d[CleanupOf("stage", g)].gen = g
      /\ Has(d, Backup(g)) =>
           j.old # None /\ Holds(d, Backup(g), j.old) /\ ~Has(d, CleanupOf("backup", g))
      /\ Has(d, CleanupOf("backup", g)) =>
           j.old # None /\ j.state = "committed" /\ d[CleanupOf("backup", g)].gen = j.old
      /\ IF j.state = "committed" THEN ~Has(d, CleanupOf("active", g)) /\ Holds(d, Active, g)
         ELSE IF j.old # None /\ ~Has(d, Backup(g))
         THEN ~Has(d, CleanupOf("active", g)) /\ Holds(d, Active, j.old)
         ELSE /\ Has(d, Active) => ~Has(d, CleanupOf("active", g)) /\ Holds(d, Active, g)
              /\ Has(d, CleanupOf("active", g)) => d[CleanupOf("active", g)].gen = g
  BY DEF Recoverable
<1>2. Unambiguous(d)
  BY <1>1 DEF Unambiguous, CleanupOf
<1>3. Recovers(d)
  BY <1>2 DEF Recovers
<1> DEFINE Stays(op) == op[1] = "remove" => Removable(d, op)
<1>4. Stays(RemoveStage(g))
  <2>1. RemoveStage(g) = Remove(Stage(g), CleanupOf("stage", g), g)
    BY CleanupNames DEF RemoveStage
  <2> QED
    BY <1>1, <2>1 DEF Removable, Remove
<1>5. j.state # "committed" /\ (j.old = None \/ Has(d, Backup(g))) => Stays(RemoveActive(g))
  <2>1. RemoveActive(g) = Remove(Active, CleanupOf("active", g), g)
    BY CleanupNames DEF RemoveActive
  <2> QED
    BY <1>1, <2>1 DEF Removable, Remove
<1>6. Stays(RemoveBackup(g, j.old))
  <2>1. RemoveBackup(g, j.old) = Remove(Backup(g), CleanupOf("backup", g), j.old)
    BY CleanupNames DEF RemoveBackup
  <2> QED
    BY <1>1, <2>1 DEF Removable, Remove
<1>7. Stays(Do("sync")) /\ Stays(Do("unjournal")) /\ Stays(Move(Backup(g), Active, j.old))
  BY Tags
<1>8. \A op \in Range(Removals(d)) : Stays(op)
  <2> HIDE DEF Stays
  <2>1. CASE j.state = "committed"
    BY <1>4, <1>6, <2>1, RemovalsFacts
  <2>2. CASE j.state # "committed"
    BY <1>4, <1>5, <1>7, <2>2, RemovalsFacts
  <2> QED
    BY <2>1, <2>2
<1>9. Range(Recovery(d)) = Range(Removals(d)) \cup {Do("sync"), Do("unjournal")}
  <2>1. /\ Removals(d) \in Seq(Ops)
        /\ <<Do("sync"), Do("unjournal"), Do("sync")>> \in Seq(Ops)
        /\ Range(<<Do("sync"), Do("unjournal"), Do("sync")>>) = {Do("sync"), Do("unjournal")}
    <3>1. Do("sync") \in Ops /\ Do("unjournal") \in Ops
      BY OpsAre DEF Plain
    <3>2. /\ Before(Do("sync"), Do("unjournal")) /\ Before(Do("sync"), Do("sync"))
          /\ Before(Do("unjournal"), Do("sync"))
      BY RankOf DEF Before
    <3>3. Range(<<Do("sync"), Do("unjournal"), Do("sync")>>)
            = {Do("sync"), Do("unjournal"), Do("sync")}
      BY <3>1, <3>2, TripleFacts
    <3> QED
      BY <3>1, <3>2, <3>3, RemovalsFacts, TripleFacts
  <2> QED
    BY <2>1, JoinedRange DEF Recovery
<1>10. \A i \in DOMAIN Recovery(d) : Stays(Recovery(d)[i])
  <2> HIDE DEF Stays
  <2>1. \A op \in Range(Recovery(d)) : Stays(op)
    BY <1>7, <1>8, <1>9
  <2> QED
    BY <2>1 DEF Range
<1> QED
  BY <1>3, <1>10

LEMMA TidyTells == WriterInv /\ TidyInv => OperatorOnlyWhereTold
<1> SUFFICES ASSUME WriterInv, TidyInv, NEW d \in may,
                    Traces(d) \cap journaled # {}, ~Has(d, JournalWrite)
             PROVE  /\ Recovers(d)
                    /\ \A i \in DOMAIN Recovery(d) :
                         Recovery(d)[i][1] = "remove" => Removable(d, Recovery(d)[i])
  BY DEF OperatorOnlyWhereTold
<1>1. Tidy(d, journaled) /\ DiskTyped(d, staged)
  BY Counters DEF TidyInv
<1>2. Has(d, Journal)
  <2> SUFFICES ASSUME ~Has(d, Journal) PROVE FALSE
    OBVIOUS
  <2>1. Traces(d) = {name[Len(name)] : name \in Residue(d)}
    BY DEF Traces
  <2> QED
    BY <1>1, <2>1 DEF Tidy
<1>3. /\ Residue(d) \subseteq Own(d[Journal].gen)
      /\ d[Journal].gen \in Numbers /\ d[Journal].old \in Numbers
  BY <1>1, <1>2, Counters, BoundsAssumption DEF Tidy, DiskTyped, Numbers, BoundsAssumption
<1>4. Traces(d) \subseteq {d[Journal].gen}
  BY <1>2, <1>3, OwnNames DEF Traces
<1>5. Recoverable(d)
  BY <1>1, <1>2, <1>4 DEF Tidy
<1> QED
  BY <1>2, <1>3, <1>5, RecoverableRecovers

\* Whatever a kill, a failure or a power loss leaves of a generation whose first
\* journal was written and synced, the next command recovers from, every removal
\* included, and no operator is asked for (recoverArtifactTransaction,
\* requireNoForeignTransactionResidue and removeArtifactGenerationResumable).
THEOREM OperatorWhereTold == Spec => []OperatorOnlyWhereTold
BY TidyInvariant, TidyTells, PTL
=============================================================================
