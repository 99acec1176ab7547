------------------------ MODULE EvidenceGenerations ------------------------
(***************************************************************************)
(* What the writer of the tracked evidence promises, without directories,  *)
(* journals, locks or processes: one whole generation of the artifacts     *)
(* stands at a time, and a later one takes its place at once.  Generations *)
(* are numbered as they are built; 0 says that none stands yet.            *)
(*                                                                         *)
(* may holds what a power loss can bring back.  A generation is reported   *)
(* as written when only it or a later one is left there.                   *)
(***************************************************************************)
EXTENDS Naturals

CONSTANT Generations  \* a set of numbers

VARIABLES standing, may, reported

vars == <<standing, may, reported>>

Init ==
  /\ standing \in {0, 1}
  /\ may = {standing}
  /\ reported = {}

Commit(g) ==
  /\ \A m \in may : m < g
  /\ standing' = g
  /\ may' = may \cup {g}
  /\ UNCHANGED reported

Settle ==
  /\ may' \in SUBSET may
  /\ standing \in may'
  /\ UNCHANGED <<standing, reported>>

PowerLoss ==
  /\ standing' \in may
  /\ may' = {standing'}
  /\ UNCHANGED reported

Report(g) ==
  /\ \A m \in may : g <= m
  /\ reported' = reported \cup {g}
  /\ UNCHANGED <<standing, may>>

Next ==
  \/ \E g \in Generations : Commit(g) \/ Report(g)
  \/ Settle
  \/ PowerLoss

Spec == Init /\ [][Next]_vars

\* Evidence reported as written is never lost: whatever a power loss brings
\* back is that generation or one that took its place.
ReportedIsKept == \A g \in reported, m \in may : g <= m
=============================================================================
