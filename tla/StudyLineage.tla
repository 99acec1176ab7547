---------------------------- MODULE StudyLineage ----------------------------
(***************************************************************************)
(* What a study head of internal/store promises, without files, locks or   *)
(* processes: the objects a study has selected form one growing line.  The *)
(* head is moved one object at a time; settled is the part of the line no  *)
(* power loss takes back, and it never shrinks either.  A study whose own  *)
(* directory is lost starts again from nothing.                            *)
(***************************************************************************)
EXTENDS Naturals, Sequences

CONSTANTS Studies, Objects, LastRevision

VARIABLES head, settled

vars == <<head, settled>>

Init ==
  /\ head = [s \in Studies |-> <<>>]
  /\ settled = [s \in Studies |-> <<>>]

Select(s, o) ==
  /\ Len(head[s]) < LastRevision
  /\ head' = [head EXCEPT ![s] = Append(@, o)]
  /\ UNCHANGED settled

Settle(s) ==
  /\ settled' = [settled EXCEPT ![s] = head[s]]
  /\ UNCHANGED head

\* A study keeps its settled line and some of what was selected after it.
Kept(s) ==
  {SubSeq(head[s], 1, n) : n \in Len(settled[s]) .. Len(head[s])}

PowerLoss(gone) ==
  /\ \A s \in Studies :
       head'[s] \in IF s \in gone THEN {<<>>} ELSE Kept(s)
  /\ settled' = head'

Next ==
  \/ \E s \in Studies : Settle(s) \/ \E o \in Objects : Select(s, o)
  \/ \E gone \in SUBSET Studies : PowerLoss(gone)

Spec == Init /\ [][Next]_vars
=============================================================================
