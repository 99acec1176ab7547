--------------------- MODULE EvidenceGenerationsProofs ---------------------
(***************************************************************************)
(* What EvidenceGenerations says of its own steps has the meaning it is    *)
(* meant to have: evidence once reported stays, for any generations.       *)
(***************************************************************************)
EXTENDS EvidenceGenerations, TLAPS

\* ReportedIsKept alone is not kept by a commit: that a later generation may
\* take the place of a reported one rests on something standing there before.
KeptInv ==
  /\ may \subseteq Nat /\ reported \subseteq Nat
  /\ standing \in may
  /\ ReportedIsKept

\* A step of the promise, whichever it is, preserves KeptInv.
LEMMA StepKeeps ==
  ASSUME Generations \subseteq Nat, KeptInv, [Next]_vars
  PROVE  KeptInv'
<1> USE DEF KeptInv, ReportedIsKept
<1>1. CASE UNCHANGED vars
  BY <1>1 DEF vars
<1>2. ASSUME NEW g \in Generations, Commit(g)
      PROVE  KeptInv'
  <2>1. may' = may \cup {g} /\ standing' = g /\ reported' = reported
    BY <1>2 DEF Commit
  <2>2. \A r \in reported : r <= standing /\ standing < g
    BY <1>2 DEF Commit
  <2>3. \A r \in reported : r <= g
    BY <2>2
  <2> QED
    BY <2>1, <2>3
<1>3. ASSUME NEW g \in Generations, Report(g)
      PROVE  KeptInv'
  BY <1>3 DEF Report
<1>4. CASE Settle
  BY <1>4 DEF Settle
<1>5. CASE PowerLoss
  BY <1>5 DEF PowerLoss
<1> QED
  BY <1>1, <1>2, <1>3, <1>4, <1>5 DEF Next

\* Evidence told to be written is never lost: whatever a power loss brings back
\* is that generation or one that took its place.
THEOREM ReportedStays ==
  ASSUME Generations \subseteq Nat
  PROVE  Spec => []ReportedIsKept
<1>1. Init => KeptInv
  BY DEF Init, KeptInv, ReportedIsKept
<1>2. KeptInv /\ [Next]_vars => KeptInv'
  BY StepKeeps
<1>3. KeptInv => ReportedIsKept
  BY DEF KeptInv
<1> QED
  BY <1>1, <1>2, <1>3, PTL DEF Spec
=============================================================================
