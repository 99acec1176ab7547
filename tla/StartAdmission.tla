--------------------------- MODULE StartAdmission ---------------------------
(***************************************************************************)
(* What the execution interlock of internal/store promises, without files, *)
(* locks or records: one store-wide slot.  A target that holds the slot    *)
(* may start its subject program once; the slot is given up when the run   *)
(* of its holder is finalized, when its holder never started, or when the  *)
(* boot session it was taken in is over.  A power loss may leave anyone or *)
(* nobody in a slot whose holder has not started, and may take finalized   *)
(* runs away; it never takes the slot from a holder that has started, and  *)
(* never makes a spent start available again.                              *)
(***************************************************************************)
CONSTANTS Targets, Nobody

VARIABLES
  holder,    \* the target in the slot, or Nobody
  stale,     \* whether the holder took the slot in an earlier boot session
  spent,     \* targets whose start has been authorised
  finished   \* targets with a finalized run

slot == <<holder, stale>>
vars == <<slot, spent, finished>>

Init ==
  /\ holder = Nobody
  /\ stale = FALSE
  /\ spent = {}
  /\ finished = {}

Hold(t) ==
  /\ holder = Nobody
  /\ t \notin spent
  /\ holder' = t
  /\ stale' = FALSE
  /\ UNCHANGED <<spent, finished>>

Start(t) ==
  /\ holder = t
  /\ ~stale
  /\ t \notin spent
  /\ spent' = spent \cup {t}
  /\ UNCHANGED <<slot, finished>>

Finish(t) ==
  /\ holder = t
  /\ ~stale
  /\ t \in spent
  /\ finished' = finished \cup {t}
  /\ UNCHANGED <<slot, spent>>

GiveUp ==
  /\ holder # Nobody
  /\ stale \/ holder \in finished \/ holder \notin spent
  /\ holder' = Nobody
  /\ stale' = FALSE
  /\ UNCHANGED <<spent, finished>>

PowerLoss ==
  /\ holder' \in Targets \cup {Nobody}
  /\ holder \in spent => holder' = holder
  /\ stale' = (holder' # Nobody)
  /\ finished' \in SUBSET finished
  /\ UNCHANGED spent

Next ==
  \/ \E t \in Targets : Hold(t) \/ Start(t) \/ Finish(t)
  \/ GiveUp
  \/ PowerLoss

Spec == Init /\ [][Next]_vars
=============================================================================
