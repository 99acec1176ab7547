---------------------------- MODULE BlindRuling ----------------------------
(***************************************************************************)
(* What the decision workflow promises its reader, without tabs, requests  *)
(* or revisions.  A ruling may be sealed while the candidates' identities  *)
(* have never been shown, and only then.  Once they have been shown, one   *)
(* ruling is recorded for good: it carries the sealed draft, or it says    *)
(* that there was none, and it departs from the sealed draft only with a   *)
(* reason.                                                                 *)
(***************************************************************************)
CONSTANTS Drafts, NoDraft, NoRuling

VARIABLES sealed, shown, ruling

vars == <<sealed, shown, ruling>>

Ruling(s, d, why) == [sealed |-> s, final |-> d, why |-> why]

\* The rulings an honest reader of the draft sealed as s may record.
Honest(s) ==
  {Ruling(s, d, s # NoDraft /\ s # d) : d \in Drafts}

Init ==
  /\ sealed \in Drafts \cup {NoDraft}
  /\ shown = FALSE
  /\ ruling \in Honest(sealed) \cup {NoRuling}

Seal(d) ==
  /\ ~shown /\ sealed = NoDraft /\ ruling = NoRuling
  /\ sealed' = d
  /\ UNCHANGED <<shown, ruling>>

Show ==
  /\ shown' = TRUE
  /\ UNCHANGED <<sealed, ruling>>

Record(r) ==
  /\ shown /\ ruling = NoRuling
  /\ ruling' = r
  /\ UNCHANGED <<sealed, shown>>

Next ==
  \/ Show
  \/ \E d \in Drafts : Seal(d)
  \/ \E r \in Honest(sealed) : Record(r)

Spec == Init /\ [][Next]_vars
=============================================================================
