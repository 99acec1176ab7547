-------------------------- MODULE DecisionSession --------------------------
(***************************************************************************)
(* The decision session of internal/choice: an immutable value, and the    *)
(* five operations that return the next one or refuse.  CanX is the        *)
(* absence of every refusal of operation X, in the order the code tests.   *)
(***************************************************************************)
EXTENDS FiniteSets

CONSTANTS
  PreSurfaces,   \* evidence surfaces reviewed blind; five in the code
  Provenance,    \* the surface that shows the candidates' identities
  Drafts,        \* rulings every validation accepts; their digests tell them apart
  Blank,         \* an incomplete draft, such as the editor's first
  NoDraft, NoDecision

ASSUME SurfaceAssumption == Provenance \notin PreSurfaces
ASSUME DraftAssumption ==
  Drafts # {} /\ Blank \notin Drafts /\ NoDraft \notin Drafts \cup {Blank}

Surfaces == PreSurfaces \cup {Provenance}

SessionStates ==
  {"BLIND_OPEN", "PROVISIONAL_RECORDED", "REVEALED", "POST_REVEAL_RECORDED",
   "FINALIZED"}

Sessions ==
  [state : SessionStates, visits : SUBSET Surfaces, pre : SUBSET Surfaces,
   provisional : Drafts \cup {NoDraft}, final : Drafts \cup {NoDraft},
   revealed : BOOLEAN, rationale : BOOLEAN]

NewSession ==
  [state |-> "BLIND_OPEN", visits |-> {}, pre |-> {}, provisional |-> NoDraft,
   final |-> NoDraft, revealed |-> FALSE, rationale |-> FALSE]

CanVisit(s, x) ==
  /\ x \in Surfaces
  /\ s.state # "FINALIZED"
  /\ x = Provenance => s.revealed

Visit(s, x) ==
  [s EXCEPT !.visits = @ \cup {x},
            !.pre = IF s.revealed THEN @ ELSE @ \cup {x}]

CanPropose(s, d) ==
  /\ s.state = "BLIND_OPEN" /\ ~s.revealed
  /\ PreSurfaces \subseteq s.pre
  /\ d \in Drafts

Propose(s, d) ==
  [s EXCEPT !.state = "PROVISIONAL_RECORDED", !.provisional = d, !.final = d]

CanReveal(s) == s.state \in {"BLIND_OPEN", "PROVISIONAL_RECORDED"}

Reveal(s) == [s EXCEPT !.state = "REVEALED", !.revealed = TRUE]

Changed(s, d) == s.provisional # NoDraft /\ s.provisional # d

\* Mutant: the draft is not read.
CanReviseUnread(s, d, why) ==
  /\ s.state = "REVEALED" /\ s.revealed
  /\ why <=> Changed(s, d)

\* why: the caller gave a rationale.
CanRevise(s, d, why) ==
  /\ s.state = "REVEALED" /\ s.revealed
  /\ d \in Drafts
  /\ why <=> Changed(s, d)

\* Mutant: keeps only the last draft.
ReviseOver(s, d, why) ==
  [s EXCEPT !.state = "POST_REVEAL_RECORDED", !.provisional = d, !.final = d,
            !.rationale = why]

Revise(s, d, why) ==
  [s EXCEPT !.state = "POST_REVEAL_RECORDED", !.final = d, !.rationale = why]

CanDecide(s) ==
  /\ s.state = "POST_REVEAL_RECORDED" /\ s.revealed /\ s.final # NoDraft
  /\ Surfaces \subseteq s.visits
  /\ s.pre \subseteq s.visits \ {Provenance}
  /\ s.provisional # NoDraft => PreSurfaces \subseteq s.pre
  /\ s.rationale <=> Changed(s, s.final)

\* Mutant: all visits are told as blind ones.
DecisionOfAllVisits(s) ==
  [provisional |-> s.provisional, final |-> s.final,
   early |-> s.provisional = NoDraft, changed |-> Changed(s, s.final),
   rationale |-> s.rationale, pre |-> s.visits, post |-> Surfaces \ s.visits]

\* newDecisionRecord, and the normalised attribution left out.
Decision(s) ==
  [provisional |-> s.provisional, final |-> s.final,
   early |-> s.provisional = NoDraft, changed |-> Changed(s, s.final),
   rationale |-> s.rationale, pre |-> s.pre, post |-> Surfaces \ s.pre]

Finalized(s) == [s EXCEPT !.state = "FINALIZED"]

Decisions ==
  [provisional : Drafts \cup {NoDraft}, final : Drafts, early : BOOLEAN,
   changed : BOOLEAN, rationale : BOOLEAN,
   pre : SUBSET Surfaces, post : SUBSET Surfaces]
=============================================================================
