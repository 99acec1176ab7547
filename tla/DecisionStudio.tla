--------------------------- MODULE DecisionStudio ---------------------------
(***************************************************************************)
(* The decision studio: the server of internal/server, which holds one     *)
(* decision session under a mutex, and the tabs of the browser client in   *)
(* web/src.  A tab shows a bench, the server's answer to a request it made *)
(* earlier, and every mutation it sends carries the revision digest of the *)
(* bench on its screen.  Requests and answers cross in flight, may be lost *)
(* on either leg, and may reach the server after their tab has given up.   *)
(*                                                                         *)
(* The digest is a keyed MAC of the revision counter and the session state *)
(* and is modelled as that pair.  Drafts are compared, never looked into:  *)
(* what matters of one is whether the client takes it for complete, and    *)
(* whether the server, which looks closer, does.                           *)
(***************************************************************************)
EXTENDS Naturals, DecisionSession

CONSTANTS
  Tabs,
  Flawed,         \* drafts complete in shape that no validation accepts
  Presentations,  \* seeded presentation states that show the evidence
  MaxFaults,      \* bound: lost requests, lost answers and page reloads
  FreeEdits,      \* bound, if FALSE: only edits some button is about to read
  NoBench, NoRequest, NoReply, NoRuling,
  Idle, Asked,     \* a load not under way, and one the server has not answered
  Stale, Refused   \* STUDIO_STALE_REVISION, and every other refusal

Slots == {"open", "retry", "reload"}   \* who asked for a load of the bench

VARIABLES
  session, revision, lastDraft, mutable, reveal, decision,   \* the server
  view, bench, draft, pending,     \* a tab: load state, bench, editor, busy
  request, reply, loads,           \* its mutation and its loads in flight
  orphan,                          \* a request whose tab has given up
  disclosed,                       \* history: an answer carried the reveal
  blindVisits,                     \* history: surfaces visited until then
  faults

server == <<session, revision, lastDraft, mutable, reveal, decision>>
screen == <<view, bench, draft, pending>>
wires == <<request, reply, loads, orphan>>
history == <<disclosed, blindVisits>>
vars == <<server, screen, wires, history, faults>>

Digest == <<revision, session.state>>

\* benchResponseLocked
Bench ==
  [digest |-> Digest, state |-> session.state, mutable |-> mutable,
   reviewed |-> session.visits, reveal |-> reveal, draft |-> lastDraft,
   result |-> decision]

Benches ==
  [digest : Nat \X SessionStates, state : SessionStates, mutable : BOOLEAN,
   reviewed : SUBSET Surfaces, reveal : BOOLEAN,
   draft : Drafts \cup {NoDraft}, result : Decisions \cup {NoDecision}]

Editable == Drafts \cup Flawed \cup {Blank}

\* why: the text sent along, a rationale or an attribution, is one the server
\* admits.  No rationale, and one it does not admit, count as none.
Request(op, x, d, why, b) ==
  [op |-> op, surface |-> x, draft |-> d, why |-> why, seen |-> b]

Requests ==
  [op : {"visit", "propose", "reveal", "revise", "finalize"},
   surface : Surfaces, draft : Editable, why : BOOLEAN, seen : Benches]

Refusals == {Stale, Refused}

Rulings ==
  [sealed : Drafts \cup {NoDraft}, final : Drafts, why : BOOLEAN]

ASSUME BoundAssumption == MaxFaults \in Nat /\ FreeEdits \in BOOLEAN
ASSUME FlawedAssumption == Flawed \cap (Drafts \cup {Blank, NoDraft}) = {}
ASSUME NoneAssumption ==
  /\ NoDecision \notin Decisions /\ NoRuling \notin Rulings
  /\ NoRequest \notin Requests
  /\ {NoBench, NoReply, Stale, Refused, Idle, Asked} \cap Benches = {}
  /\ NoReply \notin {Stale, Refused} /\ Stale # Refused /\ Idle # Asked
ASSUME PresentationAssumption ==
  Presentations \subseteq
    {"DECISION_READY", "PREDICATE_EDITING", "IDENTITY_REVEAL", "RESOLVED"}

----------------------------------------------------------------------------
(* The server's opening state: seedPresentation.                           *)

Reviewed == [NewSession EXCEPT !.visits = PreSurfaces, !.pre = PreSurfaces]

Affirmed(d) ==
  Revise(Visit(Reveal(Propose(Reviewed, d)), Provenance), d, FALSE)

Seeded(p, d) ==
  CASE p = "DECISION_READY" -> NewSession
    [] p = "PREDICATE_EDITING" -> Reviewed
    [] p = "IDENTITY_REVEAL" -> Reveal(Propose(Reviewed, d))
    [] p = "RESOLVED" -> Affirmed(d)

Init ==
  /\ \E p \in Presentations, d \in Drafts :
       /\ session = Seeded(p, d)
       /\ lastDraft = session.provisional
       /\ reveal = session.revealed
       /\ mutable = (p # "RESOLVED")
       /\ decision = IF p = "RESOLVED" THEN Decision(session) ELSE NoDecision
  /\ revision = 0
  /\ view = [t \in Tabs |-> "loading"]
  /\ bench = [t \in Tabs |-> NoBench]
  /\ draft = [t \in Tabs |-> NoDraft]
  /\ pending = [t \in Tabs |-> FALSE]
  /\ request = [t \in Tabs |-> NoRequest]
  /\ reply = [t \in Tabs |-> NoReply]
  /\ loads = [t \in Tabs |-> [i \in Slots |->
                IF i = "open" THEN Asked ELSE Idle]]
  /\ orphan = [t \in Tabs |-> NoRequest]
  /\ disclosed = FALSE
  /\ blindVisits = session.pre
  /\ faults = 0

----------------------------------------------------------------------------
(* The server.                                                             *)

\* requireMutableCAS: nothing when the request may go on.
Refusal(r) ==
  IF ~mutable THEN {Refused}
  ELSE IF r.seen.digest # Digest THEN {Stale} ELSE {}

Accepts(r) ==
  CASE r.op = "visit" -> CanVisit(session, r.surface)
    [] r.op = "propose" -> CanPropose(session, r.draft)
    [] r.op = "reveal" -> CanReveal(session)
    [] r.op = "revise" -> CanRevise(session, r.draft, r.why)
    [] r.op = "finalize" -> CanDecide(session) /\ r.why

\* Mutant: a visit is not a new revision.
ApplyVisitUncounted(r) ==
  /\ r.op = "visit"
  /\ session' = Visit(session, r.surface)
  /\ UNCHANGED <<revision, lastDraft, mutable, reveal, decision>>

ApplyVisit(r) ==
  /\ r.op = "visit"
  /\ session' = Visit(session, r.surface)
  /\ revision' = revision + 1
  /\ UNCHANGED <<lastDraft, mutable, reveal, decision>>

ApplyPropose(r) ==
  /\ r.op = "propose"
  /\ session' = Propose(session, r.draft)
  /\ lastDraft' = r.draft
  /\ revision' = revision + 1
  /\ UNCHANGED <<mutable, reveal, decision>>

ApplyReveal(r) ==
  /\ r.op = "reveal"
  /\ session' = Reveal(session)
  /\ reveal' = TRUE
  /\ revision' = revision + 1
  /\ UNCHANGED <<lastDraft, mutable, decision>>

ApplyRevise(r) ==
  /\ r.op = "revise"
  /\ session' = Revise(session, r.draft, r.why)
  /\ lastDraft' = r.draft
  /\ revision' = revision + 1
  /\ UNCHANGED <<mutable, reveal, decision>>

ApplyFinalize(r) ==
  /\ r.op = "finalize"
  /\ session' = Finalized(session)
  /\ decision' = Decision(session)
  /\ mutable' = FALSE
  /\ revision' = revision + 1
  /\ UNCHANGED <<lastDraft, reveal>>

Apply(r) ==
  \/ ApplyVisit(r) \/ ApplyPropose(r) \/ ApplyReveal(r)
  \/ ApplyRevise(r) \/ ApplyFinalize(r)

Accepted(r) ==
  /\ Refusal(r) = {} /\ Accepts(r)
  /\ Apply(r)
  /\ blindVisits' = IF disclosed THEN blindVisits ELSE session'.visits

Declined(r) ==
  /\ Refusal(r) # {} \/ ~Accepts(r)
  /\ UNCHANGED <<server, blindVisits>>

ServeMutation(t) ==
  LET r == request[t] IN
  /\ r # NoRequest
  /\ \/ /\ Accepted(r)
        /\ reply' = [reply EXCEPT ![t] = Bench']
        /\ disclosed' = (disclosed \/ reveal')
     \/ /\ Declined(r)
        /\ \E why \in IF Refusal(r) = {} THEN {Refused} ELSE Refusal(r) :
             reply' = [reply EXCEPT ![t] = why]
        /\ UNCHANGED disclosed
  /\ request' = [request EXCEPT ![t] = NoRequest]
  /\ UNCHANGED <<screen, loads, orphan, faults>>

\* A request whose tab has given up is served all the same.
ServeOrphan(t) ==
  LET r == orphan[t] IN
  /\ r # NoRequest
  /\ Accepted(r) \/ Declined(r)
  /\ orphan' = [orphan EXCEPT ![t] = NoRequest]
  /\ UNCHANGED <<screen, request, reply, loads, disclosed, faults>>

ServeLoad(t, i) ==
  /\ loads[t][i] = Asked
  /\ loads' = [loads EXCEPT ![t][i] = Bench]
  /\ disclosed' = (disclosed \/ reveal)
  /\ UNCHANGED <<server, screen, request, reply, orphan, blindVisits, faults>>

----------------------------------------------------------------------------
(* A tab: what its screen offers, what it sends, and what it does with an  *)
(* answer.                                                                 *)

AllPreRevealReviewed(b) == PreSurfaces \subseteq b.reviewed

OffersVisit(b, x) ==
  /\ x \notin b.reviewed
  /\ x = Provenance => b.reveal

\* draftShapeReady: every field acknowledged, a card or an authored value for
\* what is asserted.  An authored value that repeats an observed card, cards
\* that separate nothing and a padded reviewer label all pass.
ShapeReady(d) == d \in Drafts \cup Flawed

\* Mutant: a complete draft is all the button waits for.
OffersProposeUnreviewed(b, d) ==
  b.result = NoDecision /\ b.state = "BLIND_OPEN" /\ ShapeReady(d)

OffersPropose(b, d) ==
  /\ b.result = NoDecision /\ b.state = "BLIND_OPEN"
  /\ AllPreRevealReviewed(b)
  /\ ShapeReady(d)

OffersReveal(b) ==
  /\ b.result = NoDecision
  /\ \/ b.state = "BLIND_OPEN" /\ AllPreRevealReviewed(b)
     \/ b.state = "PROVISIONAL_RECORDED"

\* The draft's shape is not looked at here: the server may refuse it.
OffersRevise(b) ==
  /\ b.result = NoDecision /\ b.state = "REVEALED"
  /\ Provenance \in b.reviewed

\* With any actor label that is not blank, and any annotation.
OffersFinalize(b) ==
  b.result = NoDecision /\ b.state = "POST_REVEAL_RECORDED"

Offered(b, d) ==
  {Request("visit", x, Blank, FALSE, b) : x \in {y \in Surfaces : OffersVisit(b, y)}}
  \cup (IF OffersPropose(b, d) THEN {Request("propose", Provenance, d, FALSE, b)} ELSE {})
  \cup (IF OffersReveal(b) THEN {Request("reveal", Provenance, Blank, FALSE, b)} ELSE {})
  \cup (IF OffersRevise(b)
        THEN {Request("revise", Provenance, d, why, b) : why \in BOOLEAN} ELSE {})
  \cup (IF OffersFinalize(b)
        THEN {Request("finalize", Provenance, Blank, why, b) : why \in BOOLEAN} ELSE {})

Mutate(t) ==
  /\ view[t] = "ready" /\ ~pending[t]
  /\ \E r \in Offered(bench[t], draft[t]) :
       request' = [request EXCEPT ![t] = r]
  /\ pending' = [pending EXCEPT ![t] = TRUE]
  /\ UNCHANGED <<server, view, bench, draft, reply, loads, orphan, history, faults>>

ReadsDraft(b) ==
  OffersRevise(b) \/ \E d \in Editable : OffersPropose(b, d)

\* Outcome cards and custom values stay editable while a mutation is pending.
\* Another action, or the last card taken back, makes a draft incomplete.
EditDraft(t) ==
  /\ view[t] = "ready"
  /\ ~FreeEdits => ~pending[t] /\ ReadsDraft(bench[t])
  /\ \E d \in Editable \ {draft[t]} : draft' = [draft EXCEPT ![t] = d]
  /\ UNCHANGED <<server, view, bench, pending, wires, history, faults>>

MutationAccepted(t) ==
  /\ reply[t] \notin Refusals \cup {NoReply}
  /\ LET b == reply[t] IN
     /\ draft' = [draft EXCEPT ![t] = IF b.draft # NoDraft THEN b.draft ELSE @]
     /\ bench' = [bench EXCEPT ![t] = b]
  /\ view' = [view EXCEPT ![t] = "ready"]
  /\ pending' = [pending EXCEPT ![t] = FALSE]
  /\ reply' = [reply EXCEPT ![t] = NoReply]
  /\ UNCHANGED <<server, request, loads, orphan, history, faults>>

\* The notice is shown and nothing is reloaded: also when another tab has
\* finalized the session.
MutationRefused(t) ==
  /\ reply[t] = Refused
  /\ pending' = [pending EXCEPT ![t] = FALSE]
  /\ reply' = [reply EXCEPT ![t] = NoReply]
  /\ UNCHANGED <<server, view, bench, draft, request, loads, orphan, history, faults>>

\* The tab reloads, and stays pending until the reload has ended.
MutationStale(t) ==
  /\ reply[t] = Stale
  /\ loads' = [loads EXCEPT ![t]["reload"] = Asked]
  /\ reply' = [reply EXCEPT ![t] = NoReply]
  /\ UNCHANGED <<server, screen, request, orphan, history, faults>>

\* After an answer is lost on the way, or the request itself.
GiveUp(t) ==
  /\ request[t] # NoRequest \/ reply[t] # NoReply
  /\ orphan[t] = NoRequest
  /\ orphan' = [orphan EXCEPT ![t] = request[t]]
  /\ request' = [request EXCEPT ![t] = NoRequest]
  /\ reply' = [reply EXCEPT ![t] = NoReply]

ShowError(t) ==
  /\ view' = [view EXCEPT ![t] = "error"]
  /\ bench' = [bench EXCEPT ![t] = NoBench]

Faulty == faults < MaxFaults /\ faults' = faults + 1

MutationFails(t) ==
  /\ Faulty
  /\ GiveUp(t)
  /\ ShowError(t)
  /\ pending' = [pending EXCEPT ![t] = FALSE]
  /\ UNCHANGED <<server, draft, loads, history>>

Loaded(t, i) ==
  /\ loads[t][i] \notin {Idle, Asked}
  /\ LET b == loads[t][i] IN
     /\ draft' = [draft EXCEPT ![t] =
          IF @ # NoDraft THEN @ ELSE IF b.draft # NoDraft THEN b.draft ELSE Blank]
     /\ bench' = [bench EXCEPT ![t] = b]
  /\ view' = [view EXCEPT ![t] = "ready"]
  /\ pending' = [pending EXCEPT ![t] = @ /\ i # "reload"]
  /\ loads' = [loads EXCEPT ![t][i] = Idle]
  /\ UNCHANGED <<server, request, reply, orphan, history, faults>>

LoadFails(t, i) ==
  /\ Faulty
  /\ loads[t][i] # Idle
  /\ ShowError(t)
  /\ pending' = [pending EXCEPT ![t] = @ /\ i # "reload"]
  /\ loads' = [loads EXCEPT ![t][i] = Idle]
  /\ UNCHANGED <<server, draft, request, reply, orphan, history>>

\* The button stays live while a load is under way: two may cross.
Retry(t, i) ==
  /\ view[t] = "error"
  /\ i # "reload" /\ loads[t][i] = Idle
  /\ loads' = [loads EXCEPT ![t][i] = Asked]
  /\ UNCHANGED <<server, screen, request, reply, orphan, history, faults>>

\* The page is reloaded: the tab starts over and its requests are abandoned.
Refresh(t) ==
  /\ Faulty
  /\ \/ GiveUp(t)
     \/ request[t] = NoRequest /\ reply[t] = NoReply /\ UNCHANGED <<request, reply, orphan>>
  /\ view' = [view EXCEPT ![t] = "loading"]
  /\ bench' = [bench EXCEPT ![t] = NoBench]
  /\ draft' = [draft EXCEPT ![t] = NoDraft]
  /\ pending' = [pending EXCEPT ![t] = FALSE]
  /\ loads' = [loads EXCEPT ![t] =
       [i \in Slots |-> IF i = "open" THEN Asked ELSE Idle]]
  /\ UNCHANGED <<server, history>>

TabStep(t) ==
  \/ Mutate(t) \/ EditDraft(t)
  \/ MutationAccepted(t) \/ MutationRefused(t) \/ MutationStale(t)
  \/ MutationFails(t) \/ Refresh(t)
  \/ \E i \in Slots : Loaded(t, i) \/ LoadFails(t, i) \/ Retry(t, i)

ServerStep(t) ==
  \/ ServeMutation(t) \/ ServeOrphan(t)
  \/ \E i \in Slots : ServeLoad(t, i)

Next == \E t \in Tabs : TabStep(t) \/ ServerStep(t)

Spec == Init /\ [][Next]_vars

----------------------------------------------------------------------------
(* Properties.                                                             *)

\* Every variable holds a value of its kind (state.go, App.tsx).
TypeOK ==
  /\ session \in Sessions /\ revision \in Nat
  /\ lastDraft \in Drafts \cup {NoDraft} /\ decision \in Decisions \cup {NoDecision}
  /\ {mutable, reveal, disclosed} \subseteq BOOLEAN
  /\ blindVisits \subseteq Surfaces
  /\ view \in [Tabs -> {"loading", "ready", "error"}]
  /\ bench \in [Tabs -> Benches \cup {NoBench}]
  /\ draft \in [Tabs -> Editable \cup {NoDraft}]
  /\ pending \in [Tabs -> BOOLEAN]
  /\ request \in [Tabs -> Requests \cup {NoRequest}]
  /\ orphan \in [Tabs -> Requests \cup {NoRequest}]
  /\ reply \in [Tabs -> Benches \cup Refusals \cup {NoReply}]
  /\ loads \in [Tabs -> [Slots -> Benches \cup {Idle, Asked}]]
  /\ faults \in 0 .. MaxFaults

\* The session only moves on a request whose tab was showing, when it sent
\* it, exactly what the server would show now: no second tab, late answer or
\* abandoned request acts on facts its reader did not have (state.go:486).
ActsOnWhatItSaw ==
  [][session' # session =>
       \E t \in Tabs :
         \/ request[t] # NoRequest /\ request'[t] = NoRequest
            /\ request[t].seen = Bench
         \/ orphan[t] # NoRequest /\ orphan'[t] = NoRequest
            /\ orphan[t].seen = Bench]_vars

\* The record splits the surfaces into those reviewed before the candidates'
\* identities had left the server and those reviewed after (session.go:125,
\* decision.go:170), though the reveal itself may be applied unseen.
PartitionIsTrue ==
  decision # NoDecision =>
    /\ decision.pre = blindVisits
    /\ decision.post = Surfaces \ blindVisits

\* The requests that differ from r in what was typed only: a complete draft
\* in the place of one the server does not accept, another text.
Refilled(r) ==
  {Request(r.op, r.surface, d, w, r.seen) :
     d \in IF r.draft \in Drafts THEN {r.draft} ELSE Drafts, w \in BOOLEAN}

\* A mutation the client offers on a current bench is refused for what was
\* typed and never for the session: the client's copy of the session's rules
\* offers no visit, proposal, reveal, revision or finalization that the state
\* forbids, and nothing once nothing is mutable (DecisionBench.tsx:272).
OfferedFitsSession ==
  \A t \in Tabs :
    view[t] = "ready" /\ bench[t] = Bench =>
      \A r \in Offered(bench[t], draft[t]) :
        /\ Refusal(r) = {}
        /\ \E f \in Refilled(r) : Accepts(f)

\* What the record says against what was sealed and shown: the studio
\* implements the blind ruling (session.go:146-280, decision.go:104).
Blind == INSTANCE BlindRuling WITH
  sealed <- session.provisional,
  shown <- disclosed,
  ruling <- IF decision = NoDecision THEN NoRuling
            ELSE [sealed |-> decision.provisional, final |-> decision.final,
                  why |-> decision.rationale]

RulesBlind == Blind!Spec
=============================================================================
