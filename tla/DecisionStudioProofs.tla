------------------------ MODULE DecisionStudioProofs ------------------------
(***************************************************************************)
(* Theorems of the decision studio: its type invariant, that the record    *)
(* tells truly what was reviewed blind, and that the studio implements the *)
(* blind ruling.                                                           *)
(*                                                                         *)
(* The session alone does not carry the last two: the reveal may be        *)
(* applied for a request whose answer nobody received.  What is inductive  *)
(* is that every bench that left the server with a revealed digest left    *)
(* with the reveal (Informed), so that a request the server still takes    *)
(* after the reveal comes from a tab that has been shown it.               *)
(***************************************************************************)
EXTENDS DecisionStudio, TLAPS

ServerTyped ==
  /\ session \in Sessions /\ revision \in Nat
  /\ lastDraft \in Drafts \cup {NoDraft} /\ decision \in Decisions \cup {NoDecision}
  /\ mutable \in BOOLEAN /\ reveal \in BOOLEAN
  /\ blindVisits \subseteq Surfaces

TabsTyped ==
  /\ view \in [Tabs -> {"loading", "ready", "error"}]
  /\ bench \in [Tabs -> Benches \cup {NoBench}]
  /\ draft \in [Tabs -> Editable \cup {NoDraft}]
  /\ pending \in [Tabs -> BOOLEAN]
  /\ request \in [Tabs -> Requests \cup {NoRequest}]
  /\ orphan \in [Tabs -> Requests \cup {NoRequest}]
  /\ reply \in [Tabs -> Benches \cup Refusals \cup {NoReply}]
  /\ loads \in [Tabs -> [Slots -> Benches \cup {Idle, Asked}]]
  /\ faults \in 0 .. MaxFaults

Unveiled == {"REVEALED", "POST_REVEAL_RECORDED", "FINALIZED"}

Informed(b) == b.digest[2] \in Unveiled => disclosed

\* A bench is of an earlier revision, or it is what the server would show now.
Dated(b) == b.digest[1] < revision \/ b = Bench

\* Every bench on a screen or on a wire is informed.
AllInformed ==
  \A t \in Tabs :
    /\ bench[t] # NoBench => Informed(bench[t])
    /\ request[t] # NoRequest => Informed(request[t].seen)
    /\ orphan[t] # NoRequest => Informed(orphan[t].seen)
    /\ reply[t] \notin Refusals \cup {NoReply} => Informed(reply[t])
    /\ \A i \in Slots : loads[t][i] \notin {Idle, Asked} => Informed(loads[t][i])

AllDated ==
  \A t \in Tabs :
    /\ bench[t] # NoBench => Dated(bench[t])
    /\ request[t] # NoRequest => Dated(request[t].seen)
    /\ orphan[t] # NoRequest => Dated(orphan[t].seen)
    /\ reply[t] \notin Refusals \cup {NoReply} => Dated(reply[t])
    /\ \A i \in Slots : loads[t][i] \notin {Idle, Asked} => Dated(loads[t][i])

\* A tab that is ready has a bench and a draft; one that waits for an answer
\* to a mutation has a draft.
TabsWhole ==
  \A t \in Tabs :
    /\ view[t] = "ready" => bench[t] # NoBench /\ draft[t] # NoDraft
    /\ request[t] # NoRequest \/ reply[t] # NoReply => draft[t] # NoDraft

SessionCoherent ==
  /\ reveal = session.revealed
  /\ session.revealed <=> session.state \in Unveiled
  /\ disclosed => reveal
  /\ session.state = "BLIND_OPEN" <=> session.provisional = NoDraft /\ ~session.revealed
  /\ session.state = "PROVISIONAL_RECORDED" => session.provisional \in Drafts
  /\ session.state \in {"POST_REVEAL_RECORDED", "FINALIZED"} => session.final \in Drafts
  /\ mutable => decision = NoDecision

BlindVisitsKept ==
  /\ session.pre = blindVisits
  /\ mutable /\ ~disclosed => session.visits = blindVisits

DecisionTrue ==
  decision # NoDecision =>
    /\ ~mutable
    /\ decision.pre = session.pre /\ decision.post = Surfaces \ session.pre
    /\ decision.provisional = session.provisional
    /\ decision.rationale <=> Changed(session, decision.final)

ServerInv ==
  /\ ServerTyped /\ disclosed \in BOOLEAN
  /\ SessionCoherent /\ BlindVisitsKept /\ DecisionTrue

TabsInv == TabsTyped /\ AllInformed /\ AllDated /\ TabsWhole

IInv == ServerInv /\ TabsInv

\* The type invariant is the part of the inductive one about kinds.
LEMMA Typing == TypeOK <=> ServerTyped /\ TabsTyped /\ disclosed \in BOOLEAN
BY DEF TypeOK, ServerTyped, TabsTyped

USE SurfaceAssumption, DraftAssumption, FlawedAssumption, BoundAssumption

----------------------------------------------------------------------------
(* The server.                                                             *)

\* A bench is a bench, and shows the reveal when its digest does.
LEMMA BenchWhole ==
  ASSUME ServerInv
  PROVE  /\ Bench \in Benches
         /\ Bench.digest[2] \in Unveiled <=> reveal
BY DEF ServerInv, ServerTyped, SessionCoherent, Bench, Benches, Digest, Sessions, Unveiled

\* A request taken after the reveal comes from a tab that was shown it.
LEMMA TakenIsInformed ==
  ASSUME ServerInv, NEW r \in Requests, Informed(r.seen), Refusal(r) = {}
  PROVE  mutable /\ (reveal => disclosed)
<1>1. mutable /\ r.seen.digest = Digest
  BY DEF Refusal
<1>2. r.seen.digest[2] = session.state
  BY <1>1 DEF Digest
<1> QED
  BY <1>1, <1>2 DEF Informed, ServerInv, SessionCoherent

\* Whatever was known before a mutation is of an earlier revision after it.
LEMMA AcceptedMovesOn ==
  ASSUME ServerInv, NEW r, Accepted(r)
  PROVE  /\ revision \in Nat /\ revision' = revision + 1
         /\ \A b \in Benches : Dated(b) => b.digest[1] < revision'
<1>1. revision \in Nat /\ revision' = revision + 1
  BY DEF ServerInv, ServerTyped, Accepted, Apply, ApplyVisit, ApplyPropose, ApplyReveal,
    ApplyRevise, ApplyFinalize
<1>2. ASSUME NEW b \in Benches, Dated(b) PROVE b.digest[1] < revision'
  <2>1. b.digest[1] \in Nat
    BY DEF Benches
  <2>2. Bench.digest[1] = revision
    BY DEF Bench, Digest
  <2> QED
    BY <1>1, <1>2, <2>1, <2>2 DEF Dated
<1> QED
  BY <1>1, <1>2

\* A request that is taken was sent from what the server would show now.
LEMMA SeenIsNow ==
  ASSUME ServerInv, NEW r \in Requests, Accepted(r), Dated(r.seen)
  PROVE  r.seen = Bench
<1>1. r.seen.digest[1] = revision
  BY DEF Accepted, Refusal, Digest
<1> QED
  BY <1>1 DEF Dated, ServerInv, ServerTyped

LEMMA DecisionTyped ==
  ASSUME ServerInv, CanDecide(session)
  PROVE  Decision(session) \in Decisions
<1>1. /\ session.provisional \in Drafts \cup {NoDraft} /\ session.final \in Drafts
      /\ session.rationale \in BOOLEAN /\ session.pre \in SUBSET Surfaces
  BY DEF CanDecide, ServerInv, ServerTyped, SessionCoherent, Sessions
<1> QED
  BY <1>1 DEF Decision, Decisions, Changed

\* The server part of the invariant, whichever way the answer goes.
LEMMA AcceptedKeeps ==
  ASSUME ServerInv, NEW r \in Requests, Informed(r.seen), Accepted(r),
         disclosed' \in {disclosed, disclosed \/ reveal'}
  PROVE  ServerInv'
<1> USE DEF ServerInv
<1>0. mutable /\ (reveal => disclosed) /\ decision = NoDecision
  BY TakenIsInformed DEF Accepted, SessionCoherent
<1>1. r.surface \in Surfaces /\ r.draft \in Editable /\ r.why \in BOOLEAN
  BY DEF Requests
<1>2. CASE ApplyVisit(r)
  <2>1. CanVisit(session, r.surface)
    BY <1>2 DEF Accepted, Accepts, ApplyVisit
  <2>2. /\ session' \in Sessions
        /\ session'.state = session.state /\ session'.provisional = session.provisional
        /\ session'.final = session.final /\ session'.revealed = session.revealed
        /\ session'.rationale = session.rationale
        /\ session'.visits = session.visits \cup {r.surface}
        /\ session'.pre = IF reveal THEN session.pre ELSE session.pre \cup {r.surface}
    BY <1>1, <1>2, <2>1 DEF ApplyVisit, CanVisit, Visit, Sessions, SessionStates,
      ServerTyped, SessionCoherent
  <2>3. ServerTyped'
    BY <1>0, <1>1, <1>2, <2>1, <2>2 DEF ApplyVisit, Accepted, CanVisit, ServerTyped, Surfaces, Editable, Sessions
  <2>4. SessionCoherent'
    BY <1>0, <1>1, <1>2, <2>1, <2>2 DEF ApplyVisit, CanVisit, SessionCoherent, ServerTyped, Sessions, Unveiled
  <2>5. BlindVisitsKept'
    BY <1>0, <1>1, <1>2, <2>1, <2>2 DEF ApplyVisit, Accepted, CanVisit, BlindVisitsKept, SessionCoherent
  <2>6. DecisionTrue'
    BY <1>0, <1>1, <1>2, <2>1, <2>2 DEF ApplyVisit, CanVisit, DecisionTrue, Changed
  <2> QED
    BY <1>0, <2>3, <2>4, <2>5, <2>6
<1>3. CASE ApplyPropose(r)
  <2>1. CanPropose(session, r.draft)
    BY <1>3 DEF Accepted, Accepts, ApplyPropose
  <2>2. /\ session' \in Sessions
        /\ session'.state = "PROVISIONAL_RECORDED" /\ session'.provisional = r.draft
        /\ session'.revealed = session.revealed /\ session'.final = r.draft
        /\ session'.rationale = session.rationale
        /\ session'.visits = session.visits /\ session'.pre = session.pre
    BY <1>1, <1>3, <2>1 DEF ApplyPropose, CanPropose, Propose, Sessions, SessionStates,
      ServerTyped, SessionCoherent
  <2>3. ServerTyped'
    BY <1>0, <1>1, <1>3, <2>1, <2>2 DEF ApplyPropose, Accepted, CanPropose, ServerTyped, Surfaces, Editable, Sessions
  <2>4. SessionCoherent'
    BY <1>0, <1>1, <1>3, <2>1, <2>2 DEF ApplyPropose, CanPropose, SessionCoherent, ServerTyped, Sessions, Unveiled
  <2>5. BlindVisitsKept'
    BY <1>0, <1>1, <1>3, <2>1, <2>2 DEF ApplyPropose, Accepted, CanPropose, BlindVisitsKept, SessionCoherent
  <2>6. DecisionTrue'
    BY <1>0, <1>1, <1>3, <2>1, <2>2 DEF ApplyPropose, CanPropose, DecisionTrue, Changed
  <2> QED
    BY <1>0, <2>3, <2>4, <2>5, <2>6
<1>4. CASE ApplyReveal(r)
  <2>1. CanReveal(session)
    BY <1>4 DEF Accepted, Accepts, ApplyReveal
  <2>2. /\ session' \in Sessions
        /\ session'.state = "REVEALED" /\ session'.provisional = session.provisional
        /\ session'.revealed = TRUE /\ session'.final = session.final
        /\ session'.rationale = session.rationale
        /\ session'.visits = session.visits /\ session'.pre = session.pre
    BY <1>1, <1>4, <2>1 DEF ApplyReveal, CanReveal, Reveal, Sessions, SessionStates,
      ServerTyped, SessionCoherent
  <2>3. ServerTyped'
    BY <1>0, <1>1, <1>4, <2>1, <2>2 DEF ApplyReveal, Accepted, CanReveal, ServerTyped, Surfaces, Editable, Sessions
  <2>4. SessionCoherent'
    BY <1>0, <1>1, <1>4, <2>1, <2>2 DEF ApplyReveal, CanReveal, SessionCoherent, ServerTyped, Sessions, Unveiled
  <2>5. BlindVisitsKept'
    BY <1>0, <1>1, <1>4, <2>1, <2>2 DEF ApplyReveal, Accepted, CanReveal, BlindVisitsKept, SessionCoherent
  <2>6. DecisionTrue'
    BY <1>0, <1>1, <1>4, <2>1, <2>2 DEF ApplyReveal, CanReveal, DecisionTrue, Changed
  <2> QED
    BY <1>0, <2>3, <2>4, <2>5, <2>6
<1>5. CASE ApplyRevise(r)
  <2>1. CanRevise(session, r.draft, r.why)
    BY <1>5 DEF Accepted, Accepts, ApplyRevise
  <2>2. /\ session' \in Sessions
        /\ session'.state = "POST_REVEAL_RECORDED" /\ session'.provisional = session.provisional
        /\ session'.revealed = session.revealed /\ session'.final = r.draft
        /\ session'.rationale = r.why
        /\ session'.visits = session.visits /\ session'.pre = session.pre
    BY <1>1, <1>5, <2>1 DEF ApplyRevise, CanRevise, Revise, Sessions, SessionStates,
      ServerTyped, SessionCoherent
  <2>3. ServerTyped'
    BY <1>0, <1>1, <1>5, <2>1, <2>2 DEF ApplyRevise, Accepted, CanRevise, ServerTyped, Surfaces, Editable, Sessions
  <2>4. SessionCoherent'
    BY <1>0, <1>1, <1>5, <2>1, <2>2 DEF ApplyRevise, CanRevise, SessionCoherent, ServerTyped, Sessions, Unveiled
  <2>5. BlindVisitsKept'
    BY <1>0, <1>1, <1>5, <2>1, <2>2 DEF ApplyRevise, Accepted, CanRevise, BlindVisitsKept, SessionCoherent
  <2>6. DecisionTrue'
    BY <1>0, <1>1, <1>5, <2>1, <2>2 DEF ApplyRevise, CanRevise, DecisionTrue, Changed
  <2> QED
    BY <1>0, <2>3, <2>4, <2>5, <2>6
<1>6. CASE ApplyFinalize(r)
  <2>1. CanDecide(session)
    BY <1>6 DEF Accepted, Accepts, ApplyFinalize
  <2>2. /\ session' \in Sessions
        /\ session'.state = "FINALIZED" /\ session'.provisional = session.provisional
        /\ session'.revealed = session.revealed /\ session'.final = session.final
        /\ session'.rationale = session.rationale
        /\ session'.visits = session.visits /\ session'.pre = session.pre
    BY <1>1, <1>6, <2>1 DEF ApplyFinalize, CanDecide, Finalized, Sessions, SessionStates,
      ServerTyped, SessionCoherent
  <2>3. /\ decision' \in Decisions /\ decision' # NoDecision
        /\ decision'.pre = session.pre /\ decision'.post = Surfaces \ session.pre
        /\ decision'.provisional = session.provisional /\ decision'.final = session.final
        /\ decision'.rationale = session.rationale
    BY <1>6, <2>1, DecisionTyped, NoneAssumption DEF ApplyFinalize, Decision
  <2>4. ServerTyped'
    <3>1. session'.visits \subseteq Surfaces
      BY <2>2 DEF Sessions
    <3>2. blindVisits' \subseteq Surfaces
      BY <3>1 DEF Accepted, ServerTyped
    <3>3. revision' \in Nat /\ lastDraft' = lastDraft /\ mutable' = FALSE /\ reveal' = reveal
      BY <1>6 DEF ApplyFinalize, ServerTyped
    <3> QED
      BY <2>2, <2>3, <3>2, <3>3 DEF ServerTyped
  <2>5. SessionCoherent'
    BY <1>0, <1>1, <1>6, <2>1, <2>2, <2>3 DEF ApplyFinalize, CanDecide, SessionCoherent, ServerTyped, Sessions, Unveiled
  <2>6. BlindVisitsKept'
    BY <1>0, <1>1, <1>6, <2>1, <2>2, <2>3 DEF ApplyFinalize, Accepted, CanDecide, BlindVisitsKept, SessionCoherent
  <2>7. DecisionTrue'
    BY <1>0, <1>1, <1>6, <2>1, <2>2, <2>3 DEF ApplyFinalize, CanDecide, DecisionTrue, Changed
  <2> QED
    BY <1>0, <2>4, <2>5, <2>6, <2>7
<1> QED
  BY <1>2, <1>3, <1>4, <1>5, <1>6 DEF Accepted, Apply

----------------------------------------------------------------------------
(* The tabs and the wires.                                                 *)

\* What is still informed when nothing is undisclosed again.
LEMMA StillInformed ==
  ASSUME disclosed => disclosed', NEW b, Informed(b)
  PROVE  Informed(b)'
BY DEF Informed

\* A tab's step leaves the server and its history alone.
LEMMA ServerUntouched ==
  ASSUME ServerInv, UNCHANGED server, UNCHANGED history
  PROVE  ServerInv'
BY DEF ServerInv, ServerTyped, SessionCoherent, BlindVisitsKept, DecisionTrue, Changed, server, history

LEMMA EditDraftKeeps ==
  ASSUME IInv, NEW t \in Tabs, EditDraft(t)
  PROVE  IInv'
<1> USE DEF IInv, TabsInv
<1>1. ServerInv'
  BY ServerUntouched DEF EditDraft, ServerInv
<1>2. TabsTyped'
  BY DEF EditDraft, Editable, TabsTyped, TabsWhole, wires
<1>3. AllInformed'
  BY NoneAssumption DEF EditDraft, Editable, AllInformed, Informed, TabsTyped, wires, TabsWhole, history
<1>4. TabsWhole'
  BY NoneAssumption DEF EditDraft, Editable, TabsWhole, TabsTyped, wires
<1>5. UNCHANGED <<revision, Bench>>
  BY DEF EditDraft, Bench, Digest, server
<1>6. AllDated'
  BY <1>5, NoneAssumption DEF EditDraft, Editable, AllDated, Dated, TabsTyped, wires, TabsWhole
<1> QED
  BY <1>1, <1>2, <1>3, <1>4, <1>6

LEMMA MutationAcceptedKeeps ==
  ASSUME IInv, NEW t \in Tabs, MutationAccepted(t)
  PROVE  IInv'
<1> USE DEF IInv, TabsInv
<1>1. ServerInv'
  BY ServerUntouched DEF MutationAccepted, ServerInv
<1>2. TabsTyped'
  BY DEF MutationAccepted, Benches, Editable, Refusals, TabsTyped, TabsWhole, wires
<1>3. AllInformed'
  BY NoneAssumption DEF MutationAccepted, Benches, Editable, Refusals, AllInformed, Informed, TabsTyped, wires, TabsWhole, history
<1>4. TabsWhole'
  BY NoneAssumption DEF MutationAccepted, Benches, Editable, Refusals, TabsWhole, TabsTyped, wires
<1>5. UNCHANGED <<revision, Bench>>
  BY DEF MutationAccepted, Bench, Digest, server
<1>6. AllDated'
  BY <1>5, NoneAssumption DEF MutationAccepted, Benches, Editable, Refusals, AllDated, Dated, TabsTyped, wires, TabsWhole
<1> QED
  BY <1>1, <1>2, <1>3, <1>4, <1>6

LEMMA MutationRefusedKeeps ==
  ASSUME IInv, NEW t \in Tabs, MutationRefused(t)
  PROVE  IInv'
<1> USE DEF IInv, TabsInv
<1>1. ServerInv'
  BY ServerUntouched DEF MutationRefused, ServerInv
<1>2. TabsTyped'
  BY DEF MutationRefused, TabsTyped, TabsWhole, wires
<1>3. AllInformed'
  BY NoneAssumption DEF MutationRefused, AllInformed, Informed, TabsTyped, wires, TabsWhole, history
<1>4. TabsWhole'
  BY NoneAssumption DEF MutationRefused, TabsWhole, TabsTyped, wires
<1>5. UNCHANGED <<revision, Bench>>
  BY DEF MutationRefused, Bench, Digest, server
<1>6. AllDated'
  BY <1>5, NoneAssumption DEF MutationRefused, AllDated, Dated, TabsTyped, wires, TabsWhole
<1> QED
  BY <1>1, <1>2, <1>3, <1>4, <1>6

LEMMA MutationStaleKeeps ==
  ASSUME IInv, NEW t \in Tabs, MutationStale(t)
  PROVE  IInv'
<1> USE DEF IInv, TabsInv
<1>1. ServerInv'
  BY ServerUntouched DEF MutationStale, ServerInv
<1>2. TabsTyped'
  BY DEF MutationStale, screen, Slots, TabsTyped, TabsWhole, wires
<1>3. AllInformed'
  BY NoneAssumption DEF MutationStale, screen, Slots, AllInformed, Informed, TabsTyped, wires, TabsWhole, history
<1>4. TabsWhole'
  BY NoneAssumption DEF MutationStale, screen, Slots, TabsWhole, TabsTyped, wires
<1>5. UNCHANGED <<revision, Bench>>
  BY DEF MutationStale, Bench, Digest, server
<1>6. AllDated'
  BY <1>5, NoneAssumption DEF MutationStale, screen, Slots, AllDated, Dated, TabsTyped, wires, TabsWhole
<1> QED
  BY <1>1, <1>2, <1>3, <1>4, <1>6

LEMMA MutationFailsKeeps ==
  ASSUME IInv, NEW t \in Tabs, MutationFails(t)
  PROVE  IInv'
<1> USE DEF IInv, TabsInv
<1>1. ServerInv'
  BY ServerUntouched DEF MutationFails, ServerInv
<1>2. TabsTyped'
  BY DEF MutationFails, GiveUp, ShowError, Faulty, TabsTyped, TabsWhole, wires
<1>3. AllInformed'
  BY NoneAssumption DEF MutationFails, GiveUp, ShowError, Faulty, AllInformed, Informed, TabsTyped, wires, TabsWhole, history
<1>4. TabsWhole'
  BY NoneAssumption DEF MutationFails, GiveUp, ShowError, Faulty, TabsWhole, TabsTyped, wires
<1>5. UNCHANGED <<revision, Bench>>
  BY DEF MutationFails, Bench, Digest, server
<1>6. AllDated'
  BY <1>5, NoneAssumption DEF MutationFails, GiveUp, ShowError, Faulty, AllDated, Dated, TabsTyped, wires, TabsWhole
<1> QED
  BY <1>1, <1>2, <1>3, <1>4, <1>6

LEMMA RefreshKeeps ==
  ASSUME IInv, NEW t \in Tabs, Refresh(t)
  PROVE  IInv'
<1> USE DEF IInv, TabsInv
<1>1. ServerInv'
  BY ServerUntouched DEF Refresh, ServerInv
<1>2. TabsTyped'
  <2>1. loads' \in [Tabs -> [Slots -> Benches \cup {Idle, Asked}]]
    BY DEF Refresh, TabsTyped
  <2>2. /\ request' \in [Tabs -> Requests \cup {NoRequest}]
        /\ orphan' \in [Tabs -> Requests \cup {NoRequest}]
        /\ reply' \in [Tabs -> Benches \cup Refusals \cup {NoReply}]
    BY DEF Refresh, GiveUp, TabsTyped
  <2> QED
    BY <2>1, <2>2 DEF Refresh, Faulty, TabsTyped
<1>3. AllInformed'
  BY NoneAssumption DEF Refresh, GiveUp, Faulty, Slots, AllInformed, Informed, TabsTyped, wires, TabsWhole, history
<1>4. TabsWhole'
  BY NoneAssumption DEF Refresh, GiveUp, Faulty, Slots, TabsWhole, TabsTyped, wires
<1>5. UNCHANGED <<revision, Bench>>
  BY DEF Refresh, Bench, Digest, server
<1>6. AllDated'
  BY <1>5, NoneAssumption DEF Refresh, GiveUp, Faulty, Slots, AllDated, Dated, TabsTyped, wires, TabsWhole
<1> QED
  BY <1>1, <1>2, <1>3, <1>4, <1>6

LEMMA LoadedKeeps ==
  ASSUME IInv, NEW t \in Tabs, NEW i \in Slots, Loaded(t, i)
  PROVE  IInv'
<1> USE DEF IInv, TabsInv
<1>1. ServerInv'
  BY ServerUntouched DEF Loaded, ServerInv
<1>2. TabsTyped'
  BY DEF Loaded, Benches, Editable, TabsTyped, TabsWhole, wires
<1>3. AllInformed'
  BY NoneAssumption DEF Loaded, Benches, Editable, AllInformed, Informed, TabsTyped, wires, TabsWhole, history
<1>4. TabsWhole'
  <2>1. loads[t][i] \in Benches /\ loads[t][i] # NoBench
    BY NoneAssumption DEF Loaded, TabsTyped, Benches
  <2>2. bench'[t] = loads[t][i] /\ draft'[t] # NoDraft
    BY DraftAssumption DEF Loaded, TabsTyped
  <2>3. ASSUME NEW u \in Tabs \ {t}
        PROVE  /\ view'[u] = view[u] /\ bench'[u] = bench[u] /\ draft'[u] = draft[u]
    BY DEF Loaded, TabsTyped
  <2>4. UNCHANGED <<request, reply>>
    BY DEF Loaded
  <2> QED
    BY <2>1, <2>2, <2>3, <2>4 DEF TabsWhole
<1>5. UNCHANGED <<revision, Bench>>
  BY DEF Loaded, Bench, Digest, server
<1>6. AllDated'
  BY <1>5, NoneAssumption DEF Loaded, Benches, Editable, AllDated, Dated, TabsTyped, wires, TabsWhole
<1> QED
  BY <1>1, <1>2, <1>3, <1>4, <1>6

LEMMA LoadFailsKeeps ==
  ASSUME IInv, NEW t \in Tabs, NEW i \in Slots, LoadFails(t, i)
  PROVE  IInv'
<1> USE DEF IInv, TabsInv
<1>1. ServerInv'
  BY ServerUntouched DEF LoadFails, ServerInv
<1>2. TabsTyped'
  BY DEF LoadFails, ShowError, Faulty, TabsTyped, TabsWhole, wires
<1>3. AllInformed'
  BY NoneAssumption DEF LoadFails, ShowError, Faulty, AllInformed, Informed, TabsTyped, wires, TabsWhole, history
<1>4. TabsWhole'
  BY NoneAssumption DEF LoadFails, ShowError, Faulty, TabsWhole, TabsTyped, wires
<1>5. UNCHANGED <<revision, Bench>>
  BY DEF LoadFails, Bench, Digest, server
<1>6. AllDated'
  BY <1>5, NoneAssumption DEF LoadFails, ShowError, Faulty, AllDated, Dated, TabsTyped, wires, TabsWhole
<1> QED
  BY <1>1, <1>2, <1>3, <1>4, <1>6

LEMMA RetryKeeps ==
  ASSUME IInv, NEW t \in Tabs, NEW i \in Slots, Retry(t, i)
  PROVE  IInv'
<1> USE DEF IInv, TabsInv
<1>1. ServerInv'
  BY ServerUntouched DEF Retry, ServerInv
<1>2. TabsTyped'
  BY DEF Retry, screen, TabsTyped, TabsWhole, wires
<1>3. AllInformed'
  BY NoneAssumption DEF Retry, screen, AllInformed, Informed, TabsTyped, wires, TabsWhole, history
<1>4. TabsWhole'
  BY NoneAssumption DEF Retry, screen, TabsWhole, TabsTyped, wires
<1>5. UNCHANGED <<revision, Bench>>
  BY DEF Retry, Bench, Digest, server
<1>6. AllDated'
  BY <1>5, NoneAssumption DEF Retry, screen, AllDated, Dated, TabsTyped, wires, TabsWhole
<1> QED
  BY <1>1, <1>2, <1>3, <1>4, <1>6

\* Whatever a screen offers is a request that carries its bench.
LEMMA OfferedIsRequest ==
  ASSUME NEW b \in Benches, NEW d \in Editable, NEW r \in Offered(b, d)
  PROVE  r \in Requests /\ r.seen = b
<1>1. \E op \in {"visit", "propose", "reveal", "revise", "finalize"}, x \in Surfaces,
         e \in Editable, why \in BOOLEAN : r = Request(op, x, e, why, b)
  BY DEF Offered, OffersPropose, ShapeReady, Editable, Surfaces
<1> QED
  BY <1>1 DEF Request, Requests

LEMMA MutateKeeps ==
  ASSUME IInv, NEW t \in Tabs, Mutate(t)
  PROVE  IInv'
<1> USE DEF IInv, TabsInv
<1>1. ServerInv'
  BY ServerUntouched DEF Mutate, ServerInv
<1>2. bench[t] \in Benches /\ draft[t] \in Editable
  BY DEF Mutate, TabsTyped, TabsWhole
<1>3. PICK r \in Offered(bench[t], draft[t]) : request' = [request EXCEPT ![t] = r]
  BY DEF Mutate
<1>4. r \in Requests /\ r.seen = bench[t]
  BY <1>2, <1>3, OfferedIsRequest
<1>5. bench[t] # NoBench
  BY DEF Mutate, TabsWhole
<1>6. TabsTyped'
  BY <1>3, <1>4 DEF Mutate, TabsTyped
<1>7. AllInformed'
  BY <1>3, <1>4, <1>5 DEF Mutate, AllInformed, Informed, TabsTyped, history
<1>8. TabsWhole'
  BY <1>2, <1>3, DraftAssumption DEF Mutate, TabsWhole, TabsTyped, Editable
<1>9. UNCHANGED <<revision, Bench>>
  BY DEF Mutate, Bench, Digest, server
<1>10. AllDated'
  BY <1>3, <1>4, <1>5, <1>9 DEF Mutate, AllDated, Dated, TabsTyped
<1> QED
  BY <1>1, <1>6, <1>7, <1>8, <1>10

----------------------------------------------------------------------------
(* The server's answers.                                                   *)

LEMMA ServeMutationKeeps ==
  ASSUME IInv, NEW t \in Tabs, ServeMutation(t)
  PROVE  IInv'
<1> USE DEF IInv, TabsInv
<1>1. request[t] \in Requests /\ Informed(request[t].seen) /\ draft[t] # NoDraft
  BY DEF ServeMutation, TabsTyped, AllInformed, TabsWhole
<1>2. /\ request' = [request EXCEPT ![t] = NoRequest]
      /\ UNCHANGED <<view, bench, draft, pending, loads, orphan, faults>>
  BY DEF ServeMutation, screen
<1>3. ASSUME NEW v \in Benches \cup Refusals, reply' = [reply EXCEPT ![t] = v],
             disclosed => disclosed', v \notin Refusals => Informed(v)' /\ Dated(v)',
             UNCHANGED <<revision, Bench>> \/ Accepted(request[t])
      PROVE  TabsInv'
  <2>1. TabsTyped'
    BY <1>2, <1>3 DEF TabsTyped
  <2>2. AllInformed'
    BY <1>2, <1>3 DEF AllInformed, Informed, TabsTyped
  <2>3. TabsWhole'
    BY <1>1, <1>2, <1>3 DEF TabsWhole, TabsTyped
  <2>4. AllDated'
    <3>1. CASE UNCHANGED <<revision, Bench>>
      BY <1>2, <1>3, <3>1 DEF AllDated, Dated, TabsTyped
    <3>2. CASE Accepted(request[t])
      <4>1. \A b \in Benches : Dated(b) => b.digest[1] < revision'
        BY <3>2, AcceptedMovesOn
      <4>2. \A r \in Requests : Dated(r.seen) => r.seen.digest[1] < revision'
        BY <4>1 DEF Requests
      <4>3. \A u \in Tabs :
              /\ bench[u] # NoBench => bench[u].digest[1] < revision'
              /\ request[u] # NoRequest => request[u].seen.digest[1] < revision'
              /\ orphan[u] # NoRequest => orphan[u].seen.digest[1] < revision'
              /\ reply[u] \notin Refusals \cup {NoReply} => reply[u].digest[1] < revision'
              /\ \A i \in Slots :
                   loads[u][i] \notin {Idle, Asked} => loads[u][i].digest[1] < revision'
        BY <4>1, <4>2 DEF AllDated, TabsTyped
      <4> QED
        BY <1>2, <1>3, <4>3 DEF AllDated, Dated, TabsTyped
    <3> QED
      BY <1>3, <3>1, <3>2
  <2> QED
    BY <2>1, <2>2, <2>3, <2>4
<1>4. CASE Accepted(request[t]) /\ reply' = [reply EXCEPT ![t] = Bench']
           /\ disclosed' = (disclosed \/ reveal')
  <2>1. ServerInv'
    BY <1>1, <1>4, AcceptedKeeps
  <2>2. PICK v : v = Bench'
    OBVIOUS
  <2>3. v \in Benches /\ (v.digest[2] \in Unveiled <=> reveal')
    BY <2>1, <2>2 DEF ServerInv, ServerTyped, SessionCoherent, Bench, Benches, Digest, Sessions,
      Unveiled
  <2>4. /\ Informed(v)' /\ Dated(v)'
        /\ disclosed => disclosed'
        /\ reply' = [reply EXCEPT ![t] = v]
    BY <1>4, <2>2, <2>3 DEF Informed, Dated
  <2> QED
    BY <1>3, <1>4, <2>1, <2>3, <2>4
<1>5. CASE Declined(request[t]) /\ disclosed' = disclosed
           /\ \E why \in Refusals : reply' = [reply EXCEPT ![t] = why]
  <2>1. ServerInv'
    BY <1>5 DEF Declined, server, ServerInv, ServerTyped, SessionCoherent, BlindVisitsKept,
      DecisionTrue, Changed
  <2>2. UNCHANGED <<revision, Bench>>
    BY <1>5 DEF Declined, server, Bench, Digest
  <2> QED
    BY <1>3, <1>5, <2>1, <2>2
<1> QED
  BY <1>4, <1>5 DEF ServeMutation, Refusal, Refusals

LEMMA ServeOrphanKeeps ==
  ASSUME IInv, NEW t \in Tabs, ServeOrphan(t)
  PROVE  IInv'
<1> USE DEF IInv, TabsInv
<1>1. orphan[t] \in Requests /\ Informed(orphan[t].seen)
  BY DEF ServeOrphan, TabsTyped, AllInformed
<1>2. /\ orphan' = [orphan EXCEPT ![t] = NoRequest]
      /\ UNCHANGED <<view, bench, draft, pending, loads, request, reply, disclosed, faults>>
  BY DEF ServeOrphan, screen
<1>3. ServerInv'
  <2>1. CASE Accepted(orphan[t])
    BY <1>1, <1>2, <2>1, AcceptedKeeps
  <2>2. CASE Declined(orphan[t])
    BY <1>2, <2>2 DEF Declined, server, ServerInv, ServerTyped, SessionCoherent,
      BlindVisitsKept, DecisionTrue, Changed
  <2> QED
    BY <2>1, <2>2 DEF ServeOrphan
<1>4. TabsTyped'
  BY <1>2 DEF TabsTyped
<1>5. AllInformed'
  BY <1>2 DEF AllInformed, Informed, TabsTyped
<1>6. TabsWhole'
  BY <1>2 DEF TabsWhole
<1>7. AllDated'
  <2>1. CASE Accepted(orphan[t])
    <3>1. \A b \in Benches : Dated(b) => b.digest[1] < revision'
      BY <2>1, AcceptedMovesOn
    <3>2. \A r \in Requests : Dated(r.seen) => r.seen.digest[1] < revision'
      BY <3>1 DEF Requests
    <3>3. \A u \in Tabs :
            /\ bench[u] # NoBench => bench[u].digest[1] < revision'
            /\ request[u] # NoRequest => request[u].seen.digest[1] < revision'
            /\ orphan[u] # NoRequest => orphan[u].seen.digest[1] < revision'
            /\ reply[u] \notin Refusals \cup {NoReply} => reply[u].digest[1] < revision'
            /\ \A i \in Slots :
                 loads[u][i] \notin {Idle, Asked} => loads[u][i].digest[1] < revision'
      BY <3>1, <3>2 DEF AllDated, TabsTyped
    <3> QED
      BY <1>2, <3>3 DEF AllDated, Dated, TabsTyped
  <2>2. CASE Declined(orphan[t])
    <3>1. UNCHANGED <<revision, Bench>>
      BY <2>2 DEF Declined, server, Bench, Digest
    <3> QED
      BY <1>2, <3>1 DEF AllDated, Dated, TabsTyped
  <2> QED
    BY <2>1, <2>2 DEF ServeOrphan
<1> QED
  BY <1>3, <1>4, <1>5, <1>6, <1>7

LEMMA ServeLoadKeeps ==
  ASSUME IInv, NEW t \in Tabs, NEW i \in Slots, ServeLoad(t, i)
  PROVE  IInv'
<1> USE DEF IInv, TabsInv
<1>1. /\ loads' = [loads EXCEPT ![t][i] = Bench]
      /\ disclosed' = (disclosed \/ reveal)
      /\ UNCHANGED <<server, view, bench, draft, pending, request, reply, orphan, blindVisits, faults>>
  BY DEF ServeLoad, screen
<1>2. Bench \in Benches /\ (Bench.digest[2] \in Unveiled <=> reveal)
  BY BenchWhole
<1>3. ServerInv'
  BY <1>1 DEF server, ServerInv, ServerTyped, SessionCoherent, BlindVisitsKept, DecisionTrue, Changed
<1>4. TabsTyped'
  BY <1>1, <1>2 DEF TabsTyped
<1>5. AllInformed'
  <2>1. Informed(Bench)'
    BY <1>1, <1>2 DEF Informed, Bench, Digest, server
  <2>2. \A b : Informed(b) => Informed(b)'
    BY <1>1 DEF Informed
  <2>3. \A u \in Tabs, j \in Slots :
          loads'[u][j] = IF u = t /\ j = i THEN Bench ELSE loads[u][j]
    BY <1>1 DEF TabsTyped
  <2>4. Bench' = Bench
    BY <1>1 DEF server, Bench, Digest
  <2> QED
    BY <1>1, <2>1, <2>2, <2>3, <2>4 DEF AllInformed, Informed
<1>6. TabsWhole'
  BY <1>1 DEF TabsWhole
<1>7. UNCHANGED <<revision, Bench>>
  BY <1>1 DEF server, Bench, Digest
<1>8. AllDated'
  BY <1>1, <1>7 DEF AllDated, Dated, TabsTyped
<1> QED
  BY <1>3, <1>4, <1>5, <1>6, <1>8

----------------------------------------------------------------------------
(* The theorems.                                                           *)

\* A session that is coherent with the presentation and the draft it began with.
Founded(s, p, d) ==
  /\ s \in Sessions
  /\ s.revealed <=> s.state \in Unveiled
  /\ s.state = "BLIND_OPEN" <=> s.provisional = NoDraft /\ ~s.revealed
  /\ s.state = "PROVISIONAL_RECORDED" => s.provisional \in Drafts
  /\ s.state \in {"POST_REVEAL_RECORDED", "FINALIZED"} => s.final \in Drafts
  /\ s.rationale = FALSE
  /\ p # "RESOLVED" => s.visits = s.pre
  /\ p = "RESOLVED" => s.final = d /\ s.provisional = d

\* Every presentation the server may be seeded with is coherent.
LEMMA SeedWhole ==
  ASSUME NEW p \in Presentations, NEW d \in Drafts
  PROVE  Founded(Seeded(p, d), p, d)
<1> USE DEF Founded
<1>1. CASE p = "DECISION_READY"
  BY <1>1 DEF Seeded, NewSession, Sessions, SessionStates, Unveiled, Surfaces
<1>2. CASE p = "PREDICATE_EDITING"
  BY <1>2 DEF Seeded, Reviewed, NewSession, Sessions, SessionStates, Unveiled, Surfaces
<1>3. CASE p = "IDENTITY_REVEAL"
  BY <1>3 DEF Seeded, Reviewed, NewSession, Propose, Reveal, Sessions, SessionStates, Unveiled, Surfaces
<1>4. CASE p = "RESOLVED"
  BY <1>4 DEF Seeded, Affirmed, Reviewed, NewSession, Propose, Reveal, Visit, Revise,
    Sessions, SessionStates, Unveiled, Surfaces
<1> QED
  BY <1>1, <1>2, <1>3, <1>4, PresentationAssumption

LEMMA InitInv == Init => IInv
<1> SUFFICES ASSUME Init PROVE IInv
  OBVIOUS
<1>1. PICK p \in Presentations, d \in Drafts :
        /\ session = Seeded(p, d)
        /\ lastDraft = session.provisional
        /\ reveal = session.revealed
        /\ mutable = (p # "RESOLVED")
        /\ decision = IF p = "RESOLVED" THEN Decision(session) ELSE NoDecision
  BY DEF Init
<1>2. Founded(session, p, d)
  BY <1>1, SeedWhole
<1> USE DEF Founded
<1>3. p = "RESOLVED" => Decision(session) \in Decisions
  BY <1>2, DraftAssumption DEF Decision, Decisions, Changed, Sessions
<1>4. ServerTyped
  BY <1>1, <1>2, <1>3 DEF Init, ServerTyped, Sessions
<1>5. SessionCoherent /\ BlindVisitsKept /\ disclosed \in BOOLEAN
  BY <1>1, <1>2 DEF Init, SessionCoherent, BlindVisitsKept
<1>6. DecisionTrue
  BY <1>1, <1>2, DraftAssumption DEF DecisionTrue, Decision, Changed
<1>7. TabsInv
  BY NoneAssumption DEF Init, TabsInv, TabsTyped, AllInformed, AllDated, TabsWhole, Refusals, Slots
<1> QED
  BY <1>4, <1>5, <1>6, <1>7 DEF IInv, ServerInv

LEMMA StepInv == IInv /\ [Next]_vars => IInv'
<1> SUFFICES ASSUME IInv, [Next]_vars PROVE IInv'
  OBVIOUS
<1>1. ASSUME NEW t \in Tabs, TabStep(t) PROVE IInv'
  BY <1>1, MutateKeeps, EditDraftKeeps, MutationAcceptedKeeps, MutationRefusedKeeps,
    MutationStaleKeeps, MutationFailsKeeps, RefreshKeeps, LoadedKeeps, LoadFailsKeeps, RetryKeeps
    DEF TabStep
<1>2. ASSUME NEW t \in Tabs, ServerStep(t) PROVE IInv'
  BY <1>2, ServeMutationKeeps, ServeOrphanKeeps, ServeLoadKeeps DEF ServerStep
<1>3. CASE UNCHANGED vars
  <2>1. ServerInv'
    BY <1>3, ServerUntouched DEF vars, IInv
  <2>2. UNCHANGED <<revision, Bench, disclosed>>
    BY <1>3 DEF vars, server, history, Bench, Digest
  <2>3. UNCHANGED <<view, bench, draft, pending, request, reply, loads, orphan, faults>>
    BY <1>3 DEF vars, screen, wires
  <2>4. TabsTyped' /\ TabsWhole'
    BY <2>3 DEF IInv, TabsInv, TabsTyped, TabsWhole
  <2>5. AllInformed' /\ AllDated'
    BY <2>2, <2>3 DEF IInv, TabsInv, AllInformed, AllDated, Informed, Dated
  <2> QED
    BY <2>1, <2>4, <2>5 DEF IInv, TabsInv
<1> QED
  BY <1>1, <1>2, <1>3 DEF Next

LEMMA Invariance == Spec => []IInv
BY InitInv, StepInv, PTL DEF Spec

\* Type correctness of the studio, for every number of tabs and faults.
THEOREM StudioTypeOK == Spec => []TypeOK
<1>1. IInv => TypeOK
  BY Typing DEF IInv, ServerInv, TabsInv
<1> QED
  BY <1>1, Invariance, PTL

\* The decision record splits the surfaces into those reviewed before any
\* answer carried the candidates' identities, and the rest.
THEOREM RecordTellsWhatWasBlind == Spec => []PartitionIsTrue
<1>1. IInv => PartitionIsTrue
  BY DEF IInv, ServerInv, DecisionTrue, BlindVisitsKept, PartitionIsTrue
<1> QED
  BY <1>1, Invariance, PTL

\* A mutation is only taken from a tab that showed what the server would show
\* now, however many tabs there are and whatever was lost.
THEOREM TakenMutationsSawThePresent == Spec => ActsOnWhatItSaw
<1>1. ASSUME IInv, NEW r \in Requests, Accepted(r), Dated(r.seen)
      PROVE  r.seen = Bench
  BY <1>1, SeenIsNow DEF IInv
<1>2. IInv /\ [Next]_vars =>
        [session' # session =>
           \E t \in Tabs :
             \/ request[t] # NoRequest /\ request'[t] = NoRequest
                /\ request[t].seen = Bench
             \/ orphan[t] # NoRequest /\ orphan'[t] = NoRequest
                /\ orphan[t].seen = Bench]_vars
  <2> SUFFICES ASSUME IInv, Next, session' # session
               PROVE  \E t \in Tabs :
                        \/ request[t] # NoRequest /\ request'[t] = NoRequest
                           /\ request[t].seen = Bench
                        \/ orphan[t] # NoRequest /\ orphan'[t] = NoRequest
                           /\ orphan[t].seen = Bench
    OBVIOUS
  <2>1. PICK t \in Tabs : ServeMutation(t) \/ ServeOrphan(t)
    <3>1. ASSUME NEW t \in Tabs, TabStep(t) PROVE session' = session
      BY <3>1 DEF TabStep, Mutate, EditDraft, MutationAccepted, MutationRefused, MutationStale,
        MutationFails, Refresh, Loaded, LoadFails, Retry, server
    <3>2. ASSUME NEW t \in Tabs, NEW i \in Slots, ServeLoad(t, i) PROVE session' = session
      BY <3>2 DEF ServeLoad, server
    <3> QED
      BY <3>1, <3>2 DEF Next, ServerStep
  <2>2. CASE ServeMutation(t)
    <3>1. Accepted(request[t]) /\ request[t] \in Requests /\ Dated(request[t].seen)
      BY <2>2 DEF ServeMutation, Declined, server, IInv, TabsInv, TabsTyped, AllDated
    <3> QED
      BY <1>1, <2>2, <3>1 DEF ServeMutation, IInv, TabsInv, TabsTyped
  <2>3. CASE ServeOrphan(t)
    <3>1. Accepted(orphan[t]) /\ orphan[t] \in Requests /\ Dated(orphan[t].seen)
      BY <2>3 DEF ServeOrphan, Declined, server, IInv, TabsInv, TabsTyped, AllDated
    <3> QED
      BY <1>1, <2>3, <3>1 DEF ServeOrphan, IInv, TabsInv, TabsTyped
  <2> QED
    BY <2>1, <2>2, <2>3
<1> QED
  BY <1>2, Invariance, PTL DEF Spec, ActsOnWhatItSaw

----------------------------------------------------------------------------
(* What the client offers fits the session.                                *)

\* What the screen that sent a reveal or a revision offered it for.
WasOffered(r) ==
  /\ r.op = "reveal" => OffersReveal(r.seen)
  /\ r.op = "revise" => OffersRevise(r.seen)

AllOffered ==
  \A t \in Tabs :
    /\ request[t] # NoRequest => WasOffered(request[t])
    /\ orphan[t] # NoRequest => WasOffered(orphan[t])

\* What has been reviewed by the time the session is in its state.  The
\* session itself would reveal and revise sooner: the screen holds it back.
SessionReviewed ==
  /\ ~session.revealed => session.visits = session.pre
  /\ session.pre \subseteq session.visits \ {Provenance}
  /\ session.state # "BLIND_OPEN" => PreSurfaces \subseteq session.visits
  /\ session.provisional # NoDraft => PreSurfaces \subseteq session.pre
  /\ session.state \in {"POST_REVEAL_RECORDED", "FINALIZED"} =>
       /\ Provenance \in session.visits
       /\ session.rationale <=> Changed(session, session.final)
  /\ mutable => session.state # "FINALIZED"
  /\ ~mutable => decision # NoDecision /\ Surfaces \subseteq session.visits

ReviewInv == SessionReviewed /\ AllOffered

LEMMA ReviewStays ==
  ASSUME SessionReviewed, UNCHANGED server
  PROVE  SessionReviewed'
BY DEF SessionReviewed, server, Changed

\* A mutation the server takes keeps to it, since the bench it was offered on
\* is the one the server would show now.
LEMMA AcceptedReviews ==
  ASSUME ServerInv, SessionReviewed, NEW r \in Requests, Accepted(r),
         Dated(r.seen), WasOffered(r)
  PROVE  SessionReviewed'
<1>0. /\ session \in Sessions /\ mutable /\ mutable \in BOOLEAN
      /\ session.revealed <=> session.state \in Unveiled
      /\ session.state = "BLIND_OPEN" <=> session.provisional = NoDraft /\ ~session.revealed
  BY DEF ServerInv, ServerTyped, SessionCoherent, Accepted, Refusal
<1>1. /\ OffersReveal(r.seen) => OffersReveal(Bench)
      /\ OffersRevise(r.seen) => OffersRevise(Bench)
  BY SeenIsNow
<1>2. CASE ApplyVisit(r)
  <2>1. CanVisit(session, r.surface)
    BY <1>2 DEF Accepted, Accepts, ApplyVisit
  <2>2. /\ session'.state = session.state /\ session'.provisional = session.provisional
        /\ session'.final = session.final /\ session'.revealed = session.revealed
        /\ session'.rationale = session.rationale
        /\ session'.visits = session.visits \cup {r.surface}
        /\ session'.pre = IF session.revealed THEN session.pre ELSE session.pre \cup {r.surface}
    BY <1>0, <1>2 DEF ApplyVisit, Visit, Sessions
  <2>3. /\ session.revealed \/ r.surface # Provenance
        /\ mutable' /\ session.state # "FINALIZED"
    BY <1>0, <1>2, <2>1 DEF ApplyVisit, CanVisit
  <2> QED
    BY <2>2, <2>3 DEF SessionReviewed, Changed
<1>3. CASE ApplyPropose(r)
  <2>1. CanPropose(session, r.draft)
    BY <1>3 DEF Accepted, Accepts, ApplyPropose
  <2>2. /\ session'.state = "PROVISIONAL_RECORDED" /\ session'.provisional = r.draft
        /\ session'.revealed = session.revealed
        /\ session'.visits = session.visits /\ session'.pre = session.pre
    BY <1>0, <1>3 DEF ApplyPropose, Propose, Sessions
  <2>3. PreSurfaces \subseteq session.pre /\ mutable'
    BY <1>0, <1>3, <2>1 DEF ApplyPropose, CanPropose
  <2> QED
    BY <2>2, <2>3 DEF SessionReviewed
<1>4. CASE ApplyReveal(r)
  <2>1. r.op = "reveal" /\ CanReveal(session)
    BY <1>4 DEF Accepted, Accepts, ApplyReveal
  <2>2. OffersReveal(Bench)
    BY <1>1, <2>1 DEF WasOffered
  <2>3. PreSurfaces \subseteq session.visits
    BY <2>2 DEF OffersReveal, AllPreRevealReviewed, Bench, SessionReviewed
  <2>4. /\ session'.state = "REVEALED" /\ session'.revealed = TRUE
        /\ session'.provisional = session.provisional
        /\ session'.visits = session.visits /\ session'.pre = session.pre
    BY <1>0, <1>4 DEF ApplyReveal, Reveal, Sessions
  <2>5. mutable'
    BY <1>0, <1>4 DEF ApplyReveal
  <2> QED
    BY <2>3, <2>4, <2>5 DEF SessionReviewed
<1>5. CASE ApplyRevise(r)
  <2>1. r.op = "revise" /\ CanRevise(session, r.draft, r.why)
    BY <1>5 DEF Accepted, Accepts, ApplyRevise
  <2>2. OffersRevise(Bench)
    BY <1>1, <2>1 DEF WasOffered
  <2>3. Provenance \in session.visits /\ session.state = "REVEALED"
    BY <2>2 DEF OffersRevise, Bench
  <2>4. /\ session'.state = "POST_REVEAL_RECORDED" /\ session'.final = r.draft
        /\ session'.provisional = session.provisional
        /\ session'.revealed = session.revealed /\ session'.rationale = r.why
        /\ session'.visits = session.visits /\ session'.pre = session.pre
    BY <1>0, <1>5 DEF ApplyRevise, Revise, Sessions
  <2>5. /\ mutable' /\ PreSurfaces \subseteq session.visits
        /\ r.why <=> Changed(session, r.draft)
    BY <1>0, <1>5, <2>1, <2>3 DEF ApplyRevise, CanRevise, SessionReviewed
  <2> QED
    BY <2>3, <2>4, <2>5 DEF SessionReviewed, Changed
<1>6. CASE ApplyFinalize(r)
  <2>1. CanDecide(session)
    BY <1>6 DEF Accepted, Accepts, ApplyFinalize
  <2>2. /\ session'.final = session.final
        /\ session'.provisional = session.provisional
        /\ session'.revealed = session.revealed /\ session'.rationale = session.rationale
        /\ session'.visits = session.visits /\ session'.pre = session.pre
    BY <1>0, <1>6 DEF ApplyFinalize, Finalized, Sessions
  <2>3. decision' # NoDecision /\ ~mutable'
    BY <1>6, <2>1, DecisionTyped, NoneAssumption DEF ApplyFinalize
  <2>4. /\ Surfaces \subseteq session.visits
        /\ session.rationale <=> Changed(session, session.final)
    BY <2>1 DEF CanDecide
  <2> QED
    BY <2>2, <2>3, <2>4 DEF SessionReviewed, Changed, Surfaces
<1> QED
  BY <1>2, <1>3, <1>4, <1>5, <1>6 DEF Accepted, Apply

\* A request on its way was offered by the screen that sent it.
LEMMA SentWasOffered ==
  ASSUME NEW b, NEW d, NEW r \in Offered(b, d)
  PROVE  WasOffered(r)
BY DEF Offered, Request, WasOffered

\* No step puts another request on a wire than one that was offered.
LEMMA WiresOffered ==
  ASSUME AllOffered, TabsTyped, NEW t \in Tabs, TabStep(t) \/ ServerStep(t)
  PROVE  AllOffered'
<1>1. CASE Mutate(t)
  <2>1. PICK r \in Offered(bench[t], draft[t]) : request' = [request EXCEPT ![t] = r]
    BY <1>1 DEF Mutate
  <2>2. WasOffered(r) /\ orphan' = orphan
    BY <1>1, SentWasOffered DEF Mutate
  <2>3. \A u \in Tabs : request'[u] = IF u = t THEN r ELSE request[u]
    BY <2>1 DEF TabsTyped
  <2> QED
    BY <2>2, <2>3 DEF AllOffered
<1>2. CASE UNCHANGED <<request, orphan>>
  BY <1>2 DEF AllOffered
<1>3. CASE GiveUp(t)
  <2>1. \A u \in Tabs :
          /\ request'[u] = IF u = t THEN NoRequest ELSE request[u]
          /\ orphan'[u] = IF u = t THEN request[u] ELSE orphan[u]
    BY <1>3 DEF GiveUp, TabsTyped
  <2> QED
    BY <2>1 DEF AllOffered
<1>4. CASE ServeMutation(t)
  <2>1. orphan' = orphan /\ \A u \in Tabs :
          request'[u] = IF u = t THEN NoRequest ELSE request[u]
    BY <1>4 DEF ServeMutation, TabsTyped
  <2> QED
    BY <2>1 DEF AllOffered
<1>5. CASE ServeOrphan(t)
  <2>1. request' = request /\ \A u \in Tabs :
          orphan'[u] = IF u = t THEN NoRequest ELSE orphan[u]
    BY <1>5 DEF ServeOrphan, TabsTyped
  <2> QED
    BY <2>1 DEF AllOffered
<1>6. ASSUME NEW i \in Slots, Loaded(t, i) \/ LoadFails(t, i) \/ Retry(t, i) \/ ServeLoad(t, i)
      PROVE  UNCHANGED <<request, orphan>>
  BY <1>6 DEF Loaded, LoadFails, Retry, ServeLoad
<1>7. CASE EditDraft(t) \/ MutationAccepted(t) \/ MutationRefused(t) \/ MutationStale(t)
  BY <1>2, <1>7 DEF EditDraft, MutationAccepted, MutationRefused, MutationStale, wires
<1>8. CASE MutationFails(t) \/ Refresh(t)
  BY <1>2, <1>3, <1>8 DEF MutationFails, Refresh
<1> QED
  BY <1>1, <1>2, <1>4, <1>5, <1>6, <1>7, <1>8 DEF TabStep, ServerStep

LEMMA ReviewInit == Init => ReviewInv
<1> SUFFICES ASSUME Init PROVE ReviewInv
  OBVIOUS
<1>1. PICK p \in Presentations, d \in Drafts :
        /\ session = Seeded(p, d)
        /\ mutable = (p # "RESOLVED")
        /\ decision = IF p = "RESOLVED" THEN Decision(session) ELSE NoDecision
  BY DEF Init
<1>2. p = "RESOLVED" => decision # NoDecision
  <2>1. ServerTyped /\ ServerInv
    BY InitInv DEF IInv, ServerInv
  <2>2. p = "RESOLVED" => CanDecide(session)
    BY <1>1, DraftAssumption DEF Seeded, Affirmed, Reviewed, NewSession, Propose, Reveal, Visit,
      Revise, CanDecide, Changed, Surfaces
  <2> QED
    BY <1>1, <2>1, <2>2, DecisionTyped, NoneAssumption
<1>3. SUFFICES SessionReviewed
  <2>1. AllOffered
    BY DEF Init, AllOffered
  <2> QED
    BY <2>1 DEF ReviewInv
<1>4. CASE p = "DECISION_READY"
  <2>1. /\ session.visits = {} /\ session.pre = {} /\ session.revealed = FALSE
        /\ session.state = "BLIND_OPEN" /\ session.provisional = NoDraft
    BY <1>1, <1>4 DEF Seeded, NewSession
  <2> QED
    BY <1>1, <1>4, <2>1 DEF SessionReviewed
<1>5. CASE p = "PREDICATE_EDITING"
  <2>1. /\ session.visits = PreSurfaces /\ session.pre = PreSurfaces
        /\ session.revealed = FALSE
        /\ session.state = "BLIND_OPEN" /\ session.provisional = NoDraft
    BY <1>1, <1>5 DEF Seeded, Reviewed, NewSession
  <2> QED
    BY <1>1, <1>5, <2>1, SurfaceAssumption DEF SessionReviewed
<1>6. CASE p = "IDENTITY_REVEAL"
  <2>1. /\ session.visits = PreSurfaces /\ session.pre = PreSurfaces
        /\ session.revealed = TRUE /\ session.state = "REVEALED"
    BY <1>1, <1>6 DEF Seeded, Reviewed, NewSession, Propose, Reveal
  <2> QED
    BY <1>1, <1>6, <2>1, SurfaceAssumption DEF SessionReviewed
<1>7. CASE p = "RESOLVED"
  <2>1. /\ session.visits = Surfaces /\ session.pre = PreSurfaces /\ session.revealed = TRUE
        /\ session.state = "POST_REVEAL_RECORDED" /\ session.provisional = d
        /\ session.final = d /\ session.rationale = FALSE
    BY <1>1, <1>7 DEF Seeded, Affirmed, Reviewed, NewSession, Propose, Reveal, Visit, Revise,
      Surfaces
  <2>2. ~Changed(session, session.final) /\ ~mutable
    BY <1>1, <1>7, <2>1 DEF Changed
  <2> QED
    BY <1>2, <1>7, <2>1, <2>2, SurfaceAssumption DEF SessionReviewed, Surfaces
<1> QED
  BY <1>4, <1>5, <1>6, <1>7, PresentationAssumption

LEMMA ReviewStep == IInv /\ ReviewInv /\ [Next]_vars => ReviewInv'
<1> SUFFICES ASSUME IInv, ReviewInv, [Next]_vars PROVE ReviewInv'
  OBVIOUS
<1>0. ServerInv /\ TabsTyped /\ AllDated /\ SessionReviewed /\ AllOffered
  BY DEF IInv, TabsInv, ReviewInv
<1>1. ASSUME NEW t \in Tabs, TabStep(t) PROVE UNCHANGED server
  BY <1>1 DEF TabStep, Mutate, EditDraft, MutationAccepted, MutationRefused, MutationStale,
    MutationFails, Refresh, Loaded, LoadFails, Retry
<1>2. ASSUME NEW t \in Tabs, NEW r \in {request[t], orphan[t]}, r # NoRequest,
             Accepted(r) \/ Declined(r)
      PROVE  SessionReviewed'
  <2>1. r \in Requests /\ Dated(r.seen) /\ WasOffered(r)
    BY <1>0, <1>2 DEF TabsTyped, AllDated, AllOffered
  <2>2. CASE Accepted(r)
    BY <1>0, <2>1, <2>2, AcceptedReviews
  <2>3. CASE Declined(r)
    BY <1>0, <2>3, ReviewStays DEF Declined
  <2> QED
    BY <1>2, <2>2, <2>3
<1>3. ASSUME NEW t \in Tabs, ServerStep(t) PROVE SessionReviewed'
  <2>1. CASE ServeMutation(t)
    BY <1>2, <2>1 DEF ServeMutation
  <2>2. CASE ServeOrphan(t)
    BY <1>2, <2>2 DEF ServeOrphan
  <2>3. ASSUME NEW i \in Slots, ServeLoad(t, i) PROVE SessionReviewed'
    BY <1>0, <2>3, ReviewStays DEF ServeLoad
  <2> QED
    BY <1>3, <2>1, <2>2, <2>3 DEF ServerStep
<1>4. CASE Next
  BY <1>0, <1>1, <1>3, <1>4, ReviewStays, WiresOffered DEF Next, ReviewInv
<1>5. CASE UNCHANGED vars
  BY <1>0, <1>5, ReviewStays DEF vars, wires, ReviewInv, AllOffered
<1> QED
  BY <1>4, <1>5

\* A screen that shows the present offers nothing the session forbids.
LEMMA PresentFits ==
  ASSUME ServerInv, SessionReviewed, NEW d, NEW r \in Offered(Bench, d)
  PROVE  Refusal(r) = {} /\ \E f \in Refilled(r) : Accepts(f)
<1>0. /\ session.state = "BLIND_OPEN" => ~session.revealed
      /\ session.revealed <=> session.state \in Unveiled
      /\ session.state \in {"POST_REVEAL_RECORDED", "FINALIZED"} => session.final \in Drafts
      /\ reveal = session.revealed
  BY DEF ServerInv, SessionCoherent
<1>1. mutable
  <2>1. CASE decision = NoDecision
    BY <2>1 DEF SessionReviewed
  <2>2. CASE decision # NoDecision
    <3>1. PICK x \in Surfaces : x \notin session.visits
      BY <2>2 DEF Offered, OffersVisit, OffersPropose, OffersReveal, OffersRevise, OffersFinalize,
        Bench
    <3> QED
      BY <3>1 DEF SessionReviewed
  <2> QED
    BY <2>1, <2>2
<1>2. r.seen = Bench
  BY DEF Offered, Request
<1>3. Refusal(r) = {}
  BY <1>1, <1>2 DEF Refusal, Bench
<1>4. PICK e \in Drafts : r.draft \in Drafts => e = r.draft
  BY DraftAssumption
<1>5. e \in IF r.draft \in Drafts THEN {r.draft} ELSE Drafts
  BY <1>4
<1>6. PICK op, x, c, why : r = Request(op, x, c, why, Bench)
  BY DEF Offered, Request
<1>7. ASSUME NEW w \in BOOLEAN PROVE Request(op, x, e, w, Bench) \in Refilled(r)
  <2>1. r.op = op /\ r.surface = x /\ r.seen = Bench
    BY <1>6 DEF Request
  <2> QED
    BY <1>5, <2>1 DEF Refilled
<1>8. SUFFICES \E w \in BOOLEAN : Accepts(Request(op, x, e, w, Bench))
  BY <1>3, <1>7
<1>9. CASE r.op = "visit"
  <2>1. /\ op = "visit" /\ x \in Surfaces
        /\ x = Provenance => session.revealed
    BY <1>0, <1>6, <1>9 DEF Offered, Request, OffersVisit, Bench
  <2>2. session.state # "FINALIZED"
    BY <1>1 DEF SessionReviewed
  <2> QED
    BY <2>1, <2>2 DEF Accepts, CanVisit, Request
<1>10. CASE r.op = "propose"
  <2>1. op = "propose" /\ session.state = "BLIND_OPEN" /\ PreSurfaces \subseteq session.visits
    BY <1>6, <1>10 DEF Offered, Request, OffersPropose, AllPreRevealReviewed, Bench
  <2>2. CanPropose(session, e)
    BY <1>0, <2>1 DEF CanPropose, SessionReviewed
  <2> QED
    BY <2>1, <2>2 DEF Accepts, Request
<1>11. CASE r.op = "reveal"
  <2>1. op = "reveal" /\ CanReveal(session)
    BY <1>6, <1>11 DEF Offered, Request, OffersReveal, Bench, CanReveal
  <2> QED
    BY <2>1 DEF Accepts, Request
<1>12. CASE r.op = "revise"
  <2>1. op = "revise" /\ session.state = "REVEALED" /\ session.revealed
    BY <1>0, <1>6, <1>12 DEF Offered, Request, OffersRevise, Bench, Unveiled
  <2>2. CanRevise(session, e, Changed(session, e)) /\ Changed(session, e) \in BOOLEAN
    BY <2>1 DEF CanRevise, Changed
  <2>3. Accepts(Request(op, x, e, Changed(session, e), Bench))
    BY <2>1, <2>2 DEF Accepts, Request
  <2> QED
    BY <2>2, <2>3
<1>13. CASE r.op = "finalize"
  <2>1. op = "finalize" /\ session.state = "POST_REVEAL_RECORDED"
    BY <1>6, <1>13 DEF Offered, Request, OffersFinalize, Bench
  <2>2. /\ session.revealed /\ session.final # NoDraft
        /\ Surfaces \subseteq session.visits
        /\ session.rationale <=> Changed(session, session.final)
    BY <1>0, <2>1, DraftAssumption DEF SessionReviewed, Unveiled, Surfaces
  <2>3. CanDecide(session)
    BY <2>1, <2>2 DEF CanDecide, SessionReviewed
  <2>4. Accepts(Request(op, x, e, TRUE, Bench))
    BY <2>1, <2>3 DEF Accepts, Request
  <2> QED
    BY <2>4
<1>14. r.op \in {"visit", "propose", "reveal", "revise", "finalize"}
  BY DEF Offered, Request
<1> QED
  BY <1>9, <1>10, <1>11, <1>12, <1>13, <1>14

\* Whatever the tabs, the drafts and the faults, a current screen offers only
\* what the session's state allows.
THEOREM OfferedMutationsFit == Spec => []OfferedFitsSession
<1>1. Init => IInv /\ ReviewInv
  BY InitInv, ReviewInit
<1>2. (IInv /\ ReviewInv) /\ [Next]_vars => (IInv /\ ReviewInv)'
  BY StepInv, ReviewStep
<1>3. IInv /\ ReviewInv => OfferedFitsSession
  BY PresentFits DEF IInv, ReviewInv, OfferedFitsSession
<1> QED
  BY <1>1, <1>2, <1>3, PTL DEF Spec

----------------------------------------------------------------------------
(* The studio implements the blind ruling.                                 *)

AbstractRuling ==
  IF decision = NoDecision THEN NoRuling
  ELSE [sealed |-> decision.provisional, final |-> decision.final,
        why |-> decision.rationale]

\* What an accepted mutation is to the reader of the blind ruling.
LEMMA AcceptedRules ==
  ASSUME ServerInv, NEW r \in Requests, Informed(r.seen), Accepted(r),
         disclosed' \in {disclosed, disclosed \/ reveal'}
  PROVE  Blind!Next \/ UNCHANGED Blind!vars
<1> USE DEF ServerInv
<1>0. mutable /\ (reveal => disclosed) /\ decision = NoDecision
  BY TakenIsInformed DEF Accepted, SessionCoherent
<1>1. ASSUME UNCHANGED <<session.provisional, decision>>, disclosed' # disclosed PROVE Blind!Show
  BY <1>1 DEF Blind!Show, SessionCoherent
<1>2. CASE UNCHANGED <<session.provisional, decision>>
  <2>1. CASE disclosed' = disclosed
    BY <1>2, <2>1 DEF Blind!vars
  <2> QED
    BY <1>1, <1>2, <2>1 DEF Blind!Next
<1>3. CASE ApplyVisit(r)
  BY <1>2, <1>3 DEF ApplyVisit, Visit, ServerTyped, Sessions
<1>4. CASE ApplyReveal(r)
  BY <1>2, <1>4 DEF ApplyReveal, Reveal, ServerTyped, Sessions
<1>5. CASE ApplyRevise(r)
  BY <1>2, <1>5 DEF ApplyRevise, Revise, ServerTyped, Sessions
<1>6. CASE ApplyPropose(r)
  <2>1. CanPropose(session, r.draft)
    BY <1>6 DEF Accepted, Accepts, ApplyPropose
  <2>2. /\ r.draft \in Drafts /\ session'.provisional = r.draft /\ session.provisional = NoDraft
        /\ ~disclosed /\ ~disclosed' /\ decision' = decision
    BY <1>0, <1>6, <2>1 DEF ApplyPropose, CanPropose, Propose, ServerTyped, Sessions, SessionCoherent
  <2>3. Blind!Seal(r.draft)
    BY <1>0, <2>2 DEF Blind!Seal
  <2> QED
    BY <2>2, <2>3 DEF Blind!Next
<1>7. CASE ApplyFinalize(r)
  <2>1. CanDecide(session)
    BY <1>7 DEF Accepted, Accepts, ApplyFinalize
  <2>2. /\ disclosed /\ disclosed' = disclosed
    BY <1>0, <1>7, <2>1 DEF CanDecide, SessionCoherent, ApplyFinalize
  <2>3. /\ decision'.provisional = session.provisional /\ decision'.final = session.final
        /\ decision'.rationale = session.rationale /\ session'.provisional = session.provisional
        /\ session.final \in Drafts /\ session.rationale \in BOOLEAN
    BY <1>7, <2>1 DEF ApplyFinalize, Decision, Finalized, CanDecide, ServerTyped, Sessions, SessionCoherent
  <2>4. decision' # NoDecision
    BY <1>7, <2>1, DecisionTyped, NoneAssumption DEF ApplyFinalize
  <2>5. AbstractRuling' \in Blind!Honest(session.provisional)
    BY <2>1, <2>3, <2>4 DEF AbstractRuling, Blind!Honest, Blind!Ruling, CanDecide, Changed
  <2>6. Blind!Record(AbstractRuling')
    BY <1>0, <2>2, <2>3 DEF Blind!Record, AbstractRuling
  <2> QED
    BY <2>5, <2>6 DEF Blind!Next
<1> QED
  BY <1>3, <1>4, <1>5, <1>6, <1>7 DEF Accepted, Apply

\* Every behaviour of the server and its tabs is a blind ruling.
THEOREM StudioRulesBlind == Spec => RulesBlind
<1>1. Init => Blind!Init
  <2> SUFFICES ASSUME Init PROVE Blind!Init
    OBVIOUS
  <2>1. ServerInv /\ ~disclosed
    BY InitInv DEF IInv, Init
  <2>2. session.provisional \in Drafts \cup {NoDraft}
    BY <2>1 DEF ServerInv, ServerTyped, Sessions
  <2>3. decision # NoDecision => AbstractRuling \in Blind!Honest(session.provisional)
    BY <2>1 DEF ServerInv, ServerTyped, DecisionTrue, Decisions, Changed, AbstractRuling,
      Blind!Honest, Blind!Ruling
  <2> QED
    BY <2>1, <2>2, <2>3 DEF Blind!Init, AbstractRuling, ServerInv
<1>2. IInv /\ [Next]_vars => [Blind!Next]_(Blind!vars)
  <2> SUFFICES ASSUME IInv, Next PROVE Blind!Next \/ UNCHANGED Blind!vars
    BY DEF vars, server, history, Blind!vars
  <2>1. ASSUME NEW t \in Tabs, TabStep(t) PROVE UNCHANGED Blind!vars
    <3>1. UNCHANGED server /\ UNCHANGED history
      BY <2>1 DEF TabStep, Mutate, EditDraft, MutationAccepted, MutationRefused, MutationStale,
        MutationFails, Refresh, Loaded, LoadFails, Retry
    <3> QED
      BY <3>1 DEF server, history, Blind!vars
  <2>2. ASSUME NEW t \in Tabs, ServeMutation(t) PROVE Blind!Next \/ UNCHANGED Blind!vars
    <3>1. request[t] \in Requests /\ Informed(request[t].seen)
      BY <2>2 DEF ServeMutation, IInv, TabsInv, TabsTyped, AllInformed
    <3>2. CASE Accepted(request[t]) /\ disclosed' = (disclosed \/ reveal')
      BY <3>1, <3>2, AcceptedRules DEF IInv
    <3>3. CASE Declined(request[t]) /\ UNCHANGED disclosed
      BY <3>3 DEF Declined, server, Blind!vars
    <3> QED
      BY <2>2, <3>2, <3>3 DEF ServeMutation
  <2>3. ASSUME NEW t \in Tabs, ServeOrphan(t) PROVE Blind!Next \/ UNCHANGED Blind!vars
    <3>1. orphan[t] \in Requests /\ Informed(orphan[t].seen) /\ disclosed' = disclosed
      BY <2>3 DEF ServeOrphan, IInv, TabsInv, TabsTyped, AllInformed
    <3>2. CASE Accepted(orphan[t])
      BY <3>1, <3>2, AcceptedRules DEF IInv
    <3>3. CASE Declined(orphan[t])
      BY <3>1, <3>3 DEF Declined, server, Blind!vars
    <3> QED
      BY <2>3, <3>2, <3>3 DEF ServeOrphan
  <2>4. ASSUME NEW t \in Tabs, NEW i \in Slots, ServeLoad(t, i)
        PROVE  Blind!Next \/ UNCHANGED Blind!vars
    <3>1. UNCHANGED server /\ disclosed' = (disclosed \/ reveal)
      BY <2>4 DEF ServeLoad
    <3>2. CASE disclosed' = disclosed
      BY <3>1, <3>2 DEF server, Blind!vars
    <3>3. CASE disclosed' # disclosed
      BY <3>1, <3>3 DEF server, IInv, ServerInv, Blind!Show, Blind!Next
    <3> QED
      BY <3>2, <3>3
  <2> QED
    BY <2>1, <2>2, <2>3, <2>4 DEF Next, ServerStep
<1> QED
  BY <1>1, <1>2, Invariance, PTL DEF Spec, RulesBlind, Blind!Spec
=============================================================================
