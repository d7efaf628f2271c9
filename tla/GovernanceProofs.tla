-------------------------- MODULE GovernanceProofs --------------------------
(***************************************************************************)
(* What a decision and a release say about a request, for every registry of *)
(* rooms and sources, every set of requests and every AI.                   *)
(***************************************************************************)
EXTENDS Governance, TLAPS

(* The criteria of a decision cannot add up to a failing score, so the      *)
(* status never decides whether it is ok.                                   *)
LEMMA NoScoreFails ==
  ASSUME NEW r
  PROVE  Total(r) \in 689..895 /\ StatusOf(Total(r)) # "fail"
<1>1. Risk(r) \in {45, 90}
  BY DEF Risk
<1>2. Total(r) \in 689..895
  BY <1>1 DEF Total
<1> QED
  BY <1>2 DEF StatusOf

(* Whatever the preflight objects to, the review objects to as well.        *)
LEMMA ReviewCoversPreflight ==
  ASSUME NEW r, ReviewOk(r)
  PROVE  PreflightOk(r)
BY DEF ReviewOk, PreflightOk

(* Hence the handoff of a decision is usable exactly where it is ok.        *)
LEMMA HandoffOfDecide ==
  ASSUME NEW r
  PROVE  Decide(r).handoff = "usable_internal_handoff" <=> Decide(r).ok
BY NoScoreFails, ReviewCoversPreflight DEF Decide, Decided, Blocked

(* A decision depends on the rooms and the manifest alone.                  *)
LEMMA DecideUnchanged ==
  ASSUME NEW r, UNCHANGED <<room, manifest>>
  PROVE  Decide(r)' = Decide(r)
<1>1. /\ RiskTier(r)' = RiskTier(r) /\ SpeedMode(r)' = SpeedMode(r)
      /\ Escalated(r)' = Escalated(r) /\ Mode(r)' = Mode(r)
  BY DEF RiskTier, InferredTier, SpeedMode, Escalated, Mode, Named
<1>2. PrimaryAi(r)' = PrimaryAi(r)
  BY DEF PrimaryAi
<1>3. /\ WithinRoom(r)' <=> WithinRoom(r)
      /\ ContaminationOk(r)' <=> ContaminationOk(r)
      /\ SourceAccessOk(r)' <=> SourceAccessOk(r)
  BY <1>2 DEF WithinRoom, ContaminationOk, RoomSourcesOk, Named, SourceAccessOk
<1>4. /\ BoundaryOk(r)' <=> BoundaryOk(r)
      /\ PreflightOk(r)' <=> PreflightOk(r)
      /\ ReviewOk(r)' <=> ReviewOk(r)
      /\ AccessFailed(r)' <=> AccessFailed(r)
      /\ Risk(r)' = Risk(r)
  BY <1>1, <1>3 DEF BoundaryOk, PreflightOk, ReviewOk, AccessFailed, Risk,
                    SourceLockOk, SecurityOk, RepeatRisk
<1>5. Total(r)' = Total(r) /\ Blocks(r)' = Blocks(r)
  BY <1>1, <1>3, <1>4 DEF Total, Blocks
<1>6. /\ StatusOf(Total(r))' = StatusOf(Total(r))
      /\ Rounded(Total(r))' = Rounded(Total(r))
  BY <1>5 DEF StatusOf, Rounded
<1>7. Decided(r)' = Decided(r)
  BY <1>1, <1>2, <1>3, <1>4, <1>5, <1>6, Zenon DEF Decided
<1> QED
  BY <1>7 DEF Decide, Blocked

(* What is remembered of the two handlers: the decision is decide's answer  *)
(* to the request, the gate's answer is about that decision.                *)
Remembered ==
  /\ decision # None => \E r : r = request /\ decision = Decide(r)
  /\ gate # None =>
       /\ judged # None \/ \E r : r = request /\ decision = Decide(r)
       /\ \E approved \in BOOLEAN : gate = ReleaseCheck(judged, approved)

LEMMA RememberedInvariant == Spec => []Remembered
<1>1. Init => Remembered
  BY DEF Init, Remembered
<1>2. Remembered /\ [Next]_vars => Remembered'
  <2> SUFFICES ASSUME Remembered, [Next]_vars
               PROVE  Remembered'
    OBVIOUS
  <2>1. \A r : Decide(r)' = Decide(r)
    <3> UNCHANGED <<room, manifest>>
      BY DEF Next, PostDecision, PostRelease, PostReleaseOf, vars
    <3> QED
      BY DecideUnchanged
  <2>2. CASE PostDecision
    <3>1. decision' = Decide(request)' /\ UNCHANGED <<judged, gate>>
      BY <2>1, <2>2 DEF PostDecision
    <3> QED
      BY <2>2, <3>1 DEF PostDecision, Remembered
  <2>3. ASSUME NEW approved \in BOOLEAN, PostRelease(approved)
        PROVE  Remembered'
    BY <2>1, <2>3 DEF PostRelease, Remembered
  <2>4. ASSUME NEW result, NEW approved \in BOOLEAN, PostReleaseOf(result, approved)
        PROVE  Remembered'
    BY <2>1, <2>4 DEF PostReleaseOf, Remembered
  <2>5. CASE UNCHANGED vars
    BY <2>1, <2>5 DEF vars, Remembered
  <2> QED
    BY <2>2, <2>3, <2>4, <2>5 DEF Next
<1> QED
  BY <1>1, <1>2, PTL DEF Spec

(* A decision's handoff is usable exactly when the decision is ok, although *)
(* decide computes the two from different checks.                           *)
THEOREM HandoffAgrees == Spec => []HandoffIsTheDecision
<1>1. Remembered => HandoffIsTheDecision
  BY HandoffOfDecide DEF Remembered, HandoffIsTheDecision
<1> QED
  BY <1>1, RememberedInvariant, PTL

(* Whatever a request names or prefers, a decision that is ok used sources  *)
(* its room allows and was answered by the room's AI.                       *)
THEOREM OkIsInTheRoom == Spec => []OkStaysInTheRoom
<1>1. Remembered => OkStaysInTheRoom
  <2> SUFFICES ASSUME NEW r, r = request, decision = Decide(r), decision.ok
               PROVE  OkStaysInTheRoom
    BY DEF Remembered, OkStaysInTheRoom
  <2>1. /\ r.complete /\ PreflightOk(r) /\ ContaminationOk(r)
        /\ decision.selected_ai = PrimaryAi(r)
    BY DEF Decide, Decided, Blocked
  <2> QED
    BY <2>1 DEF OkStaysInTheRoom, PreflightOk, SourceLockOk, SourceAccessOk,
                ContaminationOk, RoomSourcesOk, PrimaryAi
<1> QED
  BY <1>1, RememberedInvariant, PTL

(* The release gate never opens without the owner, nor on a decision of     *)
(* this request whose text the checks object to, whoever asked for it.      *)
THEOREM GateIsClean == Spec => []ReleasesAreClean
<1>1. Remembered => ReleasesAreClean
  <2> SUFFICES ASSUME Remembered, gate # None, gate.release_ready
               PROVE  ReleasesAreClean
    BY DEF ReleasesAreClean
  <2>1. gate.owner_approved /\ judged.ok
    <3>1. PICK approved \in BOOLEAN : gate = ReleaseCheck(judged, approved)
      BY DEF Remembered
    <3>2. ReleaseBlocks(judged) = {} /\ gate.owner_approved
      BY <3>1 DEF ReleaseCheck
    <3> QED
      BY <3>2 DEF ReleaseBlocks
  <2> SUFFICES ASSUME judged = decision
               PROVE  /\ request.words \cap {"claim", "private"} = {}
                      /\ request.asks \cap {"transfer", "disallowed"} = {}
    BY <2>1 DEF ReleasesAreClean
  <2>2. PICK r : r = request /\ decision = Decide(r)
    BY DEF Remembered
  <2>3. PreflightOk(r) /\ ReviewOk(r) /\ ContaminationOk(r)
    BY <2>1, <2>2 DEF Decide, Decided, Blocked
  <2> QED
    BY <2>2, <2>3 DEF ReviewOk, SecurityOk, ContaminationOk
<1> QED
  BY <1>1, RememberedInvariant, PTL

(* No wish for speed, keyword or preferred AI takes a text with a serious   *)
(* word list out of the round table.                                        *)
THEOREM RiskGoesToReview == Spec => []RiskIsReviewed
<1>1. Remembered => RiskIsReviewed
  <2> SUFFICES ASSUME NEW r, r = request, decision = Decide(r), r.complete,
                      r.risk_tier = None, r.words \cap {"high", "release"} # {}
               PROVE  decision.mode = "round_table_reviewed"
    BY DEF Remembered, RiskIsReviewed
  <2>1. RiskTier(r) \in {"high", "release"}
    BY DEF RiskTier, InferredTier
  <2>2. Mode(r) = "round_table_reviewed"
    BY <2>1 DEF Mode, Escalated
  <2> QED
    BY <2>2 DEF Decide, Decided
<1> QED
  BY <1>1, RememberedInvariant, PTL

(* The requests keep their shape, also with the defaults of a release.      *)
Shaped == request \in AllRequests

LEMMA RequestsAreShaped == Spec => []Shaped
<1>1. Init => Shaped
  BY GovernanceAssumption DEF Init, Shaped
<1>2. Shaped /\ [Next]_vars => Shaped'
  BY DEF Shaped, Next, PostDecision, PostRelease, PostReleaseOf, vars, AllRequests,
         ReleaseDefaults, Tiers, Speeds
<1> QED
  BY <1>1, <1>2, PTL DEF Spec

(* What a text is objected to for never raises its score.                   *)
LEMMA CleanScoresMore ==
  ASSUME NEW r \in AllRequests
  PROVE  Total(r) <= Total(Cleaned(r))
<1> DEFINE c == Cleaned(r)
<1>1. /\ c.words = r.words \ {"claim", "private", "repeat"}
      /\ c.via = r.via /\ c.asks = r.asks /\ c.risk_tier = r.risk_tier
      /\ c.speed_mode = r.speed_mode /\ c.source_ids = r.source_ids
      /\ c.sources = r.sources /\ c.topic = r.topic
      /\ c.preferred_ai = r.preferred_ai
  BY DEF Cleaned, AllRequests
<1> HIDE DEF c
<1>2. Mode(c) = Mode(r) /\ (Escalated(c) <=> Escalated(r))
  BY <1>1 DEF Mode, Escalated, SpeedMode, RiskTier, InferredTier, Named
<1>3. AccessFailed(c) <=> AccessFailed(r)
  BY <1>1 DEF AccessFailed, WithinRoom, SourceAccessOk, PrimaryAi
<1>4. /\ BoundaryOk(c)
      /\ Risk(c) = 90 /\ Risk(r) \in {45, 90}
  BY <1>1 DEF BoundaryOk, Risk, RepeatRisk
<1> QED
  BY <1>2, <1>3, <1>4 DEF Total, c

(* Objections never pay, in any registry and for any request.               *)
THEOREM ObjectionsNeverPay == Spec => []FaultsNeverPay
<1>1. Shaped => FaultsNeverPay
  BY CleanScoresMore DEF FaultsNeverPay, Shaped
<1> QED
  BY <1>1, RequestsAreShaped, PTL
=============================================================================
