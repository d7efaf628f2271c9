----------------------------- MODULE Governance -----------------------------
(***************************************************************************)
(* orchestrator.js, decide, and what it calls: the contract, the router,    *)
(* the contamination check, the seven lanes, the public boundary and the    *)
(* quality score; and releaseGate.js, releaseCheck.  Both handlers are one  *)
(* synchronous turn over the rooms and the source manifest as they are.     *)
(*                                                                          *)
(* A request is abstracted to which word lists its text hits (Words), what  *)
(* it asks for beside its text (Asks) and the sources it names, in the      *)
(* field source_ids or in another one.                                      *)
(***************************************************************************)
EXTENDS Integers

CONSTANTS
  AIs, Arche,  \* the primary AIs; Arche is the default one
  Sources,     \* source ids
  Requests,    \* the requests considered
  Handed,      \* what a client may hand the release gate as decision_result:
               \* the fields the gate reads
  None, NoRoom, NoEntry

(* "claim": a risky claim of the verifier; "private": a blocked public      *)
(* term; "repeat": a word of an error the ledger holds for the room;        *)
(* "trigger": an escalation trigger; the others: the patterns of            *)
(* inferRiskTier.                                                           *)
Words == {"high", "release", "medium", "trigger", "claim", "private", "repeat"}

(* "transfer": from_room or to_room; "other_room": another room referred    *)
(* to; "disallowed": visibility or an activation the configuration forbids; *)
(* "round_table": force_round_table.                                        *)
Asks == {"transfer", "other_room", "disallowed", "round_table"}

Tiers == {"low", "medium", "high", "release", "blocked"}
Speeds == {"fast", "balanced", "deep", "round_table"}

AllRequests ==
  [complete : BOOLEAN,            \* a project and a text are given
   via : {"request", "text"},     \* the field the text comes in
   words : SUBSET Words, asks : SUBSET Asks,  \* in the whole input
   risk_tier : Tiers \cup {None}, speed_mode : Speeds \cup {None},
   source_ids : SUBSET Sources, sources : SUBSET Sources,
   topic : AIs \cup {None}, preferred_ai : AIs \cup {None}]

Rooms == [active_ai : AIs \cup {None},
          allowed_sources : SUBSET Sources, forbidden_sources : SUBSET Sources]
Entries == [in_room : BOOLEAN, allowed_ai : SUBSET AIs, active : BOOLEAN]

ASSUME GovernanceAssumption ==
  /\ Arche \in AIs /\ None \notin AIs \cup Tiers \cup Speeds
  /\ NoRoom \notin Rooms /\ NoEntry \notin Entries
  /\ Requests \subseteq AllRequests
  /\ Handed \subseteq [ok : BOOLEAN, score : Int,
                       private : BOOLEAN, contaminated : BOOLEAN]
  /\ None \notin Handed

VARIABLES
  room,     \* the record of the room the request names, NoRoom if unknown
  manifest, \* the source manifest
  request,  \* the request under way
  decision, \* what decide returned, None before
  judged,   \* the decision that releaseCheck judged, None before
  gate      \* what releaseCheck returned, None before

vars == <<room, manifest, request, decision, judged, gate>>

-----------------------------------------------------------------------------
(* Contract and route.                                                      *)

Named(r) == r.source_ids \cup r.sources

\* Mutant: the word lists are tried in the other order.
MediumFirst(r) ==
  IF "medium" \in r.words \/ Named(r) # {} THEN "medium"
  ELSE IF "release" \in r.words THEN "release"
  ELSE IF "high" \in r.words THEN "high" ELSE "low"

\* the patterns are searched in the whole input: a field that names sources
\* makes a request medium by its name
InferredTier(r) ==
  IF "high" \in r.words THEN "high"
  ELSE IF "release" \in r.words THEN "release"
  ELSE IF "medium" \in r.words \/ Named(r) # {} THEN "medium" ELSE "low"

RiskTier(r) == IF r.risk_tier # None THEN r.risk_tier ELSE InferredTier(r)

SpeedMode(r) ==
  IF r.speed_mode # None THEN r.speed_mode
  ELSE IF RiskTier(r) \in {"release", "high"} THEN "round_table"
  ELSE IF RiskTier(r) = "medium" THEN "balanced" ELSE "fast"

Escalated(r) ==
  \/ "trigger" \in r.words \/ "round_table" \in r.asks
  \/ SpeedMode(r) = "round_table" \/ RiskTier(r) \in {"high", "release"}

Mode(r) == IF Escalated(r) THEN "round_table_reviewed" ELSE SpeedMode(r)

PrimaryAi(r) ==
  IF room # NoRoom /\ room.active_ai # None THEN room.active_ai
  ELSE IF r.topic # None THEN r.topic
  ELSE IF r.preferred_ai # None THEN r.preferred_ai ELSE Arche

-----------------------------------------------------------------------------
(* Contamination and lanes.                                                 *)

\* Mutant: only the sources the source lock looks at.
LockedSourcesOk(r) ==
  r.source_ids \subseteq room.allowed_sources \ room.forbidden_sources

RoomSourcesOk(r) ==
  Named(r) \subseteq room.allowed_sources \ room.forbidden_sources

\* checkContamination: a request that names rooms to transfer between is
\* never ok
ContaminationOk(r) ==
  /\ "transfer" \notin r.asks /\ room # NoRoom
  /\ RoomSourcesOk(r) /\ "other_room" \notin r.asks

\* assertRoomBoundary, with the sources of source_ids alone
WithinRoom(r) ==
  /\ room # NoRoom
  /\ r.source_ids \subseteq room.allowed_sources \ room.forbidden_sources

\* validateSourceAccess
SourceAccessOk(r) ==
  \A s \in r.source_ids :
    /\ manifest[s] # NoEntry /\ manifest[s].in_room /\ manifest[s].active
    /\ PrimaryAi(r) \in manifest[s].allowed_ai

SourceLockOk(r) == WithinRoom(r) /\ SourceAccessOk(r)

\* scanPublicBoundary of the request, and of the answer: the answer repeats
\* the request in its context, but has none of its flags
SecurityOk(r) == "private" \notin r.words /\ "disallowed" \notin r.asks
BoundaryOk(r) == "private" \notin r.words

\* the verifier reads the builder's instruction, which is empty unless the
\* text came as text or message
PreflightOk(r) ==
  /\ SourceLockOk(r) /\ SecurityOk(r)
  /\ ~(r.via = "text" /\ "claim" \in r.words)

\* Mutant: the AI's answer no longer carries the request in its context.
ReviewWithoutContext(r) == SourceLockOk(r) /\ SecurityOk(r)

\* in the review the verifier reads the answer, which carries the request
ReviewOk(r) == SourceLockOk(r) /\ SecurityOk(r) /\ "claim" \notin r.words

\* the error ledger's lane runs where the request escalates
RepeatRisk(r) == Escalated(r) /\ r.via = "text" /\ "repeat" \in r.words

-----------------------------------------------------------------------------
(* Quality, in tenths of a point.                                           *)

\* source_access is there to be scored only where the room boundary held
AccessFailed(r) == WithinRoom(r) /\ ~SourceAccessOk(r)

\* Mutant: the two values of the risk criterion are swapped.
RiskSwapped(r) == IF ~BoundaryOk(r) \/ RepeatRisk(r) THEN 90 ELSE 45

Risk(r) == IF ~BoundaryOk(r) \/ RepeatRisk(r) THEN 45 ELSE 90

Total(r) ==
  LET accuracy == 90   brand_compliance == 90
      business_usefulness == 88   clarity == 86   completeness == 88
      source_compliance == IF AccessFailed(r) THEN 40 ELSE 92
      customer_safety == IF BoundaryOk(r) THEN 94 ELSE 35
      speed == IF Mode(r) = "fast" THEN 95 ELSE 82
      deploy_readiness == IF BoundaryOk(r) /\ ~AccessFailed(r) THEN 82 ELSE 45
  IN  accuracy + source_compliance + brand_compliance + business_usefulness
        + customer_safety + clarity + completeness + speed + deploy_readiness
        + Risk(r)

StatusOf(total) ==
  IF total >= 900 THEN "release_grade"
  ELSE IF total >= 750 THEN "usable"
  ELSE IF total >= 600 THEN "revise" ELSE "fail"

\* Math.round: halves go up
Rounded(total) == (total + 5) \div 10

-----------------------------------------------------------------------------
(* The decision and the release check.                                      *)

Blocks(r) ==
  (IF BoundaryOk(r) THEN {} ELSE {"boundary"})
    \cup (IF ContaminationOk(r) THEN {} ELSE {"contamination"})

Blocked == [ok |-> FALSE, mode |-> None, selected_ai |-> None, score |-> 0,
            status |-> "fail", contaminated |-> FALSE, private |-> FALSE,
            blocks |-> {"contract"}, handoff |-> "blocked_or_needs_revision"]

Decided(r) ==
  [ok |-> /\ PreflightOk(r) /\ ReviewOk(r) /\ BoundaryOk(r)
          /\ ContaminationOk(r) /\ StatusOf(Total(r)) # "fail",
   mode |-> Mode(r), selected_ai |-> PrimaryAi(r),
   score |-> Rounded(Total(r)), status |-> StatusOf(Total(r)),
   contaminated |-> ~ContaminationOk(r), private |-> ~BoundaryOk(r),
   blocks |-> Blocks(r),
   handoff |-> IF BoundaryOk(r) /\ ReviewOk(r) /\ ContaminationOk(r)
               THEN "usable_internal_handoff" ELSE "blocked_or_needs_revision"]

Decide(r) == IF r.complete THEN Decided(r) ELSE Blocked

ReleaseDefaults(r) ==
  [r EXCEPT !.risk_tier = IF @ = None THEN "release" ELSE @,
            !.speed_mode = IF @ = None THEN "round_table" ELSE @]

\* Mutant: a score that may be released makes up for a decision that is not ok.
BlocksByScore(d) ==
  (IF d.private THEN {"boundary"} ELSE {})
    \cup (IF d.score < 90 THEN {"quality_score_below_release_gate_90"} ELSE {})
    \cup (IF d.contaminated THEN {"contamination_not_ok"} ELSE {})

ReleaseBlocks(d) ==
  (IF d.ok THEN {} ELSE {"decision_not_ok"})
    \cup (IF d.private THEN {"boundary"} ELSE {})
    \cup (IF d.score < 90 THEN {"quality_score_below_release_gate_90"} ELSE {})
    \cup (IF d.contaminated THEN {"contamination_not_ok"} ELSE {})

ReleaseCheck(d, approved) ==
  [ok |-> ReleaseBlocks(d) = {},
   release_ready |-> ReleaseBlocks(d) = {} /\ approved,
   owner_approved |-> approved]

-----------------------------------------------------------------------------
Init ==
  /\ room \in Rooms \cup {NoRoom}
  /\ manifest \in [Sources -> Entries \cup {NoEntry}]
  /\ request \in Requests /\ decision = None /\ judged = None /\ gate = None

(* POST /decision                                                           *)
PostDecision ==
  /\ decision = None
  /\ decision' = Decide(request)
  /\ UNCHANGED <<room, manifest, request, judged, gate>>

(* POST /release/check without a decision: the release defaults are decided *)
PostRelease(approved) ==
  /\ decision = None
  /\ request' = ReleaseDefaults(request)
  /\ decision' = Decide(request')
  /\ judged' = decision' /\ gate' = ReleaseCheck(judged', approved)
  /\ UNCHANGED <<room, manifest>>

(* POST /release/check with a decision_result: what decide answered before, *)
(* or whatever else the body brings.  The gate looks at no origin.          *)
PostReleaseOf(result, approved) ==
  /\ result # None /\ gate = None
  /\ judged' = result /\ gate' = ReleaseCheck(result, approved)
  /\ UNCHANGED <<room, manifest, request, decision>>

Next ==
  \/ PostDecision
  \/ \E approved \in BOOLEAN :
       \/ PostRelease(approved)
       \/ \E result \in Handed \cup {decision} : PostReleaseOf(result, approved)

Spec == Init /\ [][Next]_vars

-----------------------------------------------------------------------------
Handoffs == {"usable_internal_handoff", "blocked_or_needs_revision"}

Decisions ==
  [ok : BOOLEAN, mode : Speeds \cup {"round_table_reviewed", None},
   selected_ai : AIs \cup {None}, score : 0..100,
   status : {"release_grade", "usable", "revise", "fail"},
   contaminated : BOOLEAN, private : BOOLEAN,
   blocks : SUBSET {"contract", "boundary", "contamination"},
   handoff : Handoffs]

Gates == [ok : BOOLEAN, release_ready : BOOLEAN, owner_approved : BOOLEAN]

TypeOK ==
  /\ room \in Rooms \cup {NoRoom}
  /\ manifest \in [Sources -> Entries \cup {NoEntry}]
  /\ request \in AllRequests
  /\ decision \in Decisions \cup {None} /\ gate \in Gates \cup {None}
  /\ judged \in Handed \cup {decision, None}

(* decide computes ok and handoff from different checks (orchestrator.js    *)
(* 125 and 136): handoff leaves out the preflight and the quality status.   *)
(* They never part, because the review repeats the preflight on a text that *)
(* contains the one the preflight read, and no score is low enough to fail. *)
HandoffIsTheDecision ==
  decision # None =>
    (decision.handoff = "usable_internal_handoff" <=> decision.ok)

(* A decision that is ok stays in its room: the room is known, it answers   *)
(* with the room's own AI whatever the keywords or the client prefer, every *)
(* source named in any field is allowed there, and the sources the lock     *)
(* reads are active ones that AI may use.                                   *)
OkStaysInTheRoom ==
  decision # None /\ decision.ok =>
    /\ room # NoRoom
    /\ room.active_ai # None => decision.selected_ai = room.active_ai
    /\ Named(request) \subseteq room.allowed_sources \ room.forbidden_sources
    /\ \A s \in request.source_ids :
         /\ manifest[s] # NoEntry /\ manifest[s].in_room /\ manifest[s].active
         /\ decision.selected_ai \in manifest[s].allowed_ai

(* A wish for speed does not take a risky text out of the round table: the  *)
(* tier is the one its most serious word list gives, and escalates on its   *)
(* own, unless the client states the tier.                                  *)
RiskIsReviewed ==
  /\ decision # None /\ request.complete /\ request.risk_tier = None
  /\ request.words \cap {"high", "release"} # {}
  => decision.mode = "round_table_reviewed"

(* The request without what the checks object to in its text.               *)
Cleaned(r) == [r EXCEPT !.words = @ \ {"claim", "private", "repeat"}]

(* Objections never pay: without them the same request scores no less, in   *)
(* whatever mode the router sends it.                                       *)
FaultsNeverPay == Total(request) <= Total(Cleaned(request))

(* The gate opens only with the owner's approval and on a decision that     *)
(* calls itself ok.  Where that is decide's answer to the request, because  *)
(* the gate asked for it or was handed it, the text has no risky claim or   *)
(* private term and stays in its room, whatever its score.  Of a result     *)
(* that the client made up the gate vouches for nothing.                    *)
ReleasesAreClean ==
  gate # None /\ gate.release_ready =>
    /\ gate.owner_approved /\ judged.ok
    /\ judged = decision =>
         /\ request.words \cap {"claim", "private"} = {}
         /\ request.asks \cap {"transfer", "disallowed"} = {}

(* "release gate requires owner approval even when checks pass": a decision *)
(* that went through the round table and is ok passes the gate's checks.    *)
(* The code does not keep this, and no run states it (README).              *)
ReviewedReleasesPass ==
  gate # None /\ judged = decision /\ decision.ok /\ decision.mode = "round_table_reviewed"
    => gate.ok
=============================================================================
