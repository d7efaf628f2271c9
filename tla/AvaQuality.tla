----------------------------- MODULE AvaQuality -----------------------------
(***************************************************************************)
(* servers/avaQuality.js, evaluateAvaAnswer: the score an answer of AVA     *)
(* gets and the failures it is charged with, as a function of which of the  *)
(* scorer's word lists the answer (and, for a system design, the visitor's  *)
(* message) hits.  The state is the selection avaChat makes of candidates   *)
(* offered one after the other.                                             *)
(***************************************************************************)
EXTENDS Integers, FiniteSetsExt

Intents == {"troubleshooting", "system_design", "other"}
Context == [intent : Intents, reviewed : BOOLEAN]
Answers == [designTerms : BOOLEAN, avTerms : BOOLEAN, diagnosticTerms : BOOLEAN,
            passive : BOOLEAN, replaces : BOOLEAN, privateTerms : BOOLEAN,
            questions : {0, 1, 2, 4}]

Criteria == {"av_specificity", "diagnostic_value", "directness",
             "question_quality", "premium_presence",
             "unsupported_claim_control", "privacy_boundary", "arche_review"}

Bonus(hit) == IF hit THEN 35 ELSE 0

Clamp(n) == IF n > 100 THEN 100 ELSE IF n < 0 THEN 0 ELSE n

\* a system design earns both bonuses for its own vocabulary
DesignBonus(ctx, a) == Bonus(ctx.intent = "system_design" /\ a.designTerms)

\* Mutant: what may not be said costs as little as a weak question.
MildPrivacy(a) == IF a.privateTerms THEN 85 ELSE 95

PrivacyScore(a) == IF a.privateTerms THEN 0 ELSE 95

\* Mutant: the missing review weighs like any other criterion.
MildReview(reviewed) == IF reviewed THEN 95 ELSE 75

ReviewScore(reviewed) == IF reviewed THEN 95 ELSE 35

QuestionScore(n) == CASE n = 1 -> 90 [] n > 3 -> 35 [] OTHER -> 60

ScoreOf(ctx, a) ==
  [av_specificity   |-> Clamp(50 + DesignBonus(ctx, a) + Bonus(a.avTerms)),
   diagnostic_value |-> Clamp(50 + DesignBonus(ctx, a)
                                 + Bonus(a.diagnosticTerms)),
   directness       |-> IF a.passive THEN 40 ELSE 70,
   question_quality |-> QuestionScore(a.questions),
   premium_presence |-> IF a.passive THEN 40 ELSE 70,
   unsupported_claim_control |->
      IF ctx.intent = "troubleshooting" /\ a.replaces THEN 55 ELSE 90,
   privacy_boundary |-> PrivacyScore(a),
   arche_review     |-> ReviewScore(ctx.reviewed)]

\* Math.round of the mean: halves go up
Score(ctx, a) ==
  (MapThenSumSet(LAMBDA c : ScoreOf(ctx, a)[c], Criteria) + 4) \div 8

Failures(ctx, a) ==
  LET s == ScoreOf(ctx, a)
      least == [av_specificity |-> 70, diagnostic_value |-> 70,
                directness |-> 60, question_quality |-> 60,
                privacy_boundary |-> 90]
  IN  {c \in DOMAIN least : s[c] < least[c]}
        \cup IF ctx.reviewed THEN {} ELSE {"arche_review_not_completed"}

Verified(ctx, a) == Failures(ctx, a) = {} /\ Score(ctx, a) >= 85

-----------------------------------------------------------------------------
VARIABLES
  ctx,      \* the plan's intent, and whether ArchE's review was completed
  selected, \* the best candidate so far
  offered   \* history: a verified candidate was among those offered

SelectionInit ==
  /\ ctx \in Context /\ selected \in Answers
  /\ offered = Verified(ctx, selected)

(* candidates.sort, and the repaired answer's comparison with the selected  *)
(* one: the higher score wins; a tie may go either way.                     *)
Offer(a) ==
  /\ offered' = (offered \/ Verified(ctx, a))
  /\ \/ Score(ctx, a) >= Score(ctx, selected) /\ selected' = a
     \/ Score(ctx, a) <= Score(ctx, selected) /\ UNCHANGED selected
  /\ UNCHANGED ctx

SelectionNext == \E a \in Answers : Offer(a)

SelectionSpec ==
  SelectionInit /\ [][SelectionNext]_<<ctx, selected, offered>>

-----------------------------------------------------------------------------
(* Every criterion of the selected answer is a score out of 100, the ones   *)
(* that can earn two bonuses too.                                           *)
SelectionTypeOK ==
  /\ ctx \in Context /\ selected \in Answers /\ offered \in BOOLEAN
  /\ \A c \in Criteria : ScoreOf(ctx, selected)[c] \in 0..100

(* Candidates are compared by score alone, yet an answer with a failure     *)
(* never crowds out a verified one: when there was a verified candidate,    *)
(* the selected one is verified.                                            *)
VerifiedIsRetained == offered => Verified(ctx, selected)

(* No wording reaches the threshold without ArchE's review: the score alone *)
(* would refuse what the failure list refuses.                              *)
ReviewIsDecisive == ~ctx.reviewed => Score(ctx, selected) < 85
=============================================================================
