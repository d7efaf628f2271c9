---------------------------- MODULE MCGovernance ----------------------------
(***************************************************************************)
(* The requests of the runs: one objection or wish at a time, beside the    *)
(* tiers and speeds the code treats differently and every way to name a     *)
(* source; and a client that prefers, or whose words choose, another AI     *)
(* than the room's.                                                         *)
(***************************************************************************)
EXTENDS Governance, FiniteSetsExt

CONSTANT Other \* an AI that is not the default one

Plain ==
  [complete |-> TRUE, via |-> "request", words |-> {}, asks |-> {},
   risk_tier |-> None, speed_mode |-> None, source_ids |-> {}, sources |-> {},
   topic |-> None, preferred_ai |-> None]

\* what a text hits and asks for: at most one thing of each kind, or two
\* patterns of different tiers
Texts ==
  {<<words, {}>> : words \in {{}, {"high", "medium"}, {"claim", "release"}}
                               \cup kSubset(1, Words)}
    \cup {<<{}, {ask}>> : ask \in Asks}

MCRequests ==
  {Plain, [Plain EXCEPT !.complete = FALSE]} \cup
  {[Plain EXCEPT !.via = via, !.words = text[1], !.asks = text[2],
                 !.risk_tier = tier, !.speed_mode = speed] :
     via \in {"request", "text"}, text \in Texts,
     tier \in {None, "low", "release"}, speed \in {None, "fast"}}
  \cup
  {[Plain EXCEPT !.source_ids = ids, !.sources = others, !.words = words,
                 !.topic = topic, !.preferred_ai = preferred] :
     ids \in SUBSET Sources, others \in SUBSET Sources,
     words \in {{}, {"high"}, {"claim"}},
     topic \in {None, Other}, preferred \in {None, Other}}

\* results around the gate's threshold, as good as they can be and as bad
MCHanded ==
  [ok : BOOLEAN, score : {89, 90}, private : BOOLEAN, contaminated : {FALSE}]
=============================================================================
