----------------------------- MODULE AvaGateway -----------------------------
(***************************************************************************)
(* What AVA's public chat decides before its first await, message after     *)
(* message of one visitor: whether the address is within its rate           *)
(* (servers/ava.js, allowed), what the message is about                     *)
(* (servers/avaAvAiPlanner.js), what it tells, and which question the       *)
(* diagnosis asks next (servers/avaDiagnostic.js), with the session memory  *)
(* the answer goes into (servers/avaSessionMemory.js).                      *)
(*                                                                         *)
(* A text is the set of the planner's word lists it hits, a fact is known   *)
(* or not.  The planner reads the session as text: the turns of visitor and *)
(* AVA and the facts written out.  Chats that overlap are in module         *)
(* AvaChat; here one ends before the next of the session begins.  The       *)
(* session is a document: with the postgres driver an answered message can  *)
(* be on its way still, and a restart finds the session as it was before    *)
(* (WriteChain).                                                            *)
(***************************************************************************)
EXTENDS Naturals, FiniteSetsExt, WriteChain

CONSTANTS
  Messages,     \* what visitors write: [words, tail, facts]
  AnswerWords,  \* the word lists an answer of AVA's may hit
  Limit,        \* CONFIG.avaRateLimitPerMinute
  Window,       \* the 60 seconds of the limit, in ticks
  MaxTurns,     \* MAX_TURNS
  MaxAttempts   \* bound: requests ever made

Words  == {"trouble", "driver", "hdmi", "design"}
Roles  == {"source", "receiver", "display"}
Signs  == {"no_audio", "intermittent", "hdr_transition_failure"}
Named  == {"manufacturer", "model", "operating_system"}
Facts  == Roles \cup Signs \cup Named \cup {"signal_mode", "recent_change"}

ASSUME AvaGatewayAssumption ==
  /\ Messages \subseteq [words : SUBSET Words,  \* in the first 1200 characters
                         tail  : SUBSET Words,  \* after them
                         facts : SUBSET Facts]
  /\ AnswerWords \subseteq SUBSET Words
  /\ {Limit, Window} \subseteq Nat \ {0}
  /\ MaxTurns \in Nat \ {0} /\ MaxAttempts \in Nat

VARIABLES
  bucket,    \* the address's bucket: ticks since its start, and its count
  session,   \* turns, facts and the words of what the visitor said changed,
             \* as the process reads them
  chat,      \* the chat whose answer is awaited, or Idle
  attempts,  \* number of requests made so far
  served,    \* history: requests let through, by the ticks since
  refused,   \* history: the latest request was refused for its rate
  talk,      \* history: words of the last MaxTurns \div 2 messages this session
             \* was told, those that a restart did not find left out
  last       \* history: the diagnosis of the latest of them

vars == <<bucket, session, chat, attempts, served, refused, talk, last, row, chain>>

Idle      == [at |-> "idle"]
NoBucket  == [age |-> Window, count |-> 0]
NewSession == [turns |-> <<>>, facts |-> {}, changed |-> {}]
None      == [branch |-> "none", stage |-> "none", missing |-> {}]

\* a version of the session, with the history it belongs to
NoVersion == [session |-> NewSession, talk |-> <<>>, last |-> None]
Now       == [session |-> session, talk |-> talk, last |-> last]

Branches == {"general_av_guidance", "system_design", "hdmi_signal_path",
             "driver_or_firmware", "other_trouble"}
\* the stages of a diagnosis of a device, in the order they are reached
Stages   == <<"identify_equipment", "identify_symptom",
              "identify_recent_change", "isolate_failure_domain">>

TypeOK ==
  /\ bucket \in [age : 0..Window, count : 0..MaxAttempts]
  /\ session.turns \in Seq(SUBSET Words) /\ Len(session.turns) <= MaxTurns
  /\ session.facts \subseteq Facts \ Roles /\ session.changed \subseteq Words
  /\ chat # Idle => /\ chat.message \in Messages /\ chat.facts \in SUBSET Facts
                    /\ chat.diagnosis.branch \in Branches
  /\ attempts \in 0..MaxAttempts
  /\ session.changed # {} => "recent_change" \in session.facts
  /\ chain # <<>> => Last(chain) = Now
  /\ ~WriteBehind => row = Now

Init ==
  /\ bucket = NoBucket /\ session = NewSession /\ chat = Idle /\ attempts = 0
  /\ served = [t \in 0..Window-1 |-> 0] /\ refused = FALSE
  /\ talk = <<>> /\ last = None
  /\ row = NoVersion /\ chain = <<>>

-----------------------------------------------------------------------------
\* Mutant: a window that has passed resets the count and not its start.
StartKept ==
  IF bucket.age >= Window THEN [age |-> bucket.age, count |-> 1]
                          ELSE [bucket EXCEPT !.count = @ + 1]

\* allowed: the window starts with the first request after the last one ended
Counted ==
  IF bucket.age >= Window THEN [age |-> 0, count |-> 1]
                          ELSE [bucket EXCEPT !.count = @ + 1]

Allowed == Counted.count <= Limit

\* The word lists that the facts hit when they are written out.
FactWords(facts, changed) ==
  changed \cup UNION {
    {"hdmi" : f \in facts \cap {"signal_mode", "hdr_transition_failure"}},
    {"trouble" : f \in facts \cap {"intermittent", "hdr_transition_failure"}}}

\* buildAvAiPlan: the message, the session's turns and its facts as one text
Context(m) ==
  m.words \cup m.tail \cup UNION Range(session.turns)
    \cup FactWords(session.facts, session.changed)

\* classifyIntent and classifyDomain, as far as the diagnosis branches on them
Branch(words) ==
  IF "trouble" \in words THEN
    IF "hdmi" \in words THEN "hdmi_signal_path"
    ELSE IF "driver" \in words THEN "driver_or_firmware" ELSE "other_trouble"
  ELSE IF "design" \in words THEN "system_design" ELSE "general_av_guidance"

\* a control platform is asked for too, but no text is ever read as one
Required(branch) ==
  CASE branch = "hdmi_signal_path"   -> Roles
    [] branch = "driver_or_firmware" -> Named
    [] branch = "other_trouble"      -> Named \ {"operating_system"}
    [] OTHER                         -> {}

Stage(branch, facts) ==
  LET missing == Required(branch) \ facts
      signs   == facts \cap Signs
  IN  CASE branch = "system_design"       -> "experience_definition"
        [] branch = "general_av_guidance" -> "use_case_definition"
        [] branch = "hdmi_signal_path" ->
             IF missing # {} THEN "identify_signal_path"
             ELSE IF signs = {} THEN "identify_trigger"
             ELSE "direct_path_isolation"
        [] OTHER ->
             IF missing # {} THEN Stages[1]
             ELSE IF signs = {} THEN Stages[2]
             ELSE IF "recent_change" \notin facts THEN Stages[3]
             ELSE Stages[4]

\* buildDiagnosticState
Diagnosis(branch, facts) ==
  [branch |-> branch, stage |-> Stage(branch, facts),
   missing |-> Required(branch) \ facts]

\* avaChat from the request to the first await
Request ==
  /\ chat = Idle /\ attempts < MaxAttempts
  /\ attempts' = attempts + 1
  /\ bucket' = Counted /\ refused' = ~Allowed
  /\ served' = IF Allowed THEN [served EXCEPT ![0] = @ + 1] ELSE served
  /\ \/ UNCHANGED chat  \* refused, empty, too long, or blocked by decide
     \/ /\ Allowed
        /\ \E m \in Messages :
             LET facts == session.facts \cup m.facts IN
             chat' = [at |-> "awaiting", message |-> m, facts |-> facts,
                      diagnosis |-> Diagnosis(Branch(Context(m)), facts)]
  /\ SavesNothing
  /\ UNCHANGED <<session, talk, last>>

\* The draft was blocked or failed: nothing is remembered of the message.
DraftFails ==
  /\ chat # Idle
  /\ chat' = Idle
  /\ SavesNothing
  /\ UNCHANGED <<bucket, session, attempts, served, refused, talk, last>>

\* slice(-n)
Recent(turns, n) == SubSeq(turns, Len(turns) - Min({n, Len(turns)}) + 1, Len(turns))

\* Mutants: only an exchange that had an answer is remembered; only the facts
\* of the latest message are.
ApprovedTurns(m, answer) == IF answer = <<>> THEN <<>> ELSE <<m.words>> \o answer
LatestFacts(facts) == chat.message.facts \ Roles

\* the visitor's turn, cut off, and AVA's if it was approved
TurnsOf(m, answer) == <<m.words>> \o answer

\* mergeFacts: what is an object comes back without its entries
FactsKept(facts) == session.facts \cup (facts \ Roles)

(* updateAvaSession after the last await; the answer may be withheld. *)
Finish ==
  /\ chat # Idle
  /\ \E answer \in {<<>>} \cup {<<words>> : words \in AnswerWords} :
       LET turns == session.turns \o TurnsOf(chat.message, answer) IN
       session' =
         [turns |-> Recent(turns, MaxTurns),
          facts |-> FactsKept(chat.facts),
          changed |-> IF "recent_change" \in chat.message.facts
                      THEN chat.message.words ELSE session.changed]
  /\ talk' = Recent(Append(talk, chat.message.words), MaxTurns \div 2)
  /\ last' = chat.diagnosis
  /\ chat' = Idle
  /\ Saves(<<Now'>>)
  /\ UNCHANGED <<bucket, attempts, served, refused>>

\* SESSION_TTL_MS passes, for every version of the session alike: none is
\* younger than the process's own
Expire ==
  /\ chat = Idle /\ session # NewSession
  /\ session' = NewSession /\ talk' = <<>> /\ last' = None
  /\ row' = NoVersion /\ chain' = [i \in DOMAIN chain |-> NoVersion]
  /\ UNCHANGED <<bucket, chat, attempts, served, refused>>

Tick ==
  /\ bucket.age < Window \/ \E t \in DOMAIN served : served[t] > 0
  /\ bucket' = [bucket EXCEPT !.age = IF @ < Window THEN @ + 1 ELSE @]
  /\ served' = [t \in DOMAIN served |-> IF t = 0 THEN 0 ELSE served[t - 1]]
  /\ refused' = FALSE
  /\ SavesNothing
  /\ UNCHANGED <<session, chat, attempts, talk, last>>

Upsert ==
  /\ UpsertStored \/ UpsertRejected
  /\ UNCHANGED <<bucket, session, chat, attempts, served, refused, talk, last>>

\* The buckets and the chat were the process's, and so were the writes on
\* their way; the next one has the session that was stored.
Restart ==
  /\ bucket # NoBucket \/ chat # Idle \/ row # Now
  /\ bucket' = NoBucket /\ chat' = Idle
  /\ served' = [t \in DOMAIN served |-> 0] /\ refused' = FALSE
  /\ session' = row.session /\ talk' = row.talk /\ last' = row.last
  /\ ChainLost
  /\ UNCHANGED attempts

Next == Request \/ DraftFails \/ Finish \/ Expire \/ Tick \/ Upsert \/ Restart

Spec == Init /\ [][Next]_vars

-----------------------------------------------------------------------------
ServedInWindow == MapThenSumSet(LAMBDA t : served[t], DOMAIN served)

(* However requests fall around the end of a bucket, one process lets no    *)
(* more than twice the limit through in any minute, and it refuses a        *)
(* request only when the limit was let through in the minute before: who    *)
(* keeps asking too often is still served.                                  *)
RateHolds ==
  /\ ServedInWindow <= 2 * Limit
  /\ refused => ServedInWindow >= Limit

Rank(stage) == CHOOSE i \in DOMAIN Stages : Stages[i] = stage

(* From one message of a live session to the next the diagnosis of a device *)
(* neither goes back a stage nor asks for a field again, unless the talk    *)
(* changed its branch.  Of a session that a restart found this holds from   *)
(* the last message it was stored with: what was answered after that and    *)
(* not stored is asked again.                                               *)
DiagnosisMovesOn ==
  (chat # Idle /\ chat.diagnosis.branch = last.branch
     /\ last.branch \in {"driver_or_firmware", "other_trouble"}) =>
    /\ Rank(last.stage) <= Rank(chat.diagnosis.stage)
    /\ chat.diagnosis.missing \subseteq last.missing

(* "Advances through equipment identification, symptom identification,      *)
(* recent-change analysis, and direct-path isolation": neither does any     *)
(* other diagnosis ask for a field again.  That of a signal path does, and  *)
(* no run states this (README).                                             *)
DiagnosisAdvances ==
  (chat # Idle /\ chat.diagnosis.branch = last.branch) =>
    chat.diagnosis.missing \subseteq last.missing

(* What a visitor wrote in the last MAX_TURNS / 2 messages still counts:    *)
(* who told of a problem is in a diagnosis, and who told that it is with    *)
(* HDMI in that of the signal path, whatever AVA answered and forgot since. *)
(* After a restart these are the messages the stored session was told.      *)
RecentTalkCounts ==
  LET said == UNION Range(talk) IN
      (chat # Idle /\ "trouble" \in said) =>
        /\ chat.diagnosis.branch \in
             {"hdmi_signal_path", "driver_or_firmware", "other_trouble"}
        /\ "hdmi" \in said => chat.diagnosis.branch = "hdmi_signal_path"
=============================================================================
