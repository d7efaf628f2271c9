------------------------------- MODULE AvaChat -------------------------------
(***************************************************************************)
(* AVA's public chat (servers/ava.js, avaChat) and the session memory it    *)
(* shares between the messages of a visitor (servers/avaSessionMemory.js).  *)
(*                                                                         *)
(* A chat awaits the provider's draft, ArchE's review of it and at most one *)
(* repair.  It reads its session before the first await and writes it after *)
(* the last one; other chats of the same session run in between.  What the  *)
(* scorer says of a candidate is one bit here, "passes but for the review"  *)
(* (module AvaQuality has the scorer).  The cost gate's refusals are draft  *)
(* and repair failures (module CostGate), the trace decide() keeps is in    *)
(* module WorkQueue.                                                        *)
(***************************************************************************)
EXTENDS Naturals, FiniteSets, SequencesExt

CONSTANTS
  Keys,        \* session keys: session_id, or the visitor's address
  Slots,       \* bound: chats in flight at once
  PlainFacts,  \* manufacturer, model, operating_system, ...: strings
  Roles,       \* source, receiver, display: the entries of facts.equipment
  Values,      \* what a message may say of a fact
  Unknown,     \* nothing is known of a fact
  MaxTurns,    \* MAX_TURNS
  MaxSessions, \* MAX_SESSIONS
  MaxMessages  \* bound: messages ever sent

ASSUME AvaChatAssumption ==
  /\ Unknown \notin Values /\ PlainFacts \cap Roles = {}
  /\ MaxTurns \in Nat \ {0} /\ MaxSessions \in Nat \ {0} /\ MaxMessages \in Nat

VARIABLES
  sessions,  \* ava_sessions.json: turns and facts of each session key
  recency,   \* the keys with a live session, the longest unused first
  chats,     \* the chat in each slot, Idle or in flight
  messages,  \* number of messages sent so far
  finished,  \* history: messages finished in each live session, in order
  stated,    \* history: the latest value finished messages gave each fact
  overlapped \* history: keys that ever had two chats in flight

vars == <<sessions, recency, chats, messages, finished, stated, overlapped>>

Facts      == [PlainFacts \cup Roles -> Values \cup {Unknown}]
NoFacts    == [f \in PlainFacts \cup Roles |-> Unknown]
NoSession  == [turns |-> <<>>, facts |-> NoFacts]
Idle       == [at |-> "idle"]
InFlight(c) == chats[c].at # "idle"

TypeOK ==
  /\ sessions \in [Keys -> [turns : SeqOf({"visitor", "ava"} \X (1..messages),
                                          MaxTurns), facts : Facts]]
  /\ IsInjective(recency) /\ Range(recency) \subseteq Keys
  /\ Len(recency) <= MaxSessions
  /\ \A k \in Keys \ Range(recency) : sessions[k] = NoSession
  /\ \A c \in Slots : InFlight(c) =>
       /\ chats[c].at \in {"draft", "review", "repair"}
       /\ chats[c].key \in Keys /\ chats[c].says \in Facts
       /\ chats[c].facts \in Facts /\ chats[c].message \in 1..messages
  /\ messages \in 0..MaxMessages

-----------------------------------------------------------------------------
Init ==
  /\ sessions = [k \in Keys |-> NoSession] /\ recency = <<>>
  /\ chats = [c \in Slots |-> Idle] /\ messages = 0
  /\ finished = [k \in Keys |-> <<>>] /\ stated = [k \in Keys |-> NoFacts]
  /\ overlapped = {}

\* Mutant: the first value said of a fact stays.
MergeOld(old, new) ==
  [f \in DOMAIN old |-> IF old[f] = Unknown THEN new[f] ELSE old[f]]

\* what is said later replaces, what is not said stays
Merge(old, new) ==
  [f \in DOMAIN old |-> IF new[f] = Unknown THEN old[f] ELSE new[f]]

\* Mutant: a chat stores only the equipment it learned of.
StoredRoles(facts) ==
  [f \in DOMAIN facts |-> IF f \in Roles THEN facts[f] ELSE Unknown]

(* mergeFacts stores String(value) of what is no array: facts.equipment is  *)
(* an object, its string "[object Object]" names no role.                   *)
Stored(facts) ==
  [f \in DOMAIN facts |-> IF f \in Roles THEN Unknown ELSE facts[f]]

\* Mutant: one turn too many is kept.
RecentAndOne(turns) ==
  IF Len(turns) <= MaxTurns + 1 THEN turns
  ELSE SubSeq(turns, Len(turns) - MaxTurns, Len(turns))

\* slice(-MAX_TURNS)
Recent(turns) == IF Len(turns) <= MaxTurns THEN turns
                 ELSE SubSeq(turns, Len(turns) - MaxTurns + 1, Len(turns))

\* avaChat up to its first await; the refusals before it change nothing
Chat(c) ==
  /\ ~InFlight(c) /\ messages < MaxMessages
  /\ \E k \in Keys, says \in Facts :
       /\ chats' = [chats EXCEPT ![c] =
            [at |-> "draft", key |-> k, message |-> messages + 1, says |-> says,
             facts |-> Merge(sessions[k].facts, says),
             read |-> sessions[k].turns, checked |-> FALSE]]
       /\ overlapped' = overlapped \cup
            {x \in {k} : \E d \in Slots : InFlight(d) /\ chats[d].key = k}
  /\ messages' = messages + 1
  /\ UNCHANGED <<sessions, recency, finished, stated>>

(* The draft was blocked, failed or is empty: the chat ends and leaves the  *)
(* session as it was.                                                       *)
DraftFails(c) ==
  /\ chats[c].at = "draft"
  /\ chats' = [chats EXCEPT ![c] = Idle]
  /\ UNCHANGED <<sessions, recency, messages, finished, stated, overlapped>>

DraftArrives(c) ==
  /\ chats[c].at = "draft"
  /\ chats' = [chats EXCEPT ![c].at = "review"]
  /\ UNCHANGED <<sessions, recency, messages, finished, stated, overlapped>>

\* Mutant: the turns are those the chat read before it began to wait.
TurnsRead(c) == chats[c].read

\* the turns of the session as it is now
TurnsNow(c) == sessions[chats[c].key].turns

(* updateAvaSession: the least recently used sessions are dropped when      *)
(* there are too many of them.                                              *)
Finish(c, approved) ==
  LET chat == chats[c]
      k    == chat.key
      said == << <<"visitor", chat.message>> >>
                \o IF approved THEN << <<"ava", chat.message>> >> ELSE <<>>
      used == Append(RemoveFirst(recency, k), k)
      kept == IF Len(used) > MaxSessions THEN Tail(used) ELSE used
      live(f, nothing) ==
        [x \in Keys |-> IF x \in Range(kept) THEN f[x] ELSE nothing]
  IN  /\ recency' = kept
      /\ sessions' = live([sessions EXCEPT ![k] =
           [turns |-> Recent(TurnsNow(c) \o said),
            facts |-> Merge(@.facts, Stored(chat.facts))]], NoSession)
      /\ finished' = live([finished EXCEPT ![k] = Append(@, chat.message)], <<>>)
      /\ stated'   = live([stated EXCEPT ![k] = Merge(@, chat.says)], NoFacts)
      /\ chats'    = [chats EXCEPT ![c] = Idle]

(* An answer is verified only where the review of its message completed:    *)
(* ArchE is shown the draft, never the deterministic or the repaired answer *)
(* that may go out in its place.                                            *)
Approved(authentic, good) == authentic /\ good

(* ArchE answers, rejects or cannot be reached; the best candidate is good  *)
(* or not, and goes to repair when it is not verified.                      *)
ReviewReturns(c) ==
  /\ chats[c].at = "review"
  /\ \E authentic, good \in BOOLEAN :
       \/ Approved(authentic, good) /\ Finish(c, TRUE)
       \/ /\ ~Approved(authentic, good)
          /\ chats' = [chats EXCEPT ![c].at = "repair", ![c].checked = authentic]
          /\ UNCHANGED <<sessions, recency, finished, stated>>
  /\ UNCHANGED <<messages, overlapped>>

\* Mutant: repair is tried until an answer is verified.
RepairUntilGood(c) ==
  /\ chats[c].at = "repair"
  /\ \E good \in BOOLEAN :
       IF Approved(chats[c].checked, good) THEN Finish(c, TRUE)
       ELSE UNCHANGED <<sessions, recency, chats, finished, stated>>
  /\ UNCHANGED <<messages, overlapped>>

(* One repair: refused, failed or answered; its answer is scored with the   *)
(* review of the draft and is not sent to ArchE itself.                     *)
RepairReturns(c) ==
  /\ chats[c].at = "repair"
  /\ \E good \in BOOLEAN : Finish(c, Approved(chats[c].checked, good))
  /\ UNCHANGED <<messages, overlapped>>

\* SESSION_TTL_MS passes for the session that was not used for longest
Expire ==
  /\ recency # <<>>
  /\ LET k == Head(recency) IN
       /\ sessions' = [sessions EXCEPT ![k] = NoSession]
       /\ finished' = [finished EXCEPT ![k] = <<>>]
       /\ stated'   = [stated EXCEPT ![k] = NoFacts]
  /\ recency' = Tail(recency)
  /\ UNCHANGED <<chats, messages, overlapped>>

Next ==
  \/ \E c \in Slots : \/ Chat(c) \/ DraftFails(c) \/ DraftArrives(c)
                      \/ ReviewReturns(c) \/ RepairReturns(c)
  \/ Expire

Spec == Init /\ [][Next]_vars

(* Every call a chat awaits is answered or fails: fetch gives up on a       *)
(* server that does not answer, and no call is made again.                  *)
FairSpec ==
  Spec /\ \A c \in Slots : WF_vars(DraftFails(c) \/ DraftArrives(c)
                                     \/ ReviewReturns(c) \/ RepairReturns(c))

-----------------------------------------------------------------------------
(* The visitor's turns are the last messages of those that finished, in the *)
(* order they finished: of the turns, as many messages finished after one   *)
(* as there are visitor turns after it.  While there is room all are there. *)
VisitorTurns(turns) == {i \in DOMAIN turns : turns[i][1] = "visitor"}

Follow(turns, done) ==
  LET visits   == VisitorTurns(turns)
      after(i) == Cardinality({j \in visits : j > i})
  IN  /\ \A i \in visits : /\ after(i) < Len(done)
                           /\ turns[i][2] = done[Len(done) - after(i)]
      /\ Len(turns) < MaxTurns => Cardinality(visits) = Len(done)

(* Chats of one session that overlap lose no turn of each other: the        *)
(* session's turns follow the messages finished in it.                      *)
RecentTurnsKept == \A k \in Keys : Follow(sessions[k].turns, finished[k])

(* In a session whose chats never overlapped, and that began with its first *)
(* message, a plain fact has the value its messages gave it last.           *)
FactsFollowMessages ==
  \A k \in Keys \ overlapped : \A f \in PlainFacts :
    stated[k][f] # Unknown => sessions[k].facts[f] = stated[k][f]

(* Overlap may bring back an older value, but it makes AVA forget nothing:  *)
(* a plain fact some finished message of a live session stated is known.    *)
PlainFactsRemembered ==
  \A k \in Keys : \A f \in PlainFacts :
    stated[k][f] # Unknown => sessions[k].facts[f] # Unknown

(* "do not ask again for equipment already provided": a role an earlier     *)
(* message of the live session named is known to the chats that follow.     *)
EquipmentRemembered ==
  \A k \in Keys : \A f \in Roles :
    stated[k][f] # Unknown => sessions[k].facts[f] # Unknown

\* Every message is answered or refused, whatever becomes of its calls.
ChatsEnd == \A c \in Slots : InFlight(c) ~> ~InFlight(c)
=============================================================================
