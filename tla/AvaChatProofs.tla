---------------------------- MODULE AvaChatProofs ----------------------------
(***************************************************************************)
(* Proofs about the chats of a visitor that overlap in one session, for any *)
(* number of sessions, of chats in flight and of messages.                  *)
(*                                                                         *)
(* Which session is dropped when there are too many does not matter to any  *)
(* of them: a session that is dropped starts again from nothing.            *)
(*                                                                         *)
(* Below them, the proofs about the scorer the chats select an answer with. *)
(***************************************************************************)
EXTENDS AvaChat, AvaQuality, SumTheorems, SequenceTheorems

Names == PlainFacts \cup Roles
Turns == Seq({"visitor", "ava"} \X Nat)

ChatAt(where) ==
  [at : {where}, key : Keys, message : Nat, says : Facts, facts : Facts,
   read : Turns, checked : BOOLEAN]

Typed ==
  /\ sessions \in [Keys -> [turns : Turns, facts : Facts]]
  /\ chats \in [Slots -> {Idle} \cup ChatAt("draft") \cup ChatAt("review")
                           \cup ChatAt("repair")]
  /\ messages \in Nat /\ stated \in [Keys -> Facts]
  /\ finished \in [Keys -> Seq(Nat)]

(* What a message says is what its chat knows.                              *)
SaysInv ==
  \A c \in Slots : InFlight(c) =>
    \A f \in Names : chats[c].says[f] # Unknown => chats[c].facts[f] = chats[c].says[f]

(* Two chats in flight are of different sessions unless they overlap, so    *)
(* that what one read of its session before it waited is still what is      *)
(* stated there once it is through.                                         *)
AloneInv ==
  /\ \A c, d \in Slots :
       c # d /\ InFlight(c) /\ InFlight(d) /\ chats[c].key = chats[d].key =>
         chats[c].key \in overlapped
  /\ \A c \in Slots : InFlight(c) /\ chats[c].key \notin overlapped =>
       \A f \in PlainFacts :
         (chats[c].says[f] = Unknown /\ stated[chats[c].key][f] # Unknown) =>
           chats[c].facts[f] \in {Unknown, stated[chats[c].key][f]}

ChatInv ==
  /\ Typed /\ SaysInv /\ AloneInv
  /\ FactsFollowMessages /\ PlainFactsRemembered

-----------------------------------------------------------------------------
LEMMA MergeType ==
  ASSUME NEW old \in Facts, NEW new \in Facts
  PROVE  /\ Merge(old, new) \in Facts
         /\ \A f \in Names : Merge(old, new)[f] = IF new[f] = Unknown THEN old[f] ELSE new[f]
BY DEF Merge, Facts, Names

LEMMA StoredType ==
  ASSUME NEW facts \in Facts
  PROVE  /\ Stored(facts) \in Facts
         /\ \A f \in PlainFacts : Stored(facts)[f] = facts[f]
BY AvaChatAssumption DEF AvaChatAssumption, Stored, Facts

LEMMA NothingIsKnown ==
  /\ NoFacts \in Facts /\ NoSession.facts = NoFacts /\ NoSession.turns = <<>>
  /\ NoSession \in [turns : Turns, facts : Facts]
  /\ \A f \in Names : NoFacts[f] = Unknown
BY DEF NoFacts, Facts, NoSession, Names, Turns

LEMMA RecentIsPart ==
  ASSUME NEW S, NEW turns \in Seq(S)
  PROVE  /\ Recent(turns) \in Seq(S)
         /\ \A i \in 1..Len(Recent(turns)) :
              \E j \in 1..Len(turns) : Recent(turns)[i] = turns[j]
<1> DEFINE m == Len(turns) - MaxTurns + 1
<1>1. CASE Len(turns) <= MaxTurns
  BY <1>1 DEF Recent
<1>2. CASE ~(Len(turns) <= MaxTurns)
  <2>1. m \in Nat /\ m >= 1 /\ Len(turns) \in Nat
    BY <1>2, AvaChatAssumption DEF AvaChatAssumption
  <2>2. Recent(turns) = SubSeq(turns, m, Len(turns))
    BY <1>2 DEF Recent
  <2> HIDE DEF m
  <2>3. /\ Recent(turns) \in Seq(S)
        /\ Len(Recent(turns)) = (IF m <= Len(turns) THEN Len(turns) - m + 1 ELSE 0)
        /\ \A i \in 1..(Len(turns) - m + 1) : Recent(turns)[i] = turns[m + i - 1]
    BY <2>1, <2>2
  <2>4. ASSUME NEW i \in 1..Len(Recent(turns))
        PROVE  \E j \in 1..Len(turns) : Recent(turns)[i] = turns[j]
    <3>1. i \in 1..(Len(turns) - m + 1) /\ m + i - 1 \in 1..Len(turns)
      BY <2>1, <2>3
    <3> QED
      BY <2>3, <3>1
  <2> QED
    BY <2>3, <2>4
<1> QED
  BY <1>1, <1>2

-----------------------------------------------------------------------------
(* What the end of a chat leaves of the sessions: of its own the new turns  *)
(* and facts, of the others what they were, or nothing.                     *)
SaidBy(chat, approved) ==
  << <<"visitor", chat.message>> >>
    \o IF approved THEN << <<"ava", chat.message>> >> ELSE <<>>

LEMMA SaidType ==
  ASSUME NEW chat, chat.message \in Nat, NEW approved \in BOOLEAN
  PROVE  /\ SaidBy(chat, approved) \in Turns
         /\ \A i \in 1..Len(SaidBy(chat, approved)) :
              /\ SaidBy(chat, approved)[i][2] = chat.message
              /\ SaidBy(chat, approved)[i][1] = "ava" => approved
<1> DEFINE T == {"visitor", "ava"} \X Nat
           said == <<"visitor", chat.message>>
           answered == <<"ava", chat.message>>
<1>1. said \in T /\ answered \in T
  OBVIOUS
<1>2. /\ said[1] = "visitor" /\ said[2] = chat.message
      /\ answered[1] = "ava" /\ answered[2] = chat.message
  OBVIOUS
<1> HIDE DEF T, said, answered
<1>3. CASE approved
  <2>1. SaidBy(chat, approved) = <<said>> \o <<answered>>
    BY <1>3 DEF SaidBy, said, answered
  <2>2. /\ <<said>> \in Seq(T) /\ Len(<<said>>) = 1 /\ <<said>>[1] = said
        /\ <<answered>> \in Seq(T) /\ Len(<<answered>>) = 1
        /\ <<answered>>[1] = answered
    BY <1>1
  <2>3. /\ SaidBy(chat, approved) \in Seq(T) /\ Len(SaidBy(chat, approved)) = 2
        /\ SaidBy(chat, approved)[1] = said /\ SaidBy(chat, approved)[2] = answered
    BY <2>1, <2>2, ConcatProperties
  <2>4. \A i \in 1..2 : i = 1 \/ i = 2
    OBVIOUS
  <2> QED
    BY <1>2, <1>3, <2>3, <2>4 DEF Turns, T
<1>4. CASE ~approved
  <2>1. SaidBy(chat, approved) = <<said>> \o <<>>
    BY <1>4 DEF SaidBy, said
  <2>2. <<said>> \o <<>> = <<said>> /\ <<said>> \in Seq(T)
    BY <1>1
  <2> QED
    BY <1>2, <2>1, <2>2 DEF Turns, T
<1> QED
  BY <1>3, <1>4

FinishedFacts(c) == Merge(sessions[chats[c].key].facts, Stored(chats[c].facts))
FinishedTurns(c, approved) == Recent(TurnsNow(c) \o SaidBy(chats[c], approved))
FinishedStated(c) == Merge(stated[chats[c].key], chats[c].says)

LEMMA Finished ==
  ASSUME Typed, NEW c \in Slots, InFlight(c), NEW approved \in BOOLEAN,
         Finish(c, approved)
  PROVE  /\ chats' = [chats EXCEPT ![c] = Idle]
         /\ sessions' \in [Keys -> [turns : Turns, facts : Facts]]
         /\ stated' \in [Keys -> Facts] /\ finished' \in [Keys -> Seq(Nat)]
         /\ \A k \in Keys :
              \/ /\ sessions'[k] = NoSession /\ stated'[k] = NoFacts
                 /\ finished'[k] = <<>>
              \/ /\ k # chats[c].key /\ k \in Range(recency')
                 /\ sessions'[k] = sessions[k] /\ stated'[k] = stated[k]
                 /\ finished'[k] = finished[k]
              \/ /\ k = chats[c].key /\ k \in Range(recency')
                 /\ sessions'[k].turns = FinishedTurns(c, approved)
                 /\ sessions'[k].facts = FinishedFacts(c)
                 /\ stated'[k] = FinishedStated(c)
                 /\ finished'[k] = Append(finished[k], chats[c].message)
<1> DEFINE chat == chats[c]
           key == chat.key
           used == Append(RemoveFirst(recency, key), key)
           kept == Range(IF Len(used) > MaxSessions THEN Tail(used) ELSE used)
           mine == [turns |-> FinishedTurns(c, approved), facts |-> FinishedFacts(c)]
           done == Append(finished[key], chat.message)
<1>1. chat \in ChatAt("draft") \cup ChatAt("review") \cup ChatAt("repair")
  BY DEF Typed, InFlight, Idle
<1>2. /\ chat.key \in Keys /\ chat.message \in Nat /\ chat.says \in Facts
      /\ chat.facts \in Facts
  BY <1>1 DEF ChatAt
<1>3. SaidBy(chat, approved) \in Turns
  BY <1>2, SaidType
<1>4. sessions[key].turns \in Turns /\ sessions[key].facts \in Facts /\ stated[key] \in Facts
  BY <1>2 DEF Typed
<1>5. mine \in [turns : Turns, facts : Facts]
  <2>1. TurnsNow(c) \o SaidBy(chat, approved) \in Turns
    BY <1>3, <1>4 DEF TurnsNow, Turns
  <2>2. FinishedTurns(c, approved) \in Turns
    BY <2>1, RecentIsPart DEF FinishedTurns, Turns
  <2>3. FinishedFacts(c) \in Facts
    BY <1>2, <1>4, StoredType, MergeType DEF FinishedFacts
  <2> QED
    BY <2>2, <2>3
<1>6. FinishedStated(c) \in Facts
  BY <1>2, <1>4, MergeType DEF FinishedStated
<1>7. /\ chats' = [chats EXCEPT ![c] = Idle]
      /\ sessions' = [x \in Keys |-> IF x \in kept THEN [sessions EXCEPT ![key] = mine][x]
                                     ELSE NoSession]
      /\ stated' = [x \in Keys |-> IF x \in kept
                                   THEN [stated EXCEPT ![key] = FinishedStated(c)][x]
                                   ELSE NoFacts]
      /\ finished' = [x \in Keys |-> IF x \in kept
                                     THEN [finished EXCEPT ![key] = done][x] ELSE <<>>]
      /\ kept = Range(recency')
  BY DEF Finish, SaidBy, FinishedFacts, FinishedTurns, FinishedStated
<1> HIDE DEF kept, mine
<1>8. /\ \A x \in Keys : [sessions EXCEPT ![key] = mine][x] = IF x = key THEN mine ELSE sessions[x]
      /\ \A x \in Keys : [stated EXCEPT ![key] = FinishedStated(c)][x]
                           = IF x = key THEN FinishedStated(c) ELSE stated[x]
      /\ \A x \in Keys : [finished EXCEPT ![key] = done][x]
                           = IF x = key THEN done ELSE finished[x]
  BY DEF Typed
<1>9. \A x \in Keys : /\ sessions[x] \in [turns : Turns, facts : Facts]
                     /\ stated[x] \in Facts /\ finished[x] \in Seq(Nat)
  BY DEF Typed
<1>10. done \in Seq(Nat)
  BY <1>2, <1>9
<1> HIDE DEF done
<1>11. /\ sessions' \in [Keys -> [turns : Turns, facts : Facts]]
       /\ stated' \in [Keys -> Facts] /\ finished' \in [Keys -> Seq(Nat)]
  BY <1>5, <1>6, <1>7, <1>8, <1>9, <1>10, NothingIsKnown
<1>12. ASSUME NEW k \in Keys
       PROVE  \/ /\ sessions'[k] = NoSession /\ stated'[k] = NoFacts
                 /\ finished'[k] = <<>>
              \/ /\ k # key /\ k \in kept
                 /\ sessions'[k] = sessions[k] /\ stated'[k] = stated[k]
                 /\ finished'[k] = finished[k]
              \/ /\ k = key /\ k \in kept
                 /\ sessions'[k] = mine /\ stated'[k] = FinishedStated(c)
                 /\ finished'[k] = done
  BY <1>7, <1>8
<1>13. mine.turns = FinishedTurns(c, approved) /\ mine.facts = FinishedFacts(c)
  BY DEF mine
<1>14. ASSUME NEW k \in Keys
       PROVE  \/ /\ sessions'[k] = NoSession /\ stated'[k] = NoFacts
                 /\ finished'[k] = <<>>
              \/ /\ k # key /\ k \in Range(recency')
                 /\ sessions'[k] = sessions[k] /\ stated'[k] = stated[k]
                 /\ finished'[k] = finished[k]
              \/ /\ k = key /\ k \in Range(recency')
                 /\ sessions'[k].turns = FinishedTurns(c, approved)
                 /\ sessions'[k].facts = FinishedFacts(c)
                 /\ stated'[k] = FinishedStated(c)
                 /\ finished'[k] = Append(finished[k], chat.message)
  <2>1. k = key => done = Append(finished[k], chat.message)
    BY DEF done
  <2> QED
    BY <1>7, <1>12, <1>13, <2>1
<1> QED
  BY <1>7, <1>11, <1>14

-----------------------------------------------------------------------------
(* The keys of the live sessions, the longest unused first.                 *)
Listed(s, S) == s \in Seq(S) /\ IsInjective(s)

LEMMA Removed ==
  ASSUME NEW S, NEW s, Listed(s, S), NEW e \in S
  PROVE  /\ Listed(RemoveFirst(s, e), S)
         /\ Len(RemoveFirst(s, e)) <= Len(s)
         /\ \A i \in 1..Len(RemoveFirst(s, e)) : RemoveFirst(s, e)[i] # e
<1>1. /\ s \in Seq(S) /\ Len(s) \in Nat /\ DOMAIN s = 1..Len(s)
      /\ \A i \in 1..Len(s) : s[i] \in S
      /\ \A i, j \in 1..Len(s) : s[i] = s[j] => i = j
  BY DEF Listed, IsInjective
<1>2. CASE ~\E i \in 1..Len(s) : s[i] = e
  BY <1>1, <1>2 DEF RemoveFirst
<1>3. CASE \E i \in 1..Len(s) : s[i] = e
  <2> DEFINE I == {i \in 1..Len(s) : s[i] = e}
             p == SelectInSeq(s, LAMBDA v : v = e)
             n == Len(s)
             left == SubSeq(s, 1, p - 1)
             right == SubSeq(s, p + 1, n)
             rest == RemoveFirst(s, e)
  <2>1. p \in I
    <3>1. p = CHOOSE i \in I : \A j \in I : i <= j
      BY <1>3 DEF SelectInSeq, Min
    <3>2. I \in SUBSET Nat /\ I # {}
      BY <1>3
    <3> HIDE DEF I, p
    <3> QED
      BY <3>1, <3>2, LeastNatural
  <2>2. p \in 1..n /\ s[p] = e
    BY <2>1
  <2>3. rest = left \o right
    BY <1>3 DEF RemoveFirst, RemoveAt
  <2> HIDE DEF p, I, rest
  <2>4. /\ left \in Seq(S) /\ Len(left) = p - 1
        /\ \A i \in 1..(p - 1) : left[i] = s[i]
    BY <1>1, <2>2
  <2>5. /\ right \in Seq(S) /\ Len(right) = n - p
        /\ \A i \in 1..(n - p) : right[i] = s[i + p]
    <3>1. p + 1 \in Int /\ n \in Int /\ \A i \in (p + 1)..n : s[i] \in S
      BY <1>1, <2>2
    <3> HIDE DEF n
    <3>2. /\ right \in Seq(S)
          /\ Len(right) = IF p + 1 <= n THEN n - (p + 1) + 1 ELSE 0
          /\ \A i \in 1..(n - (p + 1) + 1) : right[i] = s[(p + 1) + i - 1]
      BY <3>1, SubSeqProperties
    <3>3. n \in Nat /\ p \in 1..n
      BY <1>1, <2>2 DEF n
    <3>4. /\ n - (p + 1) + 1 = n - p
          /\ ~(p + 1 <= n) => n - p = 0
          /\ \A i \in 1..(n - p) : (p + 1) + i - 1 = i + p
      BY <3>3
    <3> HIDE DEF right
    <3>5. CASE p + 1 <= n
      BY <3>2, <3>3, <3>4, <3>5
    <3>6. CASE ~(p + 1 <= n)
      <4>1. n - p = 0 /\ Len(right) = 0
        BY <3>2, <3>3, <3>4, <3>6
      <4>2. 1..(n - p) = {}
        BY <4>1
      <4> QED
        BY <3>2, <4>1, <4>2
    <3> QED
      BY <3>5, <3>6
  <2> HIDE DEF left, right
  <2>6. /\ rest \in Seq(S) /\ Len(rest) = (p - 1) + (n - p)
        /\ \A i \in 1..((p - 1) + (n - p)) :
             rest[i] = IF i <= p - 1 THEN left[i] ELSE right[i - (p - 1)]
    BY <2>3, <2>4, <2>5, ConcatProperties
  <2>7. n \in Nat /\ p \in 1..n
    BY <1>1, <2>2
  <2> HIDE DEF n
  <2>8. /\ Len(rest) = n - 1 /\ DOMAIN rest = 1..(n - 1)
        /\ \A i \in 1..(n - 1) : rest[i] = IF i < p THEN s[i] ELSE s[i + 1]
    <3>1. (p - 1) + (n - p) = n - 1
      BY <2>7
    <3>2. ASSUME NEW i \in 1..(n - 1)
          PROVE  rest[i] = IF i < p THEN s[i] ELSE s[i + 1]
      <4>1. rest[i] = IF i <= p - 1 THEN left[i] ELSE right[i - (p - 1)]
        BY <2>6, <3>1
      <4>2. CASE i < p
        <5>1. i <= p - 1 /\ i \in 1..(p - 1)
          BY <2>7, <4>2
        <5> QED
          BY <2>4, <4>1, <4>2, <5>1
      <4>3. CASE ~(i < p)
        <5>1. ~(i <= p - 1) /\ i - (p - 1) \in 1..(n - p)
              /\ (i - (p - 1)) + p = i + 1
          BY <2>7, <4>3
        <5> QED
          BY <2>5, <4>1, <4>3, <5>1
      <4> QED
        BY <4>2, <4>3
    <3> QED
      BY <2>6, <3>1, <3>2
  <2>9. \A i \in 1..(n - 1) : i \in 1..n /\ i + 1 \in 1..n
    BY <2>7
  <2>10. \A i, j \in 1..n : s[i] = s[j] => i = j
    BY <1>1 DEF n
  <2>11. \A i \in 1..(n - 1) : rest[i] # e
    BY <2>2, <2>7, <2>8, <2>9, <2>10
  <2>12. \A i, j \in 1..(n - 1) : rest[i] = rest[j] => i = j
    <3> SUFFICES ASSUME NEW i \in 1..(n - 1), NEW j \in 1..(n - 1), rest[i] = rest[j]
                 PROVE  i = j
      OBVIOUS
    <3>1. i \in Nat /\ j \in Nat /\ p \in Nat
      BY <2>7
    <3>2. CASE i < p /\ j < p
      BY <2>8, <2>9, <2>10, <3>2
    <3>3. CASE ~(i < p) /\ ~(j < p)
      <4>1. i + 1 = j + 1
        BY <2>8, <2>9, <2>10, <3>3
      <4> QED
        BY <3>1, <4>1
    <3>4. CASE i < p /\ ~(j < p)
      <4>1. i = j + 1
        BY <2>8, <2>9, <2>10, <3>4
      <4> QED
        BY <3>1, <3>4, <4>1
    <3>5. CASE ~(i < p) /\ j < p
      <4>1. i + 1 = j
        BY <2>8, <2>9, <2>10, <3>5
      <4> QED
        BY <3>1, <3>5, <4>1
    <3> QED
      BY <3>2, <3>3, <3>4, <3>5
  <2>13. Listed(rest, S) /\ Len(rest) <= n /\ \A i \in 1..Len(rest) : rest[i] # e
    <3>1. Len(rest) <= n
      BY <2>7, <2>8
    <3> QED
      BY <2>6, <2>8, <2>11, <2>12, <3>1 DEF Listed, IsInjective
  <2> QED
    BY <2>13 DEF rest, n
<1> QED
  BY <1>2, <1>3

LEMMA Appended ==
  ASSUME NEW S, NEW s, Listed(s, S), NEW e \in S, \A i \in 1..Len(s) : s[i] # e
  PROVE  Listed(Append(s, e), S) /\ Len(Append(s, e)) = Len(s) + 1
<1> DEFINE more == Append(s, e)
           n == Len(s)
<1>1. /\ s \in Seq(S) /\ n \in Nat
      /\ \A i, j \in 1..n : s[i] = s[j] => i = j
  BY DEF Listed, IsInjective
<1>2. /\ more \in Seq(S) /\ Len(more) = n + 1 /\ DOMAIN more = 1..(n + 1)
      /\ more[n + 1] = e /\ \A i \in 1..n : more[i] = s[i]
  BY <1>1
<1> HIDE DEF more, n
<1>3. \A i \in 1..(n + 1) : i \in 1..n \/ i = n + 1
  BY <1>1
<1>4. \A i, j \in 1..(n + 1) : more[i] = more[j] => i = j
  BY <1>1, <1>2, <1>3 DEF n
<1>5. Listed(more, S)
  BY <1>2, <1>4 DEF Listed, IsInjective
<1> QED
  BY <1>2, <1>5 DEF more, n

LEMMA Tailed ==
  ASSUME NEW S, NEW s, Listed(s, S), s # <<>>
  PROVE  /\ Listed(Tail(s), S) /\ Len(Tail(s)) = Len(s) - 1
         /\ \A i \in 1..Len(s) : i = 1 \/ s[i] \in Range(Tail(s))
         /\ 1 \in 1..Len(s) /\ Head(s) = s[1]
<1> DEFINE n == Len(s)
           rest == Tail(s)
<1>1. /\ s \in Seq(S) /\ n \in Nat /\ n >= 1 /\ Head(s) = s[1]
      /\ \A i, j \in 1..n : s[i] = s[j] => i = j
  BY EmptySeq DEF Listed, IsInjective
<1>2. /\ rest \in Seq(S) /\ Len(rest) = n - 1 /\ DOMAIN rest = 1..(n - 1)
      /\ \A i \in 1..(n - 1) : rest[i] = s[i + 1]
  BY <1>1
<1> HIDE DEF n, rest
<1>3. \A i \in 1..(n - 1) : i \in Int /\ i + 1 \in 1..n
  BY <1>1
<1>4. \A i, j \in 1..(n - 1) : rest[i] = rest[j] => i = j
  <2> SUFFICES ASSUME NEW i \in 1..(n - 1), NEW j \in 1..(n - 1), rest[i] = rest[j]
               PROVE  i = j
    OBVIOUS
  <2>1. i + 1 = j + 1
    BY <1>1, <1>2, <1>3
  <2> QED
    BY <1>3, <2>1
<1>5. ASSUME NEW i \in 1..n, i # 1
      PROVE  s[i] \in Range(rest)
  <2>1. i - 1 \in 1..(n - 1) /\ (i - 1) + 1 = i
    BY <1>1, <1>5
  <2>2. rest[i - 1] = s[i]
    BY <1>2, <2>1
  <2> QED
    BY <1>2, <2>1, <2>2 DEF Range
<1>6. Listed(rest, S)
  BY <1>2, <1>4 DEF Listed, IsInjective
<1>7. 1 \in 1..n
  BY <1>1
<1> QED
  BY <1>1, <1>2, <1>5, <1>6, <1>7 DEF rest, n
-----------------------------------------------------------------------------
(* The turns follow the messages that finished.                             *)
Later(V, i) == {j \in V : j > i}

LEMMA LaterIsFinite ==
  ASSUME NEW n \in Nat, NEW V \in SUBSET (1..n), NEW i
  PROVE  /\ IsFiniteSet(V) /\ Cardinality(V) \in Nat
         /\ IsFiniteSet(Later(V, i)) /\ Cardinality(Later(V, i)) \in Nat
<1>1. IsFiniteSet(1..n)
  BY FS_Interval
<1>2. IsFiniteSet(V)
  BY <1>1, FS_Subset
<1>3. Later(V, i) \in SUBSET V
  BY DEF Later
<1>4. IsFiniteSet(Later(V, i))
  BY <1>2, <1>3, FS_Subset
<1> QED
  BY <1>2, <1>4, FS_CardinalityType

(* One more turn of the visitor's.                                          *)
LEMMA LaterByOne ==
  ASSUME NEW n \in Nat, NEW V \in SUBSET (1..n)
  PROVE  /\ Cardinality(V \cup {n + 1}) = Cardinality(V) + 1
         /\ Cardinality(Later(V \cup {n + 1}, n + 1)) = 0
         /\ \A i \in V : Cardinality(Later(V \cup {n + 1}, i))
                           = Cardinality(Later(V, i)) + 1
<1>1. \A j \in V \cup {n + 1} : ~(j > n + 1)
  OBVIOUS
<1>2. n + 1 \notin V /\ \A j \in V : n + 1 > j
  OBVIOUS
<1>3. Later(V \cup {n + 1}, n + 1) = {}
  BY <1>1 DEF Later
<1>4. ASSUME NEW i \in V
      PROVE  Cardinality(Later(V \cup {n + 1}, i)) = Cardinality(Later(V, i)) + 1
  <2>1. Later(V \cup {n + 1}, i) = Later(V, i) \cup {n + 1}
    BY <1>2 DEF Later
  <2>2. n + 1 \notin Later(V, i)
    BY <1>2 DEF Later
  <2> QED
    BY <2>1, <2>2, LaterIsFinite, FS_AddElement
<1> QED
  BY <1>2, <1>3, <1>4, LaterIsFinite, FS_AddElement, FS_EmptySet

(* The first d turns are dropped.                                           *)
MovedDown(V, n, d) == {j \in 1..(n - d) : j + d \in V}

LEMMA LaterMovedDown ==
  ASSUME NEW n \in Nat, NEW d \in 0..n, NEW V \in SUBSET (1..n),
         NEW i \in MovedDown(V, n, d)
  PROVE  Cardinality(Later(MovedDown(V, n, d), i)) = Cardinality(Later(V, i + d))
<1> DEFINE W == MovedDown(V, n, d)
           f == [j \in Later(W, i) |-> j + d]
           A == Later(W, i)
           B == Later(V, i + d)
<1>1. \A j \in W : j \in Nat /\ j \in 1..(n - d) /\ j + d \in V
  BY DEF MovedDown
<1>2. f \in [A -> B]
  <2>1. ASSUME NEW j \in A PROVE j + d \in B
    BY <1>1 DEF Later
  <2> HIDE DEF A, B
  <2> QED
    BY <2>1 DEF A
<1>3. \A a, b \in A : f[a] = f[b] => a = b
  <2>1. \A a \in A : a \in Nat /\ f[a] = a + d
    BY <1>1 DEF Later
  <2> HIDE DEF A, f
  <2> QED
    BY <2>1
<1>4. \A b \in B : \E a \in A : f[a] = b
  <2> SUFFICES ASSUME NEW b \in B PROVE b - d \in A /\ f[b - d] = b
    OBVIOUS
  <2>1. b \in V /\ b \in 1..n /\ b > i + d /\ i \in Nat /\ i >= 1
    BY <1>1 DEF Later
  <2>2. b - d \in 1..(n - d) /\ (b - d) + d = b /\ b - d > i
    BY <2>1
  <2>3. b - d \in A
    BY <2>1, <2>2 DEF Later, MovedDown
  <2> HIDE DEF A
  <2> QED
    BY <2>2, <2>3 DEF A
<1>5. ExistsBijection(A, B)
  <2> HIDE DEF A, B, f
  <2>1. f \in Bijection(A, B)
    BY <1>2, <1>3, <1>4 DEF Bijection, Injection, Surjection, IsInjective
  <2> QED
    BY <2>1 DEF ExistsBijection
<1>6. W \in SUBSET (1..(n - d)) /\ n - d \in Nat
  BY DEF MovedDown
<1>7. IsFiniteSet(A)
  BY <1>6, LaterIsFinite
<1> HIDE DEF A, B
<1>8. Cardinality(B) = Cardinality(A)
  BY <1>5, <1>7, FS_Bijection
<1> QED
  BY <1>8 DEF A, B

(* Of the two conjuncts of Follow the first.                                *)
InOrder(turns, done) ==
  \A i \in VisitorTurns(turns) :
    /\ Cardinality(Later(VisitorTurns(turns), i)) < Len(done)
    /\ turns[i][2] = done[Len(done) - Cardinality(Later(VisitorTurns(turns), i))]

LEMMA FollowParts ==
  ASSUME NEW turns, NEW done
  PROVE  Follow(turns, done) <=>
           /\ InOrder(turns, done)
           /\ Len(turns) < MaxTurns => Cardinality(VisitorTurns(turns)) = Len(done)
BY DEF Follow, InOrder, Later

(* A message is finished: its turn is the visitor's last one. *)
Longer(turns, all, m) ==
  /\ \A i \in 1..Len(turns) : all[i] = turns[i]
  /\ Len(all) = Len(turns) + 1 \/ Len(all) = Len(turns) + 2
  /\ all[Len(turns) + 1] = <<"visitor", m>>
  /\ Len(all) = Len(turns) + 2 => all[Len(turns) + 2] = <<"ava", m>>

LEMMA VisitorTurnsLonger ==
  ASSUME NEW S, NEW turns \in Seq(S), NEW all \in Seq(S), NEW m, Longer(turns, all, m)
  PROVE  VisitorTurns(all) = VisitorTurns(turns) \cup {Len(turns) + 1}
<1> DEFINE n == Len(turns)
<1>1. n \in Nat /\ Len(all) \in Nat /\ DOMAIN turns = 1..n /\ DOMAIN all = 1..Len(all)
  OBVIOUS
<1>2. all[n + 1][1] = "visitor"
  BY DEF Longer
<1>3. Len(all) = n + 2 => all[n + 2][1] # "visitor"
  BY DEF Longer
<1>4. \A i \in 1..n : all[i] = turns[i]
  BY DEF Longer
<1>5. Len(all) = n + 1 \/ Len(all) = n + 2
  BY DEF Longer
<1> HIDE DEF n
<1>6. ASSUME NEW l \in Nat, l = n + 1 \/ l = n + 2
      PROVE  /\ \A i \in 1..l : i \in 1..n \/ i = n + 1 \/ (i = n + 2 /\ l = n + 2)
             /\ 1..n \subseteq 1..l /\ n + 1 \in 1..l
  <2>1. n \in Nat
    BY <1>1
  <2> QED
    BY <1>6, <2>1
<1>7. /\ \A i \in 1..Len(all) : \/ i \in 1..n \/ i = n + 1
                                 \/ (i = n + 2 /\ Len(all) = n + 2)
      /\ 1..n \subseteq 1..Len(all) /\ n + 1 \in 1..Len(all)
  BY <1>1, <1>5, <1>6
<1> QED
  BY <1>1, <1>2, <1>3, <1>4, <1>7 DEF VisitorTurns, n

LEMMA FollowLonger ==
  ASSUME NEW S, NEW turns \in Seq(S), NEW all \in Seq(S), NEW m, Longer(turns, all, m),
         NEW done \in Seq(Nat), m \in Nat, InOrder(turns, done)
  PROVE  /\ InOrder(all, Append(done, m))
         /\ Cardinality(VisitorTurns(turns)) = Len(done) =>
              Cardinality(VisitorTurns(all)) = Len(Append(done, m))
<1> DEFINE n == Len(turns)
           V == VisitorTurns(turns)
           W == V \cup {n + 1}
           more == Append(done, m)
           l == Len(done)
<1>1. n \in Nat /\ V \in SUBSET (1..n)
  BY DEF VisitorTurns
<1>2. VisitorTurns(all) = W
  BY VisitorTurnsLonger
<1>3. /\ l \in Nat /\ Len(more) = l + 1 /\ more[l + 1] = m
      /\ \A i \in 1..l : more[i] = done[i]
  OBVIOUS
<1>4. (\A i \in 1..n : all[i] = turns[i]) /\ all[n + 1][2] = m
  BY DEF Longer
<1>5. \A i \in V : /\ Cardinality(Later(V, i)) < l
                   /\ turns[i][2] = done[l - Cardinality(Later(V, i))]
  BY DEF InOrder
<1> HIDE DEF V, n, more, l
<1>6. /\ Cardinality(W) = Cardinality(V) + 1
      /\ Cardinality(Later(W, n + 1)) = 0
      /\ \A i \in V : Cardinality(Later(W, i)) = Cardinality(Later(V, i)) + 1
  BY <1>1, LaterByOne
<1>7. \A i \in V : Cardinality(Later(V, i)) \in Nat
  BY <1>1, LaterIsFinite
<1>8. ASSUME NEW i \in W
      PROVE  /\ Cardinality(Later(W, i)) < Len(more)
             /\ all[i][2] = more[Len(more) - Cardinality(Later(W, i))]
  <2>1. CASE i = n + 1
    BY <1>3, <1>4, <1>6, <2>1
  <2>2. CASE i \in V
    <3> DEFINE q == Cardinality(Later(V, i))
    <3>1. q \in Nat /\ q < l /\ turns[i][2] = done[l - q] /\ all[i] = turns[i]
      BY <1>1, <1>4, <1>5, <1>7, <2>2
    <3>2. Cardinality(Later(W, i)) = q + 1
      BY <1>6, <2>2
    <3> HIDE DEF q
    <3>3. l - q \in 1..l /\ (l + 1) - (q + 1) = l - q
      BY <1>3, <3>1
    <3> QED
      BY <1>3, <3>1, <3>2, <3>3
  <2> QED
    BY <2>1, <2>2
<1>9. Cardinality(V) = l => Cardinality(W) = Len(more)
  BY <1>3, <1>6
<1> HIDE DEF W
<1>10. InOrder(all, more)
  BY <1>2, <1>8 DEF InOrder
<1> QED
  BY <1>2, <1>9, <1>10 DEF V, more, l

LEMMA FollowRecent ==
  ASSUME NEW S, NEW all \in Seq(S), NEW done \in Seq(Nat), InOrder(all, done)
  PROVE  /\ InOrder(Recent(all), done) /\ Len(Recent(all)) <= MaxTurns
         /\ Len(Recent(all)) < MaxTurns => Recent(all) = all
<1>0. MaxTurns \in Nat \ {0} /\ Len(all) \in Nat /\ DOMAIN all = 1..Len(all)
  BY AvaChatAssumption DEF AvaChatAssumption
<1>1. CASE Len(all) <= MaxTurns
  BY <1>0, <1>1 DEF Recent
<1>2. CASE Len(all) > MaxTurns
  <2> DEFINE n == Len(all)
             d == n - MaxTurns
             last == Recent(all)
             V == VisitorTurns(all)
             W == MovedDown(V, n, d)
  <2>1. d \in 0..n /\ n - d = MaxTurns /\ n \in Nat /\ d \in Nat
    BY <1>0, <1>2
  <2>2. last = SubSeq(all, d + 1, n)
    BY <1>0, <1>2 DEF Recent
  <2>3. /\ last \in Seq(S) /\ Len(last) = MaxTurns
        /\ \A i \in 1..MaxTurns : last[i] = all[i + d]
    <3> HIDE DEF last, d
    <3>1. last \in Seq(S) /\ Len(last) = n - (d + 1) + 1
      BY <2>1, <2>2
    <3>2. \A i \in 1..(n - (d + 1) + 1) : last[i] = all[(d + 1) + i - 1]
      BY <2>1, <2>2
    <3>3. n - (d + 1) + 1 = MaxTurns
      <4> HIDE DEF n
      <4> QED
        BY <1>0, <2>1
    <3>4. \A i \in 1..MaxTurns : (d + 1) + i - 1 = i + d
      BY <2>1
    <3> QED
      BY <3>1, <3>2, <3>3, <3>4
  <2>4. V \in SUBSET (1..n)
    BY <1>0 DEF VisitorTurns
  <2>5. VisitorTurns(last) = W
    <3>1. DOMAIN last = 1..MaxTurns
      BY <2>3
    <3>2. \A i \in 1..MaxTurns : i + d \in DOMAIN all
      BY <1>0, <2>1
    <3> HIDE DEF last, d
    <3> QED
      BY <2>1, <2>3, <3>1, <3>2 DEF VisitorTurns, MovedDown
  <2>6. \A i \in V : /\ Cardinality(Later(V, i)) < Len(done)
                     /\ all[i][2] = done[Len(done) - Cardinality(Later(V, i))]
    BY DEF InOrder
  <2> HIDE DEF n, d, last, V
  <2>7. ASSUME NEW i \in W
        PROVE  /\ Cardinality(Later(W, i)) < Len(done)
               /\ last[i][2] = done[Len(done) - Cardinality(Later(W, i))]
    <3>1. i \in 1..MaxTurns /\ i + d \in V
      BY <2>1 DEF MovedDown
    <3>2. Cardinality(Later(W, i)) = Cardinality(Later(V, i + d))
      BY <2>1, <2>4, LaterMovedDown
    <3> HIDE DEF W
    <3> QED
      BY <2>3, <2>6, <3>1, <3>2
  <2> HIDE DEF W
  <2>8. InOrder(last, done)
    BY <2>5, <2>7 DEF InOrder
  <2>9. Len(last) <= MaxTurns /\ ~(Len(last) < MaxTurns)
    BY <1>0, <2>3
  <2> QED
    BY <2>8, <2>9 DEF last
<1> QED
  BY <1>0, <1>1, <1>2

-----------------------------------------------------------------------------
LEMMA ChatInit == Init => ChatInv
BY NothingIsKnown
   DEF Init, ChatInv, Typed, SaysInv, AloneInv, InFlight, Idle, Turns,
       FactsFollowMessages, PlainFactsRemembered, Names

(* Whether a chat is in flight shows in what kind of record it is.          *)
LEMMA FlightType ==
  ASSUME Typed, NEW c \in Slots
  PROVE  /\ InFlight(c) <=> chats[c] # Idle
         /\ InFlight(c) =>
              /\ chats[c] \in ChatAt("draft") \cup ChatAt("review") \cup ChatAt("repair")
              /\ chats[c].at \in {"draft", "review", "repair"}
              /\ chats[c].key \in Keys /\ chats[c].message \in Nat
              /\ chats[c].says \in Facts /\ chats[c].facts \in Facts
              /\ chats[c].read \in Turns /\ chats[c].checked \in BOOLEAN
BY DEF Typed, InFlight, Idle, ChatAt

(* A chat ends, with or without an answer.                                  *)
LEMMA FinishKeeps ==
  ASSUME ChatInv, NEW c \in Slots, InFlight(c), NEW approved \in BOOLEAN,
         Finish(c, approved), messages' = messages, overlapped' = overlapped
  PROVE  ChatInv'
<1> DEFINE key == chats[c].key
<1>1. /\ Typed /\ SaysInv /\ AloneInv
      /\ FactsFollowMessages /\ PlainFactsRemembered
  BY DEF ChatInv
<1>2. /\ key \in Keys /\ chats[c].message \in Nat
      /\ chats[c].says \in Facts /\ chats[c].facts \in Facts
      /\ sessions[key].facts \in Facts /\ sessions[key].turns \in Turns
      /\ stated[key] \in Facts
  BY <1>1, FlightType DEF Typed
<1>3. /\ chats' = [chats EXCEPT ![c] = Idle]
      /\ sessions' \in [Keys -> [turns : Turns, facts : Facts]]
      /\ stated' \in [Keys -> Facts] /\ finished' \in [Keys -> Seq(Nat)]
  BY <1>1, Finished
<1>4. \A k \in Keys :
        \/ sessions'[k] = NoSession /\ stated'[k] = NoFacts
        \/ /\ k # key
           /\ sessions'[k] = sessions[k] /\ stated'[k] = stated[k]
        \/ /\ k = key
           /\ sessions'[k].turns = FinishedTurns(c, approved)
           /\ sessions'[k].facts = FinishedFacts(c)
           /\ stated'[k] = FinishedStated(c)
  BY <1>1, Finished
<1>5. \A d \in Slots : chats'[d] = IF d = c THEN Idle ELSE chats[d]
  BY <1>1, <1>3 DEF Typed
<1>6. \A d \in Slots : InFlight(d)' <=> (d # c /\ InFlight(d))
  BY <1>5 DEF InFlight, Idle
<1>7. Typed'
  BY <1>1, <1>3, <1>5 DEF Typed
<1>9. SaysInv'
  BY <1>1, <1>5, <1>6 DEF SaysInv
<1>10. AloneInv'
  <2>1. ASSUME NEW d \in Slots, NEW e \in Slots, d # e, InFlight(d)', InFlight(e)',
               chats'[d].key = chats'[e].key
        PROVE  chats'[d].key \in overlapped'
    BY <1>1, <1>5, <1>6, <2>1 DEF AloneInv
  <2>2. ASSUME NEW d \in Slots, InFlight(d)', chats'[d].key \notin overlapped',
               NEW f \in PlainFacts, chats'[d].says[f] = Unknown,
               stated'[chats'[d].key][f] # Unknown
        PROVE  chats'[d].facts[f] \in {Unknown, stated'[chats'[d].key][f]}
    <3>1. d # c /\ InFlight(d) /\ chats'[d] = chats[d] /\ chats[d].key \in Keys
      BY <1>1, <1>5, <1>6, <2>2, FlightType
    <3>2. chats[d].key # key
      BY <1>1, <2>2, <3>1 DEF AloneInv
    <3>3. stated'[chats[d].key] # NoFacts
      BY <2>2, <3>1, NothingIsKnown DEF Names
    <3>4. stated'[chats[d].key] = stated[chats[d].key]
      BY <1>4, <3>1, <3>2, <3>3
    <3> QED
      BY <1>1, <2>2, <3>1, <3>4 DEF AloneInv
  <2> QED
    BY <2>1, <2>2 DEF AloneInv
(* What the message or the earlier ones said of a fact.                     *)
<1>11. ASSUME NEW f \in PlainFacts
       PROVE  /\ FinishedFacts(c)[f] = IF chats[c].facts[f] = Unknown
                                       THEN sessions[key].facts[f] ELSE chats[c].facts[f]
              /\ FinishedStated(c)[f] = IF chats[c].says[f] = Unknown
                                        THEN stated[key][f] ELSE chats[c].says[f]
  BY <1>2, MergeType, StoredType DEF FinishedFacts, FinishedStated, Names
<1>12. ASSUME NEW f \in PlainFacts, chats[c].says[f] # Unknown
       PROVE  chats[c].facts[f] = chats[c].says[f]
  BY <1>1, <1>12 DEF SaysInv, Names
<1>13. FactsFollowMessages'
  <2> SUFFICES ASSUME NEW k \in Keys, k \notin overlapped', NEW f \in PlainFacts,
                      stated'[k][f] # Unknown
               PROVE  sessions'[k].facts[f] = stated'[k][f]
    BY DEF FactsFollowMessages
  <2>1. CASE stated'[k] = NoFacts
    BY <2>1, NothingIsKnown DEF Names
  <2>2. CASE sessions'[k] = sessions[k] /\ stated'[k] = stated[k]
    BY <1>1, <2>2 DEF FactsFollowMessages
  <2>3. CASE /\ k = key /\ sessions'[k].facts = FinishedFacts(c)
             /\ stated'[k] = FinishedStated(c)
    <3>1. CASE chats[c].says[f] # Unknown
      BY <1>11, <1>12, <2>3, <3>1
    <3>2. CASE chats[c].says[f] = Unknown
      <4>1. stated[key][f] # Unknown
        BY <1>11, <2>3, <3>2
      <4>2. chats[c].facts[f] \in {Unknown, stated[key][f]}
        BY <1>1, <2>3, <3>2, <4>1 DEF AloneInv
      <4>3. sessions[key].facts[f] = stated[key][f]
        BY <1>1, <1>2, <2>3, <4>1 DEF FactsFollowMessages
      <4> QED
        BY <1>11, <2>3, <3>2, <4>2, <4>3
    <3> QED
      BY <3>1, <3>2
  <2> QED
    BY <1>4, <2>1, <2>2, <2>3
<1>14. PlainFactsRemembered'
  <2> SUFFICES ASSUME NEW k \in Keys, NEW f \in PlainFacts, stated'[k][f] # Unknown
               PROVE  sessions'[k].facts[f] # Unknown
    BY DEF PlainFactsRemembered
  <2>1. CASE stated'[k] = NoFacts
    BY <2>1, NothingIsKnown DEF Names
  <2>2. CASE sessions'[k] = sessions[k] /\ stated'[k] = stated[k]
    BY <1>1, <2>2 DEF PlainFactsRemembered
  <2>3. CASE /\ k = key /\ sessions'[k].facts = FinishedFacts(c)
             /\ stated'[k] = FinishedStated(c)
    <3>1. stated[key][f] # Unknown => sessions[key].facts[f] # Unknown
      BY <1>1, <1>2 DEF PlainFactsRemembered
    <3> QED
      BY <1>11, <1>12, <2>3, <3>1
  <2> QED
    BY <1>4, <2>1, <2>2, <2>3
<1> QED
  BY <1>7, <1>9, <1>10, <1>13, <1>14 DEF ChatInv

(* What stays of the conjuncts when nothing is remembered and one chat goes *)
(* on: it keeps what it knows.                                              *)
LEMMA GoingOnKeeps ==
  ASSUME ChatInv, NEW c \in Slots, InFlight(c), NEW next,
         next = Idle \/
           /\ next \in ChatAt("review") \cup ChatAt("repair")
           /\ next.key = chats[c].key /\ next.says = chats[c].says
           /\ next.facts = chats[c].facts,
         chats' = [chats EXCEPT ![c] = next],
         UNCHANGED <<sessions, messages, stated, finished, overlapped>>
  PROVE  ChatInv'
<1>1. /\ Typed /\ SaysInv /\ AloneInv
      /\ FactsFollowMessages /\ PlainFactsRemembered
  BY DEF ChatInv
<1>2. \A d \in Slots : chats'[d] = IF d = c THEN next ELSE chats[d]
  BY <1>1 DEF Typed
<1>3. Typed'
  BY <1>1, <1>2 DEF Typed
<1>4. \A d \in Slots : InFlight(d)' => /\ InFlight(d)
                                      /\ chats'[d].key = chats[d].key
                                      /\ chats'[d].says = chats[d].says
                                      /\ chats'[d].facts = chats[d].facts
  BY <1>2 DEF InFlight, Idle
<1>6. SaysInv'
  BY <1>1, <1>4 DEF SaysInv
<1>7. AloneInv'
  BY <1>1, <1>4 DEF AloneInv
<1>8. FactsFollowMessages' /\ PlainFactsRemembered'
  BY <1>1 DEF FactsFollowMessages, PlainFactsRemembered
<1> QED
  BY <1>3, <1>6, <1>7, <1>8 DEF ChatInv

LEMMA ChatKeeps ==
  ASSUME ChatInv, NEW c \in Slots, Chat(c)
  PROVE  ChatInv'
<1>1. /\ Typed /\ SaysInv /\ AloneInv
      /\ FactsFollowMessages /\ PlainFactsRemembered
  BY DEF ChatInv
<1>2. PICK k \in Keys, says \in Facts :
        /\ chats' = [chats EXCEPT ![c] =
             [at |-> "draft", key |-> k, message |-> messages + 1, says |-> says,
              facts |-> Merge(sessions[k].facts, says),
              read |-> sessions[k].turns, checked |-> FALSE]]
        /\ overlapped' = overlapped \cup
             {x \in {k} : \E d \in Slots : InFlight(d) /\ chats[d].key = k}
  BY DEF Chat
<1> DEFINE new == [at |-> "draft", key |-> k, message |-> messages + 1, says |-> says,
                   facts |-> Merge(sessions[k].facts, says),
                   read |-> sessions[k].turns, checked |-> FALSE]
<1>3. /\ messages' = messages + 1 /\ ~InFlight(c)
      /\ UNCHANGED <<sessions, recency, finished, stated>>
  BY DEF Chat
<1>4. sessions[k].facts \in Facts /\ sessions[k].turns \in Turns
  BY <1>1 DEF Typed
<1>5. \A d \in Slots : chats'[d] = IF d = c THEN new ELSE chats[d]
  BY <1>1, <1>2 DEF Typed
<1>6. new \in ChatAt("draft")
  BY <1>1, <1>4, MergeType DEF ChatAt, Typed
<1>7. /\ new.at = "draft" /\ new.key = k /\ new.says = says
      /\ new.facts = Merge(sessions[k].facts, says)
  OBVIOUS
<1>8. chats' = [chats EXCEPT ![c] = new]
  BY <1>2
<1> HIDE DEF new
<1>9. Typed'
  BY <1>1, <1>3, <1>6, <1>8 DEF Typed
<1>11. \A d \in Slots : d # c => (InFlight(d)' <=> InFlight(d)) /\ chats'[d] = chats[d]
  BY <1>5 DEF InFlight
<1>12. \A f \in Names : new.facts[f] = IF says[f] = Unknown THEN sessions[k].facts[f]
                                       ELSE says[f]
  BY <1>4, <1>7, MergeType
<1>13. SaysInv'
  BY <1>1, <1>5, <1>7, <1>11, <1>12 DEF SaysInv
<1>14. AloneInv'
  <2>1. ASSUME NEW d \in Slots, d # c, InFlight(d), chats[d].key = k
        PROVE  k \in overlapped'
    BY <1>2, <2>1
  <2>2. overlapped \subseteq overlapped'
    BY <1>2
  <2>3. ASSUME NEW d \in Slots, NEW e \in Slots, d # e, InFlight(d)', InFlight(e)',
               chats'[d].key = chats'[e].key
        PROVE  chats'[d].key \in overlapped'
    BY <1>1, <1>5, <1>7, <1>11, <2>1, <2>2, <2>3 DEF AloneInv
  <2>4. ASSUME NEW d \in Slots, InFlight(d)', chats'[d].key \notin overlapped',
               NEW f \in PlainFacts, chats'[d].says[f] = Unknown,
               stated'[chats'[d].key][f] # Unknown
        PROVE  chats'[d].facts[f] \in {Unknown, stated'[chats'[d].key][f]}
    <3>1. CASE d = c
      <4>1. chats'[d].key = k /\ k \notin overlapped /\ stated[k][f] # Unknown
        BY <1>3, <1>5, <1>7, <2>2, <2>4, <3>1
      <4>2. chats'[d].facts[f] = sessions[k].facts[f]
        BY <1>5, <1>7, <1>12, <2>4, <3>1 DEF Names
      <4>3. sessions[k].facts[f] = stated[k][f]
        BY <1>1, <4>1 DEF FactsFollowMessages
      <4> QED
        BY <1>3, <4>1, <4>2, <4>3
    <3>2. CASE d # c
      BY <1>1, <1>3, <1>11, <2>2, <2>4, <3>2 DEF AloneInv
    <3> QED
      BY <3>1, <3>2
  <2> QED
    BY <2>3, <2>4 DEF AloneInv
<1>15. FactsFollowMessages' /\ PlainFactsRemembered'
  BY <1>1, <1>2, <1>3 DEF FactsFollowMessages, PlainFactsRemembered
<1> QED
  BY <1>9, <1>13, <1>14, <1>15 DEF ChatInv

LEMMA ReviewKeeps ==
  ASSUME ChatInv, NEW c \in Slots, ReviewReturns(c)
  PROVE  ChatInv'
<1>1. Typed /\ InFlight(c) /\ messages' = messages /\ overlapped' = overlapped
  BY DEF ChatInv, ReviewReturns, InFlight
<1>2. PICK authentic \in BOOLEAN, good \in BOOLEAN :
        \/ Approved(authentic, good) /\ Finish(c, TRUE)
        \/ /\ ~Approved(authentic, good)
           /\ chats' = [chats EXCEPT ![c].at = "repair", ![c].checked = authentic]
           /\ UNCHANGED <<sessions, recency, finished, stated>>
  BY DEF ReviewReturns
<1>4. CASE Approved(authentic, good) /\ Finish(c, TRUE)
  BY <1>1, <1>4, FinishKeeps
<1>5. CASE /\ chats' = [chats EXCEPT ![c].at = "repair", ![c].checked = authentic]
           /\ UNCHANGED <<sessions, recency, finished, stated>>
  <2> DEFINE next == [chats[c] EXCEPT !.at = "repair", !.checked = authentic]
  <2>1. chats' = [chats EXCEPT ![c] = next]
    BY <1>5
  <2>2. /\ next \in ChatAt("repair")
        /\ next.key = chats[c].key /\ next.says = chats[c].says
        /\ next.facts = chats[c].facts /\ next.message = chats[c].message
    BY <1>1, FlightType DEF ChatAt
  <2> HIDE DEF next
  <2> QED
    BY <1>1, <1>5, <2>1, <2>2, GoingOnKeeps
<1> QED
  BY <1>2, <1>4, <1>5

LEMMA ExpireKeeps ==
  ASSUME ChatInv, Expire
  PROVE  ChatInv'
<1>1. /\ Typed /\ SaysInv /\ AloneInv
      /\ FactsFollowMessages /\ PlainFactsRemembered
  BY DEF ChatInv
<1>2. UNCHANGED <<chats, messages, overlapped>>
  BY DEF Expire
<1>3. \A k \in Keys : \/ sessions'[k] = NoSession /\ stated'[k] = NoFacts
                      \/ sessions'[k] = sessions[k] /\ stated'[k] = stated[k]
  BY <1>1 DEF Expire, Typed
<1>4. Typed'
  <2>1. sessions' \in [Keys -> [turns : Turns, facts : Facts]]
    BY <1>1, NothingIsKnown DEF Expire, Typed
  <2>2. stated' \in [Keys -> Facts]
    BY <1>1, NothingIsKnown DEF Expire, Typed
  <2>3. finished' \in [Keys -> Seq(Nat)]
    <3>1. PICK k : finished' = [finished EXCEPT ![k] = <<>>]
      BY DEF Expire
    <3>2. \A x \in Keys : finished'[x] \in {finished[x], <<>>}
      BY <1>1, <3>1 DEF Typed
    <3>3. <<>> \in Seq(Nat) /\ \A x \in Keys : finished[x] \in Seq(Nat)
      BY <1>1 DEF Typed
    <3>4. finished' = [x \in Keys |-> finished'[x]]
      BY <1>1, <3>1 DEF Typed
    <3> QED
      BY <3>2, <3>3, <3>4
  <2> QED
    BY <1>1, <1>2, <2>1, <2>2, <2>3 DEF Typed
<1>5. \A k \in Keys : \A f \in PlainFacts : stated'[k][f] # Unknown =>
        sessions'[k] = sessions[k] /\ stated'[k] = stated[k]
  BY <1>3, NothingIsKnown DEF Names
<1>7. SaysInv'
  BY <1>1, <1>2 DEF SaysInv, InFlight
<1>8. AloneInv'
  <2>1. \A d \in Slots : InFlight(d) => chats[d].key \in Keys
    BY <1>1, FlightType
  <2> QED
    BY <1>1, <1>2, <1>5, <2>1 DEF AloneInv, InFlight
<1>9. FactsFollowMessages' /\ PlainFactsRemembered'
  BY <1>1, <1>2, <1>5 DEF FactsFollowMessages, PlainFactsRemembered
<1> QED
  BY <1>4, <1>7, <1>8, <1>9 DEF ChatInv

LEMMA ChatStep == ChatInv /\ [Next]_vars => ChatInv'
<1> SUFFICES ASSUME ChatInv, [Next]_vars PROVE ChatInv'
  OBVIOUS
<1>1. Typed
  BY DEF ChatInv
<1>2. ASSUME NEW c \in Slots, DraftFails(c) PROVE ChatInv'
  <2>1. InFlight(c) /\ chats' = [chats EXCEPT ![c] = Idle]
    BY <1>2 DEF DraftFails, InFlight
  <2>2. UNCHANGED <<sessions, messages, stated, finished, overlapped>>
    BY <1>2 DEF DraftFails
  <2> QED
    BY <2>1, <2>2, GoingOnKeeps
<1>3. ASSUME NEW c \in Slots, DraftArrives(c) PROVE ChatInv'
  <2> DEFINE next == [chats[c] EXCEPT !.at = "review"]
  <2>1. InFlight(c) /\ chats' = [chats EXCEPT ![c] = next]
    BY <1>3 DEF DraftArrives, InFlight
  <2>2. UNCHANGED <<sessions, messages, stated, finished, overlapped>>
    BY <1>3 DEF DraftArrives
  <2>3. /\ next \in ChatAt("review") /\ next.at = "review"
        /\ next.key = chats[c].key /\ next.says = chats[c].says
        /\ next.facts = chats[c].facts
    BY <1>1, <2>1, FlightType DEF ChatAt
  <2> HIDE DEF next
  <2> QED
    BY <2>1, <2>2, <2>3, GoingOnKeeps
<1>4. ASSUME NEW c \in Slots, RepairReturns(c) PROVE ChatInv'
  <2>1. InFlight(c) /\ messages' = messages /\ overlapped' = overlapped
    BY <1>4 DEF RepairReturns, InFlight
  <2>2. PICK good \in BOOLEAN : Finish(c, Approved(chats[c].checked, good))
    BY <1>4 DEF RepairReturns
  <2>3. Approved(chats[c].checked, good) \in BOOLEAN
    BY DEF Approved
  <2> QED
    BY <2>1, <2>2, <2>3, FinishKeeps
<1>5. CASE UNCHANGED vars
  BY <1>5 DEF vars, ChatInv, Typed, SaysInv, AloneInv, InFlight,
              FactsFollowMessages, PlainFactsRemembered
<1> QED
  BY <1>2, <1>3, <1>4, <1>5, ChatKeeps, ReviewKeeps, ExpireKeeps DEF Next

LEMMA ChatAlways == Spec => []ChatInv
BY ChatInit, ChatStep, PTL DEF Spec

-----------------------------------------------------------------------------
(* What every session keeps of the messages that finished in it: no more    *)
(* turns than there is room for, each of a message that was sent, and the   *)
(* visitor's turns the last of those messages.                              *)
Kept(turns, done, sent) ==
  /\ Len(turns) <= MaxTurns /\ Follow(turns, done)
  /\ \A i \in 1..Len(turns) : turns[i][2] \in 1..sent

UsedInv ==
  /\ Listed(recency, Keys) /\ Len(recency) <= MaxSessions
  /\ \A k \in Keys : k \notin Range(recency) => sessions[k] = NoSession

KeptInv ==
  /\ UsedInv
  /\ \A k \in Keys : Kept(sessions[k].turns, finished[k], messages)
  /\ \A c \in Slots : InFlight(c) => chats[c].message \in 1..messages
  /\ messages \in 0..MaxMessages

LEMMA NothingIsKept ==
  ASSUME NEW sent \in Nat
  PROVE  Kept(<<>>, <<>>, sent)
<1>1. VisitorTurns(<<>>) = {} /\ Len(<<>>) = 0 /\ Cardinality({}) = 0
  BY FS_EmptySet DEF VisitorTurns
<1>2. MaxTurns \in Nat \ {0} /\ 1..0 = {}
  BY AvaChatAssumption DEF AvaChatAssumption
<1>3. Follow(<<>>, <<>>)
  BY <1>1 DEF Follow
<1> QED
  BY <1>1, <1>2, <1>3 DEF Kept

(* One more message is sent. *)
LEMMA KeptLater ==
  ASSUME NEW turns, NEW done, NEW sent \in Nat, Kept(turns, done, sent)
  PROVE  Kept(turns, done, sent + 1)
<1>1. \A m \in 1..sent : m \in 1..(sent + 1)
  OBVIOUS
<1> QED
  BY <1>1 DEF Kept

LEMMA SaidIsLonger ==
  ASSUME NEW turns \in Turns, NEW chat, chat.message \in Nat, NEW approved \in BOOLEAN
  PROVE  /\ turns \o SaidBy(chat, approved) \in Turns
         /\ Longer(turns, turns \o SaidBy(chat, approved), chat.message)
<1> DEFINE T == {"visitor", "ava"} \X Nat
           m == chat.message
           said == <<"visitor", m>>
           answered == <<"ava", m>>
           new == SaidBy(chat, approved)
           n == Len(turns)
<1>1. said \in T /\ answered \in T /\ turns \in Seq(T) /\ n \in Nat
  BY DEF Turns
<1> HIDE DEF T, said, answered
<1>2. \/ /\ new \in Seq(T) /\ Len(new) = 1 /\ new[1] = said
      \/ /\ new \in Seq(T) /\ Len(new) = 2 /\ new[1] = said /\ new[2] = answered
  <2>1. CASE approved
    <3>1. new = <<said>> \o <<answered>>
      BY <2>1 DEF SaidBy, said, answered
    <3>2. /\ <<said>> \in Seq(T) /\ Len(<<said>>) = 1 /\ <<said>>[1] = said
          /\ <<answered>> \in Seq(T) /\ Len(<<answered>>) = 1
          /\ <<answered>>[1] = answered
      BY <1>1
    <3> QED
      BY <3>1, <3>2, ConcatProperties
  <2>2. CASE ~approved
    <3>1. new = <<said>> \o <<>>
      BY <2>2 DEF SaidBy, said
    <3>2. <<said>> \o <<>> = <<said>> /\ <<said>> \in Seq(T)
      BY <1>1
    <3> QED
      BY <3>1, <3>2
  <2> QED
    BY <2>1, <2>2
<1> DEFINE all == turns \o new
<1> HIDE DEF new
<1>3. /\ all \in Seq(T) /\ Len(all) = n + Len(new)
      /\ \A i \in 1..(n + Len(new)) : all[i] = IF i <= n THEN turns[i] ELSE new[i - n]
  BY <1>1, <1>2, ConcatProperties
<1> HIDE DEF all, n
<1>4. /\ \A i \in 1..n : i \in 1..(n + 1) /\ i \in 1..(n + 2) /\ i <= n
      /\ n + 1 \in 1..(n + 1) /\ n + 1 \in 1..(n + 2) /\ ~(n + 1 <= n) /\ (n + 1) - n = 1
      /\ n + 2 \in 1..(n + 2) /\ ~(n + 2 <= n) /\ (n + 2) - n = 2
      /\ n + 1 # n + 2
  BY <1>1
<1>5. /\ \A i \in 1..n : all[i] = turns[i]
      /\ Len(all) = n + 1 \/ Len(all) = n + 2
      /\ all[n + 1] = said
      /\ Len(all) = n + 2 => all[n + 2] = answered
  BY <1>2, <1>3, <1>4
<1>6. Longer(turns, all, m)
  BY <1>5 DEF Longer, n, said, answered
<1>7. all \in Turns
  BY <1>3 DEF Turns, T
<1> QED
  BY <1>6, <1>7 DEF all, new

(* A message that finishes is the last of what its session keeps. *)
LEMMA KeptFinished ==
  ASSUME NEW turns \in Turns, NEW done \in Seq(Nat), NEW sent \in Nat,
         Kept(turns, done, sent), NEW chat, chat.message \in 1..sent,
         NEW approved \in BOOLEAN
  PROVE  Kept(Recent(turns \o SaidBy(chat, approved)), Append(done, chat.message), sent)
<1> DEFINE T == {"visitor", "ava"} \X Nat
           m == chat.message
           all == turns \o SaidBy(chat, approved)
           more == Append(done, m)
           last == Recent(all)
<1>1. m \in Nat /\ m \in 1..sent
  OBVIOUS
<1>2. turns \in Seq(T) /\ all \in Seq(T) /\ Longer(turns, all, m)
  BY <1>1, SaidIsLonger DEF Turns
<1>3. InOrder(turns, done)
  BY FollowParts DEF Kept
<1>4. more \in Seq(Nat)
  BY <1>1
<1> HIDE DEF all, T
<1>5. /\ InOrder(all, more)
      /\ Cardinality(VisitorTurns(turns)) = Len(done) =>
           Cardinality(VisitorTurns(all)) = Len(more)
  BY <1>1, <1>2, <1>3, FollowLonger
<1> HIDE DEF more, m
<1>6. /\ InOrder(last, more) /\ Len(last) <= MaxTurns
      /\ Len(last) < MaxTurns => last = all
  BY <1>2, <1>4, <1>5, FollowRecent
<1>7. /\ last \in Seq(T)
      /\ \A i \in 1..Len(last) : \E j \in 1..Len(all) : last[i] = all[j]
  BY <1>2, RecentIsPart
<1> HIDE DEF last
<1>8. Follow(last, more)
  <2>1. ASSUME Len(last) < MaxTurns
        PROVE  Cardinality(VisitorTurns(last)) = Len(more)
    <3>1. last = all /\ Len(all) < MaxTurns
      BY <1>6, <2>1
    <3>2. Len(turns) \in Nat /\ Len(all) \in Nat /\ MaxTurns \in Nat
      BY <1>2, AvaChatAssumption DEF AvaChatAssumption
    <3>3. Len(all) = Len(turns) + 1 \/ Len(all) = Len(turns) + 2
      BY <1>2 DEF Longer
    <3>4. Len(turns) < MaxTurns
      BY <3>1, <3>2, <3>3
    <3>5. Cardinality(VisitorTurns(turns)) = Len(done)
      BY <3>4, FollowParts DEF Kept
    <3> QED
      BY <1>5, <3>1, <3>5
  <2> QED
    BY <1>6, <2>1, FollowParts
<1>9. \A j \in 1..Len(all) : all[j][2] \in 1..sent
  <2> DEFINE n == Len(turns)
  <2>1. n \in Nat /\ Len(all) \in Nat
    BY <1>2
  <2>2. /\ \A i \in 1..n : all[i] = turns[i] /\ turns[i][2] \in 1..sent
        /\ Len(all) = n + 1 \/ Len(all) = n + 2
        /\ all[n + 1][2] = m
        /\ Len(all) = n + 2 => all[n + 2][2] = m
    BY <1>2 DEF Longer, Kept
  <2> HIDE DEF n
  <2>3. \A j \in 1..Len(all) : j \in 1..n \/ j = n + 1 \/ (j = n + 2 /\ Len(all) = n + 2)
    BY <2>1, <2>2
  <2> QED
    BY <1>1, <2>2, <2>3
<1>10. Kept(last, more, sent)
  BY <1>6, <1>7, <1>8, <1>9 DEF Kept
<1> QED
  BY <1>10 DEF last, all, more, m

LEMMA KeptInit == Init => KeptInv
<1> SUFFICES ASSUME Init PROVE KeptInv
  OBVIOUS
<1>1. /\ sessions = [k \in Keys |-> NoSession] /\ recency = <<>> /\ messages = 0
      /\ finished = [k \in Keys |-> <<>>] /\ chats = [c \in Slots |-> Idle]
  BY DEF Init
<1>2. /\ MaxSessions \in Nat /\ MaxMessages \in Nat /\ NoSession.turns = <<>>
      /\ Len(<<>>) = 0 /\ <<>> \in Seq(Keys)
  BY AvaChatAssumption, NothingIsKnown DEF AvaChatAssumption
<1>3. UsedInv
  BY <1>1, <1>2 DEF UsedInv, Listed, IsInjective
<1>4. Kept(<<>>, <<>>, messages)
  BY <1>1, NothingIsKept
<1> QED
  BY <1>1, <1>2, <1>3, <1>4 DEF KeptInv, InFlight, Idle

(* The session that was used is the last in line, and the first one goes    *)
(* when there are too many.                                                 *)
LEMMA FinishUsed ==
  ASSUME UsedInv, Typed, NEW c \in Slots, InFlight(c), NEW approved \in BOOLEAN,
         Finish(c, approved)
  PROVE  UsedInv'
<1> DEFINE key == chats[c].key
           rest == RemoveFirst(recency, key)
           used == Append(rest, key)
<1>1. key \in Keys
  BY FlightType
<1>2. /\ Listed(recency, Keys) /\ Len(recency) <= MaxSessions
      /\ MaxSessions \in Nat /\ MaxSessions >= 1
  BY AvaChatAssumption DEF UsedInv, AvaChatAssumption
<1>3. recency' = IF Len(used) > MaxSessions THEN Tail(used) ELSE used
  BY DEF Finish
<1> HIDE DEF key
<1>4. /\ Listed(rest, Keys) /\ Len(rest) <= Len(recency)
      /\ \A i \in 1..Len(rest) : rest[i] # key
  BY <1>1, <1>2, Removed
<1> HIDE DEF rest
<1>5. Listed(used, Keys) /\ Len(used) = Len(rest) + 1
  BY <1>1, <1>4, Appended
<1>6. Len(rest) \in Nat /\ Len(used) \in Nat /\ Len(recency) \in Nat
  BY <1>2, <1>4, <1>5 DEF Listed
<1> HIDE DEF used
<1>7. Listed(recency', Keys) /\ Len(recency') <= MaxSessions
  <2>1. CASE Len(used) > MaxSessions
    <3>1. used # <<>>
      BY <1>2, <1>6, <2>1
    <3>2. Listed(Tail(used), Keys) /\ Len(Tail(used)) = Len(used) - 1
      BY <1>5, <3>1, Tailed
    <3>3. Len(used) - 1 <= MaxSessions
      BY <1>2, <1>4, <1>5, <1>6
    <3> QED
      BY <1>3, <2>1, <3>2, <3>3
  <2>2. CASE ~(Len(used) > MaxSessions)
    <3>1. Len(used) <= MaxSessions
      BY <1>2, <1>6, <2>2
    <3> QED
      BY <1>3, <1>5, <2>2, <3>1
  <2> QED
    BY <2>1, <2>2
<1>8. \A k \in Keys : k \notin Range(recency') => sessions'[k] = NoSession
  BY Finished
<1> QED
  BY <1>7, <1>8 DEF UsedInv

LEMMA FinishKept ==
  ASSUME Typed, KeptInv, NEW c \in Slots, InFlight(c), NEW approved \in BOOLEAN,
         Finish(c, approved), messages' = messages
  PROVE  KeptInv'
<1> DEFINE key == chats[c].key
           now == sessions[key].turns
           done == finished[key]
<1>1. /\ UsedInv /\ messages \in Nat /\ messages \in 0..MaxMessages
      /\ chats[c].message \in 1..messages
      /\ key \in Keys /\ now \in Turns /\ done \in Seq(Nat)
      /\ \A k \in Keys : Kept(sessions[k].turns, finished[k], messages)
  BY FlightType DEF KeptInv, Typed
<1>2. UsedInv'
  BY <1>1, FinishUsed
<1>3. Kept(Recent(now \o SaidBy(chats[c], approved)), Append(done, chats[c].message), messages)
  BY <1>1, KeptFinished
<1>4. FinishedTurns(c, approved) = Recent(now \o SaidBy(chats[c], approved))
  BY DEF FinishedTurns, TurnsNow
<1>5. \A k \in Keys :
        \/ sessions'[k] = NoSession /\ finished'[k] = <<>>
        \/ sessions'[k] = sessions[k] /\ finished'[k] = finished[k]
        \/ /\ k = key /\ sessions'[k].turns = FinishedTurns(c, approved)
           /\ finished'[k] = Append(finished[k], chats[c].message)
  BY Finished
<1>6. Kept(<<>>, <<>>, messages) /\ NoSession.turns = <<>>
  BY <1>1, NothingIsKept, NothingIsKnown
<1> HIDE DEF now
<1>7. ASSUME NEW k \in Keys PROVE Kept(sessions'[k].turns, finished'[k], messages)
  BY <1>1, <1>3, <1>4, <1>5, <1>6
<1>8. \A d \in Slots : chats'[d] = IF d = c THEN Idle ELSE chats[d]
  BY Finished DEF Typed
<1>9. \A d \in Slots : InFlight(d)' => chats'[d].message \in 1..messages
  BY <1>8 DEF KeptInv, InFlight, Idle
<1> QED
  BY <1>1, <1>2, <1>7, <1>9 DEF KeptInv

(* A chat that goes on, or ends in nothing, has the message it had.         *)
LEMMA GoingOnKept ==
  ASSUME KeptInv, UNCHANGED <<sessions, recency, finished, messages>>,
         \A d \in Slots : InFlight(d)' => InFlight(d) /\ chats'[d].message = chats[d].message
  PROVE  KeptInv'
BY DEF KeptInv, UsedInv

LEMMA ChatKept ==
  ASSUME Typed, KeptInv, NEW c \in Slots, Chat(c)
  PROVE  KeptInv'
<1>0. PICK k \in Keys, says \in Facts :
        chats' = [chats EXCEPT ![c] =
          [at |-> "draft", key |-> k, message |-> messages + 1, says |-> says,
           facts |-> Merge(sessions[k].facts, says),
           read |-> sessions[k].turns, checked |-> FALSE]]
  BY DEF Chat
<1> DEFINE next ==
      [at |-> "draft", key |-> k, message |-> messages + 1, says |-> says,
       facts |-> Merge(sessions[k].facts, says),
       read |-> sessions[k].turns, checked |-> FALSE]
<1>1. chats' = [chats EXCEPT ![c] = next] /\ next.message = messages + 1
  BY <1>0
<1> HIDE DEF next
<1>2. /\ messages' = messages + 1 /\ messages < MaxMessages
      /\ UNCHANGED <<sessions, recency, finished>>
  BY DEF Chat
<1>3. messages \in Nat /\ messages \in 0..MaxMessages /\ MaxMessages \in Nat
  BY AvaChatAssumption DEF KeptInv, Typed, AvaChatAssumption
<1>4. /\ messages' \in 0..MaxMessages /\ messages + 1 \in 1..messages'
      /\ \A m \in 1..messages : m \in 1..messages'
  BY <1>2, <1>3
<1>5. \A d \in Slots : chats'[d] = IF d = c THEN next ELSE chats[d]
  BY <1>1 DEF Typed
<1>6. \A d \in Slots : InFlight(d)' => chats'[d].message \in 1..messages'
  BY <1>1, <1>4, <1>5 DEF KeptInv, InFlight
<1>7. ASSUME NEW x \in Keys PROVE Kept(sessions'[x].turns, finished'[x], messages')
  BY <1>2, <1>3, KeptLater DEF KeptInv
<1>8. UsedInv'
  BY <1>2 DEF KeptInv, UsedInv
<1> QED
  BY <1>4, <1>6, <1>7, <1>8 DEF KeptInv

LEMMA ExpireKept ==
  ASSUME Typed, KeptInv, Expire
  PROVE  KeptInv'
<1> DEFINE first == Head(recency)
           rest == Tail(recency)
<1>1. /\ recency # <<>> /\ recency' = rest
      /\ sessions' = [sessions EXCEPT ![first] = NoSession]
      /\ finished' = [finished EXCEPT ![first] = <<>>]
      /\ UNCHANGED <<chats, messages>>
  BY DEF Expire
<1>2. /\ Listed(recency, Keys) /\ Len(recency) <= MaxSessions
      /\ recency \in Seq(Keys) /\ DOMAIN recency = 1..Len(recency)
      /\ MaxSessions \in Nat /\ Len(recency) \in Nat
  BY AvaChatAssumption DEF KeptInv, UsedInv, Listed, AvaChatAssumption
<1>3. /\ Listed(rest, Keys) /\ Len(rest) = Len(recency) - 1
      /\ \A i \in 1..Len(recency) : i = 1 \/ recency[i] \in Range(rest)
      /\ 1 \in 1..Len(recency) /\ first = recency[1]
  BY <1>1, <1>2, Tailed
<1> HIDE DEF first, rest
<1>4. first \in Keys /\ \A k \in Range(recency) : k = first \/ k \in Range(rest)
  BY <1>2, <1>3 DEF Range
<1>5. \A k \in Keys :
        /\ sessions'[k] = IF k = first THEN NoSession ELSE sessions[k]
        /\ finished'[k] = IF k = first THEN <<>> ELSE finished[k]
  BY <1>1, <1>4 DEF Typed
<1>6. UsedInv'
  <2>1. Len(rest) <= MaxSessions
    BY <1>2, <1>3
  <2>2. \A k \in Keys : k \notin Range(rest) => sessions'[k] = NoSession
    BY <1>4, <1>5 DEF KeptInv, UsedInv
  <2> QED
    BY <1>1, <1>3, <2>1, <2>2 DEF UsedInv
<1>7. Kept(<<>>, <<>>, messages) /\ NoSession.turns = <<>>
  BY NothingIsKept, NothingIsKnown DEF Typed
<1>8. ASSUME NEW k \in Keys PROVE Kept(sessions'[k].turns, finished'[k], messages)
  BY <1>5, <1>7 DEF KeptInv
<1> QED
  BY <1>1, <1>6, <1>8 DEF KeptInv, InFlight

LEMMA KeptStep == ChatInv /\ KeptInv /\ [Next]_vars => KeptInv'
<1> SUFFICES ASSUME ChatInv, KeptInv, [Next]_vars PROVE KeptInv'
  OBVIOUS
<1>1. Typed
  BY DEF ChatInv
<1>2. ASSUME NEW c \in Slots, DraftFails(c) PROVE KeptInv'
  <2>1. /\ chats' = [chats EXCEPT ![c] = Idle]
        /\ UNCHANGED <<sessions, recency, finished, messages>>
    BY <1>2 DEF DraftFails
  <2>2. \A d \in Slots : chats'[d] = IF d = c THEN Idle ELSE chats[d]
    BY <1>1, <2>1 DEF Typed
  <2>3. \A d \in Slots : InFlight(d)' =>
          InFlight(d) /\ chats'[d].message = chats[d].message
    BY <2>2 DEF InFlight, Idle
  <2> QED
    BY <2>1, <2>3, GoingOnKept
<1>3. ASSUME NEW c \in Slots, DraftArrives(c) PROVE KeptInv'
  <2> DEFINE next == [chats[c] EXCEPT !.at = "review"]
  <2>1. /\ chats' = [chats EXCEPT ![c] = next] /\ InFlight(c)
        /\ UNCHANGED <<sessions, recency, finished, messages>>
    BY <1>3 DEF DraftArrives, InFlight
  <2>2. next.message = chats[c].message
    BY <1>1, <2>1, FlightType DEF ChatAt
  <2> HIDE DEF next
  <2>3. \A d \in Slots : chats'[d] = IF d = c THEN next ELSE chats[d]
    BY <1>1, <2>1 DEF Typed
  <2>4. \A d \in Slots : InFlight(d)' =>
          InFlight(d) /\ chats'[d].message = chats[d].message
    BY <2>1, <2>2, <2>3 DEF InFlight
  <2> QED
    BY <2>1, <2>4, GoingOnKept
<1>4. ASSUME NEW c \in Slots, ReviewReturns(c) PROVE KeptInv'
  <2>1. InFlight(c) /\ messages' = messages
    BY <1>4 DEF ReviewReturns, InFlight
  <2>2. PICK authentic \in BOOLEAN :
          \/ Finish(c, TRUE)
          \/ /\ chats' = [chats EXCEPT ![c].at = "repair", ![c].checked = authentic]
             /\ UNCHANGED <<sessions, recency, finished, stated>>
    BY <1>4 DEF ReviewReturns
  <2>3. CASE Finish(c, TRUE)
    BY <1>1, <2>1, <2>3, FinishKept
  <2>4. CASE /\ chats' = [chats EXCEPT ![c].at = "repair", ![c].checked = authentic]
             /\ UNCHANGED <<sessions, recency, finished, stated>>
    <3> DEFINE next == [chats[c] EXCEPT !.at = "repair", !.checked = authentic]
    <3>1. chats' = [chats EXCEPT ![c] = next]
      BY <2>4
    <3>2. next.message = chats[c].message
      BY <1>1, <2>1, FlightType DEF ChatAt
    <3> HIDE DEF next
    <3>3. \A d \in Slots : chats'[d] = IF d = c THEN next ELSE chats[d]
      BY <1>1, <3>1 DEF Typed
    <3>4. \A d \in Slots : InFlight(d)' =>
            InFlight(d) /\ chats'[d].message = chats[d].message
      BY <2>1, <3>2, <3>3 DEF InFlight
    <3> QED
      BY <2>1, <2>4, <3>4, GoingOnKept
  <2> QED
    BY <2>2, <2>3, <2>4
<1>5. ASSUME NEW c \in Slots, RepairReturns(c) PROVE KeptInv'
  <2>1. InFlight(c) /\ messages' = messages
    BY <1>5 DEF RepairReturns, InFlight
  <2>2. PICK good \in BOOLEAN : Finish(c, Approved(chats[c].checked, good))
    BY <1>5 DEF RepairReturns
  <2>3. Approved(chats[c].checked, good) \in BOOLEAN
    BY DEF Approved
  <2> QED
    BY <1>1, <2>1, <2>2, <2>3, FinishKept
<1>6. CASE UNCHANGED vars
  BY <1>6 DEF vars, KeptInv, UsedInv, InFlight
<1> QED
  BY <1>1, <1>2, <1>3, <1>4, <1>5, <1>6, ChatKept, ExpireKept DEF Next

LEMMA KeptAlways == Spec => [](ChatInv /\ KeptInv)
<1>1. Init => ChatInv /\ KeptInv
  BY ChatInit, KeptInit
<1>2. ChatInv /\ KeptInv /\ [Next]_vars => (ChatInv /\ KeptInv)'
  BY ChatStep, KeptStep
<1> QED
  BY <1>1, <1>2, PTL DEF Spec

-----------------------------------------------------------------------------
(* The facts of a session whose chats never overlapped are those its        *)
(* messages gave last.                                                      *)
THEOREM FactsAreFollowed == Spec => []FactsFollowMessages
<1>1. ChatInv => FactsFollowMessages
  BY DEF ChatInv
<1> QED
  BY <1>1, ChatAlways, PTL

(* Chats that overlap make AVA forget no plain fact of a live session.      *)
THEOREM FactsAreRemembered == Spec => []PlainFactsRemembered
<1>1. ChatInv => PlainFactsRemembered
  BY DEF ChatInv
<1> QED
  BY <1>1, ChatAlways, PTL

(* A session has no more turns than there is room for, the list of sessions *)
(* no more keys, each once, and nothing is known of a session not in it.    *)
THEOREM TypeCorrect == Spec => []TypeOK
<1>1. ChatInv /\ KeptInv => TypeOK
  <2> SUFFICES ASSUME ChatInv, KeptInv PROVE TypeOK
    OBVIOUS
  <2> DEFINE T == {"visitor", "ava"} \X (1..messages)
  <2>1. Typed /\ UsedInv /\ MaxTurns \in Nat /\ messages \in 0..MaxMessages
    BY AvaChatAssumption DEF ChatInv, KeptInv, AvaChatAssumption
  <2>2. ASSUME NEW k \in Keys PROVE sessions[k].turns \in SeqOf(T, MaxTurns)
    <3> DEFINE turns == sessions[k].turns
               n == Len(turns)
    <3>1. turns \in Seq({"visitor", "ava"} \X Nat)
      BY <2>1 DEF Typed, Turns
    <3>2. n <= MaxTurns /\ \A i \in 1..n : turns[i][2] \in 1..messages
      BY DEF KeptInv, Kept
    <3> HIDE DEF turns
    <3>3. /\ n \in Nat /\ turns = [i \in 1..n |-> turns[i]]
          /\ \A i \in 1..n : turns[i] \in {"visitor", "ava"} \X Nat
      BY <3>1
    <3>4. ASSUME NEW i \in 1..n PROVE turns[i] \in T
      <4>1. turns[i] \in {"visitor", "ava"} \X Nat /\ turns[i][2] \in 1..messages
        BY <3>2, <3>3
      <4> QED
        BY <4>1
    <3> HIDE DEF T, n
    <3>5. turns \in [1..n -> T] /\ n \in 0..MaxTurns
      BY <2>1, <3>2, <3>3, <3>4
    <3>6. turns \in SeqOf(T, MaxTurns)
      BY <3>5 DEF SeqOf
    <3> QED
      BY <3>6 DEF turns
  <2> HIDE DEF T
  <2>3. sessions \in [Keys -> [turns : SeqOf(T, MaxTurns), facts : Facts]]
    <3>1. \A k \in Keys : /\ sessions[k] \in [turns : Turns, facts : Facts]
                          /\ sessions[k].turns \in SeqOf(T, MaxTurns)
      BY <2>1, <2>2 DEF Typed
    <3>2. \A k \in Keys : sessions[k] \in [turns : SeqOf(T, MaxTurns), facts : Facts]
      BY <3>1
    <3> QED
      BY <2>1, <3>2 DEF Typed
  <2>4. IsInjective(recency) /\ Range(recency) \subseteq Keys
    <3>1. recency \in Seq(Keys) /\ IsInjective(recency)
      BY <2>1 DEF UsedInv, Listed
    <3>2. DOMAIN recency = 1..Len(recency) /\ \A i \in 1..Len(recency) : recency[i] \in Keys
      BY <3>1
    <3> QED
      BY <3>1, <3>2 DEF Range
  <2>5. /\ Len(recency) <= MaxSessions
        /\ \A k \in Keys \ Range(recency) : sessions[k] = NoSession
    BY <2>1 DEF UsedInv
  <2>6. ASSUME NEW c \in Slots, InFlight(c)
        PROVE  /\ chats[c].at \in {"draft", "review", "repair"}
               /\ chats[c].key \in Keys /\ chats[c].says \in Facts
               /\ chats[c].facts \in Facts /\ chats[c].message \in 1..messages
    BY <2>1, <2>6, FlightType DEF KeptInv
  <2> QED
    BY <2>1, <2>3, <2>4, <2>5, <2>6 DEF TypeOK, T
<1> QED
  BY <1>1, KeptAlways, PTL

(* Chats that overlap lose no turn of each other.                           *)
THEOREM TurnsAreKept == Spec => []RecentTurnsKept
<1>1. KeptInv => RecentTurnsKept
  BY DEF KeptInv, Kept, RecentTurnsKept
<1> QED
  BY <1>1, KeptAlways, PTL

-----------------------------------------------------------------------------
(* AvaQuality.  A score of 85 leaves no room for a failure: whatever        *)
(* criterion an answer fails costs it more than the others can make up for. *)
Sum(s) ==
  s.av_specificity + s.diagnostic_value + s.directness + s.question_quality
    + s.premium_presence + s.unsupported_claim_control + s.privacy_boundary
    + s.arche_review

LEMMA TwoBonuses ==
  ASSUME NEW m \in {0, 35}, NEW n \in {0, 35}
  PROVE  Clamp(50 + m + n) \in {50, 85, 100}
BY DEF Clamp

(* What each criterion can be. *)
LEMMA Scores ==
  ASSUME NEW c \in Context, NEW a \in Answers
  PROVE  LET s == ScoreOf(c, a) IN
         /\ s.av_specificity \in {50, 85, 100}
         /\ s.diagnostic_value \in {50, 85, 100}
         /\ s.directness \in {40, 70} /\ s.premium_presence = s.directness
         /\ s.question_quality \in {35, 60, 90}
         /\ s.unsupported_claim_control \in {55, 90}
         /\ s.privacy_boundary \in {0, 95}
         /\ s.arche_review = IF c.reviewed THEN 95 ELSE 35
<1>1. /\ DesignBonus(c, a) \in {0, 35} /\ Bonus(a.avTerms) \in {0, 35}
      /\ Bonus(a.diagnosticTerms) \in {0, 35}
  BY DEF DesignBonus, Bonus
<1>2. /\ Clamp(50 + DesignBonus(c, a) + Bonus(a.avTerms)) \in {50, 85, 100}
      /\ Clamp(50 + DesignBonus(c, a) + Bonus(a.diagnosticTerms)) \in {50, 85, 100}
  BY <1>1, TwoBonuses
<1>3. QuestionScore(a.questions) \in {35, 60, 90}
  BY DEF QuestionScore, Answers
<1> QED
  BY <1>2, <1>3 DEF ScoreOf, PrivacyScore, ReviewScore

(* The sum over the criteria, written out. *)
LEMMA ScoreIsSum ==
  ASSUME NEW c \in Context, NEW a \in Answers
  PROVE  Score(c, a) = (Sum(ScoreOf(c, a)) + 4) \div 8
<1> DEFINE s == ScoreOf(c, a)
           C1 == Criteria \ {"av_specificity"}
           C2 == C1 \ {"diagnostic_value"}
           C3 == C2 \ {"directness"}
           C4 == C3 \ {"question_quality"}
           C5 == C4 \ {"premium_presence"}
           C6 == C5 \ {"unsupported_claim_control"}
           C7 == C6 \ {"privacy_boundary"}
           C8 == C7 \ {"arche_review"}
<1>1. MapThenSumSet(LAMBDA x : s[x], Criteria) = Total(s, Criteria)
  BY Zenon DEF Total
<1>2. IsFiniteSet(Criteria)
  <2> DEFINE Three == {} \cup {"av_specificity"} \cup {"diagnostic_value"}
                         \cup {"directness"}
             Six   == Three \cup {"question_quality"} \cup {"premium_presence"}
                        \cup {"unsupported_claim_control"}
  <2>1. Criteria = Six \cup {"privacy_boundary"} \cup {"arche_review"}
    BY DEF Criteria
  <2>2. IsFiniteSet(Three)
    BY FS_EmptySet, FS_AddElement
  <2> HIDE DEF Three
  <2>3. IsFiniteSet(Six)
    BY <2>2, FS_AddElement
  <2> HIDE DEF Six
  <2> QED
    BY <2>1, <2>3, FS_AddElement
<1>3. \A x \in Criteria : s[x] \in Nat
  BY Scores DEF Criteria
<1> HIDE DEF s
<1>4. ASSUME NEW R \in SUBSET Criteria, NEW y \in R
      PROVE  /\ Total(s, R) = s[y] + Total(s, R \ {y})
             /\ Total(s, R \ {y}) \in Nat
  <2>1. IsFiniteSet(R) /\ IsFiniteSet(R \ {y})
    BY <1>2, FS_Subset
  <2> QED
    BY <1>3, <2>1, TotalRemove, TotalType
<1>5. /\ Total(s, Criteria) = s.av_specificity + Total(s, C1) /\ Total(s, C1) \in Nat
      /\ Total(s, C1) = s.diagnostic_value + Total(s, C2) /\ Total(s, C2) \in Nat
  BY <1>4 DEF Criteria
<1>6. /\ Total(s, C2) = s.directness + Total(s, C3) /\ Total(s, C3) \in Nat
      /\ Total(s, C3) = s.question_quality + Total(s, C4) /\ Total(s, C4) \in Nat
  BY <1>4 DEF Criteria
<1>7. /\ Total(s, C4) = s.premium_presence + Total(s, C5) /\ Total(s, C5) \in Nat
      /\ Total(s, C5) = s.unsupported_claim_control + Total(s, C6) /\ Total(s, C6) \in Nat
  BY <1>4 DEF Criteria
<1>8. /\ Total(s, C6) = s.privacy_boundary + Total(s, C7) /\ Total(s, C7) \in Nat
      /\ Total(s, C7) = s.arche_review + Total(s, C8)
  BY <1>4 DEF Criteria
<1>9. Total(s, C8) = 0
  <2>1. C8 = {}
    BY DEF Criteria
  <2> QED
    BY <2>1, TotalOfNone
<1>10. Total(s, Criteria) = Sum(s)
  <2>1. /\ s.av_specificity \in Nat /\ s.diagnostic_value \in Nat
        /\ s.directness \in Nat /\ s.question_quality \in Nat
        /\ s.premium_presence \in Nat /\ s.unsupported_claim_control \in Nat
        /\ s.privacy_boundary \in Nat /\ s.arche_review \in Nat
    BY <1>3 DEF Criteria
  <2> HIDE DEF C1, C2, C3, C4, C5, C6, C7, C8
  <2> QED
    BY <1>5, <1>6, <1>7, <1>8, <1>9, <2>1 DEF Sum
<1> QED
  BY <1>1, <1>10, Zenon DEF Score, s

LEMMA ScoreIsNat ==
  ASSUME NEW c \in Context, NEW a \in Answers
  PROVE  /\ Score(c, a) \in Nat /\ Sum(ScoreOf(c, a)) \in Nat
         /\ Score(c, a) >= 85 => Sum(ScoreOf(c, a)) >= 676
<1>1. Sum(ScoreOf(c, a)) \in Nat
  <2> DEFINE s == ScoreOf(c, a)
  <2>1. /\ s.av_specificity \in Nat /\ s.diagnostic_value \in Nat
        /\ s.directness \in Nat /\ s.question_quality \in Nat
        /\ s.premium_presence \in Nat /\ s.unsupported_claim_control \in Nat
        /\ s.privacy_boundary \in Nat /\ s.arche_review \in Nat
    BY Scores
  <2> HIDE DEF s
  <2>2. Sum(s) \in Nat
    BY <2>1 DEF Sum
  <2> QED
    BY <2>2 DEF s
<1>2. \A n \in Nat : /\ (n + 4) \div 8 \in Nat
                     /\ (n + 4) \div 8 >= 85 => n >= 676
  OBVIOUS
<1> QED
  BY <1>1, <1>2, ScoreIsSum

(* Without the review the other criteria add up to 615 at most. *)
LEMMA UnreviewedIsLow ==
  ASSUME NEW c \in Context, NEW a \in Answers, ~c.reviewed
  PROVE  Score(c, a) < 85
<1> DEFINE s == ScoreOf(c, a)
<1>1. /\ s.av_specificity \in {50, 85, 100} /\ s.diagnostic_value \in {50, 85, 100}
      /\ s.directness \in {40, 70} /\ s.premium_presence = s.directness
      /\ s.question_quality \in {35, 60, 90}
      /\ s.unsupported_claim_control \in {55, 90}
      /\ s.privacy_boundary \in {0, 95} /\ s.arche_review = 35
  BY Scores
<1>2. Sum(s) <= 650
  <2> HIDE DEF s
  <2> QED
    BY <1>1 DEF Sum
<1> QED
  BY <1>2, ScoreIsNat

(* Whatever an answer fails in costs it the threshold. *)
LEMMA HighIsFaultless ==
  ASSUME NEW c \in Context, NEW a \in Answers, Score(c, a) >= 85
  PROVE  Failures(c, a) = {}
<1> DEFINE s == ScoreOf(c, a)
<1>1. c.reviewed /\ Sum(s) >= 676
  BY UnreviewedIsLow, ScoreIsNat DEF Context
<1>2. /\ s.av_specificity \in {50, 85, 100} /\ s.diagnostic_value \in {50, 85, 100}
      /\ s.directness \in {40, 70} /\ s.premium_presence = s.directness
      /\ s.question_quality \in {35, 60, 90}
      /\ s.unsupported_claim_control \in {55, 90}
      /\ s.privacy_boundary \in {0, 95} /\ s.arche_review = 95
  BY <1>1, Scores
<1>3. /\ s.av_specificity >= 70 /\ s.diagnostic_value >= 70 /\ s.directness >= 60
      /\ s.question_quality >= 60 /\ s.privacy_boundary >= 90
  <2> HIDE DEF s
  <2> QED
    BY <1>1, <1>2 DEF Sum
<1> DEFINE least == [av_specificity |-> 70, diagnostic_value |-> 70,
                     directness |-> 60, question_quality |-> 60,
                     privacy_boundary |-> 90]
<1>4. \A x \in DOMAIN least : ~(s[x] < least[x])
  <2>1. DOMAIN least = {"av_specificity", "diagnostic_value", "directness",
                        "question_quality", "privacy_boundary"}
    OBVIOUS
  <2> HIDE DEF s
  <2> QED
    BY <1>2, <1>3, <2>1
<1> QED
  BY <1>1, <1>4 DEF Failures

-----------------------------------------------------------------------------
Candidates ==
  /\ ctx \in Context /\ selected \in Answers
  /\ offered => Score(ctx, selected) >= 85

(* Once a verified candidate was offered the selected one is verified: the  *)
(* comparison is by score alone, and no failure hides behind a score.       *)
THEOREM SelectionIsSafe == SelectionSpec => []VerifiedIsRetained
<1>1. SelectionInit => Candidates
  BY DEF SelectionInit, Candidates, Verified
<1>2. Candidates /\ [SelectionNext]_<<ctx, selected, offered>> => Candidates'
  <2> SUFFICES ASSUME Candidates, [SelectionNext]_<<ctx, selected, offered>>
               PROVE  Candidates'
    OBVIOUS
  <2>1. ASSUME NEW a \in Answers, Offer(a) PROVE Candidates'
    <3>1. Score(ctx, a) \in Nat /\ Score(ctx, selected) \in Nat
      BY ScoreIsNat DEF Candidates
    <3>2. ctx' = ctx /\ selected' \in Answers
      BY <2>1 DEF Offer, Candidates
    <3>3. offered' => Score(ctx, a) >= 85 \/ Score(ctx, selected) >= 85
      BY <2>1 DEF Offer, Candidates, Verified
    <3>4. /\ Score(ctx, selected') >= Score(ctx, a)
          /\ Score(ctx, selected') >= Score(ctx, selected)
      BY <2>1, <3>1 DEF Offer
    <3>5. Score(ctx, selected') \in Nat
      BY <3>2, ScoreIsNat DEF Candidates
    <3>6. offered' => Score(ctx, selected') >= 85
      BY <3>1, <3>3, <3>4, <3>5
    <3> QED
      BY <3>2, <3>6 DEF Candidates
  <2>2. CASE UNCHANGED <<ctx, selected, offered>>
    BY <2>2 DEF Candidates
  <2> QED
    BY <2>1, <2>2 DEF SelectionNext
<1>3. Candidates => VerifiedIsRetained
  BY HighIsFaultless DEF Candidates, VerifiedIsRetained, Verified
<1> QED
  BY <1>1, <1>2, <1>3, PTL DEF SelectionSpec

(* No wording reaches the threshold where the review did not complete. *)
THEOREM ReviewDecides == SelectionSpec => []ReviewIsDecisive
<1>1. SelectionInit => ctx \in Context /\ selected \in Answers
  BY DEF SelectionInit
<1>2. (ctx \in Context /\ selected \in Answers) /\ [SelectionNext]_<<ctx, selected, offered>>
        => (ctx \in Context /\ selected \in Answers)'
  BY DEF SelectionNext, Offer
<1>3. (ctx \in Context /\ selected \in Answers) => ReviewIsDecisive
  BY UnreviewedIsLow DEF ReviewIsDecisive
<1> QED
  BY <1>1, <1>2, <1>3, PTL DEF SelectionSpec
=============================================================================
