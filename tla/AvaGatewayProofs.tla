--------------------------- MODULE AvaGatewayProofs ---------------------------
(***************************************************************************)
(* Proofs about what AVA decides before it asks a provider, for every set   *)
(* of messages and answers, every limit, window and session length.         *)
(***************************************************************************)
EXTENDS AvaGateway, SumTheorems, SequenceTheorems

(* The requests let through in the last n + 1 ticks. *)
Recently(n) == Total(served, 0..n)

(* A bucket that runs counts what it let through, up to the limit, and      *)
(* within the window at most the limit was let through before it; once it   *)
(* has run out, all that is in the window was its own.                      *)
RateFits(b, s, r) ==
  /\ b \in [age : 0..Window, count : Nat] /\ r \in {TRUE, FALSE}
  /\ s \in [0..Window-1 -> Nat]
  /\ b.age < Window =>
       /\ Total(s, 0..b.age) = (IF b.count <= Limit THEN b.count ELSE Limit)
       /\ Total(s, 0..Window-1) <= Total(s, 0..b.age) + Limit
       /\ r = TRUE => b.count > Limit
  /\ b.age = Window => Total(s, 0..Window-1) <= Limit /\ s[0] = 0 /\ r = FALSE

RateInv == RateFits(bucket, served, refused)

(* The versions on their way are a sequence, and in a file there is but the *)
(* process's own.                                                           *)
ChainInv ==
  /\ chain \in Seq(Versions)
  /\ \A v \in Versions : v = [session |-> v.session, talk |-> v.talk, last |-> v.last]
  /\ ~WriteBehind => row = Now /\ chain = <<>>

(* The last diagnosis of a version of the session is one of facts that it   *)
(* still has, but for those that mergeFacts lost.                           *)
DiagnosisFits(v) ==
  /\ v.session.facts \subseteq Facts
  /\ v.last # None =>
       \E facts \in SUBSET Facts :
         facts \ Roles \subseteq v.session.facts
           /\ v.last = Diagnosis(v.last.branch, facts)

DiagnosisInv ==
  /\ ChainInv /\ \A v \in Versions \cup {Now} : DiagnosisFits(v)
  /\ chat # Idle =>
       /\ chat.at = "awaiting" /\ session.facts \subseteq chat.facts
       /\ chat.facts \subseteq Facts
       /\ chat.diagnosis = Diagnosis(chat.diagnosis.branch, chat.facts)

(* The visitor's latest messages are among the latest turns: of two turns   *)
(* that a message takes at most, as many as are kept.                       *)
TalkFits(turns, said) ==
  \A j \in 1..Len(said) :
    \E p \in 1..Len(turns) :
      turns[p] = said[j] /\ Len(turns) - p <= 2 * (Len(said) - j) + 1

VersionTalks(v) ==
  /\ v.session.turns \in Seq(SUBSET Words) /\ Len(v.session.turns) <= MaxTurns
  /\ v.talk \in Seq(SUBSET Words) /\ Len(v.talk) <= MaxTurns \div 2
  /\ TalkFits(v.session.turns, v.talk)

TalkInv ==
  /\ ChainInv /\ \A v \in Versions \cup {Now} : VersionTalks(v)
  /\ chat # Idle => /\ chat.message \in Messages
                    /\ chat.diagnosis.branch = Branch(Context(chat.message))

-----------------------------------------------------------------------------
(* The rate. *)

LEMMA RateConstants ==
  /\ Window \in Nat /\ Window > 0 /\ Limit \in Nat /\ Limit > 0
  /\ Window - 1 \in Nat
BY AvaGatewayAssumption DEF AvaGatewayAssumption

LEMMA RecentlyTypes ==
  ASSUME RateInv
  PROVE  /\ \A n \in 0..Window-1 : Recently(n) \in Nat
         /\ \A n \in 0..Window-1 : Recently(n) <= Recently(Window - 1)
<1> USE RateConstants
<1>1. \A t \in 0..Window-1 : served[t] \in Nat
  BY DEF RateInv, RateFits
<1>2. ASSUME NEW n \in 0..Window-1 PROVE Recently(n) \in Nat
  <2>1. n \in Nat /\ \A t \in 0..n : served[t] \in Nat
    BY <1>1
  <2> QED
    BY <2>1, TotalOfFirst DEF Recently
<1>3. ASSUME NEW n \in 0..Window-1 PROVE Recently(n) <= Recently(Window - 1)
  BY <1>1, TotalGrows DEF Recently
<1> QED
  BY <1>2, <1>3

LEMMA RunningFits ==
  ASSUME NEW b \in [age : 0..Window, count : Nat], NEW r \in {TRUE, FALSE},
         NEW s \in [0..Window-1 -> Nat], b.age < Window,
         Total(s, 0..b.age) = (IF b.count <= Limit THEN b.count ELSE Limit),
         Total(s, 0..Window-1) <= Total(s, 0..b.age) + Limit,
         r = TRUE => b.count > Limit
  PROVE  RateFits(b, s, r)
<1>1. b.age # Window
  BY RateConstants
<1> QED
  BY <1>1, Zenon DEF RateFits

LEMMA OverFits ==
  ASSUME NEW b \in [age : 0..Window, count : Nat], NEW r, r = FALSE,
         NEW s \in [0..Window-1 -> Nat], b.age = Window,
         Total(s, 0..Window-1) <= Limit, s[0] = 0
  PROVE  RateFits(b, s, r)
<1>1. ~(b.age < Window)
  BY RateConstants
<1>2. r \in {TRUE, FALSE}
  BY Zenon
<1> QED
  BY <1>1, <1>2, Zenon DEF RateFits

(* One more request of this tick. *)
LEMMA OneMore ==
  ASSUME NEW f \in [0..Window-1 -> Nat], NEW g, g = [f EXCEPT ![0] = @ + 1]
  PROVE  /\ \A n \in 0..Window-1 : Total(g, 0..n) = Total(f, 0..n) + 1
         /\ g \in [0..Window-1 -> Nat]
<1> USE RateConstants
<1>1. /\ g \in [0..Window-1 -> Nat] /\ g[0] = f[0] + 1
      /\ \A t \in 1..Window-1 : g[t] = f[t]
  OBVIOUS
<1>2. ASSUME NEW n \in 0..Window-1 PROVE Total(g, 0..n) = Total(f, 0..n) + 1
  <2> DEFINE R == (0..n) \ {0}
  <2>1. IsFiniteSet(0..n) /\ IsFiniteSet(R)
    <3>1. IsFiniteSet(0..n)
      BY FS_Interval
    <3> QED
      BY <3>1, FS_Subset
  <2>2. 0 \in 0..n /\ \A t \in R : t \in 1..Window-1
    OBVIOUS
  <2>3. ASSUME NEW h, \A t \in 0..n : h[t] \in Nat
        PROVE  Total(h, 0..n) = h[0] + Total(h, R)
    <3>1. \A t \in 0..n : h[t] \in Int
      BY <2>3
    <3> QED
      BY <2>1, <2>2, <3>1, TotalRemove
  <2>4. (\A t \in 0..n : f[t] \in Nat) /\ (\A t \in 0..n : g[t] \in Nat)
    BY <1>1
  <2>5. Total(f, 0..n) = f[0] + Total(f, R) /\ Total(g, 0..n) = g[0] + Total(g, R)
    BY <2>3, <2>4
  <2>6. Total(g, R) = Total(f, R)
    BY <1>1, <2>1, <2>2, TotalsAgree
  <2>7. Total(f, R) \in Nat /\ f[0] \in Nat
    <3>1. \A t \in R : f[t] \in Nat
      BY <2>4
    <3> QED
      BY <2>1, <2>2, <2>4, <3>1, TotalType
  <2> HIDE DEF R
  <2> QED
    BY <1>1, <2>5, <2>6, <2>7
<1> QED
  BY <1>1, <1>2

(* A tick passes: what was let through in the last n ticks is now of the    *)
(* last n + 1.                                                              *)
LEMMA OneTick ==
  ASSUME NEW f, DOMAIN f = 0..Window-1, \A t \in 0..Window-1 : f[t] \in Nat, NEW g,
         g = [t \in DOMAIN f |-> IF t = 0 THEN 0 ELSE f[t - 1]]
  PROVE  /\ g \in [0..Window-1 -> Nat] /\ g[0] = 0
         /\ \A n \in 1..Window-1 : Total(g, 0..n) = Total(f, 0..(n - 1))
         /\ Total(g, 0..0) = 0
<1> USE RateConstants
<1>1. \A t \in 0..Window-1 : t # 0 => t - 1 \in 0..Window-1
  OBVIOUS
<1>2. /\ g \in [0..Window-1 -> Nat] /\ g[0] = 0
      /\ \A t \in 1..Window-1 : g[t] = f[t - 1]
  BY <1>1
<1>3. MovedUp(f, g, Window - 1)
  BY <1>2 DEF MovedUp
<1>4. \A n \in 1..Window-1 : Total(g, 0..n) = Total(f, 0..(n - 1))
  BY <1>3, TotalOfMovedUp
<1>5. Total(g, 0..0) = 0
  <2>1. 0 \in Nat /\ \A t \in 0..0 : g[t] \in Nat
    BY <1>2
  <2> QED
    BY <1>2, <2>1, TotalOfFirst
<1> QED
  BY <1>2, <1>4, <1>5

LEMMA RateRequest ==
  ASSUME RateInv, Request
  PROVE  RateInv'
<1> USE RateConstants
<1>1. /\ bucket' = Counted /\ refused' = ~Allowed
      /\ served' = IF Allowed THEN [served EXCEPT ![0] = @ + 1] ELSE served
  BY DEF Request
<1>2. /\ bucket \in [age : 0..Window, count : Nat]
      /\ bucket.age \in 0..Window /\ bucket.count \in Nat
      /\ served \in [0..Window-1 -> Nat]
  BY DEF RateInv, RateFits
<1>3. \A n \in 0..Window-1 : Recently(n) \in Nat
  BY RecentlyTypes
<1>4. Allowed =>
        /\ \A n \in 0..Window-1 : Total(served', 0..n) = Recently(n) + 1
        /\ served' \in [0..Window-1 -> Nat]
  BY <1>1, <1>2, OneMore DEF Recently
<1>5. SUFFICES RateFits(bucket', served', refused')
  BY DEF RateInv
<1> DEFINE Buckets == [age : 0..Window, count : Nat]
<1>6. CASE bucket.age = Window
  <2>1. bucket' = [age |-> 0, count |-> 1] /\ Allowed /\ refused' = FALSE
    <3>1. Counted = [age |-> 0, count |-> 1]
      BY <1>6 DEF Counted
    <3>2. Allowed
      BY <3>1 DEF Allowed
    <3> QED
      BY <1>1, <3>1, <3>2, Zenon
  <2>2. Recently(0) = 0
    <3>1. 0 \in Nat /\ (\A t \in 0..0 : served[t] \in Nat) /\ served[0] = 0
      BY <1>2, <1>6 DEF RateInv, RateFits
    <3> QED
      BY <3>1, TotalOfFirst DEF Recently
  <2>3. Recently(Window - 1) \in Nat /\ Recently(Window - 1) <= Limit
    BY <1>3, <1>6 DEF RateInv, RateFits, Recently
  <2>4. Total(served', 0..0) = 1 /\ Total(served', 0..Window-1) = Recently(Window - 1) + 1
    <3>1. 0 \in 0..Window-1 /\ Window-1 \in 0..Window-1
      OBVIOUS
    <3>2. /\ Total(served', 0..0) = Recently(0) + 1
          /\ Total(served', 0..Window-1) = Recently(Window - 1) + 1
      BY <1>4, <2>1, <3>1, Zenon
    <3> QED
      BY <2>2, <3>2
  <2>5. bucket' \in Buckets /\ bucket'.age < Window /\ bucket'.age = 0
    BY <2>1
  <2>6. Total(served', 0..bucket'.age)
          = IF bucket'.count <= Limit THEN bucket'.count ELSE Limit
    BY <2>1, <2>4
  <2>7. Total(served', 0..Window-1) <= Total(served', 0..bucket'.age) + Limit
    BY <2>3, <2>4, <2>5
  <2>8. refused' \in {TRUE, FALSE} /\ (refused' = TRUE => bucket'.count > Limit)
    BY <2>1, Zenon
  <2> QED
    BY <1>4, <2>1, <2>5, <2>6, <2>7, <2>8, RunningFits
<1>7. CASE bucket.age < Window /\ Allowed
  <2>1. /\ bucket'.age = bucket.age /\ bucket'.count = bucket.count + 1
        /\ bucket' \in Buckets
        /\ bucket.count + 1 <= Limit /\ bucket.age \in 0..Window-1
    <3>1. bucket' = [bucket EXCEPT !.count = @ + 1] /\ Counted = bucket'
      BY <1>1, <1>2, <1>7 DEF Counted
    <3> QED
      BY <1>2, <1>7, <3>1 DEF Allowed
  <2>5. refused' = FALSE
    BY <1>1, <1>7
  <2>2. /\ Recently(bucket.age) = bucket.count
        /\ Recently(Window - 1) <= Recently(bucket.age) + Limit
    BY <1>2, <1>7, <2>1 DEF RateInv, RateFits, Recently
  <2>3. Total(served', 0..bucket.age) = Recently(bucket.age) + 1
    BY <1>4, <1>7, <2>1
  <2>4. /\ Total(served', 0..Window-1) = Recently(Window - 1) + 1
        /\ Recently(Window - 1) \in Nat
    BY <1>3, <1>4, <1>7
  <2> QED
    <3>1. Total(served', 0..bucket'.age)
            = IF bucket'.count <= Limit THEN bucket'.count ELSE Limit
      BY <2>1, <2>2, <2>3
    <3>2. Total(served', 0..Window-1) <= Total(served', 0..bucket'.age) + Limit
      BY <1>2, <2>1, <2>2, <2>3, <2>4
    <3>3. refused' \in {TRUE, FALSE} /\ (refused' = TRUE => bucket'.count > Limit)
      BY <2>5, Zenon
    <3>4. bucket'.age < Window
      BY <1>7, <2>1
    <3> QED
      BY <1>4, <1>7, <2>1, <3>1, <3>2, <3>3, <3>4, RunningFits
<1>8. CASE bucket.age < Window /\ ~Allowed
  <2>1. /\ bucket'.age = bucket.age /\ bucket'.count = bucket.count + 1
        /\ bucket' \in Buckets
        /\ bucket.count + 1 > Limit /\ served' = served
    <3>1. bucket' = [bucket EXCEPT !.count = @ + 1] /\ Counted = bucket'
      BY <1>1, <1>2, <1>8 DEF Counted
    <3> QED
      BY <1>1, <1>2, <1>8, <3>1 DEF Allowed
  <2>5. refused' = TRUE
    BY <1>1, <1>8
  <2>2. Total(served, 0..bucket.age) = Limit
    BY <1>2, <1>8, <2>1 DEF RateInv, RateFits
  <2>3. Total(served, 0..Window-1) <= Total(served, 0..bucket.age) + Limit
    BY <1>8 DEF RateInv, RateFits
  <2>4. /\ Total(served', 0..bucket'.age) = Limit
        /\ Total(served', 0..Window-1) <= Total(served', 0..bucket'.age) + Limit
    BY <2>1, <2>2, <2>3
  <2> QED
    <3>1. /\ bucket'.age < Window
          /\ Total(served', 0..bucket'.age)
               = (IF bucket'.count <= Limit THEN bucket'.count ELSE Limit)
      BY <1>2, <1>8, <2>1, <2>4
    <3>2. refused' \in {TRUE, FALSE} /\ bucket'.count > Limit
      BY <2>1, <2>5
    <3> QED
      BY <1>2, <2>1, <2>4, <3>1, <3>2, RunningFits
<1> QED
  BY <1>2, <1>6, <1>7, <1>8

LEMMA RateTick ==
  ASSUME RateInv, Tick
  PROVE  RateInv'
<1> USE RateConstants
<1>1. /\ bucket.age \in 0..Window /\ bucket.count \in Nat
      /\ bucket' \in [age : 0..Window, count : Nat]
      /\ bucket'.count = bucket.count /\ refused' = FALSE
      /\ bucket'.age = IF bucket.age < Window THEN bucket.age + 1 ELSE bucket.age
      /\ served \in [0..Window-1 -> Nat]
  BY DEF RateInv, RateFits, Tick
<1>2. /\ served' \in [0..Window-1 -> Nat] /\ served'[0] = 0
      /\ \A n \in 1..Window-1 : Total(served', 0..n) = Recently(n - 1)
      /\ Total(served', 0..0) = 0
  BY <1>1, OneTick DEF Tick, Recently
<1>3. \A n \in 0..Window-1 : Recently(n) \in Nat /\ Recently(n) <= Recently(Window - 1)
  BY RecentlyTypes
(* What the oldest tick let through falls out of the window. *)
<1>4. /\ Total(served', 0..Window-1) <= Recently(Window - 1)
      /\ Total(served', 0..Window-1) \in Nat
  <2>1. CASE Window = 1
    BY <1>2, <1>3, <2>1
  <2>2. CASE Window > 1
    <3>1. Window - 1 \in 1..Window-1 /\ (Window - 1) - 1 \in 0..Window-1
      BY <2>2
    <3> QED
      BY <1>2, <1>3, <3>1
  <2> QED
    BY <2>1, <2>2
<1>5. SUFFICES RateFits(bucket', served', refused')
  BY DEF RateInv
<1>6. Recently(Window - 1) \in Nat
  BY <1>3
<1>7. CASE bucket.age = Window
  <2>1. Recently(Window - 1) <= Limit
    BY <1>7 DEF RateInv, RateFits, Recently
  <2>2. bucket'.age = Window /\ Total(served', 0..Window-1) <= Limit
    BY <1>1, <1>4, <1>6, <1>7, <2>1
  <2> QED
    BY <1>1, <1>2, <2>2, OverFits
<1>8. CASE bucket.age < Window /\ bucket.age + 1 < Window
  <2>1. bucket'.age = bucket.age + 1 /\ bucket'.age \in 1..Window-1
    BY <1>1, <1>8
  <2>2. Total(served', 0..bucket'.age) = Recently(bucket.age)
    BY <1>1, <1>2, <2>1
  <2>3. /\ Recently(bucket.age) = (IF bucket.count <= Limit THEN bucket.count ELSE Limit)
        /\ Recently(Window - 1) <= Recently(bucket.age) + Limit
    BY <1>1, <1>8 DEF RateInv, RateFits, Recently
  <2>4. Recently(bucket.age) \in Nat
    <3>1. bucket.age \in 0..Window-1
      BY <1>1, <1>8
    <3> QED
      BY <1>3, <3>1
  <2>5. Total(served', 0..Window-1) <= Total(served', 0..bucket'.age) + Limit
    BY <1>4, <1>6, <2>2, <2>3, <2>4
  <2>6. Total(served', 0..bucket'.age)
          = IF bucket'.count <= Limit THEN bucket'.count ELSE Limit
    <3>1. bucket'.count = bucket.count
      BY <1>1
    <3> QED
      BY <2>2, <2>3, <3>1
  <2> QED
    <3>1. bucket'.age < Window
      BY <1>8, <2>1
    <3>2. refused' \in {TRUE, FALSE} /\ (refused' = TRUE => bucket'.count > Limit)
      BY <1>1, Zenon
    <3> QED
      BY <1>1, <1>2, <2>5, <2>6, <3>1, <3>2, RunningFits
<1>9. CASE bucket.age < Window /\ bucket.age + 1 = Window
  <2>1. bucket'.age = Window /\ bucket.age = Window - 1
    BY <1>1, <1>9
  <2>2. Recently(Window - 1) = (IF bucket.count <= Limit THEN bucket.count ELSE Limit)
    BY <1>1, <1>9, <2>1 DEF RateInv, RateFits, Recently
  <2>3. Total(served', 0..Window-1) <= Limit
    BY <1>1, <1>4, <1>6, <2>2
  <2> QED
    BY <1>1, <1>2, <2>1, <2>3, OverFits
<1> QED
  BY <1>1, <1>7, <1>8, <1>9

(* A process that has just started has let nothing through. *)
LEMMA RateFresh ==
  ASSUME NEW f, f = [t \in 0..Window-1 |-> 0]
  PROVE  f \in [0..Window-1 -> Nat] /\ f[0] = 0 /\ Total(f, 0..Window-1) = 0
<1> USE RateConstants
<1>1. f \in [0..Window-1 -> Nat] /\ f[0] = 0 /\ \A t \in 0..Window-1 : f[t] = 0
  OBVIOUS
<1> DEFINE g == [t \in 0..Window-1 |-> IF t = 0 THEN 0 ELSE f[t - 1]]
<1>2. CASE Window = 1
  <2>1. 0 \in Nat /\ \A t \in 0..0 : f[t] \in Nat
    BY <1>1
  <2>2. Total(f, 0..0) = 0
    BY <1>1, <2>1, TotalOfFirst
  <2> QED
    BY <1>1, <1>2, <2>2
<1>3. CASE Window > 1
  <2> DEFINE Bad == {n \in 0..Window-1 : Total(f, 0..n) # 0}
  <2> SUFFICES ASSUME Bad # {} PROVE FALSE
    BY <1>1
  <2>1. PICK n \in Bad : \A l \in Bad : n <= l
    <3>1. Bad \in SUBSET Nat
      OBVIOUS
    <3> HIDE DEF Bad
    <3> QED
      BY <3>1, LeastNatural
  <2>2. n \in Nat /\ n \in 0..Window-1 /\ Total(f, 0..n) # 0
    OBVIOUS
  <2>3. \A t \in 0..n : f[t] \in Nat
    BY <1>1, <2>2
  <2>4. n > 0
    BY <1>1, <2>2, <2>3, TotalOfFirst
  <2>5. Total(f, 0..(n - 1)) = 0
    BY <2>1, <2>2, <2>4
  <2> HIDE DEF Bad
  <2> QED
    BY <1>1, <2>2, <2>3, <2>4, <2>5, TotalOfFirst
<1> QED
  BY <1>2, <1>3

LEMMA FreshFits == RateFits(NoBucket, [t \in 0..Window-1 |-> 0], FALSE)
<1> DEFINE f == [t \in 0..Window-1 |-> 0]
<1>1. f \in [0..Window-1 -> Nat] /\ f[0] = 0 /\ Total(f, 0..Window-1) <= Limit
  <2>1. f \in [0..Window-1 -> Nat] /\ f[0] = 0 /\ Total(f, 0..Window-1) = 0
    BY RateFresh
  <2> HIDE DEF f
  <2> QED
    BY <2>1, RateConstants
<1>2. NoBucket \in [age : 0..Window, count : Nat] /\ NoBucket.age = Window
  BY RateConstants DEF NoBucket
<1> HIDE DEF f
<1>3. RateFits(NoBucket, f, FALSE)
  BY <1>1, <1>2, OverFits
<1> QED
  BY <1>3 DEF f

LEMMA RateInit == Init => RateInv
BY FreshFits, Zenon DEF Init, RateInv

LEMMA RateStep == RateInv /\ [Next]_vars => RateInv'
<1> SUFFICES ASSUME RateInv, [Next]_vars PROVE RateInv'
  OBVIOUS
<1>1. ASSUME UNCHANGED <<bucket, served, refused>> PROVE RateInv'
  BY <1>1 DEF RateInv
<1>2. ASSUME Restart PROVE RateInv'
  <2>1. /\ bucket' = NoBucket /\ refused' = FALSE
        /\ served' = [t \in 0..Window-1 |-> 0]
    BY <1>2 DEF Restart, RateInv, RateFits
  <2> QED
    BY <2>1, FreshFits, Zenon DEF RateInv
<1> QED
  BY <1>1, <1>2, RateRequest, RateTick
     DEF Next, vars, DraftFails, Finish, Expire, Upsert

(* No minute lets through more than twice the limit, and nobody is refused  *)
(* who was not let through as often as the limit in the minute before,      *)
(* wherever the requests fall in the buckets of the address.                *)
THEOREM RateIsBounded == Spec => []RateHolds
<1>1. RateInv => RateHolds
  <2> SUFFICES ASSUME RateInv PROVE RateHolds
    OBVIOUS
  <2> USE RateConstants
  <2>1. ServedInWindow = Recently(Window - 1)
    <3>1. DOMAIN served = 0..Window-1
      BY DEF RateInv, RateFits
    <3>2. ServedInWindow = Total(served, DOMAIN served)
      BY Zenon DEF ServedInWindow, Total
    <3> QED
      BY <3>1, <3>2 DEF Recently
  <2>2. \A n \in 0..Window-1 : Recently(n) \in Nat /\ Recently(n) <= Recently(Window - 1)
    BY RecentlyTypes
  <2>3. CASE bucket.age = Window
    BY <2>1, <2>2, <2>3 DEF RateInv, RateFits, RateHolds, Recently
  <2>4. CASE bucket.age < Window
    <3>1. bucket.age \in 0..Window-1 /\ bucket.count \in Nat
      BY <2>4 DEF RateInv, RateFits
    <3>2. /\ Recently(bucket.age) \in Nat /\ Recently(bucket.age) <= Limit
          /\ Recently(Window - 1) <= Recently(bucket.age) + Limit
          /\ Recently(Window - 1) \in Nat
          /\ Recently(bucket.age) <= Recently(Window - 1)
          /\ refused => Recently(bucket.age) = Limit
      BY <2>2, <2>4, <3>1 DEF RateInv, RateFits, Recently
    <3> QED
      BY <2>1, <3>2 DEF RateHolds
  <2> QED
    BY <2>3, <2>4 DEF RateInv, RateFits
<1> QED
  BY <1>1, RateInit, RateStep, PTL DEF Spec

-----------------------------------------------------------------------------
(* The versions of the session. *)

LEMMA OwnSequence ==
  ASSUME NEW V, NEW s \in Seq(V)
  PROVE  s \in Seq(ToSet(s)) /\ ToSet(s) \subseteq V
BY DEF ToSet

LEMMA SeqOfMore ==
  ASSUME NEW V, NEW W, V \subseteq W, NEW s \in Seq(V)
  PROVE  s \in Seq(W)
OBVIOUS

LEMMA ChainInit == Init => ChainInv /\ \A v \in Versions \cup {Now} : v = NoVersion
<1> SUFFICES ASSUME Init PROVE ChainInv /\ \A v \in Versions \cup {Now} : v = NoVersion
  OBVIOUS
<1>1. row = NoVersion /\ chain = <<>> /\ Now = NoVersion
  BY DEF Init, Now, NoVersion
<1>2. chain \in Seq(Versions)
  BY <1>1
<1>3. Versions = {NoVersion}
  BY <1>1 DEF Versions, ToSet
<1>4. NoVersion = [session |-> NoVersion.session, talk |-> NoVersion.talk,
                   last |-> NoVersion.last]
  BY DEF NoVersion
<1> QED
  BY <1>1, <1>2, <1>3, <1>4, Zenon DEF ChainInv

(* Only a chat that ends and a session that expires leave a version that    *)
(* was not there before.                                                    *)
LEMMA ChainStep ==
  ASSUME ChainInv, [Next]_vars
  PROVE  /\ ChainInv'
         /\ \A v \in Versions' \cup {Now'} :
              \/ v \in Versions \cup {Now} \/ v = NoVersion
              \/ Finish /\ v = Now'
<1> DEFINE New == IF Finish THEN {Now'} ELSE {}
           W == Versions \cup {Now, NoVersion} \cup New
<1>1. row \in W /\ chain \in Seq(W)
  <2>1. row \in Versions /\ Versions \subseteq W
    BY DEF Versions
  <2> HIDE DEF W
  <2> QED
    BY <2>1, SeqOfMore DEF ChainInv
<1>0. \A v \in W : v = [session |-> v.session, talk |-> v.talk, last |-> v.last]
  BY DEF ChainInv, Now, NoVersion
<1>2. SUFFICES /\ row' \in W /\ chain' \in Seq(W) /\ Now' \in W
               /\ ~WriteBehind => row' = Now' /\ chain' = <<>>
  <2>1. ASSUME row' \in W, chain' \in Seq(W), Now' \in W,
               ~WriteBehind => row' = Now' /\ chain' = <<>>
        PROVE  Versions' \subseteq W /\ ChainInv'
    <3>1. chain' \in Seq(ToSet(chain')) /\ ToSet(chain') \subseteq W
      <4> HIDE DEF W
      <4> QED
        BY <2>1, OwnSequence
    <3>2. Versions' = {row'} \cup ToSet(chain')
      BY DEF Versions, ToSet
    <3>3. chain' \in Seq(Versions')
      BY <3>1, <3>2, SeqOfMore
    <3> HIDE DEF W
    <3> QED
      BY <1>0, <2>1, <3>1, <3>2, <3>3 DEF ChainInv
  <2> QED
    BY <2>1
<1>3. ASSUME Finish
      PROVE  /\ row' \in W /\ chain' \in Seq(W)
             /\ ~WriteBehind => row' = Now' /\ chain' = <<>>
  <2>1. Saves(<<Now'>>) /\ Now' \in W
    BY <1>3 DEF Finish
  <2> HIDE DEF W
  <2>2. CASE WriteBehind
    <3>1. chain' = chain \o <<Now'>> /\ row' = row
      BY <2>1, <2>2 DEF Saves, Chained
    <3>2. <<Now'>> \in Seq(W)
      BY <2>1
    <3> QED
      BY <1>1, <2>2, <3>1, <3>2
  <2>3. CASE ~WriteBehind
    <3>1. chain' = chain /\ row' = Last(<<row>> \o <<Now'>>)
      BY <2>1, <2>3 DEF Saves, Written
    <3>2. row' = Now'
      BY <3>1 DEF Last
    <3> QED
      BY <1>1, <2>1, <2>3, <3>1, <3>2 DEF ChainInv
  <2> QED
    BY <2>2, <2>3
<1>4. ASSUME SavesNothing, UNCHANGED <<session, talk, last>>
      PROVE  row' \in W /\ chain' \in Seq(W) /\ Now' = Now /\ row' = row /\ chain' = chain
  BY <1>1, <1>4 DEF SavesNothing, Now
<1>5. ASSUME Upsert
      PROVE  row' \in W /\ chain' \in Seq(W) /\ Now' = Now /\ WriteBehind
  <2>1. chain # <<>> /\ row' \in {row, Head(chain)} /\ chain' = Tail(chain)
    BY <1>5 DEF Upsert, UpsertStored, UpsertRejected
  <2>2. Now' = Now
    BY <1>5 DEF Upsert, Now
  <2>3. WriteBehind
    BY <2>1 DEF ChainInv
  <2>4. Head(chain) \in W /\ Tail(chain) \in Seq(W)
    <3> HIDE DEF W
    <3> QED
      BY <1>1, <2>1
  <2> QED
    BY <1>1, <2>1, <2>2, <2>3, <2>4, Zenon
<1>6. ASSUME Restart
      PROVE  row' \in W /\ chain' \in Seq(W) /\ Now' = row /\ row' = row /\ chain' = <<>>
  <2>1. row = [session |-> row.session, talk |-> row.talk, last |-> row.last]
    BY DEF ChainInv, Versions
  <2>2. row' = row /\ chain' = <<>> /\ Now' = row
    BY <1>6, <2>1 DEF Restart, ChainLost, Now
  <2>3. <<>> \in Seq(W)
    OBVIOUS
  <2> QED
    BY <1>1, <2>2, <2>3, Zenon
<1>7. ASSUME Expire
      PROVE  /\ row' \in W /\ chain' \in Seq(W) /\ Now' = NoVersion /\ row' = NoVersion
             /\ ~WriteBehind => chain' = <<>>
  <2>1. /\ row' = NoVersion /\ Now' = NoVersion
        /\ chain' = [i \in DOMAIN chain |-> NoVersion]
    BY <1>7 DEF Expire, Now, NoVersion
  <2> HIDE DEF NoVersion, W
  <2>2. NoVersion \in W
    BY DEF W
  <2>3. ~WriteBehind => chain' = <<>>
    BY <2>1 DEF ChainInv
  <2> QED
    BY <1>1, <2>1, <2>2, <2>3
<1>8. Now \in W /\ (~WriteBehind => row = Now /\ chain = <<>>)
  BY DEF ChainInv
<1> HIDE DEF W
<1>9. ASSUME Finish PROVE Now' \in W
  BY <1>9 DEF W
<1>10. ASSUME Request \/ DraftFails \/ Tick \/ UNCHANGED vars
       PROVE  SavesNothing /\ UNCHANGED <<session, talk, last>>
  BY <1>10 DEF Request, DraftFails, Tick, vars, SavesNothing
<1>11. Now' \in W
  <2>1. NoVersion \in W /\ row \in W
    BY <1>1 DEF W
  <2> QED
    BY <1>4, <1>5, <1>6, <1>7, <1>8, <1>9, <1>10, <2>1, Zenon DEF Next
<1> QED
  BY <1>3, <1>4, <1>5, <1>6, <1>7, <1>8, <1>9, <1>10, <1>11, Zenon DEF Next

-----------------------------------------------------------------------------
(* The diagnosis. *)

LEMMA NoneIsOfNoDevice ==
  \A d : d.branch \in {"driver_or_firmware", "other_trouble"} => d # None
BY DEF None

LEMMA RankOfStage == \A i \in 1..4 : Rank(Stages[i]) = i
<1>1. DOMAIN Stages = 1..4
  BY DEF Stages
<1>2. \A i, j \in 1..4 : Stages[i] = Stages[j] => i = j
  BY DEF Stages
<1>3. ASSUME NEW i \in 1..4 PROVE Rank(Stages[i]) = i
  <2>1. Rank(Stages[i]) = CHOOSE j \in 1..4 : Stages[j] = Stages[i]
    BY <1>1 DEF Rank
  <2>2. \E j \in 1..4 : Stages[j] = Stages[i]
    OBVIOUS
  <2>3. Rank(Stages[i]) \in 1..4 /\ Stages[Rank(Stages[i])] = Stages[i]
    BY <2>1, <2>2, Zenon
  <2> QED
    BY <1>2, <2>3
<1> QED
  BY <1>3

(* How far the diagnosis of a device has come. *)
Reached(branch, facts) ==
  IF Required(branch) \ facts # {} THEN 1
  ELSE IF facts \cap Signs = {} THEN 2
  ELSE IF "recent_change" \notin facts THEN 3 ELSE 4

LEMMA StageIsReached ==
  ASSUME NEW branch \in {"driver_or_firmware", "other_trouble"}, NEW facts
  PROVE  /\ Reached(branch, facts) \in 1..4
         /\ Rank(Stage(branch, facts)) = Reached(branch, facts)
<1>1. Reached(branch, facts) \in 1..4
  BY DEF Reached
<1>2. Stage(branch, facts) = Stages[Reached(branch, facts)]
  BY DEF Stage, Reached
<1> QED
  BY <1>1, <1>2, RankOfStage

(* What was known but for the roles is enough to have come as far: a device *)
(* is not asked for them.                                                   *)
LEMMA MoreIsKnown ==
  ASSUME NEW branch \in {"driver_or_firmware", "other_trouble"},
         NEW old, NEW new, old \ Roles \subseteq new
  PROVE  /\ Required(branch) \ new \subseteq Required(branch) \ old
         /\ Reached(branch, old) <= Reached(branch, new)
<1>1. Required(branch) \cap Roles = {}
  BY DEF Required, Named, Roles
<1>2. Signs \cap Roles = {} /\ "recent_change" \notin Roles
  BY DEF Signs, Roles
<1>3. Required(branch) \ new \subseteq Required(branch) \ old
  BY <1>1
<1>4. old \cap Signs \subseteq new \cap Signs
  BY <1>2
<1>5. "recent_change" \in old => "recent_change" \in new
  BY <1>2
<1> QED
  BY <1>3, <1>4, <1>5 DEF Reached

LEMMA TurnConstants == MaxTurns \in Nat /\ MaxTurns \div 2 \in Nat
                         /\ 2 * (MaxTurns \div 2) <= MaxTurns
BY AvaGatewayAssumption DEF AvaGatewayAssumption

LEMMA NewFits == DiagnosisFits(NoVersion) /\ VersionTalks(NoVersion)
<1>1. /\ NoVersion.session.facts = {} /\ NoVersion.session.turns = <<>>
      /\ NoVersion.talk = <<>> /\ NoVersion.last = None
  BY DEF NoVersion, NewSession
<1>2. <<>> \in Seq(SUBSET Words) /\ Len(<<>>) = 0
  OBVIOUS
<1>3. 0 <= MaxTurns /\ 0 <= MaxTurns \div 2
  BY TurnConstants
<1>4. TalkFits(<<>>, <<>>)
  BY DEF TalkFits
<1> QED
  BY <1>1, <1>2, <1>3, <1>4, Zenon DEF DiagnosisFits, VersionTalks

LEMMA DiagnosisInit == Init => DiagnosisInv
<1> SUFFICES ASSUME Init PROVE DiagnosisInv
  OBVIOUS
<1>1. chat = Idle
  BY DEF Init
<1> QED
  BY <1>1, ChainInit, NewFits, Zenon DEF DiagnosisInv

LEMMA DiagnosisStep == DiagnosisInv /\ [Next]_vars => DiagnosisInv'
<1> SUFFICES ASSUME DiagnosisInv, [Next]_vars PROVE DiagnosisInv'
  OBVIOUS
<1> DEFINE ChatFits ==
      chat # Idle =>
        /\ chat.at = "awaiting" /\ session.facts \subseteq chat.facts
        /\ chat.facts \subseteq Facts
        /\ chat.diagnosis = Diagnosis(chat.diagnosis.branch, chat.facts)
<1>0. ChainInv /\ ChatFits /\ DiagnosisFits(Now) /\ Now.session = session
  BY DEF DiagnosisInv, Now
<1>6. session.facts \subseteq Facts
  BY <1>0 DEF DiagnosisFits
<1>1. ASSUME Request PROVE ChatFits'
  <2>1. CASE UNCHANGED chat
    BY <1>0, <1>1, <2>1 DEF Request
  <2>2. ASSUME NEW m \in Messages,
               LET facts == session.facts \cup m.facts IN
               chat' = [at |-> "awaiting", message |-> m, facts |-> facts,
                        diagnosis |-> Diagnosis(Branch(Context(m)), facts)]
        PROVE  ChatFits'
    <3>1. m.facts \subseteq Facts
      BY AvaGatewayAssumption DEF AvaGatewayAssumption
    <3>2. session' = session
      BY <1>1 DEF Request
    <3>3. /\ chat'.at = "awaiting" /\ chat'.facts = session.facts \cup m.facts
          /\ chat'.diagnosis = Diagnosis(Branch(Context(m)), chat'.facts)
      BY <2>2
    <3>4. chat'.diagnosis.branch = Branch(Context(m))
      BY <3>3 DEF Diagnosis
    <3> QED
      BY <1>6, <3>1, <3>2, <3>3, <3>4
  <2> QED
    BY <1>1, <2>1, <2>2 DEF Request
<1>2. ASSUME Finish PROVE DiagnosisFits(Now')
  <2>1. /\ chat # Idle /\ last' = chat.diagnosis
        /\ session'.facts = session.facts \cup (chat.facts \ Roles)
    BY <1>2 DEF Finish, FactsKept
  <2>2. /\ chat.facts \subseteq Facts
        /\ chat.diagnosis = Diagnosis(chat.diagnosis.branch, chat.facts)
    BY <1>0, <2>1
  <2>3. chat.facts \ Roles \subseteq session'.facts /\ session'.facts \subseteq Facts
    BY <1>6, <2>1, <2>2
  <2>4. Now'.session = session' /\ Now'.last = last'
    BY DEF Now
  <2> QED
    BY <2>1, <2>2, <2>3, <2>4, Zenon DEF DiagnosisFits
<1>3. ASSUME Finish \/ Expire \/ Restart \/ DraftFails PROVE chat' = Idle
  BY <1>3 DEF Finish, Expire, Restart, DraftFails
<1>4. ASSUME Tick \/ Upsert \/ UNCHANGED vars PROVE ChatFits'
  BY <1>0, <1>4 DEF Tick, Upsert, vars
<1>5. ChatFits'
  BY <1>1, <1>3, <1>4 DEF Next
<1> HIDE DEF ChatFits
<1>7. ChainInv' /\ \A v \in Versions' \cup {Now'} : DiagnosisFits(v)
  BY <1>0, <1>2, ChainStep, NewFits, Zenon DEF DiagnosisInv
<1> QED
  BY <1>5, <1>7 DEF DiagnosisInv, ChatFits

(* Whatever the visitor writes, the diagnosis of a device neither goes back *)
(* a stage nor asks again for a field that it had.                          *)
THEOREM DeviceDiagnosisMovesOn == Spec => []DiagnosisMovesOn
<1>1. DiagnosisInv => DiagnosisMovesOn
  <2> SUFFICES ASSUME DiagnosisInv, chat # Idle, chat.diagnosis.branch = last.branch,
                      last.branch \in {"driver_or_firmware", "other_trouble"}
               PROVE  /\ Rank(last.stage) <= Rank(chat.diagnosis.stage)
                      /\ chat.diagnosis.missing \subseteq last.missing
    BY DEF DiagnosisMovesOn
  <2> DEFINE branch == last.branch
  <2>1. last # None
    BY NoneIsOfNoDevice
  <2>2. PICK facts \in SUBSET Facts :
          facts \ Roles \subseteq session.facts /\ last = Diagnosis(branch, facts)
    <3>1. DiagnosisFits(Now) /\ Now.session = session /\ Now.last = last
      BY DEF DiagnosisInv, Now
    <3> QED
      BY <2>1, <3>1 DEF DiagnosisFits
  <2>3. session.facts \subseteq chat.facts /\ chat.diagnosis = Diagnosis(branch, chat.facts)
    BY DEF DiagnosisInv
  <2>4. /\ last.stage = Stage(branch, facts)
        /\ last.missing = Required(branch) \ facts
        /\ chat.diagnosis.stage = Stage(branch, chat.facts)
        /\ chat.diagnosis.missing = Required(branch) \ chat.facts
    BY <2>2, <2>3 DEF Diagnosis
  <2>5. facts \ Roles \subseteq chat.facts
    BY <2>2, <2>3
  <2> HIDE DEF branch
  <2>6. branch \in {"driver_or_firmware", "other_trouble"}
    BY DEF branch
  <2> QED
    BY <2>4, <2>5, <2>6, StageIsReached, MoreIsKnown
<1> QED
  BY <1>1, DiagnosisInit, DiagnosisStep, PTL DEF Spec

-----------------------------------------------------------------------------
(* The talk. *)

(* r is the last n of a sequence, or all of it. *)
IsLatest(r, s, n) ==
  /\ Len(r) = IF Len(s) <= n THEN Len(s) ELSE n
  /\ \A i \in 1..Len(r) : r[i] = s[i + (Len(s) - Len(r))]

LEMMA RecentIsLatest ==
  ASSUME NEW S, NEW s \in Seq(S), NEW n \in Nat
  PROVE  Recent(s, n) \in Seq(S) /\ IsLatest(Recent(s, n), s, n)
<1> DEFINE r == Recent(s, n)
           k == IF Len(s) <= n THEN Len(s) ELSE n
           m == Len(s) - k + 1
<1>1. /\ Len(s) \in Nat /\ k \in Nat /\ k <= Len(s) /\ m \in Int /\ m >= 1
      /\ m = Len(s) - k + 1 /\ k = IF Len(s) <= n THEN Len(s) ELSE n
  OBVIOUS
<1>2. Min({n, Len(s)}) = k
  <2>1. k \in {n, Len(s)} /\ \A y \in {n, Len(s)} : k <= y
    BY <1>1
  <2>2. \A x, y \in Nat : x <= y /\ y <= x => x = y
    OBVIOUS
  <2> QED
    BY <1>1, <2>1, <2>2 DEF Min
<1> HIDE DEF m, k
<1>3. r = SubSeq(s, m, Len(s))
  BY <1>2 DEF Recent, m
<1> HIDE DEF r
<1>4. /\ r \in Seq(S) /\ Len(r) = (IF m <= Len(s) THEN Len(s) - m + 1 ELSE 0)
      /\ \A i \in 1..(Len(s) - m + 1) : r[i] = s[m + i - 1]
  <2>1. m \in Nat /\ m >= 1
    BY <1>1
  <2> QED
    BY <1>3, <2>1
<1>5. Len(r) = k
  BY <1>1, <1>4
<1>6. ASSUME NEW i \in 1..k
      PROVE  r[i] = s[i + (Len(s) - k)]
  <2>1. i \in 1..(Len(s) - m + 1) /\ m + i - 1 = i + (Len(s) - k)
    BY <1>1
  <2> QED
    BY <1>4, <2>1
<1> QED
  <2>1. IsLatest(r, s, n)
    BY <1>1, <1>5, <1>6 DEF IsLatest
  <2> QED
    BY <1>4, <2>1 DEF r

(* A message and its answer are two turns, and a message of the visitor's   *)
(* leaves the last half of the turns no sooner than they leave the session. *)
LEMMA TalkMoves ==
  ASSUME NEW S, NEW turns \in Seq(S), Len(turns) <= MaxTurns,
         NEW said \in Seq(S), Len(said) <= MaxTurns \div 2,
         TalkFits(turns, said), NEW w \in S, NEW more \in Seq(S), Len(more) <= 1,
         NEW turns2, turns2 = Recent(turns \o (<<w>> \o more), MaxTurns),
         NEW said2, said2 = Recent(Append(said, w), MaxTurns \div 2)
  PROVE  /\ turns2 \in Seq(S) /\ Len(turns2) <= MaxTurns
         /\ said2 \in Seq(S) /\ Len(said2) <= MaxTurns \div 2
         /\ TalkFits(turns2, said2)
<1> DEFINE all == turns \o (<<w>> \o more)
           every == Append(said, w)
           H == MaxTurns \div 2
           gone == Len(all) - Len(turns2)
           left == Len(every) - Len(said2)
<1>1. MaxTurns \in Nat /\ H \in Nat /\ 2 * H <= MaxTurns
  BY TurnConstants
<1>2. /\ all \in Seq(S) /\ Len(all) = Len(turns) + 1 + Len(more)
      /\ \A p \in 1..Len(turns) : all[p] = turns[p]
      /\ all[Len(turns) + 1] = w
  <2>1. <<w>> \in Seq(S) /\ Len(<<w>>) = 1 /\ <<w>>[1] = w
    OBVIOUS
  <2>2. /\ <<w>> \o more \in Seq(S) /\ Len(<<w>> \o more) = 1 + Len(more)
        /\ (<<w>> \o more)[1] = w
    BY <2>1, ConcatProperties
  <2> QED
    BY <2>2, ConcatProperties
<1>3. /\ every \in Seq(S) /\ Len(every) = Len(said) + 1
      /\ \A j \in 1..Len(said) : every[j] = said[j]
      /\ every[Len(said) + 1] = w
  BY AppendProperties
<1>4. Len(turns) \in Nat /\ Len(said) \in Nat /\ Len(more) \in 0..1
  OBVIOUS
<1>5. /\ turns2 \in Seq(S)
      /\ Len(turns2) = IF Len(all) <= MaxTurns THEN Len(all) ELSE MaxTurns
      /\ \A p \in 1..Len(turns2) : turns2[p] = all[p + gone]
  <2>1. turns2 = Recent(all, MaxTurns)
    OBVIOUS
  <2> HIDE DEF all, every, H
  <2>2. turns2 \in Seq(S) /\ IsLatest(turns2, all, MaxTurns)
    BY <1>1, <1>2, <2>1, RecentIsLatest
  <2> QED
    BY <2>2 DEF IsLatest
<1>6. /\ said2 \in Seq(S)
      /\ Len(said2) = IF Len(every) <= H THEN Len(every) ELSE H
      /\ \A j \in 1..Len(said2) : said2[j] = every[j + left]
  <2>1. said2 = Recent(every, H)
    OBVIOUS
  <2> HIDE DEF all, every, H
  <2>2. said2 \in Seq(S) /\ IsLatest(said2, every, H)
    BY <1>1, <1>3, <2>1, RecentIsLatest
  <2> QED
    BY <2>2 DEF IsLatest
<1> HIDE DEF all, every, H
<1>7. /\ gone \in Nat /\ Len(turns2) \in Nat /\ gone = Len(all) - Len(turns2)
      /\ Len(turns2) <= MaxTurns /\ (gone # 0 => Len(turns2) = MaxTurns)
  <2>1. Len(all) \in Nat /\ Len(turns2) \in Nat
    BY <1>2, <1>5
  <2> QED
    BY <1>1, <1>5, <2>1
<1>8. /\ left \in Nat /\ Len(said2) \in Nat /\ left = Len(every) - Len(said2)
      /\ Len(said2) <= H
  <2>1. Len(every) \in Nat /\ Len(said2) \in Nat
    BY <1>3, <1>6
  <2> QED
    BY <1>1, <1>6, <2>1
<1> HIDE DEF gone, left
<1>9. ASSUME NEW j \in 1..Len(said2)
      PROVE  \E p \in 1..Len(turns2) :
               /\ turns2[p] = said2[j]
               /\ Len(turns2) - p <= 2 * (Len(said2) - j) + 1
  <2>1. ASSUME NEW q \in Nat, q \in 1..Len(all), all[q] = said2[j],
               Len(all) - q <= 2 * (Len(said2) - j) + 1
        PROVE  \E p \in 1..Len(turns2) :
                 /\ turns2[p] = said2[j]
                 /\ Len(turns2) - p <= 2 * (Len(said2) - j) + 1
    <3>1. q - gone \in 1..Len(turns2) /\ Len(turns2) - (q - gone) = Len(all) - q
      <4>1. j \in Nat /\ j >= 1 /\ Len(all) \in Nat /\ q >= 1 /\ q <= Len(all)
        BY <1>2, <1>4, <1>7, <1>8, <2>1
      <4>2. q - gone >= 1
        <5>1. CASE gone = 0
          BY <4>1, <5>1
        <5>2. CASE gone # 0
          BY <1>1, <1>7, <1>8, <2>1, <4>1, <5>2
        <5> QED
          BY <5>1, <5>2
      <4> QED
        BY <1>7, <1>8, <4>1, <4>2
    <3>2. turns2[q - gone] = all[q]
      <4>1. (q - gone) + gone = q
        BY <1>7, <1>8
      <4> QED
        BY <1>5, <3>1, <4>1
    <3> QED
      BY <2>1, <3>1, <3>2
  <2>2. /\ j \in Nat /\ 1 <= j /\ j <= Len(said2)
        /\ Len(said2) \in Nat /\ left \in Nat /\ Len(said) \in Nat
        /\ left + Len(said2) = Len(said) + 1
    <3>1. j \in Nat /\ 1 <= j /\ j <= Len(said2)
      BY <1>8
    <3>2. Len(every) = Len(said) + 1 /\ Len(every) \in Nat
      BY <1>3
    <3> QED
      BY <1>4, <1>8, <3>1, <3>2
  <2>3. said2[j] = every[j + left]
    BY <1>6
  <2>4. CASE j + left > Len(said)
    <3>1. said2[j] = w /\ Len(said2) = j
      <4>1. Len(said2) = j /\ j + left = Len(said) + 1
        BY <2>2, <2>4
      <4> QED
        BY <1>3, <2>3, <4>1
    <3>2. /\ Len(turns) + 1 \in 1..Len(all)
          /\ Len(all) - (Len(turns) + 1) <= 2 * (Len(said2) - j) + 1
      BY <1>2, <1>4, <3>1
    <3>3. Len(turns) + 1 \in Nat /\ all[Len(turns) + 1] = said2[j]
      BY <1>2, <1>4, <3>1
    <3> QED
      BY <2>1, <3>2, <3>3
  <2>5. CASE j + left <= Len(said)
    <3>1. j + left \in 1..Len(said) /\ Len(said2) - j = Len(said) - (j + left) + 1
      BY <2>2, <2>5
    <3>2. said2[j] = said[j + left]
      BY <1>3, <2>3, <3>1
    <3>3. PICK q \in 1..Len(turns) :
            /\ turns[q] = said[j + left]
            /\ Len(turns) - q <= 2 * (Len(said) - (j + left)) + 1
      BY <3>1 DEF TalkFits
    <3>4. /\ q \in 1..Len(all) /\ all[q] = said2[j]
          /\ Len(all) - q <= 2 * (Len(said2) - j) + 1
      BY <1>2, <1>4, <3>1, <3>2, <3>3
    <3>5. q \in Nat
      OBVIOUS
    <3> QED
      BY <2>1, <3>4, <3>5
  <2> QED
    BY <2>2, <2>4, <2>5
<1>10. TalkFits(turns2, said2)
  BY <1>9 DEF TalkFits
<1> QED
  BY <1>5, <1>6, <1>7, <1>8, <1>10 DEF H

LEMMA TalkInit == Init => TalkInv
<1> SUFFICES ASSUME Init PROVE TalkInv
  OBVIOUS
<1>1. chat = Idle
  BY DEF Init
<1> QED
  BY <1>1, ChainInit, NewFits, Zenon DEF TalkInv

LEMMA TalkStep == TalkInv /\ [Next]_vars => TalkInv'
<1> SUFFICES ASSUME TalkInv, [Next]_vars PROVE TalkInv'
  OBVIOUS
<1> DEFINE ChatTalks ==
      chat # Idle => /\ chat.message \in Messages
                     /\ chat.diagnosis.branch = Branch(Context(chat.message))
<1>0. ChainInv /\ ChatTalks /\ VersionTalks(Now)
  BY DEF TalkInv
<1>6. Now.session = session /\ Now.talk = talk /\ Now'.session = session' /\ Now'.talk = talk'
  BY DEF Now
<1>1. ASSUME Request PROVE ChatTalks'
  <2>1. session' = session
    BY <1>1 DEF Request
  <2>2. CASE UNCHANGED chat
    BY <1>0, <2>1, <2>2 DEF Context
  <2>3. ASSUME NEW m \in Messages,
               LET facts == session.facts \cup m.facts IN
               chat' = [at |-> "awaiting", message |-> m, facts |-> facts,
                        diagnosis |-> Diagnosis(Branch(Context(m)), facts)]
        PROVE  ChatTalks'
    <3>1. chat'.message = m /\ chat'.diagnosis.branch = Branch(Context(m))
      BY <2>3 DEF Diagnosis
    <3>2. Context(m)' = Context(m)
      BY <2>1 DEF Context
    <3> QED
      BY <2>1, <3>1, <3>2 DEF Context
  <2> QED
    BY <1>1, <2>2, <2>3 DEF Request
<1>2. ASSUME Finish PROVE VersionTalks(Now')
  <2>1. PICK answer \in {<<>>} \cup {<<words>> : words \in AnswerWords} :
          session'.turns = Recent(session.turns \o TurnsOf(chat.message, answer), MaxTurns)
    BY <1>2 DEF Finish
  <2>2. /\ talk' = Recent(Append(talk, chat.message.words), MaxTurns \div 2)
        /\ chat' = Idle
    BY <1>2 DEF Finish
  <2>3. chat.message.words \in SUBSET Words
    BY <1>0, <1>2, AvaGatewayAssumption DEF AvaGatewayAssumption, Finish
  <2>4. answer \in Seq(SUBSET Words) /\ Len(answer) <= 1
    <3>1. CASE answer = <<>>
      BY <3>1
    <3>2. ASSUME NEW words \in AnswerWords, answer = <<words>>
          PROVE  answer \in Seq(SUBSET Words) /\ Len(answer) <= 1
      <4>1. words \in SUBSET Words
        BY AvaGatewayAssumption DEF AvaGatewayAssumption
      <4> HIDE DEF Words
      <4> QED
        BY <3>2, <4>1
    <3> QED
      BY <3>1, <3>2
  <2>5. /\ session'.turns \in Seq(SUBSET Words) /\ Len(session'.turns) <= MaxTurns
        /\ talk' \in Seq(SUBSET Words) /\ Len(talk') <= MaxTurns \div 2
        /\ TalkFits(session'.turns, talk')
    <3> DEFINE w == chat.message.words
               before == session.turns
               after  == session'.turns
    <3>1. /\ before \in Seq(SUBSET Words) /\ Len(before) <= MaxTurns
          /\ talk \in Seq(SUBSET Words) /\ Len(talk) <= MaxTurns \div 2
          /\ TalkFits(before, talk)
      BY <1>0, <1>6 DEF VersionTalks
    <3>2. /\ after = Recent(before \o (<<w>> \o answer), MaxTurns)
          /\ talk' = Recent(Append(talk, w), MaxTurns \div 2)
      BY <2>1, <2>2 DEF TurnsOf
    <3> HIDE DEF w, before, after
    <3>3. /\ after \in Seq(SUBSET Words) /\ Len(after) <= MaxTurns
          /\ talk' \in Seq(SUBSET Words) /\ Len(talk') <= MaxTurns \div 2
          /\ TalkFits(after, talk')
      <4>1. w \in SUBSET Words
        BY <2>3 DEF w
      <4> QED
        BY <2>4, <3>1, <3>2, <4>1, TalkMoves, SMT
    <3> QED
      BY <3>3 DEF after
  <2> QED
    BY <1>6, <2>5 DEF VersionTalks
<1>3. ASSUME Finish \/ Expire \/ Restart \/ DraftFails PROVE chat' = Idle
  BY <1>3 DEF Finish, Expire, Restart, DraftFails
<1>4. ASSUME Tick \/ Upsert \/ UNCHANGED vars PROVE ChatTalks'
  BY <1>0, <1>4 DEF Tick, Upsert, vars, Context
<1>5. ChatTalks'
  BY <1>1, <1>3, <1>4 DEF Next
<1>7. ChainInv' /\ \A v \in Versions' \cup {Now'} : VersionTalks(v)
  BY <1>0, <1>2, ChainStep, NewFits, Zenon DEF TalkInv
<1> QED
  BY <1>5, <1>7 DEF TalkInv

(* Two turns of AVA's and the visitor's go with each message, so that none  *)
(* of the last MAX_TURNS / 2 messages has left the session's turns.         *)
THEOREM TalkIsRemembered == Spec => []RecentTalkCounts
<1>1. TalkInv => RecentTalkCounts
  <2> SUFFICES ASSUME TalkInv, chat # Idle, "trouble" \in UNION Range(talk)
               PROVE  /\ chat.diagnosis.branch \in
                           {"hdmi_signal_path", "driver_or_firmware", "other_trouble"}
                      /\ "hdmi" \in UNION Range(talk) =>
                           chat.diagnosis.branch = "hdmi_signal_path"
    BY DEF RecentTalkCounts
  <2>3. /\ session.turns \in Seq(SUBSET Words) /\ talk \in Seq(SUBSET Words)
        /\ TalkFits(session.turns, talk)
    <3>1. VersionTalks(Now) /\ Now.session = session /\ Now.talk = talk
      BY DEF TalkInv, Now
    <3> QED
      BY <3>1, Zenon DEF VersionTalks
  <2>1. \A word \in UNION Range(talk) : word \in Context(chat.message)
    <3> SUFFICES ASSUME NEW j \in 1..Len(talk), NEW word \in talk[j]
                 PROVE  word \in Context(chat.message)
      BY <2>3 DEF Range
    <3>1. PICK p \in 1..Len(session.turns) : session.turns[p] = talk[j]
      BY <2>3 DEF TalkFits
    <3>2. talk[j] \in Range(session.turns)
      BY <2>3, <3>1 DEF Range
    <3> QED
      BY <3>2 DEF Context
  <2>2. chat.diagnosis.branch = Branch(Context(chat.message))
    BY DEF TalkInv
  <2> QED
    BY <2>1, <2>2 DEF Branch
<1> QED
  BY <1>1, TalkInit, TalkStep, PTL DEF Spec
=============================================================================
