--------------------------- MODULE CostGateProofs ---------------------------
(***************************************************************************)
(* Proofs about the daily ledger and its gate, for every set of calls,      *)
(* estimates and limits and every environment, stored in a file or behind a  *)
(* chain of upserts.                                                        *)
(***************************************************************************)
EXTENDS CostGate, SumTheorems, SequenceTheorems

CallStatus == Flight \cup Charged \cup [status : Uncharged]

LEMMA Basics ==
  ASSUME TypeOK
  PROVE  /\ today \in 0..MaxDay /\ today \in Nat
         /\ ledger \in Ledger /\ ledger.day <= today
         /\ ownerStop \in BOOLEAN /\ calls \in [Calls -> CallStatus]
         /\ row \in Version /\ chain \in Seq(Version)
         /\ row.ledger.day <= today /\ row.paid \subseteq Received
<1>1. /\ today \in 0..MaxDay /\ ledger \in Ledger /\ ownerStop \in BOOLEAN
      /\ calls \in [Calls -> CallStatus]
      /\ row \in Version /\ chain \in Seq(Version)
      /\ \A v \in Versions \cup {Now} : v.ledger.day <= today /\ v.paid \subseteq Received
  BY Zenon DEF TypeOK, CallStatus
<1>2. row \in Versions \cup {Now} /\ Now \in Versions \cup {Now}
  BY DEF Versions
<1>3. Now.ledger = ledger
  BY DEF Now
<1>4. today \in Nat
  BY <1>1, CostGateAssumption DEF CostGateAssumption
<1> QED
  BY <1>1, <1>2, <1>3, <1>4

(* What the three loads of a turn have in common: the day is today's, and   *)
(* all of them count the same spending, none on a new day.                  *)
LEMMA Loads ==
  ASSUME TypeOK
  PROVE  /\ Rolled \in Ledger /\ FirstLoad \in Ledger /\ Reload \in Ledger
         /\ Rolled.day = today /\ FirstLoad.day = today
         /\ FirstLoad.spent = Rolled.spent
         /\ ledger.day = today => Rolled.spent = ledger.spent
         /\ ledger.day # today => Rolled.spent = 0
<1> USE CostGateAssumption
<1>1. Rolled \in Ledger /\ Rolled.day = today
  <2>1. ledger.day = today => Rolled = ledger
    BY DEF Rolled
  <2>2. CASE ledger.day # today
    <3>1. Rolled = [ledger EXCEPT !.day = today, !.spent = 0]
      BY <2>2 DEF Rolled
    <3>2. Rolled = [day |-> today, limit |-> ledger.limit, autoLimit |-> ledger.autoLimit,
                    spent |-> 0, stop |-> ledger.stop,
                    approvalRequired |-> ledger.approvalRequired]
      BY <3>1, Basics DEF Ledger
    <3>3. 0 \in Int
      OBVIOUS
    <3> QED
      BY <3>2, <3>3, Basics DEF Ledger
  <2> QED
    BY <2>1, <2>2, Basics
<1>2. \A l \in Ledger : /\ Overridden(l) \in Ledger
                        /\ Overridden(l).day = l.day
                        /\ Overridden(l).spent = l.spent
  <2> TAKE l \in Ledger
  <2>1. /\ Env(EnvLimit, l.limit) \in Int
        /\ Env(EnvAutoLimit, l.autoLimit) \in Int
        /\ Env(EnvStop, l.stop) \in BOOLEAN
        /\ Env(EnvApproval, l.approvalRequired) \in BOOLEAN
    BY DEF CostGateAssumption, Ledger, Env
  <2> QED
    BY <2>1 DEF Overridden, Ledger
<1>3. ledger \in Ledger
  BY Basics
<1>4. Reload \in Ledger
  BY <1>1, <1>2 DEF Reload
<1>5. /\ FirstLoad \in Ledger /\ FirstLoad.day = today
      /\ FirstLoad.spent = Rolled.spent
  <2>1. CASE ledger.day = today
    BY <1>2, <1>3, <2>1 DEF FirstLoad, Rolled
  <2>2. CASE ledger.day # today
    BY <1>1, <2>2 DEF FirstLoad
  <2> QED
    BY <2>1, <2>2
<1> QED
  BY <1>1, <1>3, <1>4, <1>5 DEF Rolled, Ledger

(* What the turns write: the new day's reset, or the state they leave. *)
RolledNow == [Now EXCEPT !.ledger = Rolled]

LEMMA VersionTypes ==
  ASSUME TypeOK
  PROVE  /\ Now \in Version /\ RolledNow \in Version /\ row \in Version
         /\ RolledNow = [ledger |-> Rolled, stop |-> ownerStop, paid |-> Received]
         /\ Versions \subseteq Version
<1>1. Received \in SUBSET Calls /\ ledger \in Ledger /\ Rolled \in Ledger
  BY Loads, Basics DEF Received
<1>2. ownerStop \in BOOLEAN /\ row \in Version /\ chain \in Seq(Version)
  BY Basics
<1>3. Now \in Version
  BY <1>1, <1>2 DEF Now, Version
<1>4. RolledNow = [ledger |-> Rolled, stop |-> ownerStop, paid |-> Received]
  BY DEF RolledNow, Now
<1>5. RolledNow \in Version
  BY <1>1, <1>2, <1>4 DEF Version
<1>6. Versions \subseteq Version
  BY <1>2 DEF Versions, ToSet
<1> QED
  BY <1>2, <1>3, <1>4, <1>5, <1>6

-----------------------------------------------------------------------------
(* What the two ways of saving do to the versions there are.                *)

LEMMA SavedVersions ==
  ASSUME NEW V, row \in V, chain \in Seq(V), NEW images \in Seq(V), Saves(images)
  PROVE  /\ row' \in V /\ chain' \in Seq(V)
         /\ Versions' \subseteq Versions \cup ToSet(images)
<1>1. CASE WriteBehind
  <2>1. chain' = chain \o images /\ row' = row
    BY <1>1 DEF Saves, Chained
  <2> QED
    BY <2>1 DEF Versions, ToSet
<1>2. CASE ~WriteBehind
  <2>1. chain' = chain /\ row' = Last(<<row>> \o images)
    BY <1>2 DEF Saves, Written
  <2>2. CASE images = <<>>
    BY <2>1, <2>2 DEF Versions, ToSet, Last
  <2>3. CASE images # <<>>
    <3>1. Len(images) \in 1..Len(images) /\ row' = images[Len(images)]
      BY <2>1, <2>3 DEF Last
    <3> QED
      BY <2>1, <3>1 DEF Versions, ToSet
  <2> QED
    BY <2>2, <2>3
<1> QED
  BY <1>1, <1>2

LEMMA SettledVersions ==
  ASSUME NEW V, row \in V, chain \in Seq(V), UpsertStored \/ UpsertRejected
  PROVE  row' \in V /\ chain' \in Seq(V) /\ Versions' \subseteq Versions
BY DEF UpsertStored, UpsertRejected, Versions, ToSet

LEMMA ResetsTyped ==
  /\ Resets \in Seq({RolledNow}) /\ ToSet(Resets) \subseteq {RolledNow}
  /\ Resets \o <<Now'>> \in Seq({RolledNow, Now'})
  /\ ToSet(Resets \o <<Now'>>) \subseteq {RolledNow, Now'}
<1> DEFINE a == RolledNow  b == Now'
<1>1. Resets = <<>> \/ Resets = <<a>>
  BY DEF Resets, RolledNow
<1>2. Resets \in Seq({a}) /\ Resets \in Seq({a, b}) /\ <<b>> \in Seq({a, b})
  <2> HIDE DEF a, b
  <2>1. <<>> \in Seq({a}) /\ <<>> \in Seq({a, b})
    OBVIOUS
  <2>2. <<a>> \in Seq({a}) /\ <<a>> \in Seq({a, b})
    OBVIOUS
  <2>3. <<b>> \in Seq({a, b})
    OBVIOUS
  <2> QED
    BY <1>1, <2>1, <2>2, <2>3, Zenon
<1>3. Resets \o <<b>> \in Seq({a, b})
  <2> HIDE DEF a, b
  <2> QED
    BY <1>2
<1>4. ASSUME NEW V, NEW s \in Seq(V) PROVE ToSet(s) \subseteq V
  BY DEF ToSet
<1> QED
  <2> HIDE DEF a, b
  <2>1. ToSet(Resets) \subseteq {a} /\ ToSet(Resets \o <<b>>) \subseteq {a, b}
    BY <1>2, <1>3, <1>4
  <2> QED
    BY <1>2, <1>3, <2>1 DEF a, b

-----------------------------------------------------------------------------
(* The three turns that leave a ledger of their own. *)
Charges == \E c \in Calls : Answer(c)
Settings ==
  \/ \E limit, autoLimit \in Limits, required \in BOOLEAN :
       SetCostLimit(limit, autoLimit, required)
  \/ \E active \in BOOLEAN : SetEmergencyStop(active)

LEMMA CallTypes ==
  ASSUME TypeOK, NEW c \in Calls
  PROVE  /\ c \in InFlight <=> calls[c] \in Flight
         /\ c \in InFlight => calls[c].est \in Estimates
         /\ calls[c].status = "received" <=> calls[c] \in Charged
BY DEF TypeOK, InFlight, Flight, Charged, Uncharged

(* A step other than a crash leaves the calls that were charged as they     *)
(* are, and the versions it saves are those there were, the new day's reset *)
(* and the state it leaves; what it leaves is new only where it charges or  *)
(* sets something.                                                          *)
LEMMA StepShape ==
  ASSUME TypeOK, [Next]_vars, ~Crash
  PROVE  /\ \A c \in Received : calls'[c] = calls[c]
         /\ Received \subseteq Received'
         /\ row' \in Versions \cup {RolledNow, Now'}
         /\ chain' \in Seq(Versions \cup {RolledNow, Now'})
         /\ Versions' \subseteq Versions \cup {RolledNow, Now'}
         /\ Now' \in {Now, RolledNow} \/ Charges \/ Settings
<1> DEFINE Old == Versions \cup {RolledNow, Now'}
<1>1. row \in Old /\ chain \in Seq(Old)
  BY Basics DEF Versions, ToSet
<1> DEFINE Shape == row' \in Old /\ chain' \in Seq(Old) /\ Versions' \subseteq Old
<1>2. ASSUME Saves(Resets) \/ Saves(Resets \o <<Now'>>) PROVE Shape
  <2>1. Resets \in Seq(Old) /\ Resets \o <<Now'>> \in Seq(Old)
    BY ResetsTyped
  <2> HIDE DEF Old
  <2>2. row' \in Old /\ chain' \in Seq(Old)
    BY <1>1, <1>2, <2>1, SavedVersions
  <2>3. Versions' \subseteq Versions \cup {RolledNow, Now'}
    BY <1>1, <1>2, <2>1, SavedVersions, ResetsTyped
  <2> QED
    BY <2>2, <2>3 DEF Old
<1>3. ASSUME SavesNothing PROVE Shape
  BY <1>1, <1>3 DEF SavesNothing, Versions
<1> HIDE DEF Old
<1> DEFINE Calm == \A c \in Received : calls'[c] = calls[c] /\ c \in Received'
           Leaves == Now' \in {Now, RolledNow} \/ Charges \/ Settings
<1>4. ASSUME NEW c \in Calls, NEW r \in Request, Dispatch(c, r)
      PROVE  Calm /\ Shape /\ Leaves
  <2>1. calls[c].status = "new" /\ calls'[c].status # "received"
    BY <1>4 DEF Dispatch, TypeOK
  <2>2. \A d \in Calls : d # c => \/ calls'[d] = calls[d]
                                  \/ d \in InFlight /\ calls'[d].status = "flight"
    <3>1. \A d \in InFlight : [calls[d] EXCEPT !.alone = FALSE].status = "flight"
      BY CallTypes DEF InFlight, Flight
    <3> QED
      BY <1>4, <3>1 DEF Dispatch, TypeOK
  <2>3. Calm /\ Received' = Received
    BY <2>1, <2>2 DEF InFlight, Received
  <2>4. ledger' = Rolled /\ ownerStop' = ownerStop /\ Saves(Resets)
    BY <1>4 DEF Dispatch
  <2>5. Now' = RolledNow
    BY <2>3, <2>4 DEF Now, RolledNow
  <2> QED
    BY <1>2, <2>3, <2>4, <2>5
<1>5. ASSUME NEW c \in Calls, Answer(c) PROVE Calm /\ Shape /\ Leaves
  BY <1>2, <1>5 DEF Answer, InFlight, Received, TypeOK, Charges
<1>6. ASSUME NEW c \in Calls, NetworkFails(c) \/ AnswerUnrecorded(c)
      PROVE  Calm /\ Shape /\ Leaves
  <2>1. Calm /\ Received' = Received
    BY <1>6 DEF NetworkFails, AnswerUnrecorded, InFlight, Received, TypeOK
  <2>2. ledger' = ledger /\ ownerStop' = ownerStop /\ SavesNothing
    BY <1>6 DEF NetworkFails, AnswerUnrecorded
  <2>3. Now' = Now
    BY <2>1, <2>2 DEF Now
  <2> QED
    BY <1>3, <2>1, <2>2, <2>3
<1>7. ASSUME Settings PROVE Calm /\ Shape /\ Leaves
  <2>1. calls' = calls /\ Saves(Resets \o <<Now'>>)
    BY <1>7 DEF Settings, SetCostLimit, SetEmergencyStop
  <2> QED
    BY <1>2, <1>7, <2>1 DEF Received
<1>8. ASSUME Observe PROVE Calm /\ Shape /\ Leaves
  <2>1. calls' = calls /\ Saves(Resets) /\ ledger' = Rolled /\ ownerStop' = ownerStop
    BY <1>8 DEF Observe
  <2>2. Now' = RolledNow
    BY <2>1, VersionTypes DEF Now, Received
  <2> QED
    BY <1>2, <2>1, <2>2 DEF Received
<1>9. ASSUME Upsert \/ Midnight \/ UNCHANGED vars PROVE Calm /\ Shape /\ Leaves
  <2>1. calls' = calls /\ ledger' = ledger /\ ownerStop' = ownerStop
    BY <1>9 DEF Upsert, Midnight, vars
  <2>2. UpsertStored \/ UpsertRejected \/ SavesNothing
    BY <1>9 DEF Upsert, Midnight, vars, SavesNothing
  <2>3. Shape
    BY <1>1, <1>3, <2>2, SettledVersions DEF Old
  <2> QED
    BY <2>1, <2>3 DEF Now, Received
<1> QED
  BY <1>4, <1>5, <1>6, <1>7, <1>8, <1>9 DEF Next, Old, Settings

(* A crash leaves one version, and the calls charged in it as they were. *)
LEMMA CrashShape ==
  ASSUME TypeOK, Crash
  PROVE  /\ Versions' = {row} /\ Now' = row /\ row' = row /\ chain' = <<>>
         /\ \A c \in row.paid : calls'[c] = calls[c]
         /\ Received' = row.paid /\ InFlight' = {}
<1>1. row' = row /\ chain' = <<>>
  BY DEF Crash, ChainLost
<1>2. row.paid \subseteq Received /\ row \in Version
  BY Basics
<1>3. Received \cap InFlight = {}
  BY DEF Received, InFlight
<1>4. (\A c \in row.paid : calls'[c] = calls[c]) /\ Received' = row.paid
  BY <1>2, <1>3 DEF Crash, Received
<1>5. InFlight' = {}
  BY <1>2 DEF Crash, InFlight
<1>6. Now' = row
  BY <1>2, <1>4 DEF Crash, Now, Version
<1> QED
  BY <1>1, <1>4, <1>5, <1>6 DEF Versions, ToSet

-----------------------------------------------------------------------------
LEMMA TypeInit == Init => TypeOK
<1> SUFFICES ASSUME Init PROVE TypeOK
  OBVIOUS
<1> USE CostGateAssumption DEF CostGateAssumption
<1>1. ledger \in Ledger /\ ledger.day = 0
  BY DEF Init, DefaultLedger, Ledger
<1>2. NewCall \in [status : Uncharged]
  BY DEF NewCall, Uncharged
<1>3. calls \in [Calls -> [status : Uncharged]]
  BY <1>2 DEF Init
<1>4. calls \in [Calls -> Flight \cup Charged \cup [status : Uncharged]]
  <2> DEFINE U == [status : Uncharged]
  <2> HIDE DEF U
  <2> SUFFICES calls \in [Calls -> U] => calls \in [Calls -> Flight \cup Charged \cup U]
    BY <1>3 DEF U
  <2> QED
    OBVIOUS
<1>5. today \in 0..MaxDay /\ today = 0
  BY DEF Init
<1>6. ownerStop \in BOOLEAN
  BY Zenon DEF Init
<1>7. Received = {}
  BY DEF Init, Received, NewCall
<1>8. row \in Version /\ row.ledger.day = 0 /\ row.paid = {} /\ chain = <<>>
  BY DEF Init, Version, Ledger, DefaultLedger
<1>9. \A v \in Versions \cup {Now} : v.ledger.day <= today /\ v.paid \subseteq Received
  BY <1>1, <1>5, <1>7, <1>8 DEF Versions, Now, ToSet
<1> QED
  BY <1>1, <1>4, <1>5, <1>6, <1>8, <1>9 DEF TypeOK

LEMMA BasicStep ==
  ASSUME TypeOK, [Next]_vars
  PROVE  /\ ledger' \in Ledger /\ today' \in 0..MaxDay /\ ownerStop' \in BOOLEAN
         /\ ledger'.day <= today' /\ today <= today'
         /\ calls' \in [Calls -> CallStatus]
<1> USE CostGateAssumption DEF CostGateAssumption
<1> DEFINE Basic ==
      /\ ledger' \in Ledger /\ today' \in 0..MaxDay /\ ownerStop' \in BOOLEAN
      /\ ledger'.day <= today' /\ today <= today'
      /\ calls' \in [Calls -> CallStatus]
<1>0. /\ ledger \in Ledger /\ today \in 0..MaxDay /\ ownerStop \in BOOLEAN
      /\ ledger.day <= today /\ calls \in [Calls -> CallStatus] /\ row \in Version
      /\ row.ledger.day <= today
  BY Basics, Zenon
<1>1. ASSUME NEW c \in Calls, NEW r \in Request, Dispatch(c, r) PROVE Basic
  <2>1. /\ [status |-> "blocked"] \in CallStatus
        /\ [status |-> "dry_run"] \in CallStatus
        /\ [status |-> "flight", est |-> r.est, limit |-> FirstLoad.limit,
            alone |-> InFlight = {}, day |-> today] \in CallStatus
    BY <1>0, Loads DEF CallStatus, Flight, Uncharged, Ledger, Request
  <2>2. \A d \in InFlight : [calls[d] EXCEPT !.alone = FALSE] \in CallStatus
    BY CallTypes DEF InFlight, Flight, CallStatus
  <2>3. calls' \in [Calls -> CallStatus]
    BY <1>0, <1>1, <2>1, <2>2 DEF Dispatch
  <2>4. ledger' \in Ledger /\ ledger'.day = today
    BY <1>1, Loads DEF Dispatch
  <2>5. today' = today /\ ownerStop' = ownerStop
    BY <1>1 DEF Dispatch
  <2> QED
    BY <1>0, <2>3, <2>4, <2>5
<1>2. ASSUME NEW c \in Calls, Answer(c) PROVE Basic
  <2>1. calls[c].est \in Estimates
    BY <1>2, CallTypes DEF Answer
  <2>2. ledger' \in Ledger /\ ledger'.day = today
    BY <1>2, <2>1, Loads DEF Answer, AfterCharge, Ledger
  <2>3. [status |-> "received", day |-> today, est |-> calls[c].est] \in CallStatus
    BY <1>0, <2>1 DEF Charged, CallStatus
  <2>4. calls' \in [Calls -> CallStatus] /\ today' = today /\ ownerStop' = ownerStop
    BY <1>0, <1>2, <2>3 DEF Answer
  <2> QED
    BY <1>0, <2>2, <2>4
<1>3. ASSUME NEW c \in Calls, NetworkFails(c) \/ AnswerUnrecorded(c) PROVE Basic
  BY <1>0, <1>3 DEF NetworkFails, AnswerUnrecorded, CallStatus, Uncharged
<1>4. ASSUME NEW limit \in Limits, NEW autoLimit \in Limits,
             NEW required \in BOOLEAN, SetCostLimit(limit, autoLimit, required)
      PROVE  Basic
  <2> limit \in Int /\ autoLimit \in Int
    OBVIOUS
  <2>1. ledger' \in Ledger /\ ledger'.day = today
    BY <1>4, Loads DEF SetCostLimit, Ledger
  <2> QED
    BY <1>0, <1>4, <2>1 DEF SetCostLimit
<1>5. ASSUME NEW active \in BOOLEAN, SetEmergencyStop(active) PROVE Basic
  <2>1. ledger' \in Ledger /\ ledger'.day = today
    BY <1>5, Loads DEF SetEmergencyStop, Ledger
  <2> QED
    BY <1>0, <1>5, <2>1 DEF SetEmergencyStop
<1>6. ASSUME Observe PROVE Basic
  BY <1>0, <1>6, Loads DEF Observe
<1>7. ASSUME Midnight PROVE Basic
  BY <1>0, <1>7 DEF Midnight, Ledger
<1>8. ASSUME Crash PROVE Basic
  <2>1. ledger' = row.ledger /\ ownerStop' = row.stop /\ today' = today
    BY <1>8 DEF Crash
  <2>2. row.ledger \in Ledger /\ row.stop \in BOOLEAN
    BY <1>0 DEF Version
  <2>3. calls' \in [Calls -> CallStatus]
    BY <1>0, <1>8 DEF Crash, CallStatus, Uncharged
  <2> QED
    BY <1>0, <2>1, <2>2, <2>3
<1>9. ASSUME Upsert \/ UNCHANGED vars PROVE Basic
  BY <1>0, <1>9 DEF Upsert, vars
<1> QED
  BY <1>1, <1>2, <1>3, <1>4, <1>5, <1>6, <1>7, <1>8, <1>9 DEF Next

LEMMA TypeStep == TypeOK /\ [Next]_vars => TypeOK'
<1> SUFFICES ASSUME TypeOK, [Next]_vars PROVE TypeOK'
  OBVIOUS
<1>1. /\ ledger' \in Ledger /\ today' \in 0..MaxDay /\ ownerStop' \in BOOLEAN
      /\ ledger'.day <= today' /\ today <= today'
      /\ calls' \in [Calls -> CallStatus]
  BY BasicStep
<1>2. Now' \in Version
  BY <1>1 DEF Now, Version, Received
<1>3. Now'.ledger.day <= today' /\ Now'.paid \subseteq Received'
  BY <1>1 DEF Now
<1>4. \A v \in Versions : /\ v \in Version /\ v.ledger.day <= today
                          /\ v.paid \subseteq Received
  <2>1. \A v \in Versions : v.ledger.day <= today /\ v.paid \subseteq Received
    BY Zenon DEF TypeOK
  <2> QED
    BY <2>1, VersionTypes
<1>5. today \in Nat /\ today' \in Nat /\ \A v \in Version : v.ledger.day \in Nat
  <2>1. 0..MaxDay \subseteq Nat
    BY CostGateAssumption DEF CostGateAssumption
  <2>2. \A v \in Version : v.ledger.day \in 0..MaxDay
    BY DEF Version, Ledger
  <2> QED
    BY <1>1, <2>1, <2>2, Basics
<1>6. CASE ~Crash
  <2>1. RolledNow \in Version /\ RolledNow.ledger.day = today
        /\ RolledNow.paid = Received
    BY VersionTypes, Loads
  <2>2. \A v \in Versions \cup {RolledNow, Now'} :
          v \in Version /\ v.ledger.day <= today' /\ v.paid \subseteq Received'
    BY <1>1, <1>2, <1>3, <1>4, <1>5, <1>6, <2>1, StepShape
  <2>3. row' \in Version /\ chain' \in Seq(Version)
    BY <1>6, <2>2, StepShape
  <2>4. \A v \in Versions' \cup {Now'} :
          v.ledger.day <= today' /\ v.paid \subseteq Received'
    BY <1>6, <2>2, StepShape
  <2> QED
    BY <1>1, <2>3, <2>4, Zenon DEF TypeOK, CallStatus
<1>7. CASE Crash
  <2>1. row \in Version /\ row.ledger.day <= today /\ row \in Versions
    BY Basics DEF Versions
  <2>2. row' \in Version /\ chain' \in Seq(Version)
    BY <1>7, <2>1, CrashShape
  <2>3. \A v \in Versions' \cup {Now'} :
          v.ledger.day <= today' /\ v.paid \subseteq Received'
    BY <1>3, <1>7, CrashShape
  <2> QED
    BY <1>1, <2>2, <2>3, Zenon DEF TypeOK, CallStatus
<1> QED
  BY <1>6, <1>7

(* Every state of the gate is well typed: whatever is stored, configured,   *)
(* recorded or lost, the ledger, the stored one and those on their way are  *)
(* of days that have begun and count only calls that were answered.         *)
THEOREM TypeCorrect == Spec => []TypeOK
<1> QED
  BY TypeInit, TypeStep, PTL DEF Spec

-----------------------------------------------------------------------------
(* Each version of the ledger has the stop the owner's word in it asks for, *)
(* and no load of it is overridden.                                         *)
StopIsStored == \A v \in Versions \cup {Now} : v.stop => v.ledger.stop

LEMMA StopStaysOn ==
  ASSUME TypeOK, StopIsStored, EnvStop \in {NoEnv, TRUE}
  PROVE  /\ RolledNow.stop => RolledNow.ledger.stop
         /\ ownerStop => Rolled.stop /\ FirstLoad.stop /\ Reload.stop
<1>1. ownerStop => ledger.stop
  <2>1. Now.stop => Now.ledger.stop
    BY DEF StopIsStored
  <2>2. Now.stop = ownerStop /\ Now.ledger = ledger
    BY DEF Now
  <2> QED
    BY <2>1, <2>2
<1>2. Rolled \in Ledger /\ ledger \in Ledger /\ (ownerStop => Rolled.stop)
  BY <1>1, Loads, Basics DEF Rolled, Ledger
<1>3. \A l \in Ledger : l.stop => Overridden(l).stop
  BY DEF Overridden, Env, Ledger
<1>4. RolledNow.stop => RolledNow.ledger.stop
  BY <1>2, VersionTypes
<1> QED
  BY <1>1, <1>2, <1>3, <1>4 DEF FirstLoad, Reload

LEMMA StartIsDispatch ==
  ASSUME TypeOK, [Next]_vars, NEW d \in Calls, Starts(d)
  PROVE  \E r \in Request : Dispatch(d, r) /\ GatePassed(r)
<1>1. calls'[d].status = "flight" /\ calls[d].status = "new"
  BY DEF Starts
<1>2. ASSUME NEW c \in Calls, Answer(c) \/ NetworkFails(c) \/ AnswerUnrecorded(c)
      PROVE  FALSE
  BY <1>1, <1>2, Basics DEF Answer, NetworkFails, AnswerUnrecorded
<1>3. ASSUME Crash PROVE FALSE
  BY <1>1, <1>3, Basics DEF Crash, InFlight
<1>4. calls' # calls
  BY <1>1
<1>5. PICK c \in Calls, r \in Request : Dispatch(c, r)
  BY <1>2, <1>3, <1>4 DEF Next, vars, SetCostLimit, SetEmergencyStop, Observe,
                          Upsert, Midnight
<1>6. c = d /\ GatePassed(r)
  BY <1>1, <1>5, Basics DEF Dispatch, InFlight
<1> QED
  BY <1>5, <1>6

LEMMA StopStep ==
  ASSUME TypeOK, StopIsStored, EnvStop \in {NoEnv, TRUE}, [Next]_vars
  PROVE  /\ StopIsStored'
         /\ \A c \in Calls : Starts(c) => ~ownerStop
<1>1. \A c \in Calls : Starts(c) => ~ownerStop
  BY StartIsDispatch, StopStaysOn DEF GatePassed
<1>2. ASSUME ~Crash PROVE Now'.stop => Now'.ledger.stop
  <2>1. Now.stop => Now.ledger.stop
    BY DEF StopIsStored
  <2>2. ASSUME NEW c \in Calls, Answer(c) PROVE ownerStop' => ledger'.stop
    BY <2>2, StopStaysOn, Loads DEF Answer, AfterCharge, Ledger
  <2>3. ASSUME NEW limit \in Limits, NEW autoLimit \in Limits,
               NEW required \in BOOLEAN, SetCostLimit(limit, autoLimit, required)
        PROVE  ownerStop' => ledger'.stop
    BY <2>3, StopStaysOn, Loads DEF SetCostLimit, Ledger
  <2>4. ASSUME NEW active \in BOOLEAN, SetEmergencyStop(active)
        PROVE  ownerStop' => ledger'.stop
    BY <2>4, Loads DEF SetEmergencyStop, Ledger
  <2>5. Charges \/ Settings => (ownerStop' => ledger'.stop)
    BY <2>2, <2>3, <2>4 DEF Charges, Settings
  <2>6. Now'.stop = ownerStop' /\ Now'.ledger = ledger'
    BY DEF Now
  <2>7. Now' \in {Now, RolledNow} \/ Charges \/ Settings
    BY <1>2, StepShape
  <2>8. RolledNow.stop => RolledNow.ledger.stop
    BY StopStaysOn
  <2> QED
    BY <2>1, <2>5, <2>6, <2>7, <2>8
<1>3. CASE ~Crash
  <2>1. Versions' \subseteq Versions \cup {RolledNow, Now'}
    BY <1>3, StepShape
  <2>2. \A v \in Versions : v.stop => v.ledger.stop
    BY DEF StopIsStored
  <2>3. RolledNow.stop => RolledNow.ledger.stop
    BY StopStaysOn
  <2>4. \A v \in Versions' \cup {Now'} : v.stop => v.ledger.stop
    BY <1>2, <1>3, <2>1, <2>2, <2>3
  <2> QED
    BY <1>1, <2>4 DEF StopIsStored
<1>4. CASE Crash
  <2>1. row.stop => row.ledger.stop
    BY DEF StopIsStored, Versions
  <2> QED
    BY <1>1, <1>4, <2>1, CrashShape DEF StopIsStored
<1> QED
  BY <1>1, <1>3, <1>4

(* Where the environment does not switch the stop off, no provider call     *)
(* begins between the owner's stop and the owner's release: not on a new    *)
(* day, after other settings, while charges come in, or after a restart on  *)
(* a ledger that has the stop.                                              *)
THEOREM StopIsHonoured ==
  ASSUME EnvStop \in {NoEnv, TRUE}
  PROVE  Spec => StopHonoured
<1>1. Init => StopIsStored
  <2> SUFFICES ASSUME Init PROVE StopIsStored
    OBVIOUS
  <2>1. row.stop = FALSE /\ ownerStop = FALSE /\ chain = <<>>
    BY DEF Init
  <2> QED
    BY <2>1 DEF StopIsStored, Versions, Now, ToSet
<1> QED
  BY <1>1, TypeCorrect, StopStep, PTL DEF Spec, StopHonoured

-----------------------------------------------------------------------------
(* Charges join the ledger and never leave it: from the stored version to   *)
(* each one behind it in the chain.  A file has what the process has.       *)
PaidInOrder ==
  /\ \A i \in 1..Len(chain) : row.paid \subseteq chain[i].paid
  /\ \A i, j \in 1..Len(chain) : i <= j => chain[i].paid \subseteq chain[j].paid
  /\ ~WriteBehind => chain = <<>> /\ row = Now

(* The versions one turn writes: what was charged before is in each, and    *)
(* the last one is what it leaves.                                          *)
Writes(images) ==
  /\ images \in Seq(Version)
  /\ \A i \in 1..Len(images) : Received \subseteq images[i].paid
  /\ \A i, j \in 1..Len(images) : i <= j => images[i].paid \subseteq images[j].paid
  /\ \/ Last(<<row>> \o images) = Now'
     \/ images = <<>> /\ Now' = Now

LEMMA SaveInOrder ==
  ASSUME TypeOK, PaidInOrder, NEW images, Writes(images), Saves(images)
  PROVE  PaidInOrder' /\ row.paid \subseteq row'.paid
<1>1. /\ row.paid \subseteq Received /\ chain \in Seq(Version)
      /\ images \in Seq(Version)
      /\ \A i \in 1..Len(chain) : chain[i].paid \subseteq Received
  <2>1. \A i \in 1..Len(chain) : chain[i] \in Versions
    BY Basics DEF Versions, ToSet
  <2>2. \A v \in Versions : v.paid \subseteq Received
    BY Zenon DEF TypeOK
  <2> QED
    BY <2>1, <2>2, Basics DEF Writes
<1>2. CASE WriteBehind
  <2>1. chain' = chain \o images /\ row' = row
    BY <1>2 DEF Saves, Chained
  <2>2. /\ Len(chain') = Len(chain) + Len(images)
        /\ \A i \in 1..Len(chain) : chain'[i] = chain[i]
        /\ \A i \in 1..Len(chain') : i > Len(chain) =>
             i - Len(chain) \in 1..Len(images) /\ chain'[i] = images[i - Len(chain)]
    BY <1>1, <2>1
  <2>3. \A i \in 1..Len(chain') : i <= Len(chain) => i \in 1..Len(chain)
    BY <1>1, <2>2
  <2>4. \A i \in 1..Len(chain') : i > Len(chain) => Received \subseteq chain'[i].paid
    BY <2>2 DEF Writes
  <2>5. \A i \in 1..Len(chain') : row'.paid \subseteq chain'[i].paid
    BY <1>1, <2>1, <2>2, <2>3, <2>4 DEF PaidInOrder
  <2>6. ASSUME NEW i \in 1..Len(chain'), NEW j \in 1..Len(chain'), i <= j
        PROVE  chain'[i].paid \subseteq chain'[j].paid
    <3>1. CASE j <= Len(chain)
      BY <2>2, <2>3, <2>6, <3>1 DEF PaidInOrder
    <3>2. CASE i <= Len(chain) /\ j > Len(chain)
      BY <1>1, <2>2, <2>3, <2>4, <3>2
    <3>3. CASE i > Len(chain)
      <4>1. j > Len(chain) /\ i - Len(chain) <= j - Len(chain)
        BY <1>1, <2>6, <3>3
      <4> QED
        BY <2>2, <3>3, <4>1 DEF Writes
    <3> QED
      BY <1>1, <3>1, <3>2, <3>3
  <2> QED
    BY <1>2, <2>1, <2>5, <2>6 DEF PaidInOrder
<1>3. CASE ~WriteBehind
  <2>1. chain = <<>> /\ chain' = <<>> /\ row = Now /\ row' = Last(<<row>> \o images)
    BY <1>3 DEF Saves, Written, PaidInOrder
  <2>2. row' = Now'
    <3>1. images = <<>> => row' = row
      BY <2>1 DEF Last
    <3> QED
      BY <2>1, <3>1 DEF Writes
  <2>3. row.paid \subseteq row'.paid
    <3>1. CASE images = <<>>
      BY <2>1, <3>1 DEF Last
    <3>2. CASE images # <<>>
      <4>1. Len(images) \in 1..Len(images) /\ row' = images[Len(images)]
        BY <1>1, <2>1, <3>2 DEF Last
      <4> QED
        BY <1>1, <4>1 DEF Writes
    <3> QED
      BY <3>1, <3>2
  <2> QED
    BY <1>3, <2>1, <2>2, <2>3 DEF PaidInOrder
<1> QED
  BY <1>2, <1>3

LEMMA ResetsWrite ==
  ASSUME TypeOK, TypeOK', [Next]_vars, Received \subseteq Received'
  PROVE  /\ Now' = RolledNow => Writes(Resets)
         /\ Writes(Resets \o <<Now'>>)
<1> DEFINE a == RolledNow  b == Now'
<1>1. a \in Version /\ a.paid = Received
  BY VersionTypes
<1>2. b \in Version /\ Received \subseteq b.paid
  <2>1. b.paid = Received'
    BY DEF Now
  <2>2. b \in Version
    BY BasicStep DEF Now, Version, Received
  <2> QED
    BY <2>1, <2>2
<1>3. (Resets = <<>> /\ a = Now) \/ Resets = <<a>>
  <2>1. Rolled = ledger => a = Now
    BY VersionTypes DEF Now
  <2> QED
    BY <2>1 DEF Resets, RolledNow, Rolled
<1>e. Now' = b /\ RolledNow = a
  OBVIOUS
<1> HIDE DEF a, b
<1>4. CASE Resets = <<>> /\ a = Now
  <2>1. Resets \o <<b>> = <<b>>
    BY <1>4
  <2>2. Last(<<row>> \o <<b>>) = b
    BY DEF Last
  <2>3. \A i \in 1..Len(<<b>>) : i = 1
    OBVIOUS
  <2>4. Writes(<<b>>)
    <3>1. <<b>> \in Seq(Version) /\ <<b>>[1] = b
      BY <1>2
    <3>2. \A i \in 1..Len(<<b>>) : <<b>>[i] = b
      BY <2>3, <3>1
    <3> QED
      BY <1>2, <1>e, <2>2, <3>1, <3>2 DEF Writes
  <2>5. Now' = RolledNow => Writes(<<>>)
    BY <1>4, <1>e DEF Writes
  <2> QED
    BY <1>4, <1>e, <2>1, <2>4, <2>5
<1>5. CASE Resets = <<a>>
  <2> DEFINE two == <<a>> \o <<b>>
  <2>1. /\ two \in Seq(Version) /\ Len(two) = 2 /\ two[1] = a /\ two[2] = b
        /\ Last(<<row>> \o two) = b /\ Last(<<row>> \o <<a>>) = a
    BY <1>1, <1>2 DEF Last
  <2>2. Writes(two)
    <3> HIDE DEF two
    <3>1. \A i \in 1..Len(two) : i = 1 \/ i = 2
      BY <2>1
    <3>2. /\ \A i \in 1..Len(two) : Received \subseteq two[i].paid
          /\ \A i, j \in 1..Len(two) : i <= j => two[i].paid \subseteq two[j].paid
      BY <1>1, <1>2, <2>1, <3>1
    <3> QED
      BY <1>e, <2>1, <3>2 DEF Writes
  <2>3. Now' = RolledNow => Writes(<<a>>)
    <3>1. /\ <<a>> \in Seq(Version)
          /\ \A i \in 1..Len(<<a>>) : i = 1 /\ <<a>>[i] = a
      BY <1>1
    <3> QED
      BY <1>1, <1>e, <2>1, <3>1 DEF Writes
  <2> QED
    BY <1>5, <1>e, <2>2, <2>3
<1> QED
  BY <1>3, <1>4, <1>5

LEMMA PaidStep ==
  ASSUME TypeOK, TypeOK', PaidInOrder, [Next]_vars
  PROVE  /\ PaidInOrder'
         /\ \A c \in Kept : c \in row'.paid /\ calls'[c] = calls[c]
<1>0. row.paid \subseteq Received
  BY Basics
<1>1. ASSUME (Saves(Resets) /\ Now' = RolledNow) \/ Saves(Resets \o <<Now'>>), ~Crash
      PROVE  PaidInOrder' /\ row.paid \subseteq row'.paid
  BY <1>1, StepShape, ResetsWrite, SaveInOrder
<1>2. ASSUME SavesNothing, Now' = Now PROVE PaidInOrder' /\ row.paid \subseteq row'.paid
  BY <1>2 DEF SavesNothing, PaidInOrder
<1>3. ASSUME Upsert PROVE PaidInOrder' /\ row.paid \subseteq row'.paid
  <2>1. chain # <<>> /\ chain' = Tail(chain) /\ (row' = row \/ row' = Head(chain))
    BY <1>3 DEF Upsert, UpsertStored, UpsertRejected
  <2>2. WriteBehind /\ chain \in Seq(Version)
    BY <2>1, Basics DEF PaidInOrder
  <2>3. /\ 1 \in 1..Len(chain) /\ Head(chain) = chain[1]
        /\ Len(chain') = Len(chain) - 1
        /\ \A i \in 1..Len(chain') : i + 1 \in 1..Len(chain) /\ chain'[i] = chain[i + 1]
    BY <2>1, <2>2
  <2>4. \A i \in 1..Len(chain') : /\ row.paid \subseteq chain'[i].paid
                                  /\ chain[1].paid \subseteq chain'[i].paid
    <3> TAKE i \in 1..Len(chain')
    <3>1. i + 1 \in 1..Len(chain) /\ chain'[i] = chain[i + 1] /\ 1 <= i + 1
      BY <2>3
    <3>2. row.paid \subseteq chain[i + 1].paid
      BY <3>1 DEF PaidInOrder
    <3>3. chain[1].paid \subseteq chain[i + 1].paid
      BY <2>3, <3>1 DEF PaidInOrder
    <3> QED
      BY <3>1, <3>2, <3>3
  <2>5. ASSUME NEW i \in 1..Len(chain'), NEW j \in 1..Len(chain'), i <= j
        PROVE  chain'[i].paid \subseteq chain'[j].paid
    <3>1. /\ i + 1 \in 1..Len(chain) /\ chain'[i] = chain[i + 1]
          /\ j + 1 \in 1..Len(chain) /\ chain'[j] = chain[j + 1]
      BY <2>3
    <3>2. i + 1 <= j + 1
      BY <2>5
    <3> QED
      BY <3>1, <3>2 DEF PaidInOrder
  <2>6. row.paid \subseteq row'.paid
    BY <2>1, <2>3 DEF PaidInOrder
  <2> QED
    BY <2>1, <2>2, <2>3, <2>4, <2>5, <2>6 DEF PaidInOrder
<1>4. CASE Crash
  <2>1. PaidInOrder'
    BY <1>4, CrashShape DEF PaidInOrder
  <2>2. Kept \subseteq row.paid
    BY DEF Kept, PaidInOrder, Now
  <2> QED
    BY <1>4, <2>1, <2>2, CrashShape
<1>5. CASE ~Crash
  <2>1. PaidInOrder' /\ row.paid \subseteq row'.paid
    <3>1. CASE \E c \in Calls, r \in Request : Dispatch(c, r)
      <4>1. PICK c \in Calls, r \in Request : Dispatch(c, r)
        BY <3>1
      <4>2. Received' = Received
        BY <4>1, Basics DEF Dispatch, Received, InFlight
      <4>3. Saves(Resets) /\ ledger' = Rolled /\ ownerStop' = ownerStop
        BY <4>1 DEF Dispatch
      <4>4. Now' = RolledNow
        BY <4>2, <4>3, VersionTypes DEF Now
      <4> QED
        BY <1>1, <1>5, <4>3, <4>4
    <3>2. CASE Charges \/ Settings
      <4>1. Saves(Resets \o <<Now'>>)
        BY <3>2 DEF Charges, Settings, Answer, SetCostLimit, SetEmergencyStop
      <4> QED
        BY <1>1, <1>5, <4>1
    <3>3. CASE Observe
      <4>1. Saves(Resets) /\ ledger' = Rolled /\ ownerStop' = ownerStop /\ calls' = calls
        BY <3>3 DEF Observe
      <4>2. Now' = RolledNow
        BY <4>1, VersionTypes DEF Now, Received
      <4> QED
        BY <1>1, <1>5, <4>1, <4>2
    <3>4. CASE \/ \E c \in Calls : NetworkFails(c) \/ AnswerUnrecorded(c)
               \/ Midnight \/ UNCHANGED vars
      <4>1. SavesNothing /\ ledger' = ledger /\ ownerStop' = ownerStop
        BY <3>4 DEF NetworkFails, AnswerUnrecorded, Midnight, vars, SavesNothing
      <4>2. Received' = Received
        BY <3>4, Basics DEF NetworkFails, AnswerUnrecorded, Midnight, vars,
                            Received, InFlight
      <4> QED
        BY <1>2, <4>1, <4>2 DEF Now
    <3> QED
      BY <1>3, <1>5, <3>1, <3>2, <3>3, <3>4 DEF Next, Charges, Settings
  <2>2. WriteBehind => Kept = row.paid
    BY DEF Kept
  <2>3. ~WriteBehind => Kept \subseteq row'.paid
    <3>1. ~WriteBehind => row'.paid = Received'
      BY <2>1 DEF PaidInOrder, Now
    <3> QED
      BY <1>5, <3>1, StepShape DEF Kept
  <2>4. Kept \subseteq Received
    BY <1>0 DEF Kept
  <2> QED
    BY <1>5, <2>1, <2>2, <2>3, <2>4, StepShape
<1> QED
  BY <1>4, <1>5

(* A charge in the stored ledger is there for good, over later writes,      *)
(* rejected or not, crashes, restarts and new days; where the ledger is a   *)
(* file, every acknowledged charge is.                                      *)
THEOREM StoredChargesStay == Spec => ChargesStay
<1>1. Init => PaidInOrder
  <2> SUFFICES ASSUME Init PROVE PaidInOrder
    OBVIOUS
  <2>1. Received = {}
    BY DEF Init, Received, NewCall
  <2> QED
    <3>1. chain = <<>> /\ row = Now
      BY <2>1 DEF Init, Now
    <3>2. 1..Len(<<>>) = {}
      OBVIOUS
    <3> QED
      BY <3>1, <3>2 DEF PaidInOrder
<1> QED
  BY <1>1, TypeCorrect, PaidStep, PTL DEF Spec, ChargesStay

-----------------------------------------------------------------------------
(* A call in flight with no other fits under its limit on the day it was    *)
(* admitted, on top of what that day counts; on a later day nothing else    *)
(* has been charged.                                                        *)
AloneFits ==
  \A c \in InFlight : calls[c].alone =>
    /\ InFlight = {c} /\ calls[c].day <= today
    /\ calls[c].day = today => Rolled.spent + calls[c].est <= calls[c].limit
    /\ calls[c].day < today => Rolled.spent = 0

LEMMA SpendingKept ==
  ASSUME TypeOK, TypeOK'
  PROVE  /\ ledger' = ledger /\ today' = today => Rolled'.spent = Rolled.spent
         /\ ledger'.day = today' /\ ledger'.spent = Rolled.spent
              => Rolled'.spent = Rolled.spent
         /\ Midnight => Rolled'.spent = 0
<1>1. ledger \in Ledger /\ ledger' \in Ledger /\ today \in Nat /\ ledger.day <= today
  BY Basics DEF TypeOK
<1>2. ledger'.day = today' => Rolled' = ledger'
  BY DEF Rolled
<1>3. ledger' = ledger /\ today' = today => Rolled' = Rolled
  BY DEF Rolled
<1>4. Midnight => Rolled'.spent = 0
  <2> SUFFICES ASSUME Midnight PROVE Rolled'.spent = 0
    OBVIOUS
  <2>1. today' = today + 1 /\ ledger' = ledger
    BY DEF Midnight
  <2>2. ledger'.day # today'
    BY <1>1, <2>1, CostGateAssumption DEF Ledger, CostGateAssumption
  <2> QED
    BY <1>1, <2>2 DEF Rolled, Ledger
<1> QED
  BY <1>2, <1>3, <1>4

LEMMA ReceiptIsAnswer ==
  ASSUME TypeOK, [Next]_vars, NEW c \in Calls, Receives(c)
  PROVE  Answer(c)
<1>1. calls'[c].status = "received" /\ calls[c].status = "flight"
  BY DEF Receives
<1>2. ASSUME NEW d \in Calls, NEW r \in Request, Dispatch(d, r) PROVE FALSE
  <2>1. [calls[c] EXCEPT !.alone = FALSE].status = "flight"
    BY <1>1, CallTypes DEF InFlight, Flight
  <2> QED
    BY <1>1, <1>2, <2>1, Basics DEF Dispatch, InFlight
<1>3. ASSUME NEW d \in Calls, NetworkFails(d) \/ AnswerUnrecorded(d) PROVE FALSE
  BY <1>1, <1>3, Basics DEF NetworkFails, AnswerUnrecorded
<1>4. ASSUME NEW d \in Calls, Answer(d), d # c PROVE FALSE
  BY <1>1, <1>4, Basics DEF Answer
<1>5. ASSUME Crash PROVE FALSE
  BY <1>1, <1>5, Basics DEF Crash, InFlight
<1>6. calls' # calls
  BY <1>1
<1> QED
  BY <1>2, <1>3, <1>4, <1>5, <1>6
     DEF Next, vars, SetCostLimit, SetEmergencyStop, Observe, Upsert, Midnight

LEMMA AloneStep ==
  ASSUME TypeOK, TypeOK', AloneFits, [Next]_vars
  PROVE  /\ AloneFits'
         /\ \A c \in Calls : (Receives(c) /\ calls[c].alone) =>
              \/ ledger'.spent <= calls[c].limit
              \/ calls[c].day < today /\ ledger'.spent = calls[c].est
<1> USE CostGateAssumption DEF CostGateAssumption
<1>0. /\ today \in Nat /\ today' \in Nat /\ Rolled.spent \in Int
      /\ \A c \in InFlight : /\ calls[c].est \in Int /\ calls[c].limit \in Int
                             /\ calls[c].day \in Nat
  <2>1. today \in Nat /\ Rolled \in Ledger
    BY Basics, Loads
  <2>2. today' \in 0..MaxDay
    BY BasicStep
  <2>3. \A c \in InFlight : calls[c] \in Flight
    BY CallTypes DEF InFlight
  <2>4. Rolled.spent \in Int
    BY <2>1 DEF Ledger
  <2>5. ASSUME NEW f \in Flight PROVE f.est \in Int /\ f.limit \in Int /\ f.day \in Nat
    <3>1. f.est \in Estimates /\ f.limit \in Int /\ f.day \in 0..MaxDay
      BY DEF Flight
    <3>2. f.est \in Int
      BY <3>1
    <3>3. MaxDay \in Nat
      OBVIOUS
    <3>4. f.day \in Nat
      BY <3>1, <3>3
    <3> QED
      BY <3>1, <3>2, <3>4
  <2> QED
    BY <2>1, <2>2, <2>3, <2>4, <2>5
(* Most steps leave the calls alone and the spending with them. *)
<1>1. ASSUME InFlight' = InFlight, \A c \in InFlight : calls'[c] = calls[c],
             today' = today, Rolled'.spent = Rolled.spent
      PROVE  AloneFits'
  BY <1>1 DEF AloneFits
<1>2. ASSUME NEW c \in Calls, NEW r \in Request, Dispatch(c, r)
      PROVE  AloneFits'
  <2>1. /\ calls[c].status = "new" /\ c \notin InFlight /\ today' = today
        /\ Rolled'.spent = Rolled.spent
    <3>1. ledger' = Rolled /\ today' = today /\ calls[c].status = "new"
      BY <1>2 DEF Dispatch
    <3> QED
      BY <3>1, Loads, SpendingKept DEF InFlight
  <2>2. CASE GatePassed(r) /\ ~DryRunOnly
    <3> DEFINE new == [status |-> "flight", est |-> r.est, limit |-> FirstLoad.limit,
                       alone |-> InFlight = {}, day |-> today]
    <3>1. calls' = [d \in Calls |->
                     CASE d = c -> new
                       [] d \in InFlight -> [calls[d] EXCEPT !.alone = FALSE]
                       [] OTHER -> calls[d]]
      BY <1>2, <2>2 DEF Dispatch
    <3>2. calls'[c] = new
      <4> HIDE DEF new
      <4> QED
        BY <2>1, <3>1
    <3>3. ASSUME NEW d \in InFlight', calls'[d].alone
          PROVE  d = c /\ InFlight = {}
      BY <2>1, <3>1, <3>3, CallTypes DEF InFlight, Flight
    <3>4. InFlight = {} => InFlight' = {c}
      BY <2>1, <3>1 DEF InFlight
    <3>5. Rolled.spent + r.est <= FirstLoad.limit
      BY <2>2, Loads DEF GatePassed, UnderDailyLimit
    <3>6. /\ calls'[c].est = r.est /\ calls'[c].limit = FirstLoad.limit
          /\ calls'[c].day = today
      BY <3>2
    <3>7. ASSUME NEW d \in InFlight', calls'[d].alone
          PROVE  /\ InFlight' = {d} /\ calls'[d].day <= today'
                 /\ Rolled'.spent + calls'[d].est <= calls'[d].limit
                 /\ ~(calls'[d].day < today')
      BY <1>0, <2>1, <3>3, <3>4, <3>5, <3>6, <3>7
    <3> QED
      BY <3>7 DEF AloneFits
  <2>3. CASE ~(GatePassed(r) /\ ~DryRunOnly)
    <3>1. \A d \in Calls : d # c => calls'[d] = calls[d]
      BY <1>2, <2>3, Basics DEF Dispatch
    <3>2. calls'[c].status \in {"blocked", "dry_run"}
      BY <1>2, <2>3, Basics DEF Dispatch
    <3>3. InFlight' = InFlight
      BY <2>1, <3>1, <3>2 DEF InFlight
    <3>4. \A d \in InFlight : calls'[d] = calls[d]
      BY <2>1, <3>1 DEF InFlight
    <3> QED
      BY <1>1, <2>1, <3>3, <3>4
  <2> QED
    BY <2>2, <2>3
(* A call that ends was the only one where some call was alone. *)
<1>3. ASSUME NEW c \in InFlight, InFlight' = InFlight \ {c},
             \A d \in InFlight' : calls'[d] = calls[d]
      PROVE  AloneFits'
  <2>1. ASSUME NEW d \in InFlight', calls'[d].alone PROVE FALSE
    <3>1. d \in InFlight /\ d # c /\ calls[d].alone
      BY <1>3, <2>1
    <3> QED
      BY <3>1 DEF AloneFits
  <2> QED
    BY <2>1 DEF AloneFits
<1>4. ASSUME NEW c \in Calls, Answer(c)
      PROVE  /\ AloneFits'
             /\ calls[c].alone => \/ ledger'.spent <= calls[c].limit
                                  \/ calls[c].day < today /\ ledger'.spent = calls[c].est
  <2>1. /\ c \in InFlight /\ InFlight' = InFlight \ {c}
        /\ \A d \in InFlight' : calls'[d] = calls[d]
    BY <1>4, Basics DEF Answer, InFlight
  <2>2. ledger'.spent = Rolled.spent + calls[c].est
    BY <1>4, Loads DEF Answer, AfterCharge, Ledger
  <2>3. ASSUME calls[c].alone
        PROVE  \/ ledger'.spent <= calls[c].limit
               \/ calls[c].day < today /\ ledger'.spent = calls[c].est
    <3>1. /\ calls[c].day <= today
          /\ calls[c].day = today => Rolled.spent + calls[c].est <= calls[c].limit
          /\ calls[c].day < today => Rolled.spent = 0
      BY <2>1, <2>3 DEF AloneFits
    <3> QED
      BY <1>0, <2>1, <2>2, <3>1
  <2> QED
    BY <1>3, <2>1, <2>3
<1>5. ASSUME NEW c \in Calls, NetworkFails(c) \/ AnswerUnrecorded(c)
      PROVE  AloneFits'
  <2>1. /\ c \in InFlight /\ InFlight' = InFlight \ {c}
        /\ \A d \in InFlight' : calls'[d] = calls[d]
    BY <1>5, Basics DEF NetworkFails, AnswerUnrecorded, InFlight
  <2> QED
    BY <1>3, <2>1
<1>6. ASSUME Settings \/ Observe \/ Upsert \/ UNCHANGED vars PROVE AloneFits'
  <2>1. calls' = calls /\ today' = today
    BY <1>6 DEF Settings, SetCostLimit, SetEmergencyStop, Observe, Upsert, vars
  <2>2. ASSUME NEW limit \in Limits, NEW autoLimit \in Limits,
               NEW required \in BOOLEAN,
               SetCostLimit(limit, autoLimit, required)
        PROVE  ledger'.day = today /\ ledger'.spent = Rolled.spent
    BY <2>2, Loads DEF SetCostLimit, Ledger
  <2>3. ASSUME NEW active \in BOOLEAN, SetEmergencyStop(active)
        PROVE  ledger'.day = today /\ ledger'.spent = Rolled.spent
    BY <2>3, Loads DEF SetEmergencyStop, Ledger
  <2>4. ledger' = ledger \/ (ledger'.day = today /\ ledger'.spent = Rolled.spent)
    <3>1. Settings => ledger'.day = today /\ ledger'.spent = Rolled.spent
      BY <2>2, <2>3, Zenon DEF Settings
    <3>2. Observe => ledger'.day = today /\ ledger'.spent = Rolled.spent
      BY Loads DEF Observe
    <3>3. Upsert \/ UNCHANGED vars => ledger' = ledger
      BY DEF Upsert, vars
    <3> QED
      BY <1>6, <3>1, <3>2, <3>3
  <2>5. Rolled'.spent = Rolled.spent
    BY <2>1, <2>4, SpendingKept
  <2> QED
    BY <1>1, <2>1, <2>5 DEF InFlight
<1>7. ASSUME Midnight PROVE AloneFits'
  <2>1. calls' = calls /\ InFlight' = InFlight /\ today' = today + 1
    BY <1>7 DEF Midnight, InFlight
  <2>2. Rolled'.spent = 0
    BY <1>7, SpendingKept
  <2>3. ASSUME NEW d \in InFlight', calls'[d].alone
        PROVE  InFlight' = {d} /\ calls'[d].day < today'
    <3>1. d \in InFlight /\ calls[d].alone
      BY <2>1, <2>3
    <3>2. InFlight = {d} /\ calls[d].day <= today
      BY <3>1 DEF AloneFits
    <3> QED
      BY <1>0, <2>1, <3>1, <3>2
  <2>4. \A d \in InFlight' : calls'[d].day \in Nat
    BY <1>0, <2>1
  <2> QED
    BY <1>0, <2>2, <2>3, <2>4 DEF AloneFits
<1>8. ASSUME Crash PROVE AloneFits'
  BY <1>8, CrashShape DEF AloneFits
<1> QED
  BY <1>2, <1>4, <1>5, <1>6, <1>7, <1>8, ReceiptIsAnswer DEF Next, Settings

(* A call that never overlapped another is charged within the limit it was  *)
(* admitted under, whatever was set, reset or read while it was in flight;  *)
(* one answered on a later day is that day's only charge.                   *)
THEOREM AloneKeepsTheCap == Spec => AloneWithinCap
<1>1. Init => AloneFits
  BY DEF Init, AloneFits, InFlight, NewCall
<1> QED
  BY <1>1, TypeCorrect, AloneStep, PTL DEF Spec, AloneWithinCap

-----------------------------------------------------------------------------
(* What each call is worth, and the calls a version of the ledger counts,   *)
(* for a table of calls at a constant level, so that it can be followed     *)
(* across a step.                                                           *)
Worth(k) == [c \in Calls |-> k[c].est]

In(k, v) == {c \in v.paid : k[c].day = v.ledger.day}

(* The sum the property speaks of is the one SumTheorems reasons about. *)
LEMMA SumIsTotal ==
  ASSUME NEW k, NEW S \in SUBSET Calls, IsFiniteSet(S)
  PROVE  MapThenSumSet(LAMBDA c : k[c].est, S) = Total(Worth(k), S)
<1> DEFINE table(g) == g = [T \in SUBSET S |->
                              IF T = {} THEN 0
                              ELSE k[Pick(T)].est + g[T \ {Pick(T)}]]
           it == CHOOSE g : table(g)
<1>1. MapThenSumSet(LAMBDA c : k[c].est, S) = it[S]
  BY Zenon DEF MapThenSumSet, MapThenFoldSet, Pick
<1>2. \A g : table(g) <=> IsTable(Worth(k), S, g)
  <2> TAKE g
  <2>1. \A T \in SUBSET S : T # {} => Worth(k)[Pick(T)] = k[Pick(T)].est
    BY PickIsIn DEF Worth
  <2> QED
    BY <2>1 DEF IsTable
<1>3. PICK h : IsTable(Worth(k), S, h) /\ Total(Worth(k), S) = h[S]
  BY TotalIsInTable
<1>4. IsTable(Worth(k), S, it)
  <2> HIDE DEF table
  <2>1. table(h)
    BY <1>2, <1>3
  <2>2. table(it)
    BY <2>1, Zenon
  <2> QED
    BY <1>2, <2>2
<1>5. it[S] = h[S]
  <2> HIDE DEF it
  <2>1. S \in SUBSET (S \cap S)
    OBVIOUS
  <2> QED
    BY <1>3, <1>4, <2>1, TablesAgree
<1> QED
  BY <1>1, <1>3, <1>5

(* No charge in a version is of a day after the version's, and those of its *)
(* day add up to what it counts.                                            *)
Counts(k, v) ==
  /\ \A c \in v.paid : k[c].day <= v.ledger.day
  /\ IsFiniteSet(In(k, v))
  /\ v.ledger.spent = Total(Worth(k), In(k, v))

ChargesCounted == \A v \in Versions \cup {Now} : Counts(calls, v)

LEMMA CountsKept ==
  ASSUME NEW k, NEW l, NEW v \in Version, NEW w \in Version, Counts(k, v),
         w.paid = v.paid, w.ledger.day = v.ledger.day, w.ledger.spent = v.ledger.spent,
         \A c \in v.paid : l[c] = k[c]
  PROVE  Counts(l, w)
<1>1. v.paid \subseteq Calls
  BY DEF Version
<1>2. In(l, w) = In(k, v)
  BY DEF In
<1>3. \A c \in In(k, v) : Worth(l)[c] = Worth(k)[c]
  BY <1>1 DEF Worth, In
<1>4. IsFiniteSet(In(k, v))
  BY DEF Counts
<1>5. Total(Worth(l), In(k, v)) = Total(Worth(k), In(k, v))
  BY <1>3, <1>4, TotalsAgree
<1> QED
  BY <1>2, <1>4, <1>5 DEF Counts

LEMMA RolledCounts ==
  ASSUME TypeOK, ChargesCounted
  PROVE  Counts(calls, RolledNow) /\ Counts(calls, Now)
<1>1. Counts(calls, Now)
  BY DEF ChargesCounted
<1>2. /\ RolledNow.ledger = Rolled /\ RolledNow.paid = Received
      /\ Now.ledger = ledger /\ Now.paid = Received
  BY VersionTypes DEF Now
<1>3. CASE ledger.day = today
  BY <1>1, <1>2, <1>3, VersionTypes, Loads, CountsKept
<1>4. CASE ledger.day # today
  <2>1. \A c \in Received : calls[c].day <= ledger.day /\ calls[c].day \in Nat
    <3>1. \A c \in Received : calls[c].day <= ledger.day
      BY <1>1, <1>2 DEF Counts
    <3>2. \A c \in Received : calls[c] \in Charged
      BY CallTypes DEF Received
    <3> QED
      BY <3>1, <3>2, CostGateAssumption DEF CostGateAssumption, Charged
  <2>2. ledger.day \in Nat /\ today \in Nat /\ ledger.day <= today
    BY Basics, CostGateAssumption DEF CostGateAssumption, Ledger
  <2>3. \A c \in Received : calls[c].day < today
    BY <1>4, <2>1, <2>2
  <2>4. Rolled.day = today /\ Rolled.spent = 0
    BY <1>4, Loads
  <2>5. In(calls, RolledNow) = {}
    BY <1>2, <2>1, <2>2, <2>3, <2>4 DEF In
  <2>6. \A c \in RolledNow.paid : calls[c].day <= RolledNow.ledger.day
    BY <1>2, <2>1, <2>2, <2>3, <2>4
  <2> QED
    BY <1>1, <1>2, <2>4, <2>5, <2>6, TotalOfNone, FS_EmptySet DEF Counts
<1> QED
  BY <1>1, <1>3, <1>4

LEMMA AnswerCounts ==
  ASSUME TypeOK, ChargesCounted, NEW c \in Calls, Answer(c)
  PROVE  Counts(calls', Now')
<1> DEFINE S == In(calls, RolledNow)
<1>1. c \in InFlight /\ calls[c].status = "flight" /\ c \notin Received
  BY DEF Answer, InFlight, Received
<1>2. calls[c].est \in Int
  BY <1>1, CallTypes, CostGateAssumption DEF CostGateAssumption
<1>3. ledger'.day = today /\ ledger'.spent = Rolled.spent + calls[c].est
  BY <1>1, <1>2, Loads DEF Answer, AfterCharge, Ledger
<1>4. /\ calls'[c] = [status |-> "received", day |-> today, est |-> calls[c].est]
      /\ \A d \in Calls : d # c => calls'[d] = calls[d]
  BY Basics DEF Answer
<1>5. Received' = Received \cup {c}
  BY <1>1, <1>4 DEF Received
<1>6. /\ RolledNow.ledger = Rolled /\ RolledNow.paid = Received
      /\ Now'.ledger = ledger' /\ Now'.paid = Received' /\ Rolled.day = today
  BY VersionTypes, Loads DEF Now
<1>7. Counts(calls, RolledNow)
  BY RolledCounts
<1>8. \A d \in Received : d \in Calls /\ d # c /\ calls'[d] = calls[d]
  BY <1>1, <1>4 DEF Received
<1>9. c \notin S /\ In(calls', Now') = S \cup {c}
  BY <1>1, <1>3, <1>4, <1>5, <1>6, <1>8 DEF In
<1>10. IsFiniteSet(S) /\ IsFiniteSet(S \cup {c}) /\ S \subseteq Received
  BY <1>6, <1>7, FS_AddElement DEF Counts, In
<1>11. /\ Worth(calls')[c] = calls[c].est
       /\ \A d \in S : Worth(calls')[d] = Worth(calls)[d]
  BY <1>4, <1>8, <1>10 DEF Worth
<1>12. \A d \in S \cup {c} : Worth(calls')[d] \in Int
  <2>1. \A d \in Received : calls[d] \in Charged
    BY CallTypes DEF Received
  <2>2. \A d \in S : Worth(calls)[d] \in Int
    BY <1>8, <1>10, <2>1, CostGateAssumption DEF Worth, Charged, CostGateAssumption
  <2> QED
    BY <1>2, <1>11, <2>2
<1>13. Total(Worth(calls'), S \cup {c}) = calls[c].est + Total(Worth(calls), S)
  <2>1. (S \cup {c}) \ {c} = S
    BY <1>9
  <2>2. Total(Worth(calls'), S) = Total(Worth(calls), S)
    BY <1>10, <1>11, TotalsAgree
  <2>3. Total(Worth(calls'), S \cup {c})
          = Worth(calls')[c] + Total(Worth(calls'), (S \cup {c}) \ {c})
    <3> HIDE DEF S
    <3> QED
      BY <1>10, <1>12, TotalRemove
  <2> QED
    BY <1>11, <2>1, <2>2, <2>3
<1>14. Rolled.spent = Total(Worth(calls), S) /\ Rolled.spent \in Int
  BY <1>6, <1>7, Loads DEF Ledger, Counts
<1>15. Now'.ledger.spent = Total(Worth(calls'), In(calls', Now'))
  BY <1>2, <1>3, <1>6, <1>9, <1>13, <1>14
<1>16. \A d \in Now'.paid : calls'[d].day <= Now'.ledger.day
  <2>1. today \in Nat
    BY Basics
  <2>2. \A d \in Received : calls[d].day <= today
    BY <1>6, <1>7 DEF Counts
  <2> QED
    BY <1>3, <1>4, <1>5, <1>6, <1>8, <2>1, <2>2
<1> QED
  BY <1>9, <1>10, <1>15, <1>16 DEF Counts

LEMMA ChargesStep ==
  ASSUME TypeOK, TypeOK', ChargesCounted, [Next]_vars
  PROVE  ChargesCounted'
<1>1. CASE Crash
  <2>1. Counts(calls, row) /\ row \in Version
    BY Basics DEF ChargesCounted, Versions
  <2>2. Counts(calls', row)
    BY <1>1, <2>1, CrashShape, CountsKept
  <2> QED
    BY <1>1, <2>2, CrashShape DEF ChargesCounted
<1>2. CASE ~Crash
  <2>1. /\ \A c \in Received : calls'[c] = calls[c]
        /\ Versions' \subseteq Versions \cup {RolledNow, Now'}
        /\ Now' \in {Now, RolledNow} \/ Charges \/ Settings
    BY <1>2, StepShape
  <2>2. \A v \in Versions \cup {Now, RolledNow} :
          v \in Version /\ v.paid \subseteq Received /\ Counts(calls, v)
    <3>1. \A v \in Versions \cup {Now} : v.paid \subseteq Received /\ Counts(calls, v)
      BY Zenon DEF TypeOK, ChargesCounted
    <3>2. RolledNow.paid \subseteq Received
      BY VersionTypes
    <3> QED
      BY <3>1, <3>2, VersionTypes, RolledCounts
  <2>3. \A v \in Versions \cup {Now, RolledNow} : Counts(calls', v)
    <3> TAKE v \in Versions \cup {Now, RolledNow}
    <3>1. v \in Version /\ Counts(calls, v) /\ \A c \in v.paid : calls'[c] = calls[c]
      BY <2>1, <2>2
    <3> QED
      BY <3>1, CountsKept
  <2>4. Settings => Counts(calls', Now')
    <3> SUFFICES ASSUME Settings PROVE Counts(calls', Now')
      OBVIOUS
    <3>1. ASSUME NEW limit \in Limits, NEW autoLimit \in Limits,
                 NEW required \in BOOLEAN, SetCostLimit(limit, autoLimit, required)
          PROVE  calls' = calls /\ ledger'.day = Rolled.day /\ ledger'.spent = Rolled.spent
      BY <3>1, Loads DEF SetCostLimit, Ledger
    <3>2. ASSUME NEW active \in BOOLEAN, SetEmergencyStop(active)
          PROVE  calls' = calls /\ ledger'.day = Rolled.day /\ ledger'.spent = Rolled.spent
      BY <3>2, Loads DEF SetEmergencyStop, Ledger
    <3>3. calls' = calls /\ ledger'.day = Rolled.day /\ ledger'.spent = Rolled.spent
      BY <3>1, <3>2 DEF Settings
    <3>4. Now' \in Version /\ Now'.ledger = ledger' /\ Now'.paid = Received
      <4>1. ledger' \in Ledger /\ ownerStop' \in BOOLEAN /\ Received' = Received
        BY <3>3, BasicStep DEF Received
      <4> QED
        BY <4>1 DEF Now, Version, Received
    <3>5. RolledNow.ledger = Rolled /\ RolledNow.paid = Received
      BY VersionTypes
    <3> QED
      BY <2>2, <3>3, <3>4, <3>5, CountsKept
  <2>5. Charges => Counts(calls', Now')
    BY AnswerCounts DEF Charges
  <2> QED
    BY <2>1, <2>3, <2>4, <2>5 DEF ChargesCounted
<1> QED
  BY <1>1, <1>2

(* In every state the ledger, each version of it on its way to the database *)
(* and the stored one are the sum of what the calls answered on their day   *)
(* were charged, however calls, settings, midnights, rejected writes and    *)
(* crashes fall.                                                            *)
THEOREM EveryChargeCounts == Spec => []SpentIsSumOfCharges
<1>1. Init => ChargesCounted
  <2> SUFFICES ASSUME Init PROVE ChargesCounted
    OBVIOUS
  <2>1. Received = {}
    BY DEF Init, Received, NewCall
  <2>2. /\ row.ledger.spent = 0 /\ row.paid = {} /\ chain = <<>>
        /\ ledger.spent = 0 /\ Now.ledger = ledger /\ Now.paid = {}
    BY <2>1 DEF Init, DefaultLedger, Now
  <2>3. Versions = {row}
    BY <2>2 DEF Versions, ToSet
  <2>4. In(calls, row) = {} /\ In(calls, Now) = {}
    BY <2>2 DEF In
  <2> QED
    BY <2>2, <2>3, <2>4, TotalOfNone, FS_EmptySet DEF ChargesCounted, Counts
<1>2. TypeOK /\ ChargesCounted => SpentIsSumOfCharges
  <2> SUFFICES ASSUME TypeOK, ChargesCounted, NEW v \in Versions \cup {Now}
               PROVE  v.ledger.spent = MapThenSumSet(LAMBDA c : calls[c].est, ChargedIn(v))
    BY DEF SpentIsSumOfCharges
  <2>1. v.paid \subseteq Calls
    BY DEF TypeOK, Received
  <2>2. ChargedIn(v) = In(calls, v)
    BY DEF ChargedIn, In
  <2>3. In(calls, v) \in SUBSET Calls /\ IsFiniteSet(In(calls, v))
    BY <2>1 DEF In, ChargesCounted, Counts
  <2>4. v.ledger.spent = Total(Worth(calls), In(calls, v))
    BY DEF ChargesCounted, Counts
  <2> QED
    BY <2>2, <2>3, <2>4, SumIsTotal
<1> QED
  BY <1>1, <1>2, TypeCorrect, ChargesStep, PTL DEF Spec
=============================================================================
