------------------------------ MODULE CostGate ------------------------------
(***************************************************************************)
(* servers/providerGate.js: the daily cost ledger, the emergency stop and   *)
(* the gate every paid provider call passes.  providerDispatch decides in   *)
(* one synchronous turn, awaits the provider, and records the charge in the *)
(* turn its answer arrives in: other requests, owner settings and midnight  *)
(* fall in between.  The ledger is a document: with the postgres driver a   *)
(* charge, a limit or a stop is acknowledged while its upsert is still on   *)
(* the way, so a crash can take it back (WriteChain).                       *)
(***************************************************************************)
EXTENDS Integers, FiniteSetsExt, WriteChain

CONSTANTS
  Calls,        \* requests to dispatch, each made once
  Estimates,    \* estimated_cost_usd values, in money units: the caller's
                \* token counts decide them, negative ones included
  Limits,       \* daily and low-risk limits the owner may set
  MaxDay,       \* bound: the last day of the model
  EnvLimit,     \* AI_DAILY_LIMIT_USD, or NoEnv when unset
  EnvAutoLimit, \* AI_LOW_RISK_AUTO_LIMIT_USD
  EnvStop,      \* AI_PROVIDER_EMERGENCY_STOP
  EnvApproval,  \* AI_OWNER_APPROVAL_REQUIRED
  NoEnv,
  GateEnabled,  \* dispatch and network allowed by CONFIG, key present
  DryRunOnly    \* CONFIG.providerDryRunOnly

ASSUME CostGateAssumption ==
  /\ Estimates \subseteq Int /\ Limits \subseteq Nat /\ MaxDay \in Nat
  /\ EnvLimit \in Int \cup {NoEnv} /\ EnvAutoLimit \in Int \cup {NoEnv}
  /\ EnvStop \in BOOLEAN \cup {NoEnv} /\ EnvApproval \in BOOLEAN \cup {NoEnv}
  /\ {GateEnabled, DryRunOnly} \subseteq BOOLEAN

VARIABLES
  ledger,     \* cost_ledger.json as the process reads it
  today,      \* the wall clock's UTC day
  calls,      \* per request: status and what providerDispatch holds of it
  ownerStop   \* history: POST /cost/emergency-stop last set it active, as
              \* far as the ledger this process started with knew of it

vars == <<ledger, today, calls, ownerStop, row, chain>>

Request == [est : Estimates, risk : {"low", "high"}, public : BOOLEAN,
            approved : BOOLEAN, clean : BOOLEAN]
Uncharged == {"new", "blocked", "dry_run", "network_failed", "lost"}
NewCall == [status |-> "new"]
Flight  == [status : {"flight"}, est : Estimates, limit : Int, alone : BOOLEAN,
            day : 0..MaxDay]
Charged == [status : {"received"}, est : Estimates, day : 0..MaxDay]

Ledger  == [day : 0..MaxDay, limit : Int, autoLimit : Int, spent : Int,
            stop : BOOLEAN, approvalRequired : BOOLEAN]

\* A version of the ledger, with the history it belongs to: the owner's last
\* word on the stop, and the calls whose charges are in it.
Version == [ledger : Ledger, stop : BOOLEAN, paid : SUBSET Calls]

Received == {c \in Calls : calls[c].status = "received"}

Now == [ledger |-> ledger, stop |-> ownerStop, paid |-> Received]

TypeOK ==
  /\ today \in 0..MaxDay /\ ledger \in Ledger /\ ownerStop \in BOOLEAN
  /\ calls \in [Calls -> Flight \cup Charged \cup [status : Uncharged]]
  /\ row \in Version /\ chain \in Seq(Version)
  /\ \A v \in Versions \cup {Now} : v.ledger.day <= today /\ v.paid \subseteq Received

-----------------------------------------------------------------------------
\* DEFAULT_COST_STATE
DefaultLedger == [day |-> 0, limit |-> 0, autoLimit |-> 0, spent |-> 0,
                  stop |-> TRUE, approvalRequired |-> TRUE]

Env(setting, stored) == IF setting = NoEnv THEN stored ELSE setting

\* Mutant: the stop is the environment's, or off.
StopFromEnvOnly(l) ==
  [l EXCEPT !.limit = Env(EnvLimit, @), !.autoLimit = Env(EnvAutoLimit, @),
            !.stop = Env(EnvStop, FALSE),
            !.approvalRequired = Env(EnvApproval, @)]

Overridden(l) ==
  [l EXCEPT !.limit = Env(EnvLimit, @), !.autoLimit = Env(EnvAutoLimit, @),
            !.stop = Env(EnvStop, @), !.approvalRequired = Env(EnvApproval, @)]

\* Mutant: the new day is stamped in a time zone ahead of the comparison.
RolledAhead == IF ledger.day = today THEN ledger
               ELSE [ledger EXCEPT !.day = today + 1, !.spent = 0]

\* what loadCostState leaves in the file
Rolled == IF ledger.day = today THEN ledger
          ELSE [ledger EXCEPT !.day = today, !.spent = 0]

\* the reset it saves for that, once a day
Resets == IF ledger.day = today THEN <<>> ELSE <<[Now EXCEPT !.ledger = Rolled]>>

\* What the first loadCostState of a turn returns: on a new day it writes
\* the reset and returns it as stored, before the environment is applied.
FirstLoad == IF ledger.day = today THEN Overridden(ledger) ELSE Rolled

\* what a later loadCostState of the same turn returns
Reload == Overridden(Rolled)

InFlight == {c \in Calls : calls[c].status = "flight"}

-----------------------------------------------------------------------------
Init ==
  /\ ledger = DefaultLedger /\ today = 0
  /\ calls = [c \in Calls |-> NewCall] /\ ownerStop = FALSE
  /\ row = [ledger |-> DefaultLedger, stop |-> FALSE, paid |-> {}]
  /\ chain = <<>>

\* Mutant: the estimate alone is compared with the limit.
UnderLimitAlone(r) == FirstLoad.limit > 0 /\ r.est <= FirstLoad.limit

\* providerEstimate, on the turn's first load
UnderDailyLimit(r) ==
  FirstLoad.limit > 0 /\ FirstLoad.spent + r.est <= FirstLoad.limit

\* approvalCheck
LowRiskAutoAllowed(r) ==
  r.risk = "low" /\ Reload.autoLimit > 0 /\ r.est <= Reload.autoLimit

ApprovalRequired(r) ==
  /\ ~LowRiskAutoAllowed(r)
  /\ Reload.approvalRequired \/ r.risk = "high" \/ r.public

ApprovalOk(r) == ApprovalRequired(r) => r.approved

GatePassed(r) ==
  /\ GateEnabled /\ ~Reload.stop /\ UnderDailyLimit(r)
  /\ ApprovalOk(r) /\ r.clean

(* The turn of providerDispatch up to the await, or all of it when the      *)
(* provider is not called.                                                  *)
Dispatch(c, r) ==
  /\ calls[c].status = "new"
  /\ ledger' = Rolled
  /\ calls' =
       IF ~GatePassed(r) THEN [calls EXCEPT ![c] = [status |-> "blocked"]]
       ELSE IF DryRunOnly THEN [calls EXCEPT ![c] = [status |-> "dry_run"]]
       ELSE [d \in Calls |->
               CASE d = c -> [status |-> "flight", est |-> r.est,
                              limit |-> FirstLoad.limit,
                              alone |-> InFlight = {}, day |-> today]
                 [] d \in InFlight -> [calls[d] EXCEPT !.alone = FALSE]
                 [] OTHER -> calls[d]]
  /\ Saves(Resets)
  /\ UNCHANGED <<today, ownerStop>>

\* Mutant: the charge is added without the reset of a new day.
ChargedWithoutReset(c) == [ledger EXCEPT !.spent = @ + calls[c].est]

\* the state saved once the charge is recorded, on a fresh load
AfterCharge(c) == [FirstLoad EXCEPT !.spent = @ + calls[c].est]

(* The provider answered: the ledger is loaded again and charged. *)
Answer(c) ==
  /\ c \in InFlight
  /\ ledger' = AfterCharge(c)
  /\ calls' = [calls EXCEPT ![c] = [status |-> "received", day |-> today,
                                    est |-> calls[c].est]]
  /\ UNCHANGED <<today, ownerStop>>
  /\ Saves(Resets \o <<Now'>>)

(* The provider failed: nothing is charged. *)
NetworkFails(c) ==
  /\ c \in InFlight
  /\ calls' = [calls EXCEPT ![c] = [status |-> "network_failed"]]
  /\ SavesNothing
  /\ UNCHANGED <<ledger, today, ownerStop>>

(* The answer arrives while required storage is unavailable: loadCostState  *)
(* throws, then so does appendProviderLog; nothing is charged or logged.    *)
AnswerUnrecorded(c) ==
  /\ c \in InFlight
  /\ calls' = [calls EXCEPT ![c] = [status |-> "lost"]]
  /\ SavesNothing
  /\ UNCHANGED <<ledger, today, ownerStop>>

(* The process dies with every call it awaited and every write on its way, *)
(* and starts again on the ledger that was stored: a call whose charge is   *)
(* not in it is lost, though it was answered.                               *)
Crash ==
  /\ ledger' = row.ledger /\ ownerStop' = row.stop
  /\ calls' = [c \in Calls |-> IF c \in InFlight \cup (Received \ row.paid)
                               THEN [status |-> "lost"] ELSE calls[c]]
  /\ ChainLost
  /\ UNCHANGED today

SetCostLimit(limit, autoLimit, required) ==
  /\ ledger' = [FirstLoad EXCEPT !.limit = limit, !.autoLimit = autoLimit,
                                 !.approvalRequired = required]
  /\ UNCHANGED <<today, calls, ownerStop>>
  /\ Saves(Resets \o <<Now'>>)

SetEmergencyStop(active) ==
  /\ ledger' = [FirstLoad EXCEPT !.stop = active]
  /\ ownerStop' = active
  /\ UNCHANGED <<today, calls>>
  /\ Saves(Resets \o <<Now'>>)

(* Estimates, approval checks and the status endpoints load the ledger. *)
Observe ==
  /\ ledger' = Rolled
  /\ Saves(Resets)
  /\ UNCHANGED <<today, calls, ownerStop>>

Upsert ==
  /\ UpsertStored \/ UpsertRejected
  /\ UNCHANGED <<ledger, today, calls, ownerStop>>

Midnight ==
  /\ today < MaxDay /\ today' = today + 1
  /\ SavesNothing
  /\ UNCHANGED <<ledger, calls, ownerStop>>

Next ==
  \/ \E c \in Calls, r \in Request : Dispatch(c, r)
  \/ \E c \in Calls :
       Answer(c) \/ NetworkFails(c) \/ AnswerUnrecorded(c)
  \/ \E limit, autoLimit \in Limits, required \in BOOLEAN :
       SetCostLimit(limit, autoLimit, required)
  \/ \E active \in BOOLEAN : SetEmergencyStop(active)
  \/ Observe \/ Upsert \/ Midnight \/ Crash

Spec == Init /\ [][Next]_vars

-----------------------------------------------------------------------------
ChargedIn(v) == {c \in v.paid : calls[c].day = v.ledger.day}

(* The ledger is the sum of the charges of its day that are in it, and so   *)
(* is every version of it on the way to the database or stored there: none  *)
(* is lost to a setting saved, a call answered or a day begun while another *)
(* call was in flight, and none is carried into the next day.               *)
SpentIsSumOfCharges ==
  \A v \in Versions \cup {Now} :
    v.ledger.spent = MapThenSumSet(LAMBDA c : calls[c].est, ChargedIn(v))

\* the charges a crash leaves: all of them where the ledger is a file
Kept == IF WriteBehind THEN row.paid ELSE Received

(* A charge that was stored stays: no later upsert, crash, restart or       *)
(* setting takes it out of the stored ledger or changes it.  Where the      *)
(* ledger is a file, every acknowledged charge is stored.                   *)
ChargesStay ==
  [][\A c \in Kept : c \in row'.paid /\ calls'[c] = calls[c]]_vars

Starts(c)   == calls[c].status = "new" /\ calls'[c].status = "flight"
Receives(c) == calls[c].status = "flight" /\ calls'[c].status = "received"

(* No call starts while the owner's last word is to stop: the last one this *)
(* process acknowledged, or else the one in the ledger it started with.     *)
StopHonoured == [][\A c \in Calls : Starts(c) => ~ownerStop]_vars

(* A call that was in flight with no other takes the day's spending at most *)
(* to the limit it was admitted under.  If it is charged on a later day, it *)
(* is that day's only charge: an estimate that fitted only under negative   *)
(* charges can then be more than the limit.                                 *)
AloneWithinCap ==
  [][\A c \in Calls : (Receives(c) /\ calls[c].alone) =>
       \/ ledger'.spent <= calls[c].limit
       \/ calls[c].day < today /\ ledger'.spent = calls[c].est]_vars

(* "the estimate is under the cap": no charge takes the day's spending over *)
(* the limit its call was admitted under.                                   *)
CapHolds ==
  [][\A c \in Calls : Receives(c) => ledger'.spent <= calls[c].limit]_vars

(* A call is admitted under the limit the environment configures.  The      *)
(* code does not keep this, and no run states it (README).                  *)
ConfiguredLimitGoverns ==
  [][\A c \in Calls : Starts(c) => calls'[c].limit = Reload.limit]_vars
=============================================================================
