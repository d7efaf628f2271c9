----------------------------- MODULE WorkQueue -----------------------------
(***************************************************************************)
(* servers/queue.js with the decision it runs (orchestrator.js, decide) and *)
(* the trace every decision keeps (servers/trace.js).                       *)
(*                                                                         *)
(* A request runs to its answer in one synchronous turn, but it writes two  *)
(* documents, several times each: every action below is one write of        *)
(* work_queue.json or trace_log.json.  The two documents are two rows that  *)
(* the store writes one after the other, in the order the turns wrote them  *)
(* (module Store).  A restart finds them as they were after some write,     *)
(* maybe in the middle of a turn, unless an upsert was rejected: the store  *)
(* gives it up and goes on with those behind it, and until the same         *)
(* document is written again its row is older than the other one.           *)
(* The events of a trace, the lifecycle log of a job and the decision       *)
(* history are appended to and never read back: they are left out.          *)
(***************************************************************************)
EXTENDS Naturals, SequencesExt

CONSTANTS
  ClientIds,    \* trace_id values a client may put in a request body
  NoId,         \* no trace_id in the body
  AttemptLimits,\* max_attempts values
  MaxJobs,      \* bound: jobs ever enqueued
  MaxTraces,    \* bound: traces in the log
  MaxAttempts,  \* bound: runs of one job
  MaxUnsaved,   \* bound: no request is taken behind more unsaved writes
  MaxShort,     \* bound: no upsert is rejected beyond so many short documents
  RepairLimits, \* limit values of POST /traces/repair
  WriteBehind   \* driver postgres (TRUE) or json_file (FALSE)

ASSUME WorkQueueAssumption ==
  /\ ClientIds \cap Nat = {} /\ NoId \notin ClientIds \cup Nat
  /\ AttemptLimits \subseteq Nat \ {0} /\ RepairLimits \subseteq Nat \ {0}
  /\ {MaxJobs, MaxTraces, MaxAttempts, MaxUnsaved, MaxShort} \subseteq Nat
  /\ WriteBehind \in BOOLEAN

VARIABLES
  jobs,     \* work_queue.json: the jobs in the order they were enqueued
  traces,   \* trace_log.json: the traces in the order they were created
  turn,     \* the request being handled: what it writes next, for what
  saved,    \* both documents as a restart would find them
  unsaved,  \* the writes still to be saved: which document, and the image
            \* of both as of that write, the current one last
  settled,  \* history: the image as of the last write that settled, so that
            \* saved differs from it where a rejected upsert is missing
  torn      \* history: the documents that a restart has found like that

vars == <<jobs, traces, turn, saved, unsaved, settled, torn>>

NoJob      == 0
Terminal   == {"completed", "dead_letter"}
Statuses   == Terminal \cup {"queued", "running", "blocked", "failed"}
Idle       == [at |-> "idle"]
Body       == [limit : AttemptLimits, traceId : ClientIds \cup {NoId}]
Docs       == {"jobs", "traces"}
Image(js, ts) == [jobs |-> js, traces |-> ts]

TraceIds == ClientIds \cup Nat
Job   == [status : Statuses, attempts : Nat, body : Body, replaySafe : BOOLEAN,
          replayOf : Nat, replayJob : Nat, result : TraceIds \cup {NoId}]
Trace == [id : TraceIds, status : {"running", "completed", "blocked", "expired"},
          of : Nat]

Images == [jobs : Seq(Job), traces : Seq(Trace)]

\* the documents whose rows lack an upsert that was given up
Short == {doc \in Docs : saved[doc] # settled[doc]}

\* whatever names a job names one of its queue; a trace may be of one that a
\* restart has lost
TypeOK ==
  /\ Image(jobs, traces) \in Images
  /\ \A i \in DOMAIN jobs : {jobs[i].replayOf, jobs[i].replayJob} \subseteq 0..Len(jobs)
  /\ turn.at \in {"idle", "process", "decide", "decided", "settle", "bury",
                  "link"}
  /\ saved \in Images /\ torn \subseteq Docs
  /\ "jobs" \notin torn => \A t \in DOMAIN traces : traces[t].of \in 0..Len(jobs)
  /\ unsaved # <<>> => Last(unsaved).image = Image(jobs, traces)
  /\ unsaved = <<>> => settled = Image(jobs, traces)

-----------------------------------------------------------------------------
Init ==
  /\ jobs = <<>> /\ traces = <<>> /\ turn = Idle
  /\ saved = Image(<<>>, <<>>) /\ unsaved = <<>>
  /\ settled = saved /\ torn = {}

\* a request body is read and its handler's turn begins
TakesRequests == turn = Idle /\ Len(unsaved) <= MaxUnsaved

\* the store takes a write of doc that leaves both documents like this
Save(doc, image) ==
  /\ jobs' = image.jobs /\ traces' = image.traces /\ torn' = torn
  /\ \/ /\ WriteBehind /\ UNCHANGED <<saved, settled>>
        /\ unsaved' = Append(unsaved, [doc |-> doc, image |-> image])
     \/ /\ ~WriteBehind /\ unsaved' = unsaved
        /\ saved' = image /\ settled' = image

WriteJobs(js)   == Save("jobs", Image(js, traces))
WriteTraces(ts) == Save("traces", Image(jobs, ts))
WritesNothing   == UNCHANGED <<jobs, traces, saved, unsaved, settled, torn>>

\* Mutant: the original's id is lost to the spread input.
NewUnlinkedJob(body, original) ==
  [status |-> "queued", attempts |-> 0, body |-> body, replaySafe |-> TRUE,
   replayOf |-> NoJob, replayJob |-> NoJob, result |-> NoId]

NewJob(body, original) ==
  [status |-> "queued", attempts |-> 0, body |-> body, replaySafe |-> TRUE,
   replayOf |-> original, replayJob |-> NoJob, result |-> NoId]

\* the rest of a turn that has just enqueued its job
AutoProcess(auto, job) == IF auto THEN [at |-> "process", job |-> job] ELSE Idle

(* POST /queue: enqueueJob, then processJob unless auto_process is false. *)
Enqueue(body, auto) ==
  /\ TakesRequests /\ Len(jobs) < MaxJobs
  /\ WriteJobs(Append(jobs, NewJob(body, NoJob)))
  /\ turn' = AutoProcess(auto, Len(jobs) + 1)

Runnable(i) == jobs[i].status \notin Terminal

\* Mutant: the run is not counted.
StartUncounted(i) ==
  /\ TakesRequests \/ turn = [at |-> "process", job |-> i]
  /\ Runnable(i) /\ jobs[i].attempts < MaxAttempts /\ Len(traces) < MaxTraces
  /\ WriteJobs([jobs EXCEPT ![i].status = "running"])
  /\ turn' = [at |-> "decide", job |-> i, id |-> jobs[i].body.traceId]

(* processJob, from POST /queue/:id/process or behind enqueue and replay.   *)
StartRun(i) ==
  /\ TakesRequests \/ turn = [at |-> "process", job |-> i]
  /\ Runnable(i) /\ jobs[i].attempts < MaxAttempts /\ Len(traces) < MaxTraces
  /\ WriteJobs([jobs EXCEPT ![i].status = "running", ![i].attempts = @ + 1])
  /\ turn' = [at |-> "decide", job |-> i, id |-> jobs[i].body.traceId]

(* POST /decision: decide without a job. *)
Decision(traceId) ==
  /\ TakesRequests /\ Len(traces) < MaxTraces
  /\ turn' = [at |-> "decide", job |-> NoJob, id |-> traceId]
  /\ WritesNothing

\* normalizeEnvelope keeps a client's id; a generated one is new
TraceIdOf(traceId) == IF traceId = NoId THEN Len(traces) + 1 ELSE traceId

(* decide: createTrace, then all of the deciding, which may throw. *)
CreateTrace ==
  /\ turn.at = "decide"
  /\ LET id == TraceIdOf(turn.id) IN
       /\ WriteTraces(Append(traces, [id |-> id, status |-> "running",
                                       of |-> turn.job]))
       /\ \E outcome \in {"completed", "blocked", "throws"} :
            turn' = [at |-> "decided", job |-> turn.job, id |-> id,
                     outcome |-> outcome]

\* findIndex and find: the first trace of that id
TraceAt(id) == SelectInSeq(traces, LAMBDA trace : trace.id = id)

\* what follows a decision: processJob's update, or the answer
AfterDecision == IF turn.job = NoJob THEN Idle ELSE [turn EXCEPT !.at = "settle"]

\* Mutant: the trace of a blocked decision is left open.
FinalizeCompleted ==
  /\ turn.at = "decided" /\ turn.outcome # "throws"
  /\ IF turn.outcome = "completed"
     THEN WriteTraces([traces EXCEPT ![TraceAt(turn.id)].status = turn.outcome])
     ELSE WritesNothing
  /\ turn' = AfterDecision

(* decide: finalizeTrace, then its return. *)
FinalizeTrace ==
  /\ turn.at = "decided" /\ turn.outcome # "throws"
  /\ WriteTraces([traces EXCEPT ![TraceAt(turn.id)].status = turn.outcome])
  /\ turn' = AfterDecision

(* decide threw under POST /decision: status 500, nothing written. *)
DecisionThrows ==
  /\ turn.at = "decided" /\ turn.outcome = "throws" /\ turn.job = NoJob
  /\ turn' = Idle
  /\ WritesNothing

(* processJob, the decision's result. *)
SettleJob ==
  /\ turn.at = "settle"
  /\ WriteJobs([jobs EXCEPT ![turn.job].status = turn.outcome,
                            ![turn.job].result = turn.id,
                            ![turn.job].replaySafe = turn.outcome # "completed"])
  /\ turn' = Idle

\* Mutant: the attempt to come is counted too.
ExhaustedEarly(job) == job.attempts + 1 >= job.body.limit

Exhausted(job) == job.attempts >= job.body.limit

(* processJob, the catch block. *)
FailJob ==
  /\ turn.at = "decided" /\ turn.outcome = "throws" /\ turn.job # NoJob
  /\ WriteJobs([jobs EXCEPT ![turn.job].status = "failed",
                            ![turn.job].replaySafe = TRUE])
  /\ turn' = IF Exhausted(jobs[turn.job]) THEN [at |-> "bury", job |-> turn.job]
                                          ELSE Idle

BuryJob ==
  /\ turn.at = "bury"
  /\ WriteJobs([jobs EXCEPT ![turn.job].status = "dead_letter"])
  /\ turn' = Idle

MayReplay(i, force) == jobs[i].replaySafe \/ force

(* POST /queue/:id/replay: a new job, of the original's input with what the *)
(* request overrides,                                                       *)
Replay(i, body, force, auto) ==
  /\ TakesRequests /\ MayReplay(i, force) /\ Len(jobs) < MaxJobs
  /\ WriteJobs(Append(jobs, NewJob(body, i)))
  /\ turn' = [at |-> "link", job |-> i, auto |-> auto]

\* Mutant: the replay's place is counted after it was added.
LinkNext ==
  /\ turn.at = "link"
  /\ WriteJobs([jobs EXCEPT ![turn.job].replayJob = Len(jobs) + 1])
  /\ turn' = AutoProcess(turn.auto, Len(jobs))

(* and its id in the original. *)
LinkReplay ==
  /\ turn.at = "link"
  /\ WriteJobs([jobs EXCEPT ![turn.job].replayJob = Len(jobs)])
  /\ turn' = AutoProcess(turn.auto, Len(jobs))

Open(ts) == {t \in DOMAIN ts : ts[t].status = "running"}

(* POST /traces/repair: the oldest open traces, up to the limit, expire. *)
RepairStuckTraces(limit) ==
  /\ TakesRequests
  /\ WriteTraces([t \in DOMAIN traces |->
             IF t \in Open(traces) /\ Cardinality(Open(traces) \cap 1..t) <= limit
             THEN [traces[t] EXCEPT !.status = "expired"] ELSE traces[t]])
  /\ UNCHANGED turn

\* the rows once this write is stored
Stored(write) == [saved EXCEPT ![write.doc] = write.image[write.doc]]

\* Mutant: the writes are sent side by side, not chained.
StoredUnchained ==
  \E k \in DOMAIN unsaved :
    /\ saved' = Stored(unsaved[k]) /\ settled' = unsaved[k].image
    /\ unsaved' = RemoveAt(unsaved, k)

UpsertStored ==
  /\ unsaved # <<>> /\ unsaved' = Tail(unsaved)
  /\ saved' = Stored(Head(unsaved)) /\ settled' = Head(unsaved).image

UpsertRejected ==
  /\ unsaved # <<>> /\ unsaved' = Tail(unsaved)
  /\ Cardinality(torn \cup Short) < MaxShort
  /\ saved' = saved /\ settled' = Head(unsaved).image

(* The next write of the chain reaches the database, which has it or has    *)
(* rejected it.  The chain's promises run between turns only.               *)
Upsert ==
  /\ turn = Idle
  /\ UpsertStored \/ UpsertRejected
  /\ UNCHANGED <<jobs, traces, turn, torn>>

(* The process dies and starts again on what was saved. *)
Crash ==
  /\ turn # Idle \/ unsaved # <<>> \/ Short # {}
  /\ jobs' = saved.jobs /\ traces' = saved.traces
  /\ torn' = torn \cup Short
  /\ settled' = saved /\ saved' = saved
  /\ turn' = Idle /\ unsaved' = <<>>

Next ==
  \/ \E body \in Body, auto \in BOOLEAN : Enqueue(body, auto)
  \/ \E i \in DOMAIN jobs : StartRun(i)
  \/ \E traceId \in ClientIds \cup {NoId} : Decision(traceId)
  \/ CreateTrace \/ FinalizeTrace \/ DecisionThrows
  \/ SettleJob \/ FailJob \/ BuryJob
  \/ \E i \in DOMAIN jobs, body \in Body, force, auto \in BOOLEAN :
       Replay(i, body, force, auto)
  \/ LinkReplay
  \/ \E limit \in RepairLimits : RepairStuckTraces(limit)
  \/ Upsert \/ Crash

Spec == Init /\ [][Next]_vars

-----------------------------------------------------------------------------
Decided == {"completed", "blocked"}

(* A job that shows a decision's outcome has a closed trace to show for it, *)
(* also when the process died between any two writes: decide finalizes the  *)
(* trace before processJob stores the result.  A rejected write of the      *)
(* queue does no harm; one of the traces does if the process dies before    *)
(* the traces are written again.                                            *)
ResultsAreTraced ==
  "traces" \notin torn =>
    \A i \in DOMAIN jobs : jobs[i].status \in Decided =>
      /\ TraceAt(jobs[i].result) # 0
      /\ TraceAt(jobs[i].result) \notin Open(traces)

(* No decision ran for a job without having been counted in its attempts:   *)
(* a crash may lose the trace of an attempt, never the count of one traced. *)
(* A rejected write of the traces does no harm; one of the queue does if    *)
(* the process dies before the queue is written again.                      *)
RunsAreCounted ==
  "jobs" \notin torn =>
    \A i \in DOMAIN jobs :
      Cardinality({t \in DOMAIN traces : traces[t].of = i}) <= jobs[i].attempts

(* Jobs are given up only when their attempts are spent, whatever blocked   *)
(* runs, crashes and calls of /process came before.                         *)
DeadLettersAreExhausted ==
  \A i \in DOMAIN jobs : jobs[i].status = "dead_letter" =>
     jobs[i].attempts >= jobs[i].body.limit

(* The replay a job names exists and names the job as its original: a crash *)
(* between the two writes leaves a replay that its original does not name,  *)
(* never the reverse.                                                       *)
ReplayLinksResolve ==
  \A i \in DOMAIN jobs : jobs[i].replayJob # NoJob =>
     /\ jobs[i].replayJob \in DOMAIN jobs \ {i}
     /\ jobs[jobs[i].replayJob].replayOf = i

(* A job that was saved as completed or dead stays what it is: no call,     *)
(* crash or restart runs it again or takes its outcome back.                *)
FinishedStaysFinished ==
  [][\A i \in DOMAIN saved.jobs : saved.jobs[i].status \in Terminal =>
       \A after \in {jobs', saved'.jobs} :
         i \in DOMAIN after /\ after[i].status = saved.jobs[i].status
           /\ after[i].attempts = saved.jobs[i].attempts]_vars
=============================================================================
