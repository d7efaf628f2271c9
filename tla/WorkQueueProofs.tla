--------------------------- MODULE WorkQueueProofs ---------------------------
(***************************************************************************)
(* Proofs about the queue, its decisions and their traces, for every set of *)
(* client ids and limits and every bound.  What holds of the two documents  *)
(* as they are must hold of them as a restart finds them, that is, of every *)
(* image that is saved or still to be saved: the invariant is about images. *)
(***************************************************************************)
EXTENDS WorkQueue, SequenceTheorems, FiniteSetTheorems, WellFoundedInduction,
        TLAPS

Entries == [doc : Docs, image : Images]

(* The first trace of that id exists and is closed. *)
Closed(ts, id) ==
  \E t \in DOMAIN ts : /\ ts[t].id = id /\ ts[t].status # "running"
                       /\ \A s \in 1..(t - 1) : ts[s].id # id

RunsOf(ts, i) == {t \in DOMAIN ts : ts[t].of = i}

(* The later log has every trace of the earlier one, open or not as it was, *)
(* or closed since.                                                         *)
Follows(ts, later) ==
  \A t \in DOMAIN ts :
    /\ t \in DOMAIN later /\ later[t].id = ts[t].id /\ later[t].of = ts[t].of
    /\ ts[t].status # "running" => later[t].status # "running"

Traced(js, ts) == \A i \in DOMAIN js :
                    js[i].status \in Decided => Closed(ts, js[i].result)
Counted(js, ts) ==
  /\ \A t \in DOMAIN ts : ts[t].of \in 0..Len(js)
  /\ \A i \in DOMAIN js : Cardinality(RunsOf(ts, i)) <= js[i].attempts
Spent(js) == \A i \in DOMAIN js :
               js[i].status = "dead_letter" => js[i].attempts >= js[i].body.limit
Linked(js) == \A i \in DOMAIN js : js[i].replayJob # NoJob =>
                /\ js[i].replayJob \in DOMAIN js \ {i}
                /\ js[js[i].replayJob].replayOf = i

Queue(js) ==
  /\ js \in Seq(Job) /\ Spent(js) /\ Linked(js)
  /\ \A i \in DOMAIN js : {js[i].replayOf, js[i].replayJob} \subseteq 0..Len(js)

(* Two documents in good order, where the lost ones were once found without *)
(* a write that others rest on: a closed trace, or a counted run.           *)
Good(js, ts, lost) ==
  /\ Queue(js) /\ ts \in Seq(Trace)
  /\ "traces" \notin lost => Traced(js, ts)
  /\ "jobs" \notin lost => Counted(js, ts)

(* after has every finished job of before as it was. *)
Keeps(before, after) ==
  \A i \in DOMAIN before : before[i].status \in Terminal =>
    /\ i \in DOMAIN after /\ after[i].status = before[i].status
    /\ after[i].attempts = before[i].attempts

Grows(before, after) ==
  Keeps(before.jobs, after.jobs) /\ Follows(before.traces, after.traces)

(* The request being handled: the job it runs is running and counted, the   *)
(* trace it is to finalize or to name exists, the replay it is to link is   *)
(* the last job.                                                            *)
TurnFits ==
  /\ turn.at \in {"idle", "process", "decide", "decided", "settle", "bury",
                  "link"}
  /\ turn.at = "idle" => turn = Idle
  /\ turn.at = "process" => turn.job \in DOMAIN jobs
  /\ turn.at \in {"decide", "decided", "settle"} => turn.job \in 0..Len(jobs)
  /\ (turn.at \in {"decide", "decided", "settle"} /\ turn.job # NoJob)
       => jobs[turn.job].status = "running"
  /\ turn.at = "decide" =>
       /\ turn.id \in ClientIds \cup {NoId}
       /\ (turn.job # NoJob /\ "jobs" \notin torn) =>
            Cardinality(RunsOf(traces, turn.job)) < jobs[turn.job].attempts
  /\ turn.at = "decided" =>
       /\ turn.outcome \in Decided \cup {"throws"} /\ turn.id \in TraceIds
       /\ \E t \in DOMAIN traces : traces[t].id = turn.id
  /\ turn.at = "settle" =>
       /\ turn.job # NoJob /\ turn.outcome \in Decided /\ turn.id \in TraceIds
       /\ Closed(traces, turn.id)
  /\ turn.at = "bury" =>
       /\ turn.job \in DOMAIN jobs /\ jobs[turn.job].status = "failed"
       /\ jobs[turn.job].attempts >= jobs[turn.job].body.limit
  /\ turn.at = "link" =>
       /\ turn.job \in DOMAIN jobs /\ turn.job < Len(jobs)
       /\ jobs[Len(jobs)].replayOf = turn.job /\ turn.auto \in BOOLEAN

(* What is settled and still to be saved: documents in good order, each with *)
(* what was finished before it, and the present ones last.  What is saved   *)
(* is a document of then or an earlier one, and where only the queue is     *)
(* older, the traces there are have closed what it shows.                   *)
ChainFits ==
  /\ saved \in Images /\ settled \in Images /\ unsaved \in Seq(Entries)
  /\ torn \subseteq Docs
  /\ Good(settled.jobs, settled.traces, torn)
  /\ Queue(saved.jobs) /\ Grows(saved, settled)
  /\ "traces" \notin torn => Traced(saved.jobs, settled.traces)
  /\ \A k \in DOMAIN unsaved :
       /\ Good(unsaved[k].image.jobs, unsaved[k].image.traces, torn)
       /\ Grows(settled, unsaved[k].image)
  /\ \A k, l \in DOMAIN unsaved :
       k <= l => Grows(unsaved[k].image, unsaved[l].image)
  /\ unsaved # <<>> => WriteBehind /\ unsaved[Len(unsaved)].image = Image(jobs, traces)
  /\ unsaved = <<>> => settled = Image(jobs, traces)

QueueInv == TurnFits /\ ChainFits

-----------------------------------------------------------------------------
(* What a write does to documents in good order. *)

LEMMA GoodTypes ==
  ASSUME NEW js, NEW ts, NEW lost, Good(js, ts, lost)
  PROVE  /\ js \in Seq(Job) /\ ts \in Seq(Trace)
         /\ Len(js) \in Nat /\ Len(ts) \in Nat
         /\ DOMAIN js = 1..Len(js) /\ DOMAIN ts = 1..Len(ts)
         /\ \A i \in DOMAIN js : js[i] \in Job
         /\ \A t \in DOMAIN ts : ts[t] \in Trace
<1>1. js \in Seq(Job) /\ ts \in Seq(Trace)
  BY DEF Good, Queue
<1> QED
  BY <1>1, LenProperties, ElementOfSeq

LEMMA RunsAreFinite ==
  ASSUME NEW js, NEW ts, NEW lost, Good(js, ts, lost), NEW i
  PROVE  IsFiniteSet(RunsOf(ts, i)) /\ Cardinality(RunsOf(ts, i)) \in Nat
<1>1. IsFiniteSet(1..Len(ts))
  <2>1. Len(ts) \in Nat
    BY GoodTypes
  <2> QED
    BY <2>1, FS_Interval
<1>2. RunsOf(ts, i) \subseteq 1..Len(ts)
  BY GoodTypes DEF RunsOf
<1> QED
  BY <1>1, <1>2, FS_Subset, FS_CardinalityType

(* What is closed in a log is closed in a later one. *)
LEMMA ClosedStays ==
  ASSUME NEW ts \in Seq(Trace), NEW later, Follows(ts, later), NEW id, Closed(ts, id)
  PROVE  Closed(later, id)
<1>1. PICK t \in DOMAIN ts : /\ ts[t].id = id /\ ts[t].status # "running"
                             /\ \A s \in 1..(t - 1) : ts[s].id # id
  BY DEF Closed
<1>2. \A s \in 1..(t - 1) : s \in DOMAIN ts
  <2>1. DOMAIN ts = 1..Len(ts) /\ Len(ts) \in Nat
    BY LenProperties
  <2> QED
    BY <2>1
<1>3. t \in DOMAIN later /\ later[t].id = id /\ later[t].status # "running"
  BY <1>1 DEF Follows
<1>4. \A s \in 1..(t - 1) : later[s].id # id
  BY <1>1, <1>2 DEF Follows
<1> QED
  BY <1>3, <1>4 DEF Closed

(* A new job is queued, and shows nothing yet. *)
LEMMA AddJob ==
  ASSUME NEW js, NEW ts, NEW lost, Good(js, ts, lost), NEW job \in Job,
         job.status = "queued", job.attempts = 0, job.replayJob = NoJob,
         job.replayOf \in 0..Len(js)
  PROVE  /\ Good(Append(js, job), ts, lost) /\ Keeps(js, Append(js, job))
         /\ Len(Append(js, job)) = Len(js) + 1
         /\ Append(js, job)[Len(js) + 1] = job
         /\ \A i \in DOMAIN js : Append(js, job)[i] = js[i]
<1> DEFINE new == Append(js, job)
<1>1. /\ new \in Seq(Job) /\ Len(new) = Len(js) + 1 /\ new[Len(js) + 1] = job
      /\ \A i \in 1..Len(js) : new[i] = js[i]
  BY GoodTypes, AppendProperties
<1>2. DOMAIN new = 1..(Len(js) + 1) /\ DOMAIN js = 1..Len(js) /\ Len(js) \in Nat
  BY <1>1, GoodTypes, LenProperties
<1> HIDE DEF new
<1>3. \A i \in DOMAIN new : \/ i \in DOMAIN js /\ new[i] = js[i]
                            \/ i = Len(js) + 1 /\ new[i] = job
  BY <1>1, <1>2
<1>4. \A i \in DOMAIN new : {new[i].replayOf, new[i].replayJob} \subseteq 0..Len(new)
  BY <1>1, <1>2, <1>3 DEF Good, Queue, NoJob
<1>5. "traces" \notin lost => Traced(new, ts)
  BY <1>3 DEF Good, Traced, Decided
<1>6. "jobs" \notin lost => Counted(new, ts)
  <2> SUFFICES ASSUME "jobs" \notin lost PROVE Counted(new, ts)
    OBVIOUS
  <2>0. /\ \A t \in DOMAIN ts : ts[t].of \in 0..Len(js)
        /\ \A i \in DOMAIN js : Cardinality(RunsOf(ts, i)) <= js[i].attempts
    BY DEF Good, Counted
  <2>1. RunsOf(ts, Len(js) + 1) = {}
    BY <1>2, <2>0 DEF RunsOf
  <2>2. Cardinality(RunsOf(ts, Len(js) + 1)) = 0
    BY <2>1, FS_EmptySet
  <2>3. \A t \in DOMAIN ts : ts[t].of \in 0..Len(new)
    BY <1>1, <1>2, <2>0
  <2> QED
    BY <1>3, <2>0, <2>2, <2>3 DEF Counted
<1>7. Spent(new)
  BY <1>3 DEF Good, Queue, Spent
<1>8. Linked(new)
  BY <1>1, <1>2, <1>3 DEF Good, Queue, Linked
<1>9. Keeps(js, new)
  BY <1>1, <1>2 DEF Keeps
<1>10. ts \in Seq(Trace)
  BY GoodTypes
<1> QED
  BY <1>1, <1>2, <1>4, <1>5, <1>6, <1>7, <1>8, <1>9, <1>10 DEF Good, Queue, new

(* One job changes: it was not finished or keeps what it shows, and what it *)
(* shows now is covered.                                                    *)
LEMMA ChangeJob ==
  ASSUME NEW js, NEW ts, NEW lost, Good(js, ts, lost), NEW i \in DOMAIN js, NEW job \in Job,
         NEW new, new = [js EXCEPT ![i] = job],
         \/ js[i].status \notin Terminal
         \/ job.status = js[i].status /\ job.attempts = js[i].attempts,
         job.attempts >= js[i].attempts, job.replayOf = js[i].replayOf,
         ("traces" \notin lost /\ job.status \in Decided) => Closed(ts, job.result),
         job.status = "dead_letter" => job.attempts >= job.body.limit,
         \/ job.replayJob = js[i].replayJob
         \/ job.replayJob \in DOMAIN js \ {i} /\ js[job.replayJob].replayOf = i
  PROVE  /\ Good(new, ts, lost) /\ Keeps(js, new)
         /\ Len(new) = Len(js) /\ DOMAIN new = DOMAIN js /\ new[i] = job
         /\ \A k \in DOMAIN js : k # i => new[k] = js[k]
<1>1. /\ new \in Seq(Job) /\ Len(new) = Len(js) /\ new[i] = job
      /\ \A k \in 1..Len(js) : k # i => new[k] = js[k]
  BY GoodTypes, ExceptSeq
<1>2. DOMAIN new = 1..Len(js) /\ DOMAIN js = 1..Len(js) /\ Len(js) \in Nat
  BY <1>1, GoodTypes, LenProperties
<1>3. js[i].attempts \in Nat /\ job.attempts \in Nat
  BY GoodTypes DEF Job
<1>4. \A k \in DOMAIN new : {new[k].replayOf, new[k].replayJob} \subseteq 0..Len(new)
  BY <1>1, <1>2 DEF Good, Queue
<1>5. "traces" \notin lost => Traced(new, ts)
  BY <1>1, <1>2 DEF Good, Traced
<1>6. "jobs" \notin lost => Counted(new, ts)
  <2> SUFFICES ASSUME "jobs" \notin lost PROVE Counted(new, ts)
    OBVIOUS
  <2>1. Counted(js, ts)
    BY DEF Good
  <2>2. Cardinality(RunsOf(ts, i)) \in Nat
    BY RunsAreFinite
  <2>3. Cardinality(RunsOf(ts, i)) <= job.attempts
    BY <1>3, <2>1, <2>2 DEF Counted
  <2> QED
    BY <1>1, <1>2, <2>1, <2>3 DEF Counted
<1>7. Spent(new)
  BY <1>1, <1>2 DEF Good, Queue, Spent
<1>8. \A k \in DOMAIN js : new[k].replayOf = js[k].replayOf
  BY <1>1, <1>2
<1>9. Linked(new)
  BY <1>1, <1>2, <1>8 DEF Good, Queue, Linked
<1>10. Keeps(js, new)
  BY <1>1, <1>2 DEF Keeps
<1> QED
  BY <1>1, <1>2, <1>4, <1>5, <1>6, <1>7, <1>9, <1>10, GoodTypes DEF Good, Queue

(* A trace is created for no job, or for one whose attempts have room. *)
LEMMA AddTrace ==
  ASSUME NEW js, NEW ts, NEW lost, Good(js, ts, lost), NEW trace \in Trace,
         "jobs" \notin lost =>
           /\ trace.of \in 0..Len(js)
           /\ trace.of # NoJob => Cardinality(RunsOf(ts, trace.of)) < js[trace.of].attempts
  PROVE  /\ Good(js, Append(ts, trace), lost) /\ Follows(ts, Append(ts, trace))
         /\ Len(ts) + 1 \in DOMAIN Append(ts, trace)
         /\ Append(ts, trace)[Len(ts) + 1] = trace
<1> DEFINE new == Append(ts, trace)
<1>1. /\ new \in Seq(Trace) /\ Len(new) = Len(ts) + 1 /\ new[Len(ts) + 1] = trace
      /\ \A t \in 1..Len(ts) : new[t] = ts[t]
  BY GoodTypes, AppendProperties
<1>2. DOMAIN new = 1..(Len(ts) + 1) /\ DOMAIN ts = 1..Len(ts) /\ Len(ts) \in Nat
  BY <1>1, GoodTypes, LenProperties
<1> HIDE DEF new
<1>3. \A t \in DOMAIN new : \/ t \in DOMAIN ts /\ new[t] = ts[t]
                            \/ t = Len(ts) + 1 /\ new[t] = trace
  BY <1>1, <1>2
<1>4. Follows(ts, new)
  BY <1>1, <1>2 DEF Follows
<1>5. "traces" \notin lost => Traced(js, new)
  BY <1>4, ClosedStays, GoodTypes DEF Good, Traced
<1>6. "jobs" \notin lost => Counted(js, new)
  <2> SUFFICES ASSUME "jobs" \notin lost, NEW i \in DOMAIN js
               PROVE  Cardinality(RunsOf(new, i)) <= js[i].attempts
    BY <1>3 DEF Good, Counted
  <2>1. js[i].attempts \in Nat /\ i # NoJob
    BY GoodTypes DEF Job, NoJob
  <2>2. CASE i = trace.of
    <3>1. RunsOf(new, i) = RunsOf(ts, i) \cup {Len(ts) + 1}
          /\ Len(ts) + 1 \notin RunsOf(ts, i)
      BY <1>1, <1>2, <1>3, <2>2 DEF RunsOf
    <3>2. Cardinality(RunsOf(new, i)) = Cardinality(RunsOf(ts, i)) + 1
      BY <3>1, RunsAreFinite, FS_AddElement
    <3> QED
      BY <2>1, <2>2, <3>2, RunsAreFinite
  <2>3. CASE i # trace.of
    <3>1. RunsOf(new, i) = RunsOf(ts, i)
      BY <1>1, <1>2, <1>3, <2>3 DEF RunsOf
    <3> QED
      BY <3>1 DEF Good, Counted
  <2> QED
    BY <2>2, <2>3
<1> QED
  BY <1>1, <1>2, <1>4, <1>5, <1>6 DEF Good, new

(* Traces are closed, and none is opened again. *)
LEMMA CloseTraces ==
  ASSUME NEW js, NEW ts, NEW lost, Good(js, ts, lost), NEW new, new \in Seq(Trace),
         DOMAIN new = DOMAIN ts,
         \A t \in DOMAIN ts : /\ new[t].id = ts[t].id /\ new[t].of = ts[t].of
                              /\ \/ new[t].status = ts[t].status
                                 \/ new[t].status # "running"
  PROVE  Good(js, new, lost) /\ Follows(ts, new)
<1>1. Follows(ts, new)
  BY DEF Follows
<1>2. "traces" \notin lost => Traced(js, new)
  BY <1>1, ClosedStays, GoodTypes DEF Good, Traced
<1>3. "jobs" \notin lost => Counted(js, new)
  <2>1. \A i : RunsOf(new, i) = RunsOf(ts, i)
    BY DEF RunsOf
  <2> QED
    BY <2>1 DEF Good, Counted
<1> QED
  BY <1>1, <1>2, <1>3 DEF Good

(* finalizeTrace finds the first trace of an id, where there is one. *)
LEMMA TraceIsFirst ==
  ASSUME traces \in Seq(Trace), NEW id,
         \E t \in DOMAIN traces : traces[t].id = id
  PROVE  /\ TraceAt(id) \in DOMAIN traces /\ traces[TraceAt(id)].id = id
         /\ \A s \in 1..(TraceAt(id) - 1) : traces[s].id # id
<1> DEFINE I == {t \in 1..Len(traces) : traces[t].id = id}
<1>1. I # {} /\ I \in SUBSET Nat /\ DOMAIN traces = 1..Len(traces)
      /\ Len(traces) \in Nat
  BY LenProperties
<1>2. TraceAt(id) = Min(I)
  BY <1>1, Zenon DEF TraceAt, SelectInSeq
<1>3. \E m \in I : \A t \in I : m <= t
  <2> HIDE DEF I
  <2>1. PICK m \in I : \A t \in I : ~(<<t, m>> \in OpToRel(<, Nat))
    BY <1>1, NatLessThanWellFounded, WFMin
  <2>2. \A t \in I : ~(t < m)
    BY <1>1, <2>1 DEF OpToRel
  <2> QED
    BY <1>1, <2>2
<1>4. Min(I) \in I /\ \A t \in I : Min(I) <= t
  <2> HIDE DEF I
  <2> QED
    BY <1>3, Zenon DEF Min
<1> HIDE DEF I
<1>5. \A s \in 1..(Min(I) - 1) : s \notin I /\ s \in 1..Len(traces)
  BY <1>1, <1>4 DEF I
<1> QED
  BY <1>1, <1>2, <1>4, <1>5 DEF I

-----------------------------------------------------------------------------
(* What a write does to the chain of images. *)

LEMMA GrowsThrough ==
  ASSUME NEW a, NEW b, NEW c, Grows(a, b), Grows(b, c)
  PROVE  Grows(a, c)
BY DEF Grows, Keeps, Follows

LEMMA GrowsSame == \A a : Grows(a, a)
BY DEF Grows, Keeps, Follows

LEMMA StaysSame == \A a : Keeps(a, a) /\ Follows(a, a)
BY DEF Keeps, Follows

(* The documents as they are: in good order, and grown from those in every  *)
(* image.                                                                   *)
LEMMA Present ==
  ASSUME ChainFits
  PROVE  /\ Good(jobs, traces, torn) /\ Keeps(saved.jobs, jobs)
         /\ Grows(settled, Image(jobs, traces))
         /\ \A k \in DOMAIN unsaved : Grows(unsaved[k].image, Image(jobs, traces))
         /\ Len(unsaved) \in Nat /\ DOMAIN unsaved = 1..Len(unsaved)
<1>1. Len(unsaved) \in Nat /\ DOMAIN unsaved = 1..Len(unsaved)
  BY LenProperties DEF ChainFits
<1>2. Image(jobs, traces).jobs = jobs /\ Image(jobs, traces).traces = traces
  BY DEF Image
<1>3. /\ Good(jobs, traces, torn) /\ Grows(settled, Image(jobs, traces))
      /\ \A k \in DOMAIN unsaved : Grows(unsaved[k].image, Image(jobs, traces))
  <2>1. CASE unsaved = <<>>
    <3>1. DOMAIN unsaved = {}
      BY <1>1, <2>1, EmptySeq
    <3> QED
      BY <1>2, <2>1, <3>1, GrowsSame DEF ChainFits
  <2>2. CASE unsaved # <<>>
    <3>1. Len(unsaved) \in DOMAIN unsaved
      BY <1>1, <2>2, EmptySeq DEF ChainFits
    <3> QED
      BY <1>1, <1>2, <2>2, <3>1 DEF ChainFits
  <2> QED
    BY <2>1, <2>2
<1>4. Keeps(saved.jobs, jobs)
  <2>1. Grows(saved, Image(jobs, traces))
    BY <1>3, GrowsThrough DEF ChainFits
  <2> QED
    BY <1>2, <2>1 DEF Grows
<1> QED
  BY <1>1, <1>3, <1>4

SavedStays == /\ Keeps(saved.jobs, jobs') /\ Keeps(saved.jobs, saved'.jobs)

LEMMA WriteStep ==
  ASSUME ChainFits, NEW doc \in Docs, NEW js, NEW ts, Good(js, ts, torn),
         Keeps(jobs, js), Follows(traces, ts), Save(doc, Image(js, ts))
  PROVE  ChainFits' /\ jobs' = js /\ traces' = ts /\ torn' = torn /\ SavedStays
<1> DEFINE new == Image(js, ts)
           entry == [doc |-> doc, image |-> new]
<1>1. new \in Images /\ new.jobs = js /\ new.traces = ts
  BY GoodTypes DEF Images, Image
<1>2. jobs' = js /\ traces' = ts /\ torn' = torn
  BY <1>1 DEF Save
<1>3. /\ Grows(settled, new) /\ Grows(saved, new)
      /\ \A k \in DOMAIN unsaved : Grows(unsaved[k].image, new)
  <2>1. Grows(Image(jobs, traces), new)
    BY <1>1 DEF Grows, Image
  <2>2. Grows(settled, new) /\ \A k \in DOMAIN unsaved : Grows(unsaved[k].image, new)
    BY <2>1, Present, GrowsThrough
  <2> QED
    BY <2>2, GrowsThrough DEF ChainFits
<1>4. Image(jobs, traces)' = new
  BY <1>2 DEF Image
<1>5. entry \in Entries /\ entry.image = new
  BY <1>1 DEF Entries
<1>6. CASE WriteBehind /\ unsaved' = Append(unsaved, entry) /\ UNCHANGED <<saved, settled>>
  <2> DEFINE n == Len(unsaved)
  <2>1. /\ unsaved' \in Seq(Entries) /\ unsaved' # <<>> /\ Len(unsaved') = n + 1
        /\ unsaved'[n + 1] = entry /\ \A k \in 1..n : unsaved'[k] = unsaved[k]
    <3>1. unsaved \in Seq(Entries)
      BY DEF ChainFits
    <3> HIDE DEF entry
    <3> QED
      BY <1>5, <1>6, <3>1, AppendProperties
  <2>2. /\ n \in Nat /\ DOMAIN unsaved = 1..n /\ DOMAIN unsaved' = 1..(n + 1)
    BY <2>1, Present, LenProperties
  <2> HIDE DEF new, entry, n
  <2>3. \A k \in DOMAIN unsaved' :
          \/ k \in DOMAIN unsaved /\ unsaved'[k] = unsaved[k]
          \/ k = n + 1 /\ unsaved'[k].image = new
    BY <1>5, <2>1, <2>2
  <2>4. \A k \in DOMAIN unsaved' :
          /\ Good(unsaved'[k].image.jobs, unsaved'[k].image.traces, torn)
          /\ Grows(settled, unsaved'[k].image)
    BY <1>1, <1>3, <2>3 DEF ChainFits
  <2>5. ASSUME NEW k \in DOMAIN unsaved', NEW l \in DOMAIN unsaved', k <= l
        PROVE  Grows(unsaved'[k].image, unsaved'[l].image)
    <3>1. CASE l \in DOMAIN unsaved
      BY <2>1, <2>2, <2>5, <3>1 DEF ChainFits
    <3>2. CASE l = n + 1 /\ k \in DOMAIN unsaved
      BY <1>3, <1>5, <2>1, <2>2, <3>2
    <3>3. CASE l = n + 1 /\ k = n + 1
      BY <3>3, GrowsSame
    <3> QED
      BY <2>2, <2>3, <2>5, <3>1, <3>2, <3>3
  <2>6. unsaved'[Len(unsaved')].image = Image(jobs, traces)'
    BY <1>4, <1>5, <2>1
  <2>7. SavedStays
    BY <1>1, <1>2, <1>3, <1>6, StaysSame DEF SavedStays, Grows
  <2> QED
    BY <1>2, <1>6, <2>1, <2>4, <2>5, <2>6, <2>7 DEF ChainFits
<1>7. CASE ~WriteBehind /\ unsaved' = unsaved /\ saved' = new /\ settled' = new
  <2>1. unsaved = <<>> /\ DOMAIN unsaved = {}
    BY <1>7, Present, EmptySeq DEF ChainFits
  <2>2. SavedStays
    BY <1>1, <1>2, <1>3, <1>7 DEF SavedStays, Grows
  <2> HIDE DEF new
  <2>3. Queue(js) /\ ("traces" \notin torn => Traced(js, ts))
    BY DEF Good
  <2> QED
    BY <1>1, <1>2, <1>4, <1>7, <2>1, <2>2, <2>3, GrowsSame DEF ChainFits
<1> QED
  BY <1>2, <1>6, <1>7 DEF Save

LEMMA WriteJobsStep ==
  ASSUME ChainFits, NEW js, Good(js, traces, torn), Keeps(jobs, js), WriteJobs(js)
  PROVE  ChainFits' /\ SavedStays /\ jobs' = js /\ traces' = traces /\ torn' = torn
BY WriteStep, StaysSame DEF WriteJobs, Docs

LEMMA WriteTracesStep ==
  ASSUME ChainFits, NEW ts, Good(jobs, ts, torn), Follows(traces, ts), WriteTraces(ts)
  PROVE  ChainFits' /\ SavedStays /\ jobs' = jobs /\ traces' = ts /\ torn' = torn
BY WriteStep, StaysSame DEF WriteTraces, Docs

(* A step that writes nothing. *)
LEMMA NoWrite ==
  ASSUME ChainFits, WritesNothing
  PROVE  ChainFits' /\ SavedStays
BY Present, StaysSame DEF ChainFits, SavedStays, WritesNothing

LEMMA SettleWriteStep ==
  ASSUME ChainFits, Upsert
  PROVE  ChainFits' /\ SavedStays
<1>1. /\ unsaved # <<>> /\ settled' = Head(unsaved).image /\ unsaved' = Tail(unsaved)
      /\ jobs' = jobs /\ traces' = traces /\ torn' = torn
      /\ saved' = saved \/ saved' = Stored(Head(unsaved))
  BY DEF Upsert, UpsertStored, UpsertRejected
<1> DEFINE n == Len(unsaved)
<1>2. /\ unsaved \in Seq(Entries) /\ n \in Nat /\ n # 0
      /\ DOMAIN unsaved = 1..n /\ Head(unsaved) = unsaved[1]
  BY <1>1, Present, EmptySeq DEF ChainFits
<1>3. /\ Tail(unsaved) \in Seq(Entries) /\ Len(Tail(unsaved)) = n - 1
      /\ \A k \in 1..(n - 1) : Tail(unsaved)[k] = unsaved[k + 1]
  BY <1>1, <1>2, HeadTailProperties
<1>4. DOMAIN Tail(unsaved) = 1..(n - 1)
  BY <1>3, LenProperties
<1> DEFINE head == unsaved[1]
<1>5. settled' = head.image /\ 1 \in DOMAIN unsaved
  BY <1>1, <1>2
<1>6. \A k \in DOMAIN unsaved' : k + 1 \in DOMAIN unsaved /\ unsaved'[k] = unsaved[k + 1]
  BY <1>1, <1>2, <1>3, <1>4
<1>7. head \in Entries /\ head.doc \in Docs /\ head.image \in Images
  <2>1. head \in Entries
    <3>1. 1 \in 1..Len(unsaved)
      BY <1>2, <1>5
    <3> QED
      BY <1>2, <3>1, ElementOfSeq
  <2> QED
    BY <2>1 DEF Entries
<1>8. /\ Good(head.image.jobs, head.image.traces, torn) /\ Grows(settled, head.image)
  BY <1>5 DEF ChainFits
(* The row is as it was, or has the head's version of its document. *)
<1>9. /\ saved' \in Images
      /\ saved'.jobs \in {saved.jobs, head.image.jobs}
      /\ saved'.traces \in {saved.traces, head.image.traces}
  <2>1. saved \in Images
    BY DEF ChainFits
  <2>2. CASE saved' = saved
    BY <2>1, <2>2
  <2>3. CASE saved' = Stored(Head(unsaved))
    <3>1. saved' = [saved EXCEPT ![head.doc] = head.image[head.doc]]
      BY <1>2, <2>3 DEF Stored
    <3>2. CASE head.doc = "jobs"
      <4>1. saved' = [jobs |-> head.image.jobs, traces |-> saved.traces]
        BY <2>1, <3>1, <3>2 DEF Images
      <4> QED
        BY <1>7, <2>1, <4>1 DEF Images
    <3>3. CASE head.doc = "traces"
      <4>1. saved' = [jobs |-> saved.jobs, traces |-> head.image.traces]
        BY <2>1, <3>1, <3>3 DEF Images
      <4> QED
        BY <1>7, <2>1, <4>1 DEF Images
    <3> QED
      BY <1>7, <3>2, <3>3 DEF Docs
  <2> QED
    BY <1>1, <2>2, <2>3
<1> HIDE DEF head
<1>10. /\ Queue(saved.jobs) /\ Queue(head.image.jobs)
       /\ Grows(saved, head.image)
       /\ Follows(settled.traces, head.image.traces)
       /\ settled.traces \in Seq(Trace)
  BY <1>8, GrowsThrough DEF ChainFits, Good, Grows
<1>11. Queue(saved'.jobs) /\ Grows(saved', settled') /\ Keeps(saved.jobs, saved'.jobs)
  BY <1>5, <1>9, <1>10, StaysSame DEF Grows
<1>12. "traces" \notin torn => Traced(saved'.jobs, settled'.traces)
  <2> SUFFICES ASSUME "traces" \notin torn PROVE Traced(saved'.jobs, settled'.traces)
    OBVIOUS
  <2>1. Traced(head.image.jobs, head.image.traces)
    BY <1>8 DEF Good
  <2>2. Traced(saved.jobs, head.image.traces)
    BY <1>10, ClosedStays DEF ChainFits, Traced
  <2> QED
    BY <1>5, <1>9, <2>1, <2>2
<1>13. \A k \in DOMAIN unsaved' :
         /\ Good(unsaved'[k].image.jobs, unsaved'[k].image.traces, torn)
         /\ Grows(settled', unsaved'[k].image)
  <2>1. \A k \in DOMAIN unsaved' : 1 <= k + 1 /\ k \in Nat
    BY <1>1, <1>4
  <2> QED
    BY <1>5, <1>6, <2>1 DEF ChainFits, head
<1>14. \A k, l \in DOMAIN unsaved' :
         k <= l => Grows(unsaved'[k].image, unsaved'[l].image)
  <2>1. \A k, l \in DOMAIN unsaved' : k <= l => k + 1 <= l + 1
    BY <1>1, <1>4
  <2> QED
    BY <1>6, <2>1 DEF ChainFits
<1>15. unsaved' # <<>> =>
         WriteBehind /\ unsaved'[Len(unsaved')].image = Image(jobs, traces)
  <2> SUFFICES ASSUME unsaved' # <<>>
               PROVE  unsaved'[Len(unsaved')].image = Image(jobs, traces)
    BY <1>1 DEF ChainFits
  <2>1. n - 1 \in 1..(n - 1)
    BY <1>1, <1>2, <1>3, EmptySeq
  <2> QED
    BY <1>1, <1>2, <1>3, <2>1 DEF ChainFits
<1>16. unsaved' = <<>> => settled' = Image(jobs, traces)
  <2> SUFFICES ASSUME unsaved' = <<>> PROVE n = 1
    BY <1>1, <1>5 DEF ChainFits, head
  <2>1. Len(Tail(unsaved)) = 0
    BY <1>1, EmptySeq
  <2>2. n - 1 = 0 /\ n \in Nat
    BY <1>2, <1>3, <2>1, Zenon
  <2> HIDE DEF n
  <2> QED
    BY <2>2
<1>17. SavedStays
  BY <1>1, <1>11, Present DEF SavedStays
<1>18. Image(jobs, traces)' = Image(jobs, traces)
  BY <1>1 DEF Image
<1>19. settled' \in Images /\ unsaved' \in Seq(Entries)
  BY <1>1, <1>3, <1>5, <1>7
<1>20. Good(settled'.jobs, settled'.traces, torn')
  BY <1>1, <1>5, <1>8
<1> QED
  BY <1>1, <1>9, <1>11, <1>12, <1>13, <1>14, <1>15, <1>16, <1>17, <1>18, <1>19, <1>20
     DEF ChainFits

(* A restart finds the saved documents: where it finds one short of a       *)
(* rejected write, what rests on that document is lost.                     *)
LEMMA CrashStep ==
  ASSUME ChainFits, Crash
  PROVE  ChainFits' /\ SavedStays
<1>1. /\ jobs' = saved.jobs /\ traces' = saved.traces /\ saved' = saved
      /\ settled' = saved /\ unsaved' = <<>> /\ torn' = torn \cup Short
  BY DEF Crash
<1>2. saved = Image(saved.jobs, saved.traces) /\ saved.traces \in Seq(Trace)
  BY DEF ChainFits, Images, Image
<1>3. DOMAIN unsaved' = {} /\ unsaved' \in Seq(Entries)
  BY <1>1, EmptySeq, LenProperties
<1>4. torn' \subseteq Docs
  BY <1>1 DEF ChainFits, Short
<1>5. "traces" \notin torn' => Traced(saved.jobs, saved.traces)
  <2> SUFFICES ASSUME "traces" \notin torn' PROVE Traced(saved.jobs, saved.traces)
    OBVIOUS
  <2>1. "traces" \notin torn /\ saved.traces = settled.traces
    BY <1>1 DEF Short, Docs
  <2> QED
    BY <2>1 DEF ChainFits
<1>6. "jobs" \notin torn' => Counted(saved.jobs, saved.traces)
  <2> SUFFICES ASSUME "jobs" \notin torn' PROVE Counted(saved.jobs, saved.traces)
    OBVIOUS
  <2>1. "jobs" \notin torn /\ saved.jobs = settled.jobs
    BY <1>1 DEF Short, Docs
  <2>2. /\ Good(settled.jobs, settled.traces, torn) /\ Counted(settled.jobs, settled.traces)
        /\ Follows(saved.traces, settled.traces)
    BY <2>1 DEF ChainFits, Good, Grows
  <2>3. \A t \in DOMAIN saved.traces : saved.traces[t].of \in 0..Len(saved.jobs)
    BY <2>1, <2>2 DEF Follows, Counted
  <2>4. ASSUME NEW i \in DOMAIN saved.jobs
        PROVE  Cardinality(RunsOf(saved.traces, i)) <= saved.jobs[i].attempts
    <3>1. RunsOf(saved.traces, i) \subseteq RunsOf(settled.traces, i)
      BY <2>2 DEF Follows, RunsOf
    <3>2. /\ IsFiniteSet(RunsOf(settled.traces, i))
          /\ Cardinality(RunsOf(settled.traces, i)) \in Nat
      BY <2>2, RunsAreFinite
    <3>3. /\ Cardinality(RunsOf(saved.traces, i)) <= Cardinality(RunsOf(settled.traces, i))
          /\ Cardinality(RunsOf(saved.traces, i)) \in Nat
      BY <3>1, <3>2, FS_Subset, FS_CardinalityType
    <3>4. /\ Cardinality(RunsOf(settled.traces, i)) <= saved.jobs[i].attempts
          /\ saved.jobs[i].attempts \in Nat
      <4>1. saved.jobs[i] \in Job
        BY <2>1, <2>2, GoodTypes
      <4> QED
        BY <2>1, <2>2, <4>1 DEF Counted, Job
    <3> QED
      BY <3>2, <3>3, <3>4
  <2> QED
    BY <2>3, <2>4 DEF Counted
<1>7. Queue(saved.jobs) /\ saved \in Images
  BY DEF ChainFits
<1>8. Good(saved.jobs, saved.traces, torn')
  BY <1>2, <1>5, <1>6, <1>7 DEF Good
<1>9. Image(jobs, traces)' = saved
  BY <1>1, <1>2 DEF Image
<1>10. SavedStays
  BY <1>1, StaysSame DEF SavedStays
<1> QED
  BY <1>1, <1>3, <1>4, <1>5, <1>7, <1>8, <1>9, <1>10, GrowsSame DEF ChainFits

-----------------------------------------------------------------------------
(* The actions, one by one. *)

LEMMA EnqueueStep ==
  ASSUME QueueInv, NEW body \in Body, NEW auto \in BOOLEAN, Enqueue(body, auto)
  PROVE  QueueInv' /\ SavedStays
<1> DEFINE job == NewJob(body, NoJob)
<1>1. /\ job \in Job /\ job.status = "queued" /\ job.attempts = 0
      /\ job.replayJob = NoJob /\ job.replayOf = NoJob
  BY DEF NewJob, Job, Statuses, NoJob
<1>2. ChainFits /\ Good(jobs, traces, torn) /\ Len(jobs) \in Nat
  BY Present, GoodTypes DEF QueueInv
<1> HIDE DEF job
<1>3. /\ Good(Append(jobs, job), traces, torn) /\ Keeps(jobs, Append(jobs, job))
      /\ Len(Append(jobs, job)) = Len(jobs) + 1
  BY <1>1, <1>2, AddJob DEF NoJob
<1>4. ChainFits' /\ SavedStays /\ jobs' = Append(jobs, job)
  BY <1>2, <1>3, WriteJobsStep DEF Enqueue, job
<1>5. TurnFits'
  <2>1. DOMAIN jobs' = 1..(Len(jobs) + 1)
    BY <1>3, <1>4, Present, GoodTypes
  <2> QED
    BY <1>2, <2>1 DEF Enqueue, AutoProcess, TurnFits, Idle
<1> QED
  BY <1>4, <1>5 DEF QueueInv

LEMMA ReplayStep ==
  ASSUME QueueInv, NEW i \in DOMAIN jobs, NEW force \in BOOLEAN,
         NEW auto \in BOOLEAN, NEW body \in Body, Replay(i, body, force, auto)
  PROVE  QueueInv' /\ SavedStays
<1> DEFINE job == NewJob(body, i)
<1>1. ChainFits /\ Good(jobs, traces, torn) /\ Len(jobs) \in Nat
      /\ DOMAIN jobs = 1..Len(jobs)
  BY Present, GoodTypes DEF QueueInv
<1>2. /\ job \in Job /\ job.status = "queued" /\ job.attempts = 0
      /\ job.replayJob = NoJob /\ job.replayOf = i
  BY <1>1 DEF NewJob, Job, Statuses, NoJob
<1> HIDE DEF job
<1>3. /\ Good(Append(jobs, job), traces, torn) /\ Keeps(jobs, Append(jobs, job))
      /\ Len(Append(jobs, job)) = Len(jobs) + 1
      /\ Append(jobs, job)[Len(jobs) + 1] = job
  BY <1>1, <1>2, AddJob
<1>4. ChainFits' /\ SavedStays /\ jobs' = Append(jobs, job)
  BY <1>1, <1>3, WriteJobsStep DEF Replay, job
<1>5. TurnFits'
  <2>1. DOMAIN jobs' = 1..(Len(jobs) + 1) /\ Len(jobs') = Len(jobs) + 1
        /\ jobs'[Len(jobs')].replayOf = i
    BY <1>2, <1>3, <1>4, Present, GoodTypes
  <2>2. turn' = [at |-> "link", job |-> i, auto |-> auto]
    BY DEF Replay
  <2> QED
    BY <1>1, <2>1, <2>2 DEF TurnFits
<1> QED
  BY <1>4, <1>5 DEF QueueInv

(* The steps that change one job: they share what ChangeJob asks for. *)
LEMMA JobStep ==
  ASSUME QueueInv, NEW i \in DOMAIN jobs, NEW job \in Job,
         WriteJobs([jobs EXCEPT ![i] = job]),
         \/ jobs[i].status \notin Terminal
         \/ job.status = jobs[i].status /\ job.attempts = jobs[i].attempts,
         job.attempts >= jobs[i].attempts, job.replayOf = jobs[i].replayOf,
         ("traces" \notin torn /\ job.status \in Decided) => Closed(traces, job.result),
         job.status = "dead_letter" => job.attempts >= job.body.limit,
         \/ job.replayJob = jobs[i].replayJob
         \/ job.replayJob \in DOMAIN jobs \ {i} /\ jobs[job.replayJob].replayOf = i
  PROVE  /\ ChainFits' /\ SavedStays /\ traces' = traces /\ torn' = torn
         /\ Len(jobs') = Len(jobs) /\ DOMAIN jobs' = DOMAIN jobs
         /\ jobs'[i] = job
<1>1. ChainFits /\ Good(jobs, traces, torn)
  BY Present DEF QueueInv
<1> DEFINE new == [jobs EXCEPT ![i] = job]
<1>2. /\ Good(new, traces, torn) /\ Keeps(jobs, new) /\ Len(new) = Len(jobs)
      /\ DOMAIN new = DOMAIN jobs /\ new[i] = job
  BY <1>1, ChangeJob
<1> HIDE DEF new
<1>3. WriteJobs(new)
  BY DEF new
<1> QED
  BY <1>1, <1>2, <1>3, WriteJobsStep

LEMMA StartStep ==
  ASSUME QueueInv, NEW i \in DOMAIN jobs, StartRun(i)
  PROVE  QueueInv' /\ SavedStays
<1> DEFINE job == [jobs[i] EXCEPT !.status = "running", !.attempts = @ + 1]
<1>1. Good(jobs, traces, torn) /\ DOMAIN jobs = 1..Len(jobs) /\ Len(jobs) \in Nat
      /\ jobs[i] \in Job
  BY Present, GoodTypes DEF QueueInv
<1>2. /\ job \in Job /\ job.status = "running"
      /\ job.attempts = jobs[i].attempts + 1 /\ job.attempts >= jobs[i].attempts
      /\ job.replayOf = jobs[i].replayOf /\ job.replayJob = jobs[i].replayJob
      /\ job.body = jobs[i].body
  <2>1. jobs[i].attempts + 1 \in Nat /\ "running" \in Statuses
        /\ jobs[i].attempts + 1 >= jobs[i].attempts
    BY <1>1 DEF Job, Statuses
  <2> QED
    BY <1>1, <2>1 DEF Job
<1>3. WriteJobs([jobs EXCEPT ![i] = job]) /\ jobs[i].status \notin Terminal
  BY DEF StartRun, Runnable
<1> HIDE DEF job
<1>4. /\ ChainFits' /\ SavedStays /\ traces' = traces /\ torn' = torn
      /\ Len(jobs') = Len(jobs) /\ DOMAIN jobs' = DOMAIN jobs /\ jobs'[i] = job
  BY <1>2, <1>3, JobStep DEF Decided
<1>5. turn' = [at |-> "decide", job |-> i, id |-> jobs[i].body.traceId]
      /\ jobs[i].body.traceId \in ClientIds \cup {NoId}
  BY <1>1 DEF StartRun, Job, Body
<1>6. "jobs" \notin torn => Cardinality(RunsOf(traces, i)) < jobs[i].attempts + 1
  <2>1. "jobs" \notin torn => Cardinality(RunsOf(traces, i)) <= jobs[i].attempts
    BY <1>1 DEF Good, Counted
  <2>2. Cardinality(RunsOf(traces, i)) \in Nat /\ jobs[i].attempts \in Nat
    BY <1>1, RunsAreFinite DEF Job
  <2> QED
    BY <2>1, <2>2
<1>7. TurnFits'
  <2>1. i \in 0..Len(jobs') /\ jobs'[i].status = "running"
    BY <1>1, <1>2, <1>4
  <2>2. "jobs" \notin torn' => Cardinality(RunsOf(traces', i)) < jobs'[i].attempts
    BY <1>2, <1>4, <1>6
  <2> QED
    BY <1>5, <2>1, <2>2 DEF TurnFits
<1> QED
  BY <1>4, <1>7 DEF QueueInv

LEMMA SettleStep ==
  ASSUME QueueInv, SettleJob
  PROVE  QueueInv' /\ SavedStays
<1> DEFINE i == turn.job
           job == [jobs[i] EXCEPT !.status = turn.outcome, !.result = turn.id,
                                  !.replaySafe = turn.outcome # "completed"]
<1>1. turn.at = "settle"
  BY DEF SettleJob
<1>2. Good(jobs, traces, torn) /\ DOMAIN jobs = 1..Len(jobs) /\ Len(jobs) \in Nat
  BY Present, GoodTypes DEF QueueInv
<1>3. /\ i \in DOMAIN jobs /\ jobs[i].status = "running"
      /\ turn.outcome \in Decided /\ turn.id \in TraceIds
      /\ Closed(traces, turn.id)
  BY <1>1, <1>2 DEF QueueInv, TurnFits, NoJob
<1>4. jobs[i] \in Job
  BY <1>2, <1>3, GoodTypes
<1>5. /\ job \in Job /\ job.status = turn.outcome /\ job.result = turn.id
      /\ job.attempts = jobs[i].attempts
      /\ job.replayOf = jobs[i].replayOf /\ job.replayJob = jobs[i].replayJob
      /\ job.attempts \in Nat
  BY <1>3, <1>4 DEF Job, Statuses, Decided, Terminal
<1>6. WriteJobs([jobs EXCEPT ![i] = job])
  BY DEF SettleJob
<1> HIDE DEF job
<1>7. ChainFits' /\ SavedStays
  <2>1. jobs[i].status \notin Terminal /\ job.status # "dead_letter"
    BY <1>3, <1>5 DEF Terminal, Decided
  <2>2. job.attempts >= jobs[i].attempts
    BY <1>5
  <2> QED
    BY <1>3, <1>5, <1>6, <2>1, <2>2, JobStep
<1>8. TurnFits'
  BY DEF SettleJob, TurnFits, Idle
<1> QED
  BY <1>7, <1>8 DEF QueueInv

LEMMA FailStep ==
  ASSUME QueueInv, FailJob
  PROVE  QueueInv' /\ SavedStays
<1> DEFINE i == turn.job
           job == [jobs[i] EXCEPT !.status = "failed", !.replaySafe = TRUE]
<1>1. turn.at = "decided" /\ turn.job # NoJob
  BY DEF FailJob
<1>2. Good(jobs, traces, torn) /\ DOMAIN jobs = 1..Len(jobs) /\ Len(jobs) \in Nat
  BY Present, GoodTypes DEF QueueInv
<1>3. i \in DOMAIN jobs /\ jobs[i].status = "running"
  BY <1>1, <1>2 DEF QueueInv, TurnFits, NoJob
<1>4. jobs[i] \in Job
  BY <1>2, <1>3, GoodTypes
<1>5. /\ job \in Job /\ job.status = "failed" /\ job.attempts = jobs[i].attempts
      /\ job.replayOf = jobs[i].replayOf /\ job.replayJob = jobs[i].replayJob
      /\ job.attempts \in Nat /\ job.body = jobs[i].body
  BY <1>4 DEF Job, Statuses
<1>6. WriteJobs([jobs EXCEPT ![i] = job])
  BY DEF FailJob
<1> HIDE DEF job
<1>7. ChainFits' /\ SavedStays /\ DOMAIN jobs' = DOMAIN jobs /\ jobs'[i] = job
  <2>1. jobs[i].status \notin Terminal /\ job.status \notin Decided \cup {"dead_letter"}
    BY <1>3, <1>5 DEF Terminal, Decided
  <2>2. job.attempts >= jobs[i].attempts
    BY <1>5
  <2> QED
    BY <1>3, <1>5, <1>6, <2>1, <2>2, JobStep
<1>8. TurnFits'
  <2>1. CASE Exhausted(jobs[i])
    <3>1. turn' = [at |-> "bury", job |-> i]
      BY <2>1 DEF FailJob
    <3>2. job.attempts >= job.body.limit
      BY <1>5, <2>1 DEF Exhausted
    <3> QED
      BY <1>3, <1>5, <1>7, <3>1, <3>2 DEF TurnFits
  <2>2. CASE ~Exhausted(jobs[i])
    BY <2>2 DEF FailJob, TurnFits, Idle
  <2> QED
    BY <2>1, <2>2
<1> QED
  BY <1>7, <1>8 DEF QueueInv

LEMMA BuryStep ==
  ASSUME QueueInv, BuryJob
  PROVE  QueueInv' /\ SavedStays
<1> DEFINE i == turn.job
           job == [jobs[i] EXCEPT !.status = "dead_letter"]
<1>1. turn.at = "bury"
  BY DEF BuryJob
<1>2. Good(jobs, traces, torn)
  BY Present DEF QueueInv
<1>3. /\ i \in DOMAIN jobs /\ jobs[i].status = "failed"
      /\ jobs[i].attempts >= jobs[i].body.limit
  BY <1>1 DEF QueueInv, TurnFits
<1>4. jobs[i] \in Job
  BY <1>2, <1>3, GoodTypes
<1>5. /\ job \in Job /\ job.status = "dead_letter"
      /\ job.attempts = jobs[i].attempts /\ job.body = jobs[i].body
      /\ job.replayOf = jobs[i].replayOf /\ job.replayJob = jobs[i].replayJob
      /\ job.attempts \in Nat
  BY <1>4 DEF Job, Statuses, Terminal
<1>6. WriteJobs([jobs EXCEPT ![i] = job])
  BY DEF BuryJob
<1> HIDE DEF job
<1>7. ChainFits' /\ SavedStays
  <2>1. jobs[i].status \notin Terminal /\ job.status \notin Decided
    BY <1>3, <1>5 DEF Terminal, Decided
  <2>2. job.attempts >= jobs[i].attempts /\ job.attempts >= job.body.limit
    BY <1>3, <1>5
  <2> QED
    BY <1>3, <1>5, <1>6, <2>1, <2>2, JobStep
<1>8. TurnFits'
  BY DEF BuryJob, TurnFits, Idle
<1> QED
  BY <1>7, <1>8 DEF QueueInv

LEMMA LinkStep ==
  ASSUME QueueInv, LinkReplay
  PROVE  QueueInv' /\ SavedStays
<1> DEFINE i == turn.job
           job == [jobs[i] EXCEPT !.replayJob = Len(jobs)]
<1>1. turn.at = "link"
  BY DEF LinkReplay
<1>2. Good(jobs, traces, torn) /\ DOMAIN jobs = 1..Len(jobs) /\ Len(jobs) \in Nat
  BY Present, GoodTypes DEF QueueInv
<1>3. /\ i \in DOMAIN jobs /\ i < Len(jobs) /\ jobs[Len(jobs)].replayOf = i
      /\ turn.auto \in BOOLEAN
  BY <1>1 DEF QueueInv, TurnFits
<1>4. jobs[i] \in Job
  BY <1>2, <1>3, GoodTypes
<1>5. /\ job \in Job /\ job.status = jobs[i].status
      /\ job.attempts = jobs[i].attempts /\ job.attempts \in Nat
      /\ job.replayOf = jobs[i].replayOf /\ job.replayJob = Len(jobs)
      /\ job.result = jobs[i].result /\ job.body = jobs[i].body
  BY <1>2, <1>4 DEF Job
<1>6. WriteJobs([jobs EXCEPT ![i] = job])
  BY DEF LinkReplay
<1> HIDE DEF job
<1>7. ChainFits' /\ SavedStays /\ DOMAIN jobs' = DOMAIN jobs
  <2>1. ("traces" \notin torn /\ job.status \in Decided) => Closed(traces, job.result)
    BY <1>2, <1>3, <1>5 DEF Good, Traced
  <2>2. job.attempts >= jobs[i].attempts
    BY <1>5
  <2>3. job.status = "dead_letter" => job.attempts >= job.body.limit
    BY <1>2, <1>3, <1>5 DEF Good, Queue, Spent
  <2>4. job.replayJob \in DOMAIN jobs \ {i} /\ jobs[job.replayJob].replayOf = i
    BY <1>2, <1>3, <1>5
  <2> QED
    BY <1>3, <1>5, <1>6, <2>1, <2>2, <2>3, <2>4, JobStep
<1>8. TurnFits'
  <2>1. turn' = AutoProcess(turn.auto, Len(jobs)) /\ Len(jobs) \in DOMAIN jobs'
    BY <1>2, <1>3, <1>7 DEF LinkReplay
  <2> QED
    BY <2>1 DEF AutoProcess, TurnFits, Idle
<1> QED
  BY <1>7, <1>8 DEF QueueInv

LEMMA DecisionStep ==
  ASSUME QueueInv, NEW traceId \in ClientIds \cup {NoId}, Decision(traceId)
  PROVE  QueueInv' /\ SavedStays
<1>1. ChainFits' /\ SavedStays
  BY NoWrite DEF QueueInv, Decision
<1>2. turn' = [at |-> "decide", job |-> NoJob, id |-> traceId] /\ Len(jobs) \in Nat
      /\ jobs' = jobs
  BY Present, GoodTypes DEF QueueInv, Decision, WritesNothing
<1>3. TurnFits'
  BY <1>2 DEF TurnFits, NoJob
<1> QED
  BY <1>1, <1>3 DEF QueueInv

LEMMA CreateStep ==
  ASSUME QueueInv, CreateTrace
  PROVE  QueueInv' /\ SavedStays
<1> DEFINE id == TraceIdOf(turn.id)
           trace == [id |-> id, status |-> "running", of |-> turn.job]
<1>1. turn.at = "decide" /\ WriteTraces(Append(traces, trace))
  BY DEF CreateTrace
<1>2. PICK outcome \in {"completed", "blocked", "throws"} :
        turn' = [at |-> "decided", job |-> turn.job, id |-> id, outcome |-> outcome]
  BY DEF CreateTrace
<1>3. ChainFits /\ Good(jobs, traces, torn) /\ Len(traces) \in Nat /\ Len(jobs) \in Nat
  BY Present, GoodTypes DEF QueueInv
<1>4. /\ turn.job \in 0..Len(jobs) /\ turn.id \in ClientIds \cup {NoId}
      /\ turn.job # NoJob =>
           /\ jobs[turn.job].status = "running"
           /\ "jobs" \notin torn =>
                Cardinality(RunsOf(traces, turn.job)) < jobs[turn.job].attempts
  BY <1>1 DEF QueueInv, TurnFits
<1>5. id \in TraceIds
  BY <1>3, <1>4 DEF TraceIdOf, TraceIds
<1> HIDE DEF id
<1>6. trace \in Trace /\ trace.of = turn.job /\ trace.id = id
  BY <1>3, <1>4, <1>5 DEF Trace
<1> HIDE DEF trace
<1>7. /\ Good(jobs, Append(traces, trace), torn) /\ Follows(traces, Append(traces, trace))
      /\ Len(traces) + 1 \in DOMAIN Append(traces, trace)
      /\ Append(traces, trace)[Len(traces) + 1] = trace
  BY <1>3, <1>4, <1>6, AddTrace
<1>8. ChainFits' /\ SavedStays /\ jobs' = jobs /\ traces' = Append(traces, trace)
  BY <1>1, <1>3, <1>7, WriteTracesStep
<1>9. TurnFits'
  BY <1>2, <1>4, <1>5, <1>6, <1>7, <1>8 DEF TurnFits, Decided
<1> QED
  BY <1>8, <1>9 DEF QueueInv

LEMMA FinalizeStep ==
  ASSUME QueueInv, FinalizeTrace
  PROVE  QueueInv' /\ SavedStays
<1> DEFINE p == TraceAt(turn.id)
           trace == [traces[p] EXCEPT !.status = turn.outcome]
           new == [traces EXCEPT ![p] = trace]
<1>1. turn.at = "decided" /\ turn.outcome # "throws" /\ WriteTraces(new)
      /\ turn' = AfterDecision
  BY DEF FinalizeTrace
<1>2. /\ ChainFits /\ Good(jobs, traces, torn) /\ Len(traces) \in Nat
      /\ DOMAIN traces = 1..Len(traces) /\ traces \in Seq(Trace)
  BY Present, GoodTypes DEF QueueInv
<1>3. /\ turn.outcome \in Decided /\ turn.id \in TraceIds
      /\ \E t \in DOMAIN traces : traces[t].id = turn.id
      /\ turn.job \in 0..Len(jobs)
      /\ turn.job # NoJob => jobs[turn.job].status = "running"
  BY <1>1 DEF QueueInv, TurnFits
<1>4. /\ p \in DOMAIN traces /\ traces[p].id = turn.id
      /\ \A s \in 1..(p - 1) : traces[s].id # turn.id
  BY <1>2, <1>3, TraceIsFirst
<1> HIDE DEF p
<1>5. traces[p] \in Trace
  BY <1>2, <1>4, GoodTypes
<1>6. /\ trace \in Trace /\ trace.id = traces[p].id /\ trace.of = traces[p].of
      /\ trace.status = turn.outcome /\ trace.status # "running"
  BY <1>3, <1>5 DEF Trace, Decided
<1>7. /\ new \in Seq(Trace) /\ Len(new) = Len(traces) /\ new[p] = trace
      /\ \A t \in 1..Len(traces) : t # p => new[t] = traces[t]
  <2> HIDE DEF trace
  <2> QED
    BY <1>2, <1>4, <1>6, ExceptSeq
<1>8. DOMAIN new = DOMAIN traces
  OBVIOUS
<1> HIDE DEF new, trace
<1>9. Good(jobs, new, torn) /\ Follows(traces, new)
  <2>1. \A t \in DOMAIN traces :
          /\ new[t].id = traces[t].id /\ new[t].of = traces[t].of
          /\ new[t].status = traces[t].status \/ new[t].status # "running"
    BY <1>2, <1>6, <1>7
  <2> QED
    BY <1>2, <1>7, <1>8, <2>1, CloseTraces
<1>10. ChainFits' /\ SavedStays /\ jobs' = jobs /\ traces' = new
  BY <1>1, <1>2, <1>9, WriteTracesStep
<1>11. Closed(new, turn.id)
  <2>1. \A s \in 1..(p - 1) : new[s].id # turn.id
    BY <1>2, <1>4, <1>7
  <2> QED
    BY <1>4, <1>6, <1>7, <1>8, <2>1 DEF Closed
<1>12. TurnFits'
  <2>1. CASE turn.job = NoJob
    BY <1>1, <2>1 DEF AfterDecision, TurnFits, Idle
  <2>2. CASE turn.job # NoJob
    <3>1. turn' = [turn EXCEPT !.at = "settle"]
      BY <1>1, <2>2 DEF AfterDecision
    <3>2. /\ turn'.at = "settle" /\ turn'.job = turn.job /\ turn'.id = turn.id
          /\ turn'.outcome = turn.outcome
      BY <3>1, <1>1, <1>3
    <3> QED
      BY <1>3, <1>10, <1>11, <2>2, <3>2 DEF TurnFits
  <2> QED
    BY <2>1, <2>2
<1> QED
  BY <1>10, <1>12 DEF QueueInv

LEMMA RepairStep ==
  ASSUME QueueInv, NEW limit \in RepairLimits, RepairStuckTraces(limit)
  PROVE  QueueInv' /\ SavedStays
<1> DEFINE entry(t) == IF t \in Open(traces)
                            /\ Cardinality(Open(traces) \cap 1..t) <= limit
                       THEN [traces[t] EXCEPT !.status = "expired"] ELSE traces[t]
           new == [t \in DOMAIN traces |-> entry(t)]
<1>1. WriteTraces(new) /\ turn = Idle /\ turn' = Idle
  BY DEF RepairStuckTraces, TakesRequests
<1>2. /\ ChainFits /\ Good(jobs, traces, torn) /\ Len(traces) \in Nat
      /\ DOMAIN traces = 1..Len(traces) /\ \A t \in DOMAIN traces : traces[t] \in Trace
  BY Present, GoodTypes DEF QueueInv
<1>3. \A t \in DOMAIN traces :
        /\ entry(t) \in Trace
        /\ entry(t).id = traces[t].id /\ entry(t).of = traces[t].of
        /\ entry(t).status = traces[t].status \/ entry(t).status # "running"
  BY <1>2 DEF Trace
<1> HIDE DEF entry
<1>4. new \in Seq(Trace) /\ DOMAIN new = DOMAIN traces
  BY <1>2, <1>3, SeqDef
<1>5. Good(jobs, new, torn) /\ Follows(traces, new)
  <2>1. \A t \in DOMAIN traces :
          /\ new[t].id = traces[t].id /\ new[t].of = traces[t].of
          /\ new[t].status = traces[t].status \/ new[t].status # "running"
    BY <1>3
  <2> HIDE DEF new
  <2> QED
    BY <1>2, <1>4, <2>1, CloseTraces
<1>6. ChainFits' /\ SavedStays
  <2> HIDE DEF new
  <2> QED
    BY <1>1, <1>2, <1>5, WriteTracesStep
<1>7. TurnFits'
  BY <1>1 DEF TurnFits, Idle
<1> QED
  BY <1>6, <1>7 DEF QueueInv

LEMMA ThrowStep ==
  ASSUME QueueInv, DecisionThrows
  PROVE  QueueInv' /\ SavedStays
<1>1. ChainFits' /\ SavedStays
  BY NoWrite DEF QueueInv, DecisionThrows
<1>2. TurnFits'
  BY DEF DecisionThrows, TurnFits, Idle
<1> QED
  BY <1>1, <1>2 DEF QueueInv

-----------------------------------------------------------------------------
LEMMA QueueInit == Init => QueueInv
<1> SUFFICES ASSUME Init PROVE QueueInv
  OBVIOUS
<1>1. TurnFits
  BY DEF Init, TurnFits, Idle
<1>2. <<>> \in Seq(Job) /\ <<>> \in Seq(Trace) /\ <<>> \in Seq(Images)
      /\ DOMAIN <<>> = {}
  BY EmptySeq
<1>3. Good(<<>>, <<>>, {})
  BY <1>2 DEF Good, Queue, Traced, Counted, Spent, Linked
<1>4. ChainFits
  BY <1>2, <1>3, GrowsSame DEF Init, ChainFits, Images, Image, Good
<1> QED
  BY <1>1, <1>4 DEF QueueInv

LEMMA QueueStep == QueueInv /\ [Next]_vars => QueueInv' /\ SavedStays
<1> SUFFICES ASSUME QueueInv, [Next]_vars PROVE QueueInv' /\ SavedStays
  OBVIOUS
<1>1. ASSUME Upsert PROVE QueueInv' /\ SavedStays
  <2>1. TurnFits'
    BY <1>1 DEF Upsert, QueueInv, TurnFits, Idle
  <2> QED
    BY <1>1, <2>1, SettleWriteStep DEF QueueInv
<1>2. ASSUME Crash PROVE QueueInv' /\ SavedStays
  <2>1. TurnFits'
    BY <1>2 DEF Crash, TurnFits, Idle
  <2> QED
    BY <1>2, <2>1, CrashStep DEF QueueInv
<1>3. ASSUME UNCHANGED vars PROVE QueueInv' /\ SavedStays
  <2>1. TurnFits'
    BY <1>3 DEF vars, QueueInv, TurnFits
  <2> QED
    BY <1>3, <2>1, NoWrite DEF vars, QueueInv, WritesNothing
<1> QED
  BY <1>1, <1>2, <1>3, EnqueueStep, StartStep, DecisionStep, CreateStep,
     FinalizeStep, ThrowStep, SettleStep, FailStep, BuryStep, ReplayStep,
     LinkStep, RepairStep DEF Next

THEOREM QueueAlways == Spec => []QueueInv
BY QueueInit, QueueStep, PTL DEF Spec

(* The documents are well typed and belong together, and the last image to  *)
(* be saved is what the process has in its cache.                           *)
THEOREM TypeCorrect == Spec => []TypeOK
<1>1. QueueInv => TypeOK
  <2> SUFFICES ASSUME QueueInv PROVE TypeOK
    OBVIOUS
  <2>1. Good(jobs, traces, torn) /\ ChainFits
    BY Present DEF QueueInv
  <2>2. /\ Image(jobs, traces) \in Images
        /\ \A i \in DOMAIN jobs :
             {jobs[i].replayOf, jobs[i].replayJob} \subseteq 0..Len(jobs)
        /\ "jobs" \notin torn => \A t \in DOMAIN traces : traces[t].of \in 0..Len(jobs)
    BY <2>1 DEF Good, Queue, Counted, Images, Image
  <2>3. turn.at \in {"idle", "process", "decide", "decided", "settle", "bury", "link"}
    BY DEF QueueInv, TurnFits
  <2>4. /\ saved \in Images /\ torn \subseteq Docs
        /\ unsaved # <<>> => unsaved[Len(unsaved)].image = Image(jobs, traces)
        /\ unsaved = <<>> => settled = Image(jobs, traces)
    BY <2>1 DEF ChainFits
  <2> QED
    BY <2>2, <2>3, <2>4 DEF TypeOK, Last
<1> QED
  BY <1>1, QueueAlways, PTL

(* A job that shows a decision's outcome names a trace that is closed,      *)
(* whichever writes a crash has cut off and whichever of the queue's were   *)
(* rejected.                                                                *)
THEOREM OutcomesAreTraced == Spec => []ResultsAreTraced
<1>1. QueueInv => ResultsAreTraced
  <2> SUFFICES ASSUME QueueInv, "traces" \notin torn,
                      NEW i \in DOMAIN jobs, jobs[i].status \in Decided
               PROVE  /\ TraceAt(jobs[i].result) # 0
                      /\ TraceAt(jobs[i].result) \notin Open(traces)
    BY DEF ResultsAreTraced
  <2>1. Good(jobs, traces, torn) /\ traces \in Seq(Trace)
        /\ DOMAIN traces = 1..Len(traces) /\ Len(traces) \in Nat
    BY Present, GoodTypes DEF QueueInv
  <2>2. PICK t \in DOMAIN traces :
          /\ traces[t].id = jobs[i].result /\ traces[t].status # "running"
          /\ \A s \in 1..(t - 1) : traces[s].id # jobs[i].result
    BY <2>1 DEF Good, Traced, Closed
  <2> DEFINE p == TraceAt(jobs[i].result)
  <2>3. /\ p \in DOMAIN traces /\ traces[p].id = jobs[i].result
        /\ \A s \in 1..(p - 1) : traces[s].id # jobs[i].result
    BY <2>1, <2>2, TraceIsFirst
  <2> HIDE DEF p
  <2>4. p = t
    BY <2>1, <2>2, <2>3
  <2> QED
    BY <2>1, <2>2, <2>4 DEF p, Open
<1> QED
  BY <1>1, QueueAlways, PTL

(* No job has more traces of its runs than attempts, after any crash and    *)
(* whichever writes of the traces were rejected.                            *)
THEOREM EveryRunCounts == Spec => []RunsAreCounted
<1>1. QueueInv => RunsAreCounted
  BY Present DEF QueueInv, Good, Counted, RunsOf, RunsAreCounted
<1> QED
  BY <1>1, QueueAlways, PTL

(* A dead letter has used all its attempts. *)
THEOREM DeadAreSpent == Spec => []DeadLettersAreExhausted
<1>1. QueueInv => DeadLettersAreExhausted
  BY Present DEF QueueInv, Good, Queue, Spent, DeadLettersAreExhausted
<1> QED
  BY <1>1, QueueAlways, PTL

(* The replay a job names exists and names the job, after any crash. *)
THEOREM LinksResolve == Spec => []ReplayLinksResolve
<1>1. QueueInv => ReplayLinksResolve
  BY Present DEF QueueInv, Good, Queue, Linked, ReplayLinksResolve
<1> QED
  BY <1>1, QueueAlways, PTL

(* A job that was saved as completed or dead is found so ever after, with   *)
(* the attempts it had, by the process and by every restart.                *)
THEOREM FinishedStays == Spec => FinishedStaysFinished
<1>1. SavedStays =>
        \A i \in DOMAIN saved.jobs : saved.jobs[i].status \in Terminal =>
          \A after \in {jobs', saved'.jobs} :
            i \in DOMAIN after /\ after[i].status = saved.jobs[i].status
              /\ after[i].attempts = saved.jobs[i].attempts
  BY DEF SavedStays, Keeps
<1> QED
  BY <1>1, QueueInit, QueueStep, PTL DEF Spec, FinishedStaysFinished
=============================================================================
