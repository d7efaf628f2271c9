# M.T. Thorne internal AI server: verification project

TLA+ models, TLC checks and TLAPS proofs for the sidecar server of this
repository: a single Node.js process (`src/server.js`) that decides, queues and
traces internal AI requests, answers AVA's public chat, guards paid provider
calls with a cost gate, and keeps everything in JSON collections, in files or
in PostgreSQL behind a cache.

## The system

One event loop serves every request. A handler runs in synchronous turns
between its awaits; almost every handler has one turn and reads a collection,
changes it and writes it whole. What makes the system hard is what happens
*between* turns: the promise chain that saves to PostgreSQL, the pool's errors,
the database check that reconnects, provider and ArchE calls in flight,
midnight, owner settings, and a process that may die after any write. Beside
the server, the migration and the knowledge seeds also run as processes of
their own (`scripts/*.mjs`), with a cache of their own over the same rows.

| part | state | operations | interacts with |
|---|---|---|---|
| document store (`utils/store.js`, `utils/postgresStore.js`, `servers/storage.js`) | `cache`, `writeChain`, `connected`, rows, JSON files | readJson, writeJson, startup, seeding, flush, ping | every other part reads and writes through it |
| migration (`utils/postgresStore.js`, `servers/storage.js`, `scripts/migrate-json-to-postgres.mjs`) | rows, cache | bootstrap at startup, `POST /storage/migrate-json`, `npm run storage:migrate` | document store, past its chain of writes |
| provider and cost gate (`servers/providerGate.js`) | `cost_ledger.json`, two logs | estimate, approvalCheck, dispatch, set limit, emergency stop | AVA chat, provider network |
| work queue (`servers/queue.js`) | `work_queue.json` | enqueue, process, replay | orchestrator, traces |
| trace log (`servers/trace.js`) | `trace_log.json` | create, append, finalize, repair | orchestrator, owner routes |
| orchestrator (`orchestrator.js`) | none | decide | contracts, router, lanes, contamination, boundary, quality, traces, history |
| AVA chat (`servers/ava.js`) | rate buckets | avaChat: draft, review, repair, session update | cost gate, ArchE bridge, session memory |
| AVA session memory (`servers/avaSessionMemory.js`) | `ava_sessions.json` | get, update, expire | AVA chat |
| AVA answer quality, diagnostic, planner | none | scoring, fact extraction, next question | AVA chat |
| knowledge, memory, sources (`servers/knowledge.js`, `memory.js`, `sourceManifest.js`) | five shared collections, the registry among them | seed by route, seed by script (`scripts/seed-*-knowledge.mjs`), add memory, register source, status | owner routes, document store |
| transfers, bridge outbox, history, errors | one collection each | append, update | owner routes |
| contracts, router, lanes, contamination, public boundary, release gate, quality | none | pure functions of a request | orchestrator |
| reports (readiness, storage, queue adapter, R2) | none | read-only | owner routes |

What makes each part correct: the store must never show or save an older
document after a newer one, and must keep its memory and its rows in agreement;
the gate must count every charge once on the right day, keep to the cap and
obey the stop; the queue must show only outcomes that were decided and give up
only what spent its attempts; traces must close; AVA must remember what a
visitor said, in chats that overlap too, and its diagnosis must move on from
message to message; a migration must not lose what handlers write beside it; the
knowledge registry must not name a seed whose documents are not there; the pure
functions must be consistent (what a score passes, the failure list passes).

`PROJECT.json` lists the components with what is modelled of each, the hazards
with their lines and the properties aimed at them, and the source lines of every
definition.

## Modules

* **`WriteBehind`**: the abstract promise of a write-behind document store.
  An update is visible at once; what is persisted only moves forward and never
  past what is visible; only a crash takes a visible update back, and never a
  persisted one.
* **`Store`**: the store with `AI_STORAGE_DRIVER=postgres`. A document is the
  set of updates folded into it; a handler is one `Update(c, e)`: readJson, fold
  `e` in, writeJson, answer. `cache`, `writeChain`, `connected` are the fields
  of `state` in postgresStore.js; `headApplied` says that the database ran the
  oldest upsert and its answer is still due, so that an upsert may fail before
  or after it took effect. `Start` (with the outcome of the connection),
  `SeedDefault` and `Listen` are the startup, `BeginCheck` and `Ping` the route
  `/storage/database-check`, `Settle...` the `.catch/.finally` of the chain. At
  its end the refinement mapping to `WriteBehind`: the view is what a read
  returns, or will return once the process serves again; the durable state is
  the rows. `MCStore` is its instance for TLC, `StoreProofs` its proofs.
* **`StoreMigration`**: `migrateJsonDirectoryToPostgres` on top of `Store`, which
  it EXTENDS, one step per await: `ReadFile`, `CheckRow` (the SELECT),
  `InsertRow`, `InsertAnswered` (where the cache is set), `QueryFails`. It runs
  before the server listens (`StartBootstrapping`), by route, or as the command
  line's process, which has no part in the server's cache. Two history variables:
  `outrun` marks the collections whose cache and row may differ because a handler,
  a failure or another process came between two of those steps, `imported` that
  the bootstrap met no failure. A bootstrap that lost its connection leaves no
  default to seed (`SeedingLeft`). `MCStoreMigration` is its instance; `StoreProofs`,
  which extends it, has its proofs too.
* **`WriteChain`**: what `Store` is to one document, for the modules built on it:
  the `row` and the `chain` of upserts behind which a handler's write is answered,
  each of which is stored or rejected and given up; with the json_file driver the
  row is the file and follows at once. The connection is left to `Store`: with
  `AI_POSTGRES_REQUIRE_CONNECTION` a process without one refuses every request
  (readJson throws, store.js:75), so no document changes meanwhile. `CostGate` and
  `AvaGateway` extend it; what they chain is the document with the history that
  belongs to it, so that a restart finds both as they were.
* **`CostGate`**: the ledger and the gate. `Dispatch` is the turn up to the
  await, `Answer`, `NetworkFails` and `AnswerUnrecorded` the turn after it.
  loadCostState is `FirstLoad` (on a new day it saves the reset and returns it
  before the environment is applied) and `Reload` (a later load of the same
  turn). Estimates are integers: the caller's token counts are not checked. A
  `Crash` starts on the ledger that was stored, without the charges, limits and
  stops that were still on their way or rejected. A call keeps, besides the code's own
  variables, the limit it was admitted under and whether it was ever in flight with
  another: both are only read by properties. `MCCostGate` has the estimates and the
  symmetry.
* **`WorkQueue`**: queue, decisions and traces. A request is one turn but makes
  several writes of two documents, and each write is an action; with
  `WriteBehind` they reach the database one by one in order (what `Store`
  establishes), each as an upsert of its document's row, or are rejected. A crash
  leaves the two rows as they were stored: after some write, maybe in the middle of
  a turn, or, where an upsert was given up, one older than the other. Two history
  variables tell the cases apart: `settled` is what the rows were without
  rejections (`Short` names the documents that differ from it), `torn` the
  documents that a restart has found like that. `decide` is `CreateTrace`, an
  outcome chosen among completed, blocked and a throw, and `FinalizeTrace`.
* **`AvaQuality`**: `evaluateAvaAnswer` as operators over which of the scorer's
  word lists an answer hits, with the selection of candidates as its state
  (`SelectionSpec`).
* **`AvaChat`**: chats in flight (draft, review, one repair) over the session
  memory. A candidate's quality is one bit, "verified but for the review"
  (`AvaQuality` has the scorer). The review is the draft's: the repaired text
  (ava.js:441-460) and the deterministic candidate (line 365) are scored with it
  and never sent to ArchE themselves. `Stored` is what mergeFacts does to a value:
  arrays and strings are kept, the equipment object becomes a string in which
  no role is found.
* **`AvaGateway`**: what one visitor's messages meet before the first await, one
  after the other: the rate bucket of the address (`Counted`, `Allowed`), the plan
  (`Context`, `Branch`), the facts, and the diagnosis (`Stage`, `Diagnosis`), with
  the session each answer goes into. A text is the set of the planner's word lists
  it hits. The session is behind `WriteChain`: `Restart` finds the one that was
  stored. `served`, `talk` and `last` are history, the last two of the session, so
  that a restart takes them back with it. `MCAvaGateway` has the messages.
* **`Knowledge`**: the seeds. A seeding rewrites five documents in one turn,
  the manifest once per source and the registry last (`SeedWrites`); server and
  script each have a cache, a connection and a chain of writes over the same rows.
  `Put`, `PutAll`, `MapOf` and `MergeBy` are the code's merges, entry by entry. `kept` is
  history: whether a document is short of a rejected write, and whether the
  process that still caches it lives. `Overlap` says whether the script may run
  while the server does. `MCKnowledge` has the seed files, one of them foreign.
* **`Governance`**: what decide and releaseCheck compute: contract, router,
  contamination check, the two runs of the lanes, public boundary, score,
  decision and gate, as operators over which word lists a request hits (`words`),
  what it asks for besides (`asks`) and the sources it names. Both handlers are
  one turn, so the rooms and the manifest are fixed in a behaviour and chosen at
  its start; its steps are the routes: a decision, a release check that decides
  itself, and one that is handed a decision: an earlier one, or whatever the
  body says is one (`Handed`), since the gate takes `decision_result` of the body as
  it is (releaseGate.js:5). `judged` is what the gate judged. `MCGovernance` holds the
  requests and results checked, `GovernanceProofs` the proofs.

Operators commented "Mutant:" are faults: each stands for a plausible bug in the
definition below it, and the property it belongs to fails with it. The type
invariants of `Governance`, `AvaQuality`, `AvaGateway` and `StoreMigration` are
there for the reader and are in no run.

## Runs

| run | what it asks |
|---|---|
| `store_required` | With the connection required: agreement of cache and rows, order of the pipeline, reads and rows that never go back, the refinement of `WriteBehind`, and that writes and checks end. |
| `store_migration` | With a migration beside the traffic, where the server may fall back to files: cache and rows agree but where the migration was outrun, a bootstrap leaves every file in its row before a default can take its place, and a migration told not to overwrite takes nothing out of a row but where a handler outran it. |
| `cost_gate` | With the ledger behind the chain of upserts, rejected ones and crashes included, and with negative estimates: every version of the ledger, in the process, on the way and in the row, is the sum of its day's charges; a stored charge stays; no call starts against the last stop the process knows of; a call that overlaps no other keeps to the cap. |
| `cost_cap` (violated) | The cap is not kept by calls that overlap: each is compared with spending that does not contain the other. |
| `work_queue` | Outcomes are traced, runs counted, dead letters exhausted, replay links resolve and finished jobs stay finished, with a crash between any two writes and rejected upserts; the first two but where the document with the proof came back short of a rejected write. |
| `governance` | Over every registry of one room and one source: ok and handoff agree, an ok decision keeps to its room and the room's AI, risky texts go to the round table, objections never raise a score; the gate opens only with the owner's approval and for a result that is ok, and of decide's own only for a clean one. |
| `ava_quality` | Over all combinations of word lists: the best score is verified when any candidate is, and no score passes unreviewed. |
| `ava_chat` | Overlapping chats, expiry and the session cap: no turn or plain fact lost, values follow the messages where chats do not overlap, every chat ends. |
| `ava_equipment` (violated) | Equipment a visitor named is not known to the chat that follows. |
| `ava_gateway` | At most twice the rate in any minute and no refusal without the limit let through; the diagnosis of a device never goes back; what the visitor wrote in the last messages still counts; after a restart, both of what the stored session was told. |
| `knowledge` | One process at a time, with rejected writes, crashes and restarts: what the registry row names is in the rows of the documents, and no entry ever leaves a row. |
| `knowledge_served` (violated) | "Expected ArchĒ result: 46 knowledge documents" of a status route: a server that was running when the script seeded counts none of them, because its cache was filled before. |

Further divergences met while modelling, without a run of their own. Five of them
are stated in the modules as properties the code does not keep:

* `Store!LocalIsRecoveryCopy`: "Local JSON stays as an atomic recovery copy unless
  disabled" (docs/V1_5_0_POSTGRES_SHARED_AI_STORAGE.md:59). A write is lost, the process
  restarts on the older row, and the next write of the collection replaces the
  file (store.js:84): an acknowledged update has vanished from both.
* `StoreMigration!NeverOverwrites`: "The migration does not overwrite existing
  database collections" (the same document, line 36). A row that appears between
  the SELECT and the INSERT is overwritten (postgresStore.js:250-268).
* `CostGate!ConfiguredLimitGoverns`: the first load of a day saves the reset and
  returns it before the environment's limit is applied (providerGate.js:37), so the
  first call of the day is compared with the stored limit.
* `Governance!ReviewedReleasesPass`: the gate asks for 90 (releaseGate.js:11) and a
  decision of the round table scores 88.2 at best.
* `AvaGateway!DiagnosisAdvances`: the stages are to advance (docs/AVA_V1_4_0_OPERATIONAL_UPGRADE.md:12),
  but the signal path's diagnosis asks for source, receiver and display again with
  every message, since equipment is lost (avaSessionMemory.js:38).

The others:

* Store: the connection that V1_5_0 (line 54) requires to prevent silent fallback
  does not tell of an upsert that was rejected once the next ping has set
  `connected` again (postgresStore.js:194).
* Knowledge: a seeding answers ok though its writes were rejected (knowledge.js:125);
  with `overwrite: false` it replaces the registry's version all the same (line
  115); entries that callers gave one `memory_id` (memory.js:43) collapse into one
  at the next seeding (knowledge.js:13); the verification looks at sources and
  documents only, so a seed's memory entries may be another AI's (line 164); a
  server whose cache predates a script's seeding overwrites it, with its next
  write of the same document, by what it had.
* Traces and decisions: a job that carries its client's trace_id and is processed
  twice leaves its second trace running (trace.js:66); a decision that throws leaves
  its trace running (orchestrator.js:94-140).
* Governance: sources named in `sources` instead of `source_ids` are not looked up
  in the manifest (sourceLock.js:5), which ARCHITECTURE.md:30 says they must match; a
  text that only the source lock or the verifier objects to has no `blocks`, so
  bridge.js:6 calls its payload public_safe.
* Gate: with `AI_PROVIDER_EMERGENCY_STOP=false` in the environment the owner's stop is
  overridden on every load (providerGate.js:55), so that `CostGate!StopHonoured`, which
  the run checks with the stop left to the ledger, fails there with the first call;
  the caller's token counts decide the estimate (lines 162-164), and negative ones
  pass the limit and lower the day's spending, below zero too; an acknowledged charge,
  limit or stop is gone after a crash if its upsert was still chained or rejected
  (postgresStore.js:144-166), and calls start again; a low-risk public call under the
  automatic limit needs no approval (lines 194-206), README.md:179 asks for one.
* Queue: where an upsert was rejected and the process dies before the same document is
  written again, a restart finds a completed job without its closed trace (that of
  the traces was rejected) or a trace that no attempt counts (that of the queue was).
* Release gate: `decision_result` is taken from the request body as it is (releaseGate.js:5,
  server.js:94), so a result that no decision made opens the gate with the owner's
  approval; a score that is no number is not below 90 and passes.
* AVA: the text that goes out may be one that ArchE never saw, repaired or
  deterministic (ava.js:441-460, 365), with the draft's review as its own; what was
  answered since the last stored session is forgotten by a crash, and asked again;
  an answer can be rejected by its score alone, and the repair is then told a
  failure it does not have (ava.js:408-410); the control platform and the connected
  platform are asked for and never read from a text (avaDiagnostic.js:107); a rate
  bucket is never dropped (ava.js:18).
* Transfers and outbox: a transfer is approved or rejected whatever its status
  (transfers.js:43); a repeated push of an item delivers it again, and a push
  while the connector is off makes a new item even for a given bridge_id
  (archeConnector.js:121).

## Bounds

* Store: two collections, one with a default and one without, and three updates:
  enough for a write that is lost, one made while disconnected and one after the
  reconnect, on the same collection or interleaved with the other. The chain is
  bounded by the updates, each used once. Crashes, restarts, errors and checks
  are not bounded.
* Store migration: the same collections, two updates, two migrations, and a command
  line whose directory is empty or holds an older document: enough for one
  migration to be outrun and another to follow it, in one process or two.
* Cost gate: two calls, estimates -1 and 2, the owner's limit 2 beside the default of
  zero: a limit one call fits in and two do not, unless a negative charge came
  before; one midnight, so that a call can begin on one day and be charged on
  the next; three unsaved upserts, of which a charge on a new day takes two. Where
  the violation is shown: estimates 1 and 2 and a ledger in a file. The settings are
  stored ones: `Env... = NoEnv`. That the properties hold of a ledger in a file, where
  `ChargesStay` is about every acknowledged charge, is left to the theorems.
* Work queue: two jobs, two traces, `max_attempts` 2, two runs of a job, one client
  id; a request is taken with at most one unsaved write before it and makes up to
  six more; rejected upserts leave one of the two documents short at a time
  (`MaxShort`). A job can be run after it failed, replayed and buried, and a crash
  falls at every point.
* Governance: one room and one source in every state, two AIs, and about two
  hundred requests: every word list and wish alone under the tiers and speeds the
  code treats differently, two pairs of lists, and every way to name the source
  beside a preferred AI. What the gate is handed are results of score 89 and 90, ok and not,
  private and not, where its threshold lies. A decision looks at one source at a time and at one
  room, so more of them add no case. `CHECK_DEADLOCK` is off: a request that was
  answered has no further step.
* AvaQuality: exhaustive but for the number of questions, of which 0, 1, 2 and 4
  stand for the three cases the scorer has.
* AvaChat: two session keys, two chats at once, three messages, one fact with
  two values, three turns and one session kept: every overlap of two chats, a
  turn cut in the middle of an exchange, and a session dropped under a chat.
* AvaGateway: a limit of one request in two ticks, four attempts, so that a burst
  falls on either side of a bucket's end and a refused visitor comes again; eight
  messages that tell each kind of fact and hit each word list, an answer that hits
  two, and MAX_TURNS 4: two exchanges are remembered and the third drops the first;
  one upsert on its way, so that a restart can find the session a message older.
* Knowledge: two AIs, three seeds that pass the verification and one that does not,
  two notes (one with an id of the caller's), one registered source, three turns
  and one document at a time short of a rejected write: two seedings of one AI in
  either order with a note between them, and a crash after any of their writes.
  With the script beside the server two turns are enough.

## Fairness

`Store!FairSpec`: the pool answers or rejects every query, and a promise runs
once its predecessor settled. The code sets no query timeout; a server that
neither answers nor closes the connection is outside the assumption. Nothing
makes requests, errors, crashes or restarts happen. `AvaChat!FairSpec`: every
call a chat awaits ends, since `fetch` gives up on a server that does not
answer and the code repeats no call. Crashes of the process are not part of
`AvaChat`: they end its chats and leave its document to `Store`.

## Proofs

A component's proofs are in a module of their own: `StoreProofs`, `CostGateProofs`,
`WorkQueueProofs`, `GovernanceProofs`, `KnowledgeProofs`, `AvaGatewayProofs` and
`AvaChatProofs`, which has those of `AvaQuality` as well. `SumTheorems` has what they
need to know of the sums the models take over finite sets. Each theorem holds for every value of the constants that the
module's named assumption allows; those only give the constants their types, but
for the hypotheses named below.

**Store.** For every set of collections and updates:

* `TypeCorrect`: `Spec => [](TypeOK /\ HeadIsPending)`. `HeadIsPending` (a write
  is marked applied only while there is one) is what makes the Head of the chain
  defined in `Settle`.
* `Agreement`: `Spec => []QuiescentAgreement`. Quiescent agreement is not
  inductive: while writes are pending nothing relates cache and row. The
  inductive invariant `AgreementInv` adds that the latest pending write of a
  collection is the cached document, that an applied head is what the row holds,
  and that while the process boots the cache mirrors the rows. Each action
  preserves it by what it does to the chain: `Update` appends the new cached
  document, `ApplyHead` copies the head to the row, `Settle` takes the head
  away, and either another write of that collection is left or the row already
  holds the cached document, unless the collection is now `failed`.
* Under `RequireConnection`: `PipelineIsOrdered`, `ReadsOnlyGrow` and
  `StoreImplements`, the refinement of `WriteBehind`. Where the connection is not
  required a process may serve from files while rows, cache and files differ, and
  TLC finds each of the three violated. The inductive invariant is `RequiredInv`: `AgreementInv`, the order of
  row, chained writes and cache of each collection, that what is persisted was
  acknowledged or is a default, that a file is never ahead of the cache, and that
  while the process boots every default not yet seeded is still missing. The
  refinement needs a case for every action: `ApplyHead` persists, `Update` makes
  visible, `Crash` takes back what was not persisted, and everything else, the
  startup included (`BootShowsNothing`), is a stutter.
* `RowsOnlyGrow`, under `RequireConnection \/ LocalBackup`. The second case has an
  invariant of its own, `BackedInv`: the file has all that row and cache have, so
  that a process which serves without the connection goes on from there. With
  neither, a server that came up without the database and then reconnected
  overwrites the row by what little it has, as TLC shows.

**Migrations.** For every set of collections, updates and legacy files, and any
number of migrations: `MigrationTypeCorrect`, `MigrationAgrees`, `MigrationOnlyAdds`
and `FilesAreImported`, of `MigrationSpec`. Each has an invariant that says what holds between two awaits
of a migration, collection by collection, so that one which was outrun says nothing
of the others:

* `MigratedInv` splits a collection's part of `AgreementInv` off as `Fits`, which each
  step of the store preserves by itself (`FitsStep`). It holds of every collection
  but the one whose row was just inserted and not answered for: there the row is
  the file's document and nothing is pending (`Inserted`), and the answer, which
  sets the cache, restores `Fits`.
* `ClaimInv` is about the SELECT that found no row. As long as a collection has
  none, its file has what cache and chain have (`Sourced`), since whatever
  reaches the cache is saved to the file first; so what the migration is about
  to insert has all that a row written in the meantime can have (`Claimed`).
  Without the files being kept there is nothing to migrate from.
* `ImportInv` is about the boot: a file whose turn is still to come has no row but
  the one just inserted (`Coming`), and one whose turn is over is in row and cache
  (`Arrived`).

**Cost gate.** For any number of calls, days, estimates (negative ones included) and
limits, in any environment, with the ledger in a file or behind a chain of upserts:

* `TypeCorrect`: `[]TypeOK`, by which no version of the ledger is of a day past the
  clock's or holds a charge of a call that was not answered. Every step but a
  crash puts versions in good order behind the chain (`StepShape`), and a crash
  goes back to one (`CrashShape`).
* `StopIsHonoured`, unless the environment sets the stop to false (which
  loadCostState applies on every load, providerGate.js:55, so that the owner's
  stop is then not one): in every version the owner's last word is in the
  ledger (`StopIsStored`), and every load preserves it. Of a restart the theorem
  says this of the ledger it found; a stop that was lost with its upsert is
  outside it.
* `AloneKeepsTheCap`: a call marked alone is the only one in flight and fits, on
  top of what the ledger counts, under the limit it was admitted with as long as
  the day lasts; once the day is over nothing else has been charged (`AloneFits`).
* `EveryChargeCounts`: in every version the charges of its day add up to what it
  counts, also below zero (`ChargesStep`); a version that a crash takes the
  process back to is one of them.
* `StoredChargesStay`: the charges in the row, in each chained version and in the
  process grow in this order, so an upsert that is stored after a rejected one has
  all that the row had.

**Work queue.** For any number of jobs, traces, attempts and clients, stored in a
file or behind a chain of writes. All six theorems follow from one inductive
invariant, `QueueInv`. Since a crash goes back to what was stored, what the properties
say of the present documents must hold of every image on its way:
`ChainFits` says that the image as of the last settled write and all unsaved ones are
in good order (`Good`: typed, dead letters exhausted, links resolved; outcomes
traced unless the traces were torn, runs counted unless the queue was), that each has
what was finished before it, and that the last one is the cache. The rows are
related to the settled image document by document: the queue's row is in order by
itself and no later than it, and its outcomes are traced in the settled log. So a
crash that finds one document short keeps what does not rest on that document,
and marks it torn. `TurnFits` says what a request between two of its writes relies
on, as that the job it runs is running and the trace it will finalize exists.
`TypeCorrect`, `OutcomesAreTraced`, `EveryRunCounts`, `DeadAreSpent`,
`LinksResolve` and `FinishedStays` (an action property) are its corollaries.

**Governance.** For every registry of rooms and sources and every set of requests:

* `HandoffAgrees`: `Spec => []HandoffIsTheDecision`. orchestrator.js computes `ok`
  from five checks and `handoff` from three of them; they agree because
  `ReviewCoversPreflight` (the review's verifier reads a text that contains the
  one the preflight read) and `NoScoreFails` (the criteria add up to 68.9 at
  least).
* `OkIsInTheRoom` and `GateIsClean`: `[]OkStaysInTheRoom`, `[]ReleasesAreClean`. The
  gate may be handed any result: of one that decide did not make the second
  states the owner's approval and `ok` alone, of decide's own that the text is clean,
  handed or not. All three follow from the invariant `Remembered`: the decision
  there is is decide's answer to the request there is, and the gate's answer is
  about what it judged.
* `RiskGoesToReview`, from the same invariant, and `ObjectionsNeverPay`, from the
  lemma `CleanScoresMore` on two requests that differ in their objections.

**AVA answer quality.** `SelectionIsSafe` and `ReviewDecides`, for answers with any
number of questions. The lemma `HighIsFaultless` carries both: a criterion that
fails costs the sum more than all others can make up for, so a score of 85 has no
failure behind it, and without a completed review no answer reaches 85. That is what
lets avaChat compare candidates by their score alone.

**AVA chat.** For any number of keys, chats at once, facts and messages:
`FactsAreFollowed` and `FactsAreRemembered`, from the inductive invariant `ChatInv`. It
adds to the properties what a chat carries across its awaits: that its merged facts
contain what its message says (`SaysInv`), and that chats of one session are alone in it or marked overlapped, so
that what a lone chat read of a fact is what is still stated there (`AloneInv`).

`TypeCorrect` and `TurnsAreKept` need `KeptInv` as well, which is inductive beside
`ChatInv`: the live sessions are listed once each, at most `MAX_SESSIONS` of them,
and the rest are empty (`UsedInv`); every session's turns are at most `MAX_TURNS`, of
messages that were sent, and follow what finished there (`Kept`). That the end of
a chat preserves it (`KeptFinished`) goes through two facts about the visitor's
turns, which `Follow` counts from the end: one more turn puts each earlier one
one further from it (`FollowLonger`), and dropping the oldest turns leaves the
distance of the others as it was (`FollowRecent`). That the chat writes the
turns of the session as it is after its awaits, and not those it read before
them, is what the first of the two rests on.

**AVA gateway.**

* `RateIsBounded`, for any limit, window and number of attempts. `RateInv` relates
  the bucket to the history of what was let through: a running bucket counts what
  was let through in it up to the limit, and at most the limit was let through
  before it in the same window.
* `DeviceDiagnosisMovesOn`, for any messages: a diagnosis is a function of its
  branch and facts, and a session keeps every fact but the equipment
  (`DiagnosisInv`); the device branches do not look at the equipment. Nothing is
  assumed of how many turns are kept.
* `TalkIsRemembered`: of n later messages at most 2n + 1 turns follow a message's
  own (`TalkInv`), so that it is still within the last `MAX_TURNS`.

The last two hold across restarts because their invariants are of every version of
the session, in the process, on the way and in the row (`DiagnosisFits`,
`VersionTalks`): a version belongs with the messages it was told, and a restart
goes back to one as a whole. What the visitor was told after it is lost, with the
postgres driver, and outside the theorems.

**Knowledge.** For any seeds, notes, sources and number of turns:

* `TypeCorrect`: `[]TypeOK`, also with the script beside the server (`Overlap`). What
  a process finds in the rows may be another's, but every version of a document,
  in a row, in a cache or on its way (`AllFine`), is in good order by itself
  (`Fine`): of two entries with one id the later is not of an earlier turn, only
  the memory layers have such, a piece of knowledge is under an id that a
  verified seed has for its AI, and an entry of the registry is of a verified
  seed and of its AI (`Proper`).
* `RegistryHolds`: `[]RegistryIsBacked`, and `EntriesAreKept`: `EntriesStay`, both under
  `~Overlap`, since each process would go on from rows that the other has left
  behind: with `Overlap` TLC finds either violated. The second also assumes
  `IdsAreApart`: no two AIs' verified seeds have a knowledge document of one id, as
  those in `seeds/` have none; mergeBy looks at the id alone.
* `AloneIsServed`: `[]SeededIsServed`, under the same hypotheses and `SeedsAreSets`
  (no verified seed lists a document twice, as none of those in `seeds/` does). The
  run `knowledge_served` refutes this property with the script beside the server;
  the theorem says that nothing else breaks it. Once everything is written the
  cache is the row (`Latest`), which has a document for each of the seed's, of the
  seed's AI, and distinct ids make them distinct (`CountedIsEnough`).

The merges are folds, and what one keeps is the lemma `PutAllMerged`: what is in the
result was there or came, every id that was there or came is in it, and an entry
gives way only to a later one of its id. It is shown of the first i entries for
each i, from the table that defines the fold, by a smallest counterexample. From it
follow what a merge is to a document (`PutIn`: it goes on from it, in good order,
and has all that came) and what a handler's writes are together (`Batch`): they go on
from the cache, each write of a document from the one before it, and the registry's
is the last, with what is new in it backed by what is cached by then. That the
seedings write so is `SeedBatch`.

`RegistryIsBacked` is not inductive: it says nothing of the versions that are to
come. `Sound` adds how row, chained writes and cache of a lone process follow each
other (`Grows`, `Latest`), and that the registry is backed wherever the database
may be between two writes: any version of it by the cached documents
(`CacheBacks`), by a chained write of a document if no later one of it comes before
the registry's (`ChainBacks`), and by the row if none at all does (`RowBacks`). A write
that was rejected takes its document out of the last claim, and the end of the
process that still cached it out of all of them (`kept`). TLC confirms the whole
invariant on the instance of the run, and where every document may be short of
a write. A batch is put behind the chain in `SoundBehind`, the oldest write leaves
it in `GrowsSettled`, `LatestSettled` and `BacksSettled`. `EntriesStay` follows from
`Grows`: the row is replaced by a write that goes on from it.

**Sums.** `SumTheorems` shows of the recursive sum of the community modules that it
is the only function that satisfies its recursion, that any element may be taken out
first, that sums of the same numbers agree, and that a sum of larger numbers is
no smaller. The prover cannot use an induction theorem that takes a predicate, so
each is shown by a smallest counterexample: the strict subset ordering of a finite
set is well founded, and a set of counterexamples would have a minimal one.

Every safety property of a passing run is thus a theorem. Model-checked only is
liveness (`Store!WritesSettle`, `Store!CheckAnswers`, `AvaChat!ChatsEnd`), which rests on
fairness and ENABLED, outside the prover's reach. The three violated properties are
shown by their counterexamples, and one of them is a theorem where its cause is
absent (`AloneIsServed`).

## Abstractions

Documents are sets of updates, so a handler that deletes or trims is not
distinguished from one that appends; versions, timestamps, ids and wording are
left out, except in `Knowledge`, whose documents are sequences of entries with
id, AI and the turn that wrote them. Money is a small integer. Two timers of the code (session
expiry, the calendar day) are steps that may happen at any time. A decision's
outcome and an answer's quality are chosen, not computed, outside `Governance`
and `AvaQuality`.
Events inside a trace, lifecycle logs, dispatch and approval logs and the
decision history are appended and never read back by these parts. In
`Governance` a word list is hit or not, wherever in the request the code searches
it; what the error ledger itself says is taken to hit no list, a tier or speed
the contract does not know counts as absent, and `disallowed` stands for the
visibility and activation flags under the configuration that forbids them.

## Not modelled, and the plan

Next would be `Transfers` and `Outbox`, on top of `Governance`, with rooms and
sources that change between a decision and its use: approval without a status
guard, pushes that may be repeated or lost. Nothing in the code or its documents
says what a repeated decision or push should do, so their hazards are only described.

Left out for good: status reports and self-checks (no state), the decision
history and the error ledger (appended, never read back), working and episodic
memory (which no other part touches), knowledge search
and ranking (text scoring no property depends on), R2 uploads and provider
request formats (I/O), the `.bak` files, seeds and data.
