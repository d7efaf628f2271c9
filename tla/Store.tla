------------------------------- MODULE Store -------------------------------
(***************************************************************************)
(* The document store every server module reads and writes through, with   *)
(* AI_STORAGE_DRIVER=postgres: utils/store.js over utils/postgresStore.js. *)
(* A collection's document lives in up to four places: the row in          *)
(* PostgreSQL (db), the process's in-memory copy (cache), the writes        *)
(* chained but not yet settled (writeChain) and the JSON file (local).     *)
(*                                                                         *)
(* A document is the set of the updates folded into it: every handler      *)
(* reads a collection, folds its own update in and writes the whole        *)
(* document back in one synchronous turn of the event loop.  What happens  *)
(* across turns is the promise chain, the pool's answers and its errors,   *)
(* the database check's reconnect, and the process crashing and starting.  *)
(***************************************************************************)
EXTENDS Integers, Sequences

CONSTANTS
  Collections,        \* collection keys (JSON file names without .json)
  Defaults,           \* the collections dataDefaults.js has a default for
  Entries,            \* updates a handler can fold in, each used once
  NoDoc,              \* no file, no cache entry, no row
  RequireConnection,  \* AI_POSTGRES_REQUIRE_CONNECTION === 'true'
  LocalBackup,        \* AI_DISABLE_LOCAL_STORAGE_BACKUP !== 'true'
  SeedDefaults        \* AI_POSTGRES_SEED_DEFAULTS !== 'false'

ASSUME StoreAssumption ==
  /\ Defaults \subseteq Collections
  /\ \A doc \in SUBSET Entries : NoDoc # doc
  /\ {RequireConnection, LocalBackup, SeedDefaults} \subseteq BOOLEAN

VARIABLES
  proc,         \* "down", "boot" (initializeStorage) or "serve" (listening)
  connected,    \* state.connected
  cache,        \* state.cache
  writeChain,   \* the writes state.writeChain has not settled, oldest first
  headApplied,  \* the database has run the oldest write; its answer is due
  local,        \* the JSON files of the data directory
  db,           \* the rows of ai_store_documents
  seeding,      \* default collections seedDefaultCollections has yet to do
  check,        \* database check: the writes its flush still awaits
  acked,        \* history: the updates acknowledged to a caller
  failed        \* history: collections whose latest settled write was lost

vars == <<proc, connected, cache, writeChain, headApplied, local, db,
          seeding, check, acked, failed>>

NoCheck == -1
Docs    == SUBSET Entries
Places  == [Collections -> Docs \cup {NoDoc}]
Write   == [key : Collections, doc : Docs]
Nowhere == [c \in Collections |-> NoDoc]

TypeOK ==
  /\ proc \in {"down", "boot", "serve"}
  /\ connected \in BOOLEAN
  /\ cache \in Places /\ local \in Places /\ db \in Places
  /\ writeChain \in Seq(Write)
  /\ headApplied \in BOOLEAN
  /\ seeding \subseteq Collections
  /\ check \in {NoCheck} \cup 0..Len(writeChain)
  /\ acked \in [Collections -> Docs]
  /\ failed \subseteq Collections

-----------------------------------------------------------------------------
\* The default every collection of the model starts from is the empty one.
DocOf(place) == IF place = NoDoc THEN {} ELSE place

\* readLocal: a missing file reads as the default collection
ReadLocal(c) == DocOf(local[c])

\* readPostgresDocument with readLocal as its fallback
ReadCached(c) == IF cache[c] = NoDoc THEN ReadLocal(c) ELSE cache[c]

\* readJson throws when this is false
Readable == connected \/ ~RequireConnection

ReadJson(c) == IF connected THEN ReadCached(c) ELSE ReadLocal(c)

Seeded == IF SeedDefaults THEN Defaults ELSE {}

-----------------------------------------------------------------------------
Init ==
  /\ proc = "down" /\ connected = FALSE
  /\ cache = Nowhere /\ local = Nowhere /\ db = Nowhere
  /\ writeChain = <<>> /\ headApplied = FALSE
  /\ seeding = {} /\ check = NoCheck
  /\ acked = [c \in Collections |-> {}] /\ failed = {}

\* initializeStorage: a server that may go on without the connection does
Startable(ok) == ok \/ ~RequireConnection

(* The process starts.  Where initializePostgresStore succeeds the rows     *)
(* become the cache.  Where it fails, in ensureSchema or loadCache (nothing *)
(* cached) or in loadMigrationMetadata (rows already cached), the server    *)
(* listens on the JSON files, unless the connection is required, when the   *)
(* process exits again.                                                     *)
Start(ok) ==
  /\ proc = "down" /\ Startable(ok)
  /\ proc' = IF ok THEN "boot" ELSE "serve"
  /\ connected' = ok
  /\ cache' \in IF ok THEN {db} ELSE {db, Nowhere}
  /\ seeding' = IF ok THEN Seeded ELSE seeding
  /\ UNCHANGED <<writeChain, headApplied, local, db, check, acked, failed>>

\* Mutant: the defaults are upserted over what is there.
SeedOverwrites(c) ==
  /\ proc = "boot" /\ c \in seeding
  /\ seeding' = seeding \ {c}
  /\ db' = [db EXCEPT ![c] = {}]
  /\ cache' = [cache EXCEPT ![c] = {}]
  /\ UNCHANGED <<proc, connected, writeChain, headApplied, local, check,
                 acked, failed>>

(* One turn of seedDefaultCollectionsToPostgres: ON CONFLICT DO NOTHING.    *)
SeedDefault(c) ==
  /\ proc = "boot" /\ c \in seeding
  /\ seeding' = seeding \ {c}
  /\ db' = [db EXCEPT ![c] = DocOf(@)]
  /\ cache' = [cache EXCEPT ![c] = DocOf(@)]
  /\ UNCHANGED <<proc, connected, writeChain, headApplied, local, check,
                 acked, failed>>

Listen ==
  /\ proc = "boot" /\ seeding = {}
  /\ proc' = "serve"
  /\ UNCHANGED <<connected, cache, writeChain, headApplied, local, db,
                 seeding, check, acked, failed>>

\* Mutants: the write bypasses the cache; a new write is sent first.
CacheBypassed(c, doc) == cache
ChainedFirst(c, doc)  == <<[key |-> c, doc |-> doc]>> \o writeChain

\* writePostgresDocument: the cache entry, then the link of the chain
Cached(c, doc)  == [cache EXCEPT ![c] = doc]
Chained(c, doc) == Append(writeChain, [key |-> c, doc |-> doc])

(* A handler's read-modify-write: readJson, fold e in, writeJson, answer.   *)
(* When readJson throws nothing is written and the caller is told.          *)
Update(c, e) ==
  /\ proc = "serve" /\ Readable
  /\ \A d \in Collections : e \notin acked[d]
  /\ LET doc == ReadJson(c) \cup {e} IN
       /\ local' = IF LocalBackup THEN [local EXCEPT ![c] = doc] ELSE local
       /\ IF connected
          THEN cache' = Cached(c, doc) /\ writeChain' = Chained(c, doc)
          ELSE UNCHANGED <<cache, writeChain>>
  /\ acked' = [acked EXCEPT ![c] = @ \cup {e}]
  /\ UNCHANGED <<proc, connected, headApplied, db, seeding, check, failed>>

(* The database runs the oldest chained upsert. *)
ApplyHead ==
  /\ writeChain # <<>> /\ ~headApplied
  /\ headApplied' = TRUE
  /\ db' = [db EXCEPT ![Head(writeChain).key] = Head(writeChain).doc]
  /\ UNCHANGED <<proc, connected, cache, writeChain, local, seeding, check,
                 acked, failed>>

\* Mutant: the flush awaits a chain that is never resolved for it.
FlushStuck == check

FlushProgress == IF check > 0 THEN check - 1 ELSE check

(* .finally: the write leaves the chain, and a flush behind it moves on. *)
Settle ==
  /\ writeChain' = Tail(writeChain)
  /\ headApplied' = FALSE
  /\ check' = FlushProgress
  /\ failed' = IF headApplied THEN failed \ {Head(writeChain).key}
                              ELSE failed \cup {Head(writeChain).key}
  /\ UNCHANGED <<proc, cache, local, db, seeding, acked>>

(* The upsert's answer arrives. *)
SettleOk == headApplied /\ Settle /\ UNCHANGED connected

\* Mutant: a write that failed is sent again instead of being given up.
SettleRetries ==
  /\ writeChain # <<>>
  /\ connected' = FALSE /\ headApplied' = FALSE
  /\ UNCHANGED <<proc, cache, writeChain, local, db, seeding, check, acked,
                 failed>>

(* The upsert rejects, before the database ran it or after: .catch records  *)
(* the error and the next link of the chain runs all the same.              *)
SettleError == writeChain # <<>> /\ Settle /\ connected' = FALSE

(* The pool's 'error' event. *)
PoolError ==
  /\ proc # "down" /\ connected
  /\ connected' = FALSE
  /\ UNCHANGED <<proc, cache, writeChain, headApplied, local, db, seeding,
                 check, acked, failed>>

(* GET /storage/database-check: flushPostgresWrites awaits the chain as it  *)
(* is now, then pingPostgres.                                               *)
BeginCheck ==
  /\ proc = "serve" /\ check = NoCheck
  /\ check' = Len(writeChain)
  /\ UNCHANGED <<proc, connected, cache, writeChain, headApplied, local, db,
                 seeding, acked, failed>>

\* Mutant: the reconnect reloads the cache from the rows.
PingReloads ==
  /\ proc = "serve" /\ check = 0
  /\ check' = NoCheck
  /\ connected' \in BOOLEAN
  /\ cache' = db
  /\ UNCHANGED <<proc, writeChain, headApplied, local, db, seeding, acked,
                 failed>>

(* The ping's answer sets connected, and nothing else: no cache reload and  *)
(* no resend of what was lost or was written only to the files meanwhile.   *)
Ping ==
  /\ proc = "serve" /\ check = 0
  /\ check' = NoCheck
  /\ connected' \in BOOLEAN
  /\ UNCHANGED <<proc, cache, writeChain, headApplied, local, db, seeding,
                 acked, failed>>

(* The process dies; memory is gone, files and rows stay. *)
Crash ==
  /\ proc # "down"
  /\ proc' = "down" /\ connected' = FALSE
  /\ cache' = Nowhere /\ writeChain' = <<>> /\ headApplied' = FALSE
  /\ seeding' = {} /\ check' = NoCheck /\ failed' = {}
  /\ UNCHANGED <<local, db, acked>>

Next ==
  \/ \E ok \in BOOLEAN : Start(ok)
  \/ Listen
  \/ \E c \in Collections : SeedDefault(c)
  \/ \E c \in Collections, e \in Entries : Update(c, e)
  \/ ApplyHead \/ SettleOk \/ SettleError \/ PoolError
  \/ BeginCheck \/ Ping \/ Crash

Spec == Init /\ [][Next]_vars

(* The pool answers or rejects every query it is given, and a promise whose *)
(* predecessor settled runs.  Nothing makes handlers, checks, errors,       *)
(* crashes or restarts happen.                                              *)
FairSpec ==
  Spec /\ WF_vars(ApplyHead \/ SettleOk \/ SettleError) /\ WF_vars(Ping)

-----------------------------------------------------------------------------
Pending(c) == {i \in 1..Len(writeChain) : writeChain[i].key = c}

(* Between them row, chain and cache hold one history of each collection:   *)
(* the row is contained in every chained write, every chained write in the  *)
(* ones after it and in the cache.  It is what makes the order in which     *)
(* enqueueWrite chains the upserts enough to keep the database consistent.  *)
PipelineOrdered ==
  proc # "down" =>
    \A c \in Collections :
      /\ DocOf(db[c]) \subseteq DocOf(cache[c])
      /\ \A i \in Pending(c) :
           /\ DocOf(db[c]) \subseteq writeChain[i].doc
           /\ cache[c] # NoDoc /\ writeChain[i].doc \subseteq cache[c]
           /\ \A j \in Pending(c) :
                i < j => writeChain[i].doc \subseteq writeChain[j].doc

(* A collection with nothing pending whose latest write was not lost is the *)
(* same in the cache and in the database, however often the connection was  *)
(* lost and regained by the database check in between.                      *)
QuiescentAgreement ==
  proc = "serve" =>
    \A c \in Collections :
      (cache[c] # NoDoc /\ c \notin failed /\ Pending(c) = {})
        => db[c] = cache[c]

(* What readJson answers, now or, where it throws, once the database check  *)
(* has found the connection again.                                          *)
Answer(c) == IF RequireConnection THEN ReadCached(c) ELSE ReadJson(c)

(* What one read of a collection returned, every later read by the same     *)
(* process returns too, across connection losses and reconnects.            *)
ReadsNeverRegress ==
  [][(proc = "serve" /\ proc' = "serve") =>
       \A c \in Collections : Answer(c) \subseteq Answer(c)']_vars

(* No step, a restart included, takes an update out of a database row. *)
RowsNeverRegress ==
  [][\A c \in Collections : DocOf(db[c]) \subseteq DocOf(db[c])']_vars

(* Every chained write settles, also those behind one that failed. *)
WritesSettle == [](writeChain # <<>> => <>(writeChain = <<>>))

(* A database check that was asked for is answered or dies with the process.*)
CheckAnswers == (check >= 0) ~> (check = NoCheck)

(* "Local JSON stays as an atomic recovery copy unless disabled": every     *)
(* acknowledged update is in the file.  The code does not keep this, and no *)
(* run states it (README).                                                  *)
LocalIsRecoveryCopy ==
  LocalBackup => \A c \in Collections : acked[c] \subseteq ReadLocal(c)

-----------------------------------------------------------------------------
(* What a read will return once the process, now down or booting, serves. *)
ReadAfterBoot(c) ==
  IF db[c] = NoDoc /\ c \notin Seeded THEN ReadLocal(c) ELSE DocOf(db[c])

view    == [c \in Collections |->
              IF proc = "serve" THEN ReadCached(c) ELSE ReadAfterBoot(c)]
durable == [c \in Collections |-> DocOf(db[c])]

WB == INSTANCE WriteBehind WITH view <- view, durable <- durable
Implements == WB!Spec
=============================================================================
