--------------------------- MODULE StoreMigration ---------------------------
(***************************************************************************)
(* The import of JSON files into the document store                        *)
(* (utils/postgresStore.js, migrateJsonDirectoryToPostgres) beside the      *)
(* traffic of module Store.  For each file it asks the database whether the *)
(* row exists, inserts it, and only then sets the cache: two awaits that    *)
(* handlers, the chain of writes and failures get between, on a connection  *)
(* the chain knows nothing of.  It runs in three places: before the server  *)
(* listens ("boot", servers/storage.js), by request of the owner ("route")  *)
(* and in a process and with files of its own ("cli",                       *)
(* scripts/migrate-json-to-postgres.mjs), where it sees no cache at all.    *)
(***************************************************************************)
EXTENDS Store

CONSTANTS
  Bootstrap,     \* AI_POSTGRES_BOOTSTRAP_FROM_JSON === 'true'
  Legacy,        \* the documents of the command line's own data directory
  MaxMigrations  \* bound: migrations ever started

ASSUME MigrationAssumption ==
  Bootstrap \in BOOLEAN /\ Legacy \subseteq SUBSET Entries /\ MaxMigrations \in Nat

VARIABLES
  mig,         \* the migration in flight, or None
  migrations,  \* number of migrations started so far
  outrun,      \* history: collections this process's cache and row may differ
               \* in because of a migration
  imported     \* history: this process was bootstrapped, with no file failing

migVars == <<mig, migrations, outrun, imported>>
allVars == <<vars, migVars>>

None  == [step |-> "none"]
Files == {c \in Collections : local[c] # NoDoc}
InProcess == mig # None /\ mig.by # "cli"

MigrationTypeOK ==
  /\ mig # None =>
       /\ mig.step \in {"file", "check", "insert", "answer"}
       /\ mig.by \in {"boot", "route", "cli"} /\ mig.overwrite \in BOOLEAN
       /\ mig.todo \subseteq Collections /\ mig.doc \in Docs
       /\ mig.step # "file" => mig.key \in mig.todo
  /\ mig # None /\ mig.by = "boot" => proc = "boot"
  /\ mig # None /\ mig.by = "route" => proc = "serve"
  /\ migrations \in 0..MaxMigrations
  /\ outrun \subseteq Collections /\ imported \in BOOLEAN

MigrationInit ==
  Init /\ mig = None /\ migrations = 0 /\ outrun = {} /\ imported = FALSE

-----------------------------------------------------------------------------
Begin(by, overwrite, names) ==
  /\ mig = None /\ migrations < MaxMigrations
  /\ migrations' = migrations + 1
  /\ mig' = [by |-> by, overwrite |-> overwrite, todo |-> names,
             step |-> "file", key |-> NoDoc, doc |-> {}]

\* Mutant: the migration is started and not awaited.
NotAwaited == TRUE

\* what follows the migration in initializeStorage awaits its end
BootGoesOn == mig # None => mig.by # "boot"

(* initializeStorage with nothing cached: the files go first, the defaults  *)
(* are seeded after them.                                                   *)
StartBootstrapping ==
  /\ Start(TRUE)
  /\ Bootstrap /\ cache' = Nowhere
  /\ Begin("boot", FALSE, Files)
  /\ imported' = TRUE
  /\ UNCHANGED outrun

StartAsIs(ok) ==
  /\ Start(ok) /\ ~(ok /\ Bootstrap /\ cache' = Nowhere)
  /\ UNCHANGED migVars

Boot ==
  /\ BootGoesOn
  /\ Listen \/ \E c \in Collections : SeedDefault(c)
  /\ UNCHANGED migVars

(* POST /storage/migrate-json *)
RouteMigration ==
  /\ proc = "serve" /\ connected
  /\ \E overwrite \in BOOLEAN : Begin("route", overwrite, Files)
  /\ UNCHANGED <<vars, outrun, imported>>

(* npm run storage:migrate and storage:migrate:overwrite *)
CliMigration ==
  /\ \E overwrite \in BOOLEAN, c \in Collections : Begin("cli", overwrite, {c})
  /\ UNCHANGED <<vars, outrun, imported>>

ReadFile(c) ==
  /\ mig # None /\ mig.step = "file" /\ c \in mig.todo
  /\ \E doc \in IF mig.by = "cli" THEN Legacy ELSE {ReadLocal(c)} :
       mig' = [mig EXCEPT !.key = c, !.doc = doc,
                          !.step = IF mig.overwrite THEN "insert" ELSE "check"]
  /\ UNCHANGED <<vars, migrations, outrun, imported>>

\* the loop goes on to the next file
Done == mig' = [mig EXCEPT !.todo = @ \ {mig.key}, !.step = "file"]

\* Mutant: the answer of the SELECT is not looked at.
RowIgnored ==
  /\ mig # None /\ mig.step = "check"
  /\ mig' = [mig EXCEPT !.step = "insert"]
  /\ UNCHANGED <<vars, migrations, outrun, imported>>

(* SELECT: an existing row is skipped. *)
CheckRow ==
  /\ mig # None /\ mig.step = "check"
  /\ IF db[mig.key] # NoDoc THEN Done ELSE mig' = [mig EXCEPT !.step = "insert"]
  /\ UNCHANGED <<vars, migrations, outrun, imported>>

(* INSERT ... ON CONFLICT DO UPDATE, beside the chain.                      *)
InsertRow ==
  /\ mig # None /\ mig.step = "insert"
  /\ db' = [db EXCEPT ![mig.key] = mig.doc]
  /\ mig' = [mig EXCEPT !.step = "answer"]
  /\ outrun' = IF proc # "down" /\ (mig.by = "cli" \/ Pending(mig.key) # {})
               THEN outrun \cup {mig.key} ELSE outrun
  /\ UNCHANGED <<proc, connected, cache, writeChain, headApplied, local,
                 seeding, check, acked, failed, migrations, imported>>

\* Mutant: the process goes on serving what it had cached.
InsertUncached(c, doc) == cache

\* state.cache.set(key, value)
CacheSet(c, doc) == [cache EXCEPT ![c] = doc]

(* The INSERT's answer; only here does the process that asked cache the row.*)
InsertAnswered ==
  /\ mig # None /\ mig.step = "answer"
  /\ cache' = IF InProcess THEN CacheSet(mig.key, mig.doc) ELSE cache
  /\ Done
  /\ UNCHANGED <<proc, connected, writeChain, headApplied, local, db, seeding,
                 check, acked, failed, migrations, outrun, imported>>

(* A query rejects, the INSERT before or after the database ran it; it is   *)
(* reported under the file's name and the loop goes on.                     *)
QueryFails ==
  /\ mig # None /\ mig.step \in {"check", "insert", "answer"}
  /\ Done
  /\ outrun' = IF mig.step = "answer" /\ InProcess THEN outrun \cup {mig.key}
               ELSE outrun
  /\ imported' = (imported /\ mig.by # "boot")
  /\ UNCHANGED <<vars, migrations>>

(* The defaults that follow a bootstrap are not seeded at all when the pool *)
(* lost its connection in it.                                               *)
SeedingLeft == IF mig.by = "boot" /\ ~connected THEN {} ELSE seeding

(* persistMigrationMetadata answers or throws. *)
EndMigration ==
  /\ mig # None /\ mig.step = "file" /\ mig.todo = {}
  /\ mig' = None
  /\ seeding' = SeedingLeft
  /\ UNCHANGED <<proc, connected, cache, writeChain, headApplied, local, db,
                 check, acked, failed, migrations, outrun, imported>>

\* A handler's update that the migration of its collection has not seen.
Handle(c, e) ==
  /\ Update(c, e)
  /\ outrun' = outrun \cup
       {x \in {c} : InProcess /\ mig.step # "file" /\ mig.key = c}
  /\ UNCHANGED <<mig, migrations, imported>>

Traffic ==
  /\ ApplyHead \/ SettleOk \/ SettleError \/ PoolError \/ BeginCheck \/ Ping
  /\ UNCHANGED migVars

Die ==
  /\ Crash
  /\ mig' = IF InProcess THEN None ELSE mig
  /\ outrun' = {} /\ imported' = FALSE
  /\ UNCHANGED migrations

MigrationNext ==
  \/ \E ok \in BOOLEAN : StartAsIs(ok)
  \/ StartBootstrapping \/ Boot \/ RouteMigration \/ CliMigration
  \/ \E c \in Collections : ReadFile(c)
  \/ CheckRow \/ InsertRow \/ InsertAnswered \/ QueryFails \/ EndMigration
  \/ \E c \in Collections, e \in Entries : Handle(c, e)
  \/ Traffic \/ Die

MigrationSpec == MigrationInit /\ [][MigrationNext]_allVars

-----------------------------------------------------------------------------
(* QuiescentAgreement beside a migration: a settled collection is the same  *)
(* in the cache and in its row, unless the migration of it was outrun by a  *)
(* handler, failed halfway or was another process's; once the process has   *)
(* restarted those agree again too.                                         *)
MigratedAgree ==
  proc = "serve" =>
    \A c \in Collections \ outrun :
      \/ cache[c] = NoDoc \/ c \in failed \/ Pending(c) # {}
      \/ InProcess /\ mig.step = "answer" /\ mig.key = c
      \/ db[c] = cache[c]

(* A server that bootstrapped from its files without a failure listens with *)
(* every file in its row and in the cache: nothing acknowledged while it    *)
(* ran on files alone is hidden by a row or by a default.                   *)
BootstrapImportsFiles ==
  [][(proc = "boot" /\ proc' = "serve" /\ imported) =>
       \A c \in Files \ outrun : cache[c] = local[c] /\ db[c] = local[c]]_allVars

(* A migration that was not told to overwrite takes an update out of a row  *)
(* only where a handler outran it, the one of a write that is still chained *)
(* included, or where it is not this process's.                             *)
MigrationKeepsRows ==
  [][(InProcess /\ ~mig.overwrite /\ mig.step = "insert"
       /\ mig'.step = "answer") =>
       \A c \in Collections \ outrun : DocOf(db[c]) \subseteq DocOf(db'[c])]_allVars

(* "The migration does not overwrite existing database collections": it     *)
(* inserts a row only where there is none.  The code does not keep this,    *)
(* and no run states it (README).                                           *)
NeverOverwrites ==
  [][(mig # None /\ ~mig.overwrite /\ mig.step = "insert"
       /\ mig'.step = "answer") => db[mig.key] = NoDoc]_allVars
=============================================================================
