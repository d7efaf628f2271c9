-------------------------- MODULE MCStoreMigration --------------------------
(* Small instances of StoreMigration: one collection with a default, one    *)
(* without, and a command line whose directory holds an older document.     *)
EXTENDS StoreMigration, TLC
CONSTANTS workQueue, costLedger, e1

MCCollections == {workQueue, costLedger}
MCDefaults    == {workQueue}
MCLegacy      == {{}, {e1}}
=============================================================================
