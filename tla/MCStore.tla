------------------------------ MODULE MCStore ------------------------------
(* Small instances of Store: one collection with a default, one without    *)
(* (cost_ledger), and enough updates for a lost write, a write made while  *)
(* disconnected and a write after the reconnect.                           *)
EXTENDS Store, TLC
CONSTANTS workQueue, costLedger

MCCollections == {workQueue, costLedger}
MCDefaults    == {workQueue}
Symmetry      == Permutations(Entries)
=============================================================================
