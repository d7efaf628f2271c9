----------------------------- MODULE WriteChain -----------------------------
(***************************************************************************)
(* What becomes of the writes of one document: the part of Store that other *)
(* modules build on.  A handler's writeJson shows at once; with the         *)
(* json_file driver it is in the file as well, with the postgres driver it  *)
(* joins a chain of upserts, each carrying the whole document, that run one *)
(* after the other.  A rejected upsert is given up and the next one runs.   *)
(* A restart finds the row.  The connection is not part of the state here:  *)
(* with AI_POSTGRES_REQUIRE_CONNECTION a process that has lost it refuses   *)
(* every request until a ping finds it again, which changes no document.    *)
(* Without that setting it serves from files meanwhile: that is in Store.   *)
(***************************************************************************)
EXTENDS Naturals, SequencesExt

CONSTANTS
  WriteBehind,  \* AI_STORAGE_DRIVER is postgres, not json_file
  MaxUnsaved    \* bound: upserts on their way to the database

ASSUME WriteChainAssumption == WriteBehind \in BOOLEAN /\ MaxUnsaved \in Nat

VARIABLES
  row,    \* the document in the database, or in the file
  chain   \* writeChain: the upserts that have not settled, oldest first

\* Mutant: an upsert overtakes those that were made before it.
ChainedFirst(images) == images \o chain

Chained(images) == chain \o images

Written(images) == Last(<<row>> \o images)

(* A turn that writes these versions of the document, one after the other. *)
Saves(images) ==
  \/ /\ WriteBehind
     /\ Len(chain) + Len(images) <= MaxUnsaved
     /\ chain' = Chained(images) /\ row' = row
  \/ /\ ~WriteBehind
     /\ chain' = chain /\ row' = Written(images)

SavesNothing == UNCHANGED <<row, chain>>

(* The oldest upsert settles: the row has it, or it is given up. *)
UpsertStored ==
  /\ chain # <<>> /\ row' = Head(chain) /\ chain' = Tail(chain)

UpsertRejected ==
  /\ chain # <<>> /\ row' = row /\ chain' = Tail(chain)

(* The process dies with its chain, and another reads the row. *)
ChainLost == chain' = <<>> /\ row' = row

Versions == {row} \cup ToSet(chain)
=============================================================================
