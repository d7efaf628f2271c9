---------------------------- MODULE WriteBehind ----------------------------
(***************************************************************************)
(* What a write-behind document store promises its callers.  A submitted   *)
(* update is visible at once; persisting may lag behind the view but only  *)
(* ever moves a collection forward, never past the view; and nothing but a *)
(* crash takes a visible update back, never one that was persisted.        *)
(***************************************************************************)
CONSTANTS Collections, Entries
VARIABLES view, durable

Init == view = [c \in Collections |-> {}] /\ durable = view

Submit(c, e) ==
  /\ e \notin view[c]
  /\ view' = [view EXCEPT ![c] = @ \cup {e}]
  /\ UNCHANGED durable

Persist(c) ==
  /\ \E doc \in SUBSET view[c] :
       durable[c] \subseteq doc /\ durable' = [durable EXCEPT ![c] = doc]
  /\ UNCHANGED view

Crash ==
  /\ view' \in [Collections -> SUBSET Entries]
  /\ \A c \in Collections :
       durable[c] \subseteq view'[c] /\ view'[c] \subseteq view[c]
  /\ UNCHANGED durable

Next ==
  \/ \E c \in Collections, e \in Entries : Submit(c, e)
  \/ \E c \in Collections : Persist(c)
  \/ Crash

Spec == Init /\ [][Next]_<<view, durable>>
=============================================================================
