---------------------------- MODULE AtomicStore ----------------------------
(***************************************************************************)
(* What docs/durability.md promises of a database file: a transaction's    *)
(* changes become permanent all at once, at its commit point, and anything *)
(* that ends a transaction otherwise - ROLLBACK, a failed commit, a crash  *)
(* at any moment, also during recovery - leaves the last committed state.  *)
(***************************************************************************)
CONSTANT State          \* the contents a database can have

VARIABLES stable,       \* what opening the file now would recover
          view,         \* what the running process shows
          active        \* a transaction has changed, or may change, the view

storeVars == <<stable, view, active>>

StoreInit == stable \in State /\ view = stable /\ active = FALSE

Begin == ~active /\ active' = TRUE /\ UNCHANGED <<stable, view>>

(* A statement, or a step of undoing one, changes what the process shows. *)
Write == active /\ view' \in State /\ UNCHANGED <<stable, active>>

(* The commit point. *)
Commit == active /\ stable' = view /\ active' = FALSE /\ UNCHANGED view

(* ROLLBACK is complete, or the process is gone. *)
Abandon == active /\ view' = stable /\ active' = FALSE /\ UNCHANGED stable

StoreNext == Begin \/ Write \/ Commit \/ Abandon

StoreSpec == StoreInit /\ [][StoreNext]_storeVars
=============================================================================
