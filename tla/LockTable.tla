----------------------------- MODULE LockTable -----------------------------
(***************************************************************************)
(* What txn/locks.py promises its callers, without queues, threads and     *)
(* detection: acquire() returns with a lock that no other holder conflicts *)
(* with and never weakens one; only release_all() gives locks back.        *)
(***************************************************************************)
CONSTANTS Txn, Resource

VARIABLE held           \* per resource, the mode each transaction holds

Modes == {"none", "SHARED", "EXCLUSIVE"}

NoneHeld == [r \in Resource |-> [t \in Txn |-> "none"]]

Has(t, r, m) == held[r][t] \in {m, "EXCLUSIVE"}

CanGrant(t, r, m) ==
  \A u \in Txn \ {t} :
    held[r][u] = "none" \/ (m = "SHARED" /\ held[r][u] = "SHARED")

(* acquire() returns: the mode was held already, or is recorded. *)
Granted(t, r, m) ==
  \/ Has(t, r, m) /\ UNCHANGED held
  \/ /\ ~Has(t, r, m)
     /\ CanGrant(t, r, m)
     /\ held' = [held EXCEPT ![r][t] = m]

(* The lock table after release_all(t) has visited the entries R. *)
Without(t, R) == [r \in Resource |->
                    IF r \in R THEN [held[r] EXCEPT ![t] = "none"] ELSE held[r]]

Released(t, R) == held' = Without(t, R)

LockInit == held = NoneHeld

LockNext ==
  \/ \E t \in Txn, r \in Resource, m \in Modes \ {"none"} : Granted(t, r, m)
  \/ \E t \in Txn, R \in SUBSET Resource : Released(t, R)

LockSpec == LockInit /\ [][LockNext]_held
=============================================================================
