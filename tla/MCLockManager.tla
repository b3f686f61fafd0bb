--------------------------- MODULE MCLockManager ---------------------------
(* A small instance of LockManager for TLC. *)
EXTENDS LockManager

(* Transactions 1 and 2 are on their own for all their requests, unless 3
   joins them when 1 holds SHARED on one resource and 2 on the other: it then
   has SHARED on the first one too, and each of the three has one request
   left, which no deadline cuts short.  From there two detectors can be on
   their way to each other's entry; that takes three transactions, as the
   youngest wakes nobody. *)
Joined ==
  LET a == CHOOSE r \in Resource : TRUE IN
  /\ holders = [r \in Resource |-> [t \in Txn |->
                  IF (r = a) <=> (t # 2) THEN "SHARED" ELSE NoLock]]
  /\ expired = {}
  /\ \A t \in Txn : pc[t] = "idle" /\ requests[t] = 1

ThirdJoins ==
  /\ requests[3] = 0 /\ requests'[3] # 0 => Joined'
  /\ requests[3] = 0 => pc'[3] = "idle"
  /\ requests[3] # 0 => expired' = {}
=============================================================================
