------------------------- MODULE LockManagerProofs -------------------------
(***************************************************************************)
(* Proofs about LockManager, for any number of transactions, resources and *)
(* requests.                                                               *)
(***************************************************************************)
EXTENDS LockManager, SequenceTheorems, TLAPS

(* Only a transaction inside acquire() stands in a queue, and it is the one
   of the resource it asks for. *)
WaitersQueued ==
  \A r \in Resource : \A i \in DOMAIN waiters[r] :
    /\ pc[waiters[r][i]] \in Queued
    /\ request[waiters[r][i]].resource = r

(* A thread between the steps of its critical section owns the condition. *)
OwnsCondition ==
  \A t \in Txn : pc[t] \in Owning => cond[request[t].resource] = t

(* And conversely: a condition is owned by a thread in its critical section
   only, which is that of the entry it asks for; the latch is kept across the
   walk only. *)
OwnersOnly ==
  /\ \A r \in Resource, t \in Txn :
       cond[r] = t => pc[t] \in Owning /\ request[t].resource = r
  /\ \A t \in Txn : latch = t => pc[t] = "walk"

(* A thread on its way through _wake() has a victim's entry to go to. *)
WakerKnowsTarget ==
  \A t \in Txn : pc[t] \in {"wake", "wakeTarget"} => victimAt[t] \in Resource

(* What the wait loop saw when it found the request not grantable still holds
   when the thread goes to sleep, and as long as it sleeps. *)
NotGrantableYet ==
  \A t \in Txn :
    pc[t] \in {"walk", "deadline", "asleep"}
      => ~Grantable(t, request[t].resource, request[t].mode)

(* A queued request asks for more than the transaction holds. *)
NotSufficient ==
  \A t \in Txn :
    pc[t] \in Queued => ~Sufficient(t, request[t].resource, request[t].mode)

(* The walker owns the latch; nobody's walk is left on the stack. *)
WalkUnderLatch ==
  /\ \A t \in Txn : pc[t] = "walk" => latch = t /\ t \notin doomed
  /\ walk # <<>> => latch # Free

(* Every transaction on the walk's path waits, and no frame leads back to
   itself. *)
WalkPath ==
  \A i \in DOMAIN walk :
    /\ waitingFor[walk[i].txn] # NoResource
    /\ walk[i].txn \notin walk[i].todo

(* A doomed thread that is asleep or about to sleep has somebody coming. *)
DoomedHasWaker ==
  \A v \in doomed :
    pc[v] \in {"deadline", "asleep"} =>
      \E t \in Txn : /\ pc[t] \in {"wake", "wakeTarget"}
                     /\ victimAt[t] = request[v].resource

Inv ==
  /\ TypeOK /\ WaitersQueued /\ OwnsCondition /\ OwnersOnly
  /\ WakerKnowsTarget /\ NotGrantableYet
  /\ NotSufficient /\ WalkUnderLatch /\ WalkPath /\ DoomedHasWaker
  /\ HoldersCompatible /\ DoomEndsWithWait /\ OldestNeverVictim

-----------------------------------------------------------------------------
(* Leaving a queue of distinct transactions: deque.remove() in acquire()'s
   finally takes out exactly the one that leaves. *)
LEMMA RemoveFirstProperties ==
  ASSUME NEW S, NEW q \in Seq(S), NEW e, IsInjective(q)
  PROVE  /\ RemoveFirst(q, e) \in Seq(S)
         /\ IsInjective(RemoveFirst(q, e))
         /\ \A i \in DOMAIN RemoveFirst(q, e) :
              /\ RemoveFirst(q, e)[i] # e
              /\ \E j \in DOMAIN q : q[j] = RemoveFirst(q, e)[i]
<1>1. CASE ~\E i \in 1..Len(q) : q[i] = e
  BY <1>1 DEF RemoveFirst
<1>2. CASE \E i \in 1..Len(q) : q[i] = e
  <2>1. PICK k \in 1..Len(q) : q[k] = e
    BY <1>2
  <2> DEFINE I == {i \in 1..Len(q) : q[i] = e}
  <2>2. I = {k}
    BY <2>1 DEF IsInjective
  <2>3. SelectInSeq(q, LAMBDA v : v = e) = k
    <3>1. Min({k}) = k
      BY DEF Min
    <3> QED BY <2>2, <3>1 DEF SelectInSeq
  <2> DEFINE a == SubSeq(q, 1, k - 1)
             b == SubSeq(q, k + 1, Len(q))
  <2>4. RemoveFirst(q, e) = a \o b
    BY <1>2, <2>3 DEF RemoveFirst, RemoveAt
  <2>5. /\ a \in Seq(S) /\ Len(a) = k - 1
        /\ \A i \in 1..Len(a) : a[i] = q[i]
    BY SubSeqProperties
  <2>6. /\ b \in Seq(S) /\ Len(b) = Len(q) - k
        /\ \A i \in 1..Len(b) : b[i] = q[k + i]
    BY SubSeqProperties
  <2> DEFINE c == a \o b
  <2>7. /\ c \in Seq(S) /\ Len(c) = Len(q) - 1
        /\ \A i \in 1..Len(c) : c[i] = IF i < k THEN q[i] ELSE q[i + 1]
    <3> HIDE DEF a, b
    <3>1. /\ c \in Seq(S) /\ Len(c) = Len(a) + Len(b)
          /\ \A i \in 1..Len(c) : c[i] = IF i <= Len(a) THEN a[i] ELSE b[i - Len(a)]
      <4>1. a \in Seq(S) /\ b \in Seq(S)
        BY <2>5, <2>6
      <4> QED BY ONLY <4>1, ConcatProperties
    <3> HIDE DEF c
    <3>2. Len(c) = Len(q) - 1
      BY <2>5, <2>6, <3>1
    <3>3. ASSUME NEW i \in 1..Len(c), i < k PROVE c[i] = q[i]
      BY <2>5, <3>1, <3>3
    <3>4. ASSUME NEW i \in 1..Len(c), ~(i < k) PROVE c[i] = q[i + 1]
      <4>1. i - Len(a) \in 1..Len(b) /\ ~(i <= Len(a)) /\ k + (i - Len(a)) = i + 1
        BY <2>5, <2>6, <3>2, <3>4
      <4> QED BY <2>6, <3>1, <4>1
    <3> QED BY <3>1, <3>2, <3>3, <3>4
  <2> HIDE DEF c
  <2>8. IsInjective(c)
    <3> SUFFICES ASSUME NEW i \in 1..Len(c), NEW j \in 1..Len(c), c[i] = c[j]
                 PROVE  i = j
      BY <2>7 DEF IsInjective
    <3>1. \A x \in 1..Len(q), y \in 1..Len(q) : q[x] = q[y] => x = y
      BY DEF IsInjective
    <3> DEFINE at(x) == IF x < k THEN x ELSE x + 1
    <3>2. at(i) \in 1..Len(q) /\ at(j) \in 1..Len(q) /\ q[at(i)] = q[at(j)]
      BY <2>7
    <3> QED BY <3>1, <3>2
  <2>9. \A i \in DOMAIN c : c[i] # e /\ \E j \in DOMAIN q : q[j] = c[i]
    BY <2>1, <2>7 DEF IsInjective
  <2> QED BY <2>4, <2>7, <2>8, <2>9 DEF c
<1> QED BY <1>1, <1>2

-----------------------------------------------------------------------------
(* Type correctness.  The queues need to know who stands in them: acquire()
   appends a transaction that is in no queue. *)

(* The last element of a stack and what is below it. *)
LEMMA StackProperties ==
  ASSUME NEW S, NEW q \in Seq(S), q # <<>>
  PROVE  /\ Len(q) \in 1..Len(q)
         /\ Last(q) \in S
         /\ Front(q) \in Seq(S)
         /\ Len(Front(q)) = Len(q) - 1
         /\ \A i \in 1..Len(q) - 1 : Front(q)[i] = q[i]
<1>1. Len(q) \in 1..Len(q) /\ \A i \in 1..Len(q) : q[i] \in S
  BY EmptySeq, LenProperties, ElementOfSeq
<1> DEFINE n == Len(q) - 1
           f == SubSeq(q, 1, n)
<1>2. n \in Int /\ 1 \in Int /\ \A i \in 1..n : q[i] \in S
  BY <1>1
<1>3. /\ f \in Seq(S)
      /\ Len(f) = IF 1 <= n THEN n - 1 + 1 ELSE 0
      /\ \A i \in 1..n - 1 + 1 : f[i] = q[1 + i - 1]
  <2> HIDE DEF n
  <2> QED BY ONLY <1>2, SubSeqProperties
<1>4. Front(q) = f /\ Last(q) = q[Len(q)]
  BY DEF Front, Last
<1> HIDE DEF f
<1>5. Len(f) = Len(q) - 1
  <2>1. Len(q) \in Nat /\ Len(q) >= 1
    BY <1>1, LenProperties
  <2>2. CASE 1 <= n
    BY <1>3, <2>1, <2>2
  <2>3. CASE ~(1 <= n)
    <3>1. \A x \in Nat : x >= 1 /\ ~(1 <= x - 1) => x - 1 = 0
      OBVIOUS
    <3>2. n = 0
      BY ONLY <2>1, <2>3, <3>1
    <3> QED BY <1>3, <2>3, <3>2
  <2> QED BY <2>2, <2>3
<1>6. \A i \in 1..Len(q) - 1 : f[i] = q[i]
  BY <1>1, <1>3
<1> QED BY <1>1, <1>3, <1>4, <1>5, <1>6

(* Init establishes both. *)
LEMMA TypeInit == Init => TypeOK /\ WaitersQueued
  BY TxnAssumption DEF Init, TypeOK, WaitersQueued, IsInjective, Labels, LockMode, Queued,
     Outcomes, NoRequest, Free

(* Every step of every thread keeps the types. *)
LEMMA TypeStep ==
  ASSUME TypeOK, WaitersQueued, Next
  PROVE  TypeOK'
<1> USE DEF TypeOK, Labels, LockMode, Outcomes, Queued, NoRequest, lockVars,
            graphVars, threadVars, Notified
<1>1. ASSUME NEW t \in Txn, NEW r \in Resource, NEW m \in LockMode,
             AcquireHeld(t, r, m)
      PROVE  TypeOK'
  BY <1>1 DEF AcquireHeld, Call
<1>2. ASSUME NEW t \in Txn, NEW r \in Resource, NEW m \in LockMode,
             AcquireNow(t, r, m)
      PROVE  TypeOK'
  <2>1. holders' \in [Resource -> [Txn -> LockMode \cup {NoLock}]]
    BY <1>2 DEF AcquireNow
  <2>2. pc' \in [Txn -> Labels] /\ request' = request
    BY <1>2 DEF AcquireNow
  <2>3. \A u \in Txn : pc'[u] \in Queued \cup {"unwind"} => request'[u].resource \in Resource
    BY <1>2 DEF AcquireNow
  <2>4. requests' \in [Txn -> Nat] /\ outcome' \in [Txn -> Outcomes]
    BY <1>2 DEF AcquireNow, Call
  <2> QED BY <1>2, <2>1, <2>2, <2>3, <2>4 DEF AcquireNow
<1>3. ASSUME NEW t \in Txn, NEW r \in Resource, NEW m \in LockMode,
             AcquireWait(t, r, m)
      PROVE  TypeOK'
  <2>1. pc[t] = "idle" /\ requests' \in [Txn -> Nat]
    BY <1>3 DEF AcquireWait, Call
  <2>2. waiters' \in [Resource -> Seq(Txn)]
    BY <1>3, AppendProperties DEF AcquireWait
  <2>3. IsInjective(Append(waiters[r], t))
    <3>1. \A i \in DOMAIN waiters[r] : waiters[r][i] # t
      BY ONLY WaitersQueued, <2>1 DEF WaitersQueued, Queued
    <3> QED BY <3>1, AppendProperties DEF IsInjective
  <2>4. \A s \in Resource : IsInjective(waiters'[s])
    BY <1>3, <2>3 DEF AcquireWait
  <2> QED BY <1>3, <2>1, <2>2, <2>4 DEF AcquireWait
<1>4. ASSUME NEW t \in Txn, Grant(t) PROVE TypeOK'
  BY <1>4, RemoveFirstProperties DEF Grant, LeaveQueue
<1>5. ASSUME NEW t \in Txn, RaiseDoomed(t) PROVE TypeOK'
  BY <1>5, RemoveFirstProperties DEF RaiseDoomed, LeaveQueue
<1>6. ASSUME NEW t \in Txn, StartWalk(t) PROVE TypeOK'
  BY <1>6 DEF StartWalk, HoldersOtherThan
<1>7. ASSUME NEW t \in Txn, WalkBacktrack(t) PROVE TypeOK'
  <2>1. walk' \in Seq([txn : Txn, todo : SUBSET Txn])
    BY <1>7, StackProperties DEF WalkBacktrack
  <2> QED BY <1>7, <2>1 DEF WalkBacktrack
<1>8. ASSUME NEW t \in Txn, WalkFollow(t) PROVE TypeOK'
  <2> DEFINE Frame == [txn : Txn, todo : SUBSET Txn]
  <2>1. PICK h \in Last(walk).todo \ Path :
          walk' = LET rest == [walk EXCEPT ![Len(walk)].todo = @ \ {h}]
                  IN IF waitingFor[h] = NoResource THEN rest
                     ELSE Append(rest, [txn |-> h, todo |-> HoldersOtherThan(h, waitingFor[h])])
    BY <1>8 DEF WalkFollow
  <2>2. walk \in Seq(Frame) /\ Len(walk) \in DOMAIN walk /\ h \in Txn
    <3>1. walk \in Seq(Frame) /\ walk # <<>>
      BY <1>8 DEF WalkFollow
    <3>2. Len(walk) \in 1..Len(walk) /\ Last(walk) \in Frame
      <4> HIDE DEF Frame
      <4> QED BY ONLY <3>1, StackProperties
    <3>3. Last(walk).todo \subseteq Txn
      BY ONLY <3>2
    <3> QED BY <2>1, <3>1, <3>2, <3>3, LenProperties
  <2> DEFINE rest == [walk EXCEPT ![Len(walk)].todo = @ \ {h}]
  <2>3. rest \in Seq(Frame)
    <3>1. [walk[Len(walk)] EXCEPT !.todo = @ \ {h}] \in Frame
      <4>1. walk[Len(walk)] \in Frame
        <5>1. walk # <<>>
          BY <1>8 DEF WalkFollow
        <5> HIDE DEF Frame
        <5> QED BY ONLY <2>2, <5>1, StackProperties DEF Last
      <4> QED BY ONLY <4>1
    <3> QED BY <2>2, <3>1, ExceptSeq
  <2>4. [txn |-> h, todo |-> HoldersOtherThan(h, waitingFor[h])] \in Frame
    BY <2>2 DEF HoldersOtherThan
  <2>5. walk' \in Seq(Frame)
    <3> HIDE DEF rest, Frame
    <3> QED BY <2>1, <2>3, <2>4, AppendProperties DEF rest
  <2> QED BY <1>8, <2>5 DEF WalkFollow
<1>9. ASSUME NEW t \in Txn, WalkNone(t) PROVE TypeOK'
  BY <1>9 DEF WalkNone, Free
<1>10. ASSUME NEW t \in Txn, WalkSelfVictim(t) PROVE TypeOK'
  BY <1>10, RemoveFirstProperties DEF WalkSelfVictim, LeaveQueue, Free
<1>11. ASSUME NEW t \in Txn, WalkOtherVictim(t) PROVE TypeOK'
  BY <1>11 DEF WalkOtherVictim, Free
<1>12. ASSUME NEW t \in Txn, WakeOwn(t) PROVE TypeOK'
  BY <1>12 DEF WakeOwn
<1>13. ASSUME NEW t \in Txn, WakeDrop(t) PROVE TypeOK'
  BY <1>13 DEF WakeDrop, Free
<1>14. ASSUME NEW t \in Txn, WakeTarget(t) PROVE TypeOK'
  BY <1>14 DEF WakeTarget
<1>15. ASSUME NEW t \in Txn, Reacquire(t) PROVE TypeOK'
  BY <1>15 DEF Reacquire
<1>16. ASSUME NEW t \in Txn, Sleep(t) PROVE TypeOK'
  BY <1>16 DEF Sleep, Free
<1>17. ASSUME NEW t \in Txn, RaiseTimeout(t) PROVE TypeOK'
  BY <1>17, RemoveFirstProperties DEF RaiseTimeout, LeaveQueue
<1>18. ASSUME NEW t \in Txn, Unwind(t) PROVE TypeOK'
  <2>1. cond' \in [Resource -> Txn \cup {Free}]
    BY <1>18 DEF Unwind
  <2>2. waitingFor' \in [Txn -> Resource \cup {NoResource}] /\ pc' \in [Txn -> Labels]
    BY <1>18 DEF Unwind
  <2>3. request' \in [Txn -> [resource : Resource \cup {NoResource}, mode : LockMode]]
    BY <1>18 DEF Unwind
  <2>4. \A u \in Txn : pc'[u] \in Queued \cup {"unwind"} => request'[u].resource \in Resource
    BY <1>18 DEF Unwind
  <2> QED BY <1>18, <2>1, <2>2, <2>3, <2>4 DEF Unwind
<1>19. ASSUME NEW t \in Txn, Expire(t) PROVE TypeOK'
  BY <1>19 DEF Expire
<1>20. ASSUME NEW t \in Txn, StartRelease(t) PROVE TypeOK'
  BY <1>20 DEF StartRelease
<1>21. ASSUME NEW t \in Txn, NEW r \in Resource, ReleaseEntry(t, r) PROVE TypeOK'
  BY <1>21 DEF ReleaseEntry
<1>22. ASSUME NEW t \in Txn, EndRelease(t) PROVE TypeOK'
  BY <1>22 DEF EndRelease
<1> HIDE DEF TypeOK
<1> QED
  BY <1>1, <1>2, <1>3, <1>4, <1>5, <1>6, <1>7, <1>8, <1>9, <1>10, <1>11, <1>12,
     <1>13, <1>14, <1>15, <1>16, <1>17, <1>18, <1>19, <1>20, <1>21, <1>22
  DEF Next, Acquire, WaitLoop, Detour, Detect, Release

-----------------------------------------------------------------------------
(* A queue holds only transactions inside acquire() on that resource. *)
LEMMA WaitersQueuedStep ==
  ASSUME TypeOK, WaitersQueued, Next
  PROVE  WaitersQueued'
<1> USE DEF WaitersQueued, TypeOK, Labels, Queued, lockVars, graphVars,
            threadVars, Notified
<1>1. ASSUME NEW t \in Txn, NEW r \in Resource, NEW m \in LockMode,
             AcquireHeld(t, r, m)
      PROVE  WaitersQueued'
  BY <1>1 DEF AcquireHeld, Call
<1>2. ASSUME NEW t \in Txn, NEW r \in Resource, NEW m \in LockMode,
             AcquireNow(t, r, m)
      PROVE  WaitersQueued'
  BY <1>2 DEF AcquireNow, Call
<1>3. ASSUME NEW t \in Txn, NEW r \in Resource, NEW m \in LockMode,
             AcquireWait(t, r, m)
      PROVE  WaitersQueued'
  BY <1>3, AppendProperties DEF AcquireWait, Call
<1>4. ASSUME NEW t \in Txn, Grant(t) PROVE WaitersQueued'
  BY <1>4, RemoveFirstProperties DEF Grant, LeaveQueue
<1>5. ASSUME NEW t \in Txn, RaiseDoomed(t) PROVE WaitersQueued'
  BY <1>5, RemoveFirstProperties DEF RaiseDoomed, LeaveQueue
<1>6. ASSUME NEW t \in Txn, StartWalk(t) PROVE WaitersQueued'
  BY <1>6 DEF StartWalk
<1>7. ASSUME NEW t \in Txn, WalkBacktrack(t) PROVE WaitersQueued'
  BY <1>7 DEF WalkBacktrack
<1>8. ASSUME NEW t \in Txn, WalkFollow(t) PROVE WaitersQueued'
  BY <1>8 DEF WalkFollow
<1>9. ASSUME NEW t \in Txn, WalkNone(t) PROVE WaitersQueued'
  BY <1>9 DEF WalkNone
<1>10. ASSUME NEW t \in Txn, WalkSelfVictim(t) PROVE WaitersQueued'
  BY <1>10, RemoveFirstProperties DEF WalkSelfVictim, LeaveQueue
<1>11. ASSUME NEW t \in Txn, WalkOtherVictim(t) PROVE WaitersQueued'
  BY <1>11 DEF WalkOtherVictim
<1>12. ASSUME NEW t \in Txn, WakeOwn(t) PROVE WaitersQueued'
  BY <1>12 DEF WakeOwn
<1>13. ASSUME NEW t \in Txn, WakeDrop(t) PROVE WaitersQueued'
  BY <1>13 DEF WakeDrop
<1>14. ASSUME NEW t \in Txn, WakeTarget(t) PROVE WaitersQueued'
  BY <1>14 DEF WakeTarget
<1>15. ASSUME NEW t \in Txn, Reacquire(t) PROVE WaitersQueued'
  BY <1>15 DEF Reacquire
<1>16. ASSUME NEW t \in Txn, Sleep(t) PROVE WaitersQueued'
  BY <1>16 DEF Sleep
<1>17. ASSUME NEW t \in Txn, RaiseTimeout(t) PROVE WaitersQueued'
  BY <1>17, RemoveFirstProperties DEF RaiseTimeout, LeaveQueue
<1>18. ASSUME NEW t \in Txn, Unwind(t) PROVE WaitersQueued'
  BY <1>18 DEF Unwind
<1>19. ASSUME NEW t \in Txn, Expire(t) PROVE WaitersQueued'
  BY <1>19 DEF Expire
<1>20. ASSUME NEW t \in Txn, StartRelease(t) PROVE WaitersQueued'
  BY <1>20 DEF StartRelease
<1>21. ASSUME NEW t \in Txn, NEW r \in Resource, ReleaseEntry(t, r) PROVE WaitersQueued'
  BY <1>21 DEF ReleaseEntry
<1>22. ASSUME NEW t \in Txn, EndRelease(t) PROVE WaitersQueued'
  BY <1>22 DEF EndRelease
<1> QED
  BY <1>1, <1>2, <1>3, <1>4, <1>5, <1>6, <1>7, <1>8, <1>9, <1>10, <1>11, <1>12,
     <1>13, <1>14, <1>15, <1>16, <1>17, <1>18, <1>19, <1>20, <1>21, <1>22
  DEF Next, Acquire, WaitLoop, Detour, Detect, Release

(* The critical section of an entry is never entered twice. *)
LEMMA OwnsConditionStep ==
  ASSUME TypeOK, OwnsCondition, Next
  PROVE  OwnsCondition'
<1> USE DEF OwnsCondition, Owning, Free, TypeOK, Labels, Queued, lockVars,
            graphVars, threadVars, Notified
<1>1. ASSUME NEW t \in Txn, NEW r \in Resource, NEW m \in LockMode,
             AcquireHeld(t, r, m)
      PROVE  OwnsCondition'
  BY <1>1 DEF AcquireHeld, Call
<1>2. ASSUME NEW t \in Txn, NEW r \in Resource, NEW m \in LockMode,
             AcquireNow(t, r, m)
      PROVE  OwnsCondition'
  BY <1>2 DEF AcquireNow, Call
<1>3. ASSUME NEW t \in Txn, NEW r \in Resource, NEW m \in LockMode,
             AcquireWait(t, r, m)
      PROVE  OwnsCondition'
  BY <1>3, TxnAssumption DEF AcquireWait, Call
<1>4. ASSUME NEW t \in Txn, Grant(t) PROVE OwnsCondition'
  BY <1>4 DEF Grant, LeaveQueue
<1>5. ASSUME NEW t \in Txn, RaiseDoomed(t) PROVE OwnsCondition'
  BY <1>5 DEF RaiseDoomed, LeaveQueue
<1>6. ASSUME NEW t \in Txn, StartWalk(t) PROVE OwnsCondition'
  BY <1>6 DEF StartWalk
<1>7. ASSUME NEW t \in Txn, WalkBacktrack(t) PROVE OwnsCondition'
  BY <1>7 DEF WalkBacktrack
<1>8. ASSUME NEW t \in Txn, WalkFollow(t) PROVE OwnsCondition'
  BY <1>8 DEF WalkFollow
<1>9. ASSUME NEW t \in Txn, WalkNone(t) PROVE OwnsCondition'
  BY <1>9 DEF WalkNone
<1>10. ASSUME NEW t \in Txn, WalkSelfVictim(t) PROVE OwnsCondition'
  BY <1>10 DEF WalkSelfVictim, LeaveQueue
<1>11. ASSUME NEW t \in Txn, WalkOtherVictim(t) PROVE OwnsCondition'
  BY <1>11 DEF WalkOtherVictim
<1>12. ASSUME NEW t \in Txn, WakeOwn(t) PROVE OwnsCondition'
  BY <1>12 DEF WakeOwn
<1>13. ASSUME NEW t \in Txn, WakeDrop(t) PROVE OwnsCondition'
  BY <1>13 DEF WakeDrop
<1>14. ASSUME NEW t \in Txn, WakeTarget(t) PROVE OwnsCondition'
  BY <1>14 DEF WakeTarget
<1>15. ASSUME NEW t \in Txn, Reacquire(t) PROVE OwnsCondition'
  BY <1>15, TxnAssumption DEF Reacquire
<1>16. ASSUME NEW t \in Txn, Sleep(t) PROVE OwnsCondition'
  BY <1>16 DEF Sleep
<1>17. ASSUME NEW t \in Txn, RaiseTimeout(t) PROVE OwnsCondition'
  BY <1>17 DEF RaiseTimeout, LeaveQueue
<1>18. ASSUME NEW t \in Txn, Unwind(t) PROVE OwnsCondition'
  BY <1>18 DEF Unwind
<1>19. ASSUME NEW t \in Txn, Expire(t) PROVE OwnsCondition'
  BY <1>19 DEF Expire
<1>20. ASSUME NEW t \in Txn, StartRelease(t) PROVE OwnsCondition'
  BY <1>20 DEF StartRelease
<1>21. ASSUME NEW t \in Txn, NEW r \in Resource, ReleaseEntry(t, r) PROVE OwnsCondition'
  BY <1>21 DEF ReleaseEntry
<1>22. ASSUME NEW t \in Txn, EndRelease(t) PROVE OwnsCondition'
  BY <1>22 DEF EndRelease
<1> QED
  BY <1>1, <1>2, <1>3, <1>4, <1>5, <1>6, <1>7, <1>8, <1>9, <1>10, <1>11, <1>12,
     <1>13, <1>14, <1>15, <1>16, <1>17, <1>18, <1>19, <1>20, <1>21, <1>22
  DEF Next, Acquire, WaitLoop, Detour, Detect, Release

(* Whoever leaves a critical section gives its mutex back, and nobody holds
   the conditions of two entries. *)
LEMMA OwnersOnlyStep ==
  ASSUME TypeOK, OwnersOnly, Next
  PROVE  OwnersOnly'
<1> USE DEF OwnersOnly, Owning, Free, TypeOK, Labels, Queued, lockVars,
            graphVars, threadVars, Notified
<1>1. ASSUME NEW t \in Txn, NEW r \in Resource, NEW m \in LockMode,
             AcquireHeld(t, r, m)
      PROVE  OwnersOnly'
  BY <1>1, TxnAssumption DEF AcquireHeld, Call
<1>2. ASSUME NEW t \in Txn, NEW r \in Resource, NEW m \in LockMode,
             AcquireNow(t, r, m)
      PROVE  OwnersOnly'
  BY <1>2, TxnAssumption DEF AcquireNow, Call
<1>3. ASSUME NEW t \in Txn, NEW r \in Resource, NEW m \in LockMode,
             AcquireWait(t, r, m)
      PROVE  OwnersOnly'
  BY <1>3, TxnAssumption DEF AcquireWait, Call
<1>4. ASSUME NEW t \in Txn, Grant(t) PROVE OwnersOnly'
  BY <1>4, TxnAssumption DEF Grant, LeaveQueue
<1>5. ASSUME NEW t \in Txn, RaiseDoomed(t) PROVE OwnersOnly'
  BY <1>5, TxnAssumption DEF RaiseDoomed, LeaveQueue
<1>6. ASSUME NEW t \in Txn, StartWalk(t) PROVE OwnersOnly'
  BY <1>6, TxnAssumption DEF StartWalk
<1>7. ASSUME NEW t \in Txn, WalkBacktrack(t) PROVE OwnersOnly'
  BY <1>7, TxnAssumption DEF WalkBacktrack
<1>8. ASSUME NEW t \in Txn, WalkFollow(t) PROVE OwnersOnly'
  BY <1>8, TxnAssumption DEF WalkFollow
<1>9. ASSUME NEW t \in Txn, WalkNone(t) PROVE OwnersOnly'
  BY <1>9, TxnAssumption DEF WalkNone
<1>10. ASSUME NEW t \in Txn, WalkSelfVictim(t) PROVE OwnersOnly'
  BY <1>10, TxnAssumption DEF WalkSelfVictim, LeaveQueue
<1>11. ASSUME NEW t \in Txn, WalkOtherVictim(t) PROVE OwnersOnly'
  BY <1>11, TxnAssumption DEF WalkOtherVictim
<1>12. ASSUME NEW t \in Txn, WakeOwn(t) PROVE OwnersOnly'
  BY <1>12, TxnAssumption DEF WakeOwn
<1>13. ASSUME NEW t \in Txn, WakeDrop(t) PROVE OwnersOnly'
  BY <1>13, TxnAssumption DEF WakeDrop
<1>14. ASSUME NEW t \in Txn, WakeTarget(t) PROVE OwnersOnly'
  BY <1>14, TxnAssumption DEF WakeTarget
<1>15. ASSUME NEW t \in Txn, Reacquire(t) PROVE OwnersOnly'
  BY <1>15, TxnAssumption DEF Reacquire
<1>16. ASSUME NEW t \in Txn, Sleep(t) PROVE OwnersOnly'
  BY <1>16, TxnAssumption DEF Sleep
<1>17. ASSUME NEW t \in Txn, RaiseTimeout(t) PROVE OwnersOnly'
  BY <1>17, TxnAssumption DEF RaiseTimeout, LeaveQueue
<1>18. ASSUME NEW t \in Txn, Unwind(t) PROVE OwnersOnly'
  BY <1>18, TxnAssumption DEF Unwind
<1>19. ASSUME NEW t \in Txn, Expire(t) PROVE OwnersOnly'
  BY <1>19, TxnAssumption DEF Expire
<1>20. ASSUME NEW t \in Txn, StartRelease(t) PROVE OwnersOnly'
  BY <1>20, TxnAssumption DEF StartRelease
<1>21. ASSUME NEW t \in Txn, NEW r \in Resource, ReleaseEntry(t, r) PROVE OwnersOnly'
  BY <1>21, TxnAssumption DEF ReleaseEntry
<1>22. ASSUME NEW t \in Txn, EndRelease(t) PROVE OwnersOnly'
  BY <1>22, TxnAssumption DEF EndRelease
<1> QED
  BY <1>1, <1>2, <1>3, <1>4, <1>5, <1>6, <1>7, <1>8, <1>9, <1>10, <1>11, <1>12,
     <1>13, <1>14, <1>15, <1>16, <1>17, <1>18, <1>19, <1>20, <1>21, <1>22
  DEF Next, Acquire, WaitLoop, Detour, Detect, Release

(* Nothing becomes grantable behind the back of a thread that has decided to
   sleep or is asleep: whoever changes the entry owns its condition and
   notifies. *)
LEMMA NotGrantableStep ==
  ASSUME TypeOK, OwnsCondition, NotGrantableYet, Next
  PROVE  NotGrantableYet'
<1> USE DEF NotGrantableYet, OwnsCondition, Owning, Free, Grantable,
            Compatible, TypeOK, Labels, Queued, lockVars, graphVars,
            threadVars, Notified
<1>1. ASSUME NEW t \in Txn, NEW r \in Resource, NEW m \in LockMode,
             AcquireHeld(t, r, m)
      PROVE  NotGrantableYet'
  BY <1>1, TxnAssumption DEF AcquireHeld, Call
<1>2. ASSUME NEW t \in Txn, NEW r \in Resource, NEW m \in LockMode,
             AcquireNow(t, r, m)
      PROVE  NotGrantableYet'
  <2> SUFFICES ASSUME NEW u \in Txn, pc'[u] \in {"walk", "deadline", "asleep"}
               PROVE  ~Grantable(u, request[u].resource, request[u].mode)'
    BY <1>2 DEF AcquireNow
  <2>1. pc'[u] = pc[u] /\ ~(pc[u] = "asleep" /\ request[u].resource = r)
    BY <1>2 DEF AcquireNow
  <2>2. request[u].resource # r
    BY <1>2, <2>1, TxnAssumption DEF AcquireNow, Call
  <2>3. /\ request' = request /\ waiters' = waiters
        /\ holders'[request[u].resource] = holders[request[u].resource]
    BY <1>2, <2>1, <2>2 DEF AcquireNow
  <2> QED BY <2>1, <2>3
<1>3. ASSUME NEW t \in Txn, NEW r \in Resource, NEW m \in LockMode,
             AcquireWait(t, r, m)
      PROVE  NotGrantableYet'
  BY <1>3, TxnAssumption DEF AcquireWait, Call
<1>4. ASSUME NEW t \in Txn, Grant(t) PROVE NotGrantableYet'
  BY <1>4, TxnAssumption DEF Grant, LeaveQueue
<1>5. ASSUME NEW t \in Txn, RaiseDoomed(t) PROVE NotGrantableYet'
  BY <1>5, TxnAssumption DEF RaiseDoomed, LeaveQueue
<1>6. ASSUME NEW t \in Txn, StartWalk(t) PROVE NotGrantableYet'
  BY <1>6, TxnAssumption DEF StartWalk
<1>7. ASSUME NEW t \in Txn, WalkBacktrack(t) PROVE NotGrantableYet'
  BY <1>7, TxnAssumption DEF WalkBacktrack
<1>8. ASSUME NEW t \in Txn, WalkFollow(t) PROVE NotGrantableYet'
  BY <1>8, TxnAssumption DEF WalkFollow
<1>9. ASSUME NEW t \in Txn, WalkNone(t) PROVE NotGrantableYet'
  BY <1>9, TxnAssumption DEF WalkNone
<1>10. ASSUME NEW t \in Txn, WalkSelfVictim(t) PROVE NotGrantableYet'
  <2> SUFFICES ASSUME NEW u \in Txn, pc'[u] \in {"walk", "deadline", "asleep"}
               PROVE  ~Grantable(u, request[u].resource, request[u].mode)'
    BY <1>10 DEF WalkSelfVictim, LeaveQueue
  <2>1. pc'[u] = pc[u] /\ u # t /\ ~(pc[u] = "asleep" /\ request[u].resource = request[t].resource)
    BY <1>10 DEF WalkSelfVictim, LeaveQueue
  <2>2. request[u].resource # request[t].resource
    BY <1>10, <2>1, TxnAssumption DEF WalkSelfVictim
  <2>3. /\ request' = request
        /\ holders'[request[u].resource] = holders[request[u].resource]
        /\ waiters'[request[u].resource] = waiters[request[u].resource]
    BY <1>10, <2>1, <2>2 DEF WalkSelfVictim, LeaveQueue
  <2> QED BY <2>1, <2>3
<1>11. ASSUME NEW t \in Txn, WalkOtherVictim(t) PROVE NotGrantableYet'
  BY <1>11, TxnAssumption DEF WalkOtherVictim
<1>12. ASSUME NEW t \in Txn, WakeOwn(t) PROVE NotGrantableYet'
  BY <1>12, TxnAssumption DEF WakeOwn
<1>13. ASSUME NEW t \in Txn, WakeDrop(t) PROVE NotGrantableYet'
  BY <1>13, TxnAssumption DEF WakeDrop
<1>14. ASSUME NEW t \in Txn, WakeTarget(t) PROVE NotGrantableYet'
  BY <1>14, TxnAssumption DEF WakeTarget
<1>15. ASSUME NEW t \in Txn, Reacquire(t) PROVE NotGrantableYet'
  BY <1>15, TxnAssumption DEF Reacquire
<1>16. ASSUME NEW t \in Txn, Sleep(t) PROVE NotGrantableYet'
  BY <1>16, TxnAssumption DEF Sleep
<1>17. ASSUME NEW t \in Txn, RaiseTimeout(t) PROVE NotGrantableYet'
  BY <1>17, TxnAssumption DEF RaiseTimeout, LeaveQueue
<1>18. ASSUME NEW t \in Txn, Unwind(t) PROVE NotGrantableYet'
  BY <1>18, TxnAssumption DEF Unwind
<1>19. ASSUME NEW t \in Txn, Expire(t) PROVE NotGrantableYet'
  BY <1>19, TxnAssumption DEF Expire
<1>20. ASSUME NEW t \in Txn, StartRelease(t) PROVE NotGrantableYet'
  BY <1>20, TxnAssumption DEF StartRelease
<1>21. ASSUME NEW t \in Txn, NEW r \in Resource, ReleaseEntry(t, r) PROVE NotGrantableYet'
  <2>1. CASE holders[r][t] = NoLock
    <3>1. pc' = pc /\ request' = request /\ waiters' = waiters
      BY <1>21, <2>1 DEF ReleaseEntry
    <3>2. \A s \in Resource, u \in Txn : holders'[s][u] = holders[s][u]
      BY <1>21, <2>1 DEF ReleaseEntry
    <3>3. \A u \in Txn : pc[u] \in {"walk", "deadline", "asleep"}
                          => request[u].resource \in Resource
      OBVIOUS
    <3> QED BY ONLY NotGrantableYet, <3>1, <3>2, <3>3 DEF NotGrantableYet, Grantable
  <2>2. CASE holders[r][t] # NoLock
    <3> SUFFICES ASSUME NEW u \in Txn, pc'[u] \in {"walk", "deadline", "asleep"}
                 PROVE  ~Grantable(u, request[u].resource, request[u].mode)'
      BY <1>21 DEF ReleaseEntry
    <3>1. pc'[u] = pc[u] /\ ~(pc[u] = "asleep" /\ request[u].resource = r)
      BY <1>21, <2>2 DEF ReleaseEntry
    <3>2. request[u].resource # r
      BY <1>21, <3>1, TxnAssumption DEF ReleaseEntry
    <3>3. /\ request' = request /\ waiters' = waiters
          /\ holders'[request[u].resource] = holders[request[u].resource]
      BY <1>21, <3>1, <3>2 DEF ReleaseEntry
    <3> QED BY <3>1, <3>3
  <2> QED BY <2>1, <2>2
<1>22. ASSUME NEW t \in Txn, EndRelease(t) PROVE NotGrantableYet'
  BY <1>22, TxnAssumption DEF EndRelease
<1> QED
  BY <1>1, <1>2, <1>3, <1>4, <1>5, <1>6, <1>7, <1>8, <1>9, <1>10, <1>11, <1>12,
     <1>13, <1>14, <1>15, <1>16, <1>17, <1>18, <1>19, <1>20, <1>21, <1>22
  DEF Next, Acquire, WaitLoop, Detour, Detect, Release

(* Only a transaction itself changes the mode it holds. *)
LEMMA NotSufficientStep ==
  ASSUME TypeOK, NotSufficient, Next
  PROVE  NotSufficient'
<1> USE DEF NotSufficient, Sufficient, LockMode, NoLock, TypeOK, Labels,
            Queued, lockVars, graphVars, threadVars, Notified
<1>1. ASSUME NEW t \in Txn, NEW r \in Resource, NEW m \in LockMode,
             AcquireHeld(t, r, m)
      PROVE  NotSufficient'
  BY <1>1 DEF AcquireHeld, Call
<1>2. ASSUME NEW t \in Txn, NEW r \in Resource, NEW m \in LockMode,
             AcquireNow(t, r, m)
      PROVE  NotSufficient'
  BY <1>2 DEF AcquireNow, Call
<1>3. ASSUME NEW t \in Txn, NEW r \in Resource, NEW m \in LockMode,
             AcquireWait(t, r, m)
      PROVE  NotSufficient'
  BY <1>3 DEF AcquireWait, Call
<1>4. ASSUME NEW t \in Txn, Grant(t) PROVE NotSufficient'
  BY <1>4 DEF Grant, LeaveQueue
<1>5. ASSUME NEW t \in Txn, RaiseDoomed(t) PROVE NotSufficient'
  BY <1>5 DEF RaiseDoomed, LeaveQueue
<1>6. ASSUME NEW t \in Txn, StartWalk(t) PROVE NotSufficient'
  BY <1>6 DEF StartWalk
<1>7. ASSUME NEW t \in Txn, WalkBacktrack(t) PROVE NotSufficient'
  BY <1>7 DEF WalkBacktrack
<1>8. ASSUME NEW t \in Txn, WalkFollow(t) PROVE NotSufficient'
  BY <1>8 DEF WalkFollow
<1>9. ASSUME NEW t \in Txn, WalkNone(t) PROVE NotSufficient'
  BY <1>9 DEF WalkNone
<1>10. ASSUME NEW t \in Txn, WalkSelfVictim(t) PROVE NotSufficient'
  BY <1>10 DEF WalkSelfVictim, LeaveQueue
<1>11. ASSUME NEW t \in Txn, WalkOtherVictim(t) PROVE NotSufficient'
  BY <1>11 DEF WalkOtherVictim
<1>12. ASSUME NEW t \in Txn, WakeOwn(t) PROVE NotSufficient'
  BY <1>12 DEF WakeOwn
<1>13. ASSUME NEW t \in Txn, WakeDrop(t) PROVE NotSufficient'
  BY <1>13 DEF WakeDrop
<1>14. ASSUME NEW t \in Txn, WakeTarget(t) PROVE NotSufficient'
  BY <1>14 DEF WakeTarget
<1>15. ASSUME NEW t \in Txn, Reacquire(t) PROVE NotSufficient'
  BY <1>15 DEF Reacquire
<1>16. ASSUME NEW t \in Txn, Sleep(t) PROVE NotSufficient'
  BY <1>16 DEF Sleep
<1>17. ASSUME NEW t \in Txn, RaiseTimeout(t) PROVE NotSufficient'
  BY <1>17 DEF RaiseTimeout, LeaveQueue
<1>18. ASSUME NEW t \in Txn, Unwind(t) PROVE NotSufficient'
  BY <1>18 DEF Unwind
<1>19. ASSUME NEW t \in Txn, Expire(t) PROVE NotSufficient'
  BY <1>19 DEF Expire
<1>20. ASSUME NEW t \in Txn, StartRelease(t) PROVE NotSufficient'
  BY <1>20 DEF StartRelease
<1>21. ASSUME NEW t \in Txn, NEW r \in Resource, ReleaseEntry(t, r) PROVE NotSufficient'
  BY <1>21 DEF ReleaseEntry
<1>22. ASSUME NEW t \in Txn, EndRelease(t) PROVE NotSufficient'
  BY <1>22 DEF EndRelease
<1> QED
  BY <1>1, <1>2, <1>3, <1>4, <1>5, <1>6, <1>7, <1>8, <1>9, <1>10, <1>11, <1>12,
     <1>13, <1>14, <1>15, <1>16, <1>17, <1>18, <1>19, <1>20, <1>21, <1>22
  DEF Next, Acquire, WaitLoop, Detour, Detect, Release

(* A lock is granted only next to compatible ones. *)
LEMMA HoldersCompatibleStep ==
  ASSUME TypeOK, HoldersCompatible, Next
  PROVE  HoldersCompatible'
<1> USE DEF HoldersCompatible, Grantable, Compatible, LockMode, NoLock,
            TypeOK, Labels, Queued, lockVars, graphVars, threadVars, Notified
<1>1. ASSUME NEW t \in Txn, NEW r \in Resource, NEW m \in LockMode,
             AcquireHeld(t, r, m)
      PROVE  HoldersCompatible'
  BY <1>1 DEF AcquireHeld, Call
<1>2. ASSUME NEW t \in Txn, NEW r \in Resource, NEW m \in LockMode,
             AcquireNow(t, r, m)
      PROVE  HoldersCompatible'
  BY <1>2 DEF AcquireNow, Call
<1>3. ASSUME NEW t \in Txn, NEW r \in Resource, NEW m \in LockMode,
             AcquireWait(t, r, m)
      PROVE  HoldersCompatible'
  BY <1>3 DEF AcquireWait, Call
<1>4. ASSUME NEW t \in Txn, Grant(t) PROVE HoldersCompatible'
  BY <1>4 DEF Grant, LeaveQueue
<1>5. ASSUME NEW t \in Txn, RaiseDoomed(t) PROVE HoldersCompatible'
  BY <1>5 DEF RaiseDoomed, LeaveQueue
<1>6. ASSUME NEW t \in Txn, StartWalk(t) PROVE HoldersCompatible'
  BY <1>6 DEF StartWalk
<1>7. ASSUME NEW t \in Txn, WalkBacktrack(t) PROVE HoldersCompatible'
  BY <1>7 DEF WalkBacktrack
<1>8. ASSUME NEW t \in Txn, WalkFollow(t) PROVE HoldersCompatible'
  BY <1>8 DEF WalkFollow
<1>9. ASSUME NEW t \in Txn, WalkNone(t) PROVE HoldersCompatible'
  BY <1>9 DEF WalkNone
<1>10. ASSUME NEW t \in Txn, WalkSelfVictim(t) PROVE HoldersCompatible'
  BY <1>10 DEF WalkSelfVictim, LeaveQueue
<1>11. ASSUME NEW t \in Txn, WalkOtherVictim(t) PROVE HoldersCompatible'
  BY <1>11 DEF WalkOtherVictim
<1>12. ASSUME NEW t \in Txn, WakeOwn(t) PROVE HoldersCompatible'
  BY <1>12 DEF WakeOwn
<1>13. ASSUME NEW t \in Txn, WakeDrop(t) PROVE HoldersCompatible'
  BY <1>13 DEF WakeDrop
<1>14. ASSUME NEW t \in Txn, WakeTarget(t) PROVE HoldersCompatible'
  BY <1>14 DEF WakeTarget
<1>15. ASSUME NEW t \in Txn, Reacquire(t) PROVE HoldersCompatible'
  BY <1>15 DEF Reacquire
<1>16. ASSUME NEW t \in Txn, Sleep(t) PROVE HoldersCompatible'
  BY <1>16 DEF Sleep
<1>17. ASSUME NEW t \in Txn, RaiseTimeout(t) PROVE HoldersCompatible'
  BY <1>17 DEF RaiseTimeout, LeaveQueue
<1>18. ASSUME NEW t \in Txn, Unwind(t) PROVE HoldersCompatible'
  BY <1>18 DEF Unwind
<1>19. ASSUME NEW t \in Txn, Expire(t) PROVE HoldersCompatible'
  BY <1>19 DEF Expire
<1>20. ASSUME NEW t \in Txn, StartRelease(t) PROVE HoldersCompatible'
  BY <1>20 DEF StartRelease
<1>21. ASSUME NEW t \in Txn, NEW r \in Resource, ReleaseEntry(t, r) PROVE HoldersCompatible'
  BY <1>21 DEF ReleaseEntry
<1>22. ASSUME NEW t \in Txn, EndRelease(t) PROVE HoldersCompatible'
  BY <1>22 DEF EndRelease
<1> QED
  BY <1>1, <1>2, <1>3, <1>4, <1>5, <1>6, <1>7, <1>8, <1>9, <1>10, <1>11, <1>12,
     <1>13, <1>14, <1>15, <1>16, <1>17, <1>18, <1>19, <1>20, <1>21, <1>22
  DEF Next, Acquire, WaitLoop, Detour, Detect, Release

(* The detection walk has the latch to itself, so nobody dooms the walker. *)
LEMMA WalkUnderLatchStep ==
  ASSUME TypeOK, WalkUnderLatch, Next
  PROVE  WalkUnderLatch'
<1> USE DEF WalkUnderLatch, Free, TypeOK, Labels, Queued, lockVars, graphVars,
            threadVars, Notified
<1>1. ASSUME NEW t \in Txn, NEW r \in Resource, NEW m \in LockMode,
             AcquireHeld(t, r, m)
      PROVE  WalkUnderLatch'
  BY <1>1, TxnAssumption DEF AcquireHeld, Call
<1>2. ASSUME NEW t \in Txn, NEW r \in Resource, NEW m \in LockMode,
             AcquireNow(t, r, m)
      PROVE  WalkUnderLatch'
  BY <1>2, TxnAssumption DEF AcquireNow, Call
<1>3. ASSUME NEW t \in Txn, NEW r \in Resource, NEW m \in LockMode,
             AcquireWait(t, r, m)
      PROVE  WalkUnderLatch'
  BY <1>3, TxnAssumption DEF AcquireWait, Call
<1>4. ASSUME NEW t \in Txn, Grant(t) PROVE WalkUnderLatch'
  BY <1>4, TxnAssumption DEF Grant, LeaveQueue
<1>5. ASSUME NEW t \in Txn, RaiseDoomed(t) PROVE WalkUnderLatch'
  BY <1>5, TxnAssumption DEF RaiseDoomed, LeaveQueue
<1>6. ASSUME NEW t \in Txn, StartWalk(t) PROVE WalkUnderLatch'
  BY <1>6, TxnAssumption DEF StartWalk
<1>7. ASSUME NEW t \in Txn, WalkBacktrack(t) PROVE WalkUnderLatch'
  BY <1>7, TxnAssumption DEF WalkBacktrack
<1>8. ASSUME NEW t \in Txn, WalkFollow(t) PROVE WalkUnderLatch'
  BY <1>8, TxnAssumption DEF WalkFollow
<1>9. ASSUME NEW t \in Txn, WalkNone(t) PROVE WalkUnderLatch'
  BY <1>9, TxnAssumption DEF WalkNone
<1>10. ASSUME NEW t \in Txn, WalkSelfVictim(t) PROVE WalkUnderLatch'
  BY <1>10, TxnAssumption DEF WalkSelfVictim, LeaveQueue
<1>11. ASSUME NEW t \in Txn, WalkOtherVictim(t) PROVE WalkUnderLatch'
  BY <1>11, TxnAssumption DEF WalkOtherVictim
<1>12. ASSUME NEW t \in Txn, WakeOwn(t) PROVE WalkUnderLatch'
  BY <1>12, TxnAssumption DEF WakeOwn
<1>13. ASSUME NEW t \in Txn, WakeDrop(t) PROVE WalkUnderLatch'
  BY <1>13, TxnAssumption DEF WakeDrop
<1>14. ASSUME NEW t \in Txn, WakeTarget(t) PROVE WalkUnderLatch'
  BY <1>14, TxnAssumption DEF WakeTarget
<1>15. ASSUME NEW t \in Txn, Reacquire(t) PROVE WalkUnderLatch'
  BY <1>15, TxnAssumption DEF Reacquire
<1>16. ASSUME NEW t \in Txn, Sleep(t) PROVE WalkUnderLatch'
  BY <1>16, TxnAssumption DEF Sleep
<1>17. ASSUME NEW t \in Txn, RaiseTimeout(t) PROVE WalkUnderLatch'
  BY <1>17, TxnAssumption DEF RaiseTimeout, LeaveQueue
<1>18. ASSUME NEW t \in Txn, Unwind(t) PROVE WalkUnderLatch'
  BY <1>18, TxnAssumption DEF Unwind
<1>19. ASSUME NEW t \in Txn, Expire(t) PROVE WalkUnderLatch'
  BY <1>19, TxnAssumption DEF Expire
<1>20. ASSUME NEW t \in Txn, StartRelease(t) PROVE WalkUnderLatch'
  BY <1>20, TxnAssumption DEF StartRelease
<1>21. ASSUME NEW t \in Txn, NEW r \in Resource, ReleaseEntry(t, r) PROVE WalkUnderLatch'
  BY <1>21, TxnAssumption DEF ReleaseEntry
<1>22. ASSUME NEW t \in Txn, EndRelease(t) PROVE WalkUnderLatch'
  BY <1>22, TxnAssumption DEF EndRelease
<1> QED
  BY <1>1, <1>2, <1>3, <1>4, <1>5, <1>6, <1>7, <1>8, <1>9, <1>10, <1>11, <1>12,
     <1>13, <1>14, <1>15, <1>16, <1>17, <1>18, <1>19, <1>20, <1>21, <1>22
  DEF Next, Acquire, WaitLoop, Detour, Detect, Release

(* A transaction on the walk's path goes on waiting until the latch is free. *)
LEMMA WalkPathStep ==
  ASSUME TypeOK, WalkUnderLatch, WalkPath, Next
  PROVE  WalkPath'
<1> USE DEF WalkPath, WalkUnderLatch, TypeOK, Labels, Queued, lockVars,
            graphVars, threadVars, Notified
<1>1. ASSUME NEW t \in Txn, NEW r \in Resource, NEW m \in LockMode,
             AcquireHeld(t, r, m)
      PROVE  WalkPath'
  BY <1>1 DEF AcquireHeld, Call
<1>2. ASSUME NEW t \in Txn, NEW r \in Resource, NEW m \in LockMode,
             AcquireNow(t, r, m)
      PROVE  WalkPath'
  BY <1>2 DEF AcquireNow, Call
<1>3. ASSUME NEW t \in Txn, NEW r \in Resource, NEW m \in LockMode,
             AcquireWait(t, r, m)
      PROVE  WalkPath'
  BY <1>3 DEF AcquireWait, Call
<1>4. ASSUME NEW t \in Txn, Grant(t) PROVE WalkPath'
  BY <1>4 DEF Grant, LeaveQueue
<1>5. ASSUME NEW t \in Txn, RaiseDoomed(t) PROVE WalkPath'
  BY <1>5 DEF RaiseDoomed, LeaveQueue
<1>6. ASSUME NEW t \in Txn, StartWalk(t) PROVE WalkPath'
  <2>1. walk' = <<[txn |-> t, todo |-> HoldersOtherThan(t, request[t].resource)]>>
    BY <1>6 DEF StartWalk
  <2>2. t \notin HoldersOtherThan(t, request[t].resource)
    BY DEF HoldersOtherThan
  <2>3. waitingFor'[t] # NoResource
    BY <1>6, ResourceAssumption DEF StartWalk
  <2> QED BY <2>1, <2>2, <2>3
<1>7. ASSUME NEW t \in Txn, WalkBacktrack(t) PROVE WalkPath'
  <2>1. walk' = Front(walk) /\ walk # <<>> /\ waitingFor' = waitingFor
    BY <1>7 DEF WalkBacktrack
  <2> DEFINE Frame == [txn : Txn, todo : SUBSET Txn]
  <2>2. walk \in Seq(Frame)
    OBVIOUS
  <2> HIDE DEF Frame
  <2>3. /\ Front(walk) \in Seq(Frame) /\ Len(Front(walk)) = Len(walk) - 1
        /\ \A i \in 1..Len(walk) - 1 : Front(walk)[i] = walk[i]
    BY ONLY <2>1, <2>2, StackProperties
  <2>4. DOMAIN Front(walk) = 1..Len(walk) - 1 /\ DOMAIN walk = 1..Len(walk) /\ Len(walk) \in Nat
    BY ONLY <2>2, <2>3, LenProperties
  <2> QED BY ONLY WalkPath, <2>1, <2>3, <2>4 DEF WalkPath
<1>8. ASSUME NEW t \in Txn, WalkFollow(t) PROVE WalkPath'
  <2> DEFINE Frame == [txn : Txn, todo : SUBSET Txn]
  <2>1. PICK h \in Last(walk).todo \ Path :
          walk' = LET rest == [walk EXCEPT ![Len(walk)].todo = @ \ {h}]
                  IN IF waitingFor[h] = NoResource THEN rest
                     ELSE Append(rest, [txn |-> h, todo |-> HoldersOtherThan(h, waitingFor[h])])
    BY <1>8 DEF WalkFollow
  <2> DEFINE rest == [walk EXCEPT ![Len(walk)].todo = @ \ {h}]
             top == [txn |-> h, todo |-> HoldersOtherThan(h, waitingFor[h])]
  <2>2. walk \in Seq(Frame) /\ walk # <<>> /\ waitingFor' = waitingFor
    BY <1>8 DEF WalkFollow
  <2>3. Len(walk) \in 1..Len(walk) /\ DOMAIN walk = 1..Len(walk) /\ Last(walk) \in Frame
    <3> HIDE DEF Frame
    <3> QED BY ONLY <2>2, StackProperties, LenProperties
  <2>4. /\ h \in Txn
        /\ [walk[Len(walk)] EXCEPT !.todo = @ \ {h}] \in Frame
    BY ONLY <2>1, <2>3 DEF Last
  <2>5. rest \in Seq(Frame) /\ DOMAIN rest = DOMAIN walk
    BY ONLY <2>2, <2>3, <2>4, ExceptSeq
  <2>6. \A i \in DOMAIN rest :
          /\ waitingFor[rest[i].txn] # NoResource
          /\ rest[i].txn \notin rest[i].todo
    <3> TAKE i \in DOMAIN rest
    <3>1. walk[i] \in Frame
      <4> HIDE DEF Frame
      <4> QED BY ONLY <2>2, <2>5, i \in DOMAIN rest, ElementOfSeq, LenProperties
    <3>2. rest[i].txn = walk[i].txn /\ rest[i].todo \subseteq walk[i].todo
      BY ONLY <2>3, <2>5, <3>1
    <3> QED BY ONLY WalkPath, <2>5, <3>2 DEF WalkPath
  <2>7. top \in Frame /\ top.txn = h /\ top.txn \notin top.todo
    BY ONLY <2>4 DEF HoldersOtherThan
  <2>8. CASE waitingFor[h] = NoResource
    <3> HIDE DEF rest
    <3>1. walk' = rest
      BY <2>1, <2>8 DEF rest
    <3> QED BY ONLY <2>2, <2>6, <3>1 DEF WalkPath
  <2>9. CASE waitingFor[h] # NoResource
    <3> HIDE DEF rest, top, Frame
    <3>1. walk' = Append(rest, top)
      BY <2>1, <2>9 DEF rest, top
    <3>2. /\ DOMAIN walk' = 1..Len(rest) + 1 /\ DOMAIN rest = 1..Len(rest) /\ Len(rest) \in Nat
          /\ \A i \in 1..Len(rest) : walk'[i] = rest[i]
          /\ walk'[Len(rest) + 1] = top
      BY ONLY <2>5, <2>7, <3>1, AppendProperties, LenProperties
    <3> QED BY ONLY <2>2, <2>6, <2>7, <2>9, <3>2 DEF WalkPath
  <2> QED BY ONLY <2>8, <2>9
<1>9. ASSUME NEW t \in Txn, WalkNone(t) PROVE WalkPath'
  BY <1>9 DEF WalkNone
<1>10. ASSUME NEW t \in Txn, WalkSelfVictim(t) PROVE WalkPath'
  BY <1>10 DEF WalkSelfVictim, LeaveQueue
<1>11. ASSUME NEW t \in Txn, WalkOtherVictim(t) PROVE WalkPath'
  BY <1>11 DEF WalkOtherVictim
<1>12. ASSUME NEW t \in Txn, WakeOwn(t) PROVE WalkPath'
  BY <1>12 DEF WakeOwn
<1>13. ASSUME NEW t \in Txn, WakeDrop(t) PROVE WalkPath'
  BY <1>13 DEF WakeDrop
<1>14. ASSUME NEW t \in Txn, WakeTarget(t) PROVE WalkPath'
  BY <1>14 DEF WakeTarget
<1>15. ASSUME NEW t \in Txn, Reacquire(t) PROVE WalkPath'
  BY <1>15 DEF Reacquire
<1>16. ASSUME NEW t \in Txn, Sleep(t) PROVE WalkPath'
  BY <1>16 DEF Sleep
<1>17. ASSUME NEW t \in Txn, RaiseTimeout(t) PROVE WalkPath'
  BY <1>17 DEF RaiseTimeout, LeaveQueue
<1>18. ASSUME NEW t \in Txn, Unwind(t) PROVE WalkPath'
  <2>1. walk = <<>> /\ walk' = walk
    BY <1>18 DEF Unwind
  <2> QED BY ONLY <2>1 DEF WalkPath
<1>19. ASSUME NEW t \in Txn, Expire(t) PROVE WalkPath'
  BY <1>19 DEF Expire
<1>20. ASSUME NEW t \in Txn, StartRelease(t) PROVE WalkPath'
  BY <1>20 DEF StartRelease
<1>21. ASSUME NEW t \in Txn, NEW r \in Resource, ReleaseEntry(t, r) PROVE WalkPath'
  BY <1>21 DEF ReleaseEntry
<1>22. ASSUME NEW t \in Txn, EndRelease(t) PROVE WalkPath'
  <2>1. walk = <<>> /\ walk' = walk
    BY <1>22 DEF EndRelease
  <2> QED BY ONLY <2>1 DEF WalkPath
<1> QED
  BY <1>1, <1>2, <1>3, <1>4, <1>5, <1>6, <1>7, <1>8, <1>9, <1>10, <1>11, <1>12,
     <1>13, <1>14, <1>15, <1>16, <1>17, <1>18, <1>19, <1>20, <1>21, <1>22
  DEF Next, Acquire, WaitLoop, Detour, Detect, Release

(* What closing a loop on the walk's path gives: members that all wait, and
   more than one of them. *)
LEMMA CycleProperties ==
  ASSUME TypeOK, WalkPath, walk # <<>>, NEW h \in Last(walk).todo \cap Path
  PROVE  /\ Cycle(h) \subseteq Txn
         /\ \A u \in Cycle(h) : waitingFor[u] # NoResource
         /\ \E u, v \in Cycle(h) : u # v
<1> DEFINE Frame == [txn : Txn, todo : SUBSET Txn]
<1>1. walk \in Seq(Frame)
  BY DEF TypeOK
<1>2. Len(walk) \in 1..Len(walk) /\ DOMAIN walk = 1..Len(walk)
  <2> HIDE DEF Frame
  <2> QED BY ONLY <1>1, walk # <<>>, StackProperties, LenProperties
<1>3. \A k \in DOMAIN walk : walk[k] \in Frame /\ walk[k].txn \in Txn
  <2>1. \A k \in DOMAIN walk : walk[k] \in Frame
    <3> HIDE DEF Frame
    <3> QED BY ONLY <1>1, <1>2, ElementOfSeq
  <2> QED BY ONLY <2>1
<1> DEFINE i == CHOOSE k \in DOMAIN walk : walk[k].txn = h
<1>4. i \in DOMAIN walk /\ walk[i].txn = h
  <2>1. \E k \in DOMAIN walk : walk[k].txn = h
    BY DEF Path
  <2> QED BY ONLY <2>1
<1>5. Cycle(h) = {walk[k].txn : k \in i..Len(walk)}
  BY DEF Cycle
<1> HIDE DEF i, Frame
<1>6. i..Len(walk) \subseteq DOMAIN walk /\ i \in i..Len(walk) /\ Len(walk) \in i..Len(walk)
  BY ONLY <1>2, <1>4
<1>7. h # walk[Len(walk)].txn
  <2>1. walk[Len(walk)].txn \notin walk[Len(walk)].todo
    BY <1>2 DEF WalkPath
  <2> QED BY <2>1 DEF Last
<1>8. h \in Cycle(h) /\ walk[Len(walk)].txn \in Cycle(h)
  BY ONLY <1>4, <1>5, <1>6
<1> QED BY ONLY WalkPath, <1>3, <1>5, <1>6, <1>7, <1>8 DEF WalkPath

(* A thread on its way to wake a victim knows the entry the victim waits on. *)
LEMMA WakerKnowsTargetStep ==
  ASSUME TypeOK, WalkUnderLatch, WalkPath, WakerKnowsTarget, Next
  PROVE  WakerKnowsTarget'
<1> USE DEF WakerKnowsTarget, Free, TypeOK, Labels, Queued, lockVars,
            graphVars, threadVars, Notified
<1>1. ASSUME NEW t \in Txn, NEW r \in Resource, NEW m \in LockMode,
             AcquireHeld(t, r, m)
      PROVE  WakerKnowsTarget'
  BY <1>1, TxnAssumption DEF AcquireHeld, Call
<1>2. ASSUME NEW t \in Txn, NEW r \in Resource, NEW m \in LockMode,
             AcquireNow(t, r, m)
      PROVE  WakerKnowsTarget'
  BY <1>2, TxnAssumption DEF AcquireNow, Call
<1>3. ASSUME NEW t \in Txn, NEW r \in Resource, NEW m \in LockMode,
             AcquireWait(t, r, m)
      PROVE  WakerKnowsTarget'
  BY <1>3, TxnAssumption DEF AcquireWait, Call
<1>4. ASSUME NEW t \in Txn, Grant(t) PROVE WakerKnowsTarget'
  BY <1>4, TxnAssumption DEF Grant, LeaveQueue
<1>5. ASSUME NEW t \in Txn, RaiseDoomed(t) PROVE WakerKnowsTarget'
  BY <1>5, TxnAssumption DEF RaiseDoomed, LeaveQueue
<1>6. ASSUME NEW t \in Txn, StartWalk(t) PROVE WakerKnowsTarget'
  BY <1>6, TxnAssumption DEF StartWalk
<1>7. ASSUME NEW t \in Txn, WalkBacktrack(t) PROVE WakerKnowsTarget'
  BY <1>7, TxnAssumption DEF WalkBacktrack
<1>8. ASSUME NEW t \in Txn, WalkFollow(t) PROVE WakerKnowsTarget'
  BY <1>8, TxnAssumption DEF WalkFollow
<1>9. ASSUME NEW t \in Txn, WalkNone(t) PROVE WakerKnowsTarget'
  BY <1>9, TxnAssumption DEF WalkNone
<1>10. ASSUME NEW t \in Txn, WalkSelfVictim(t) PROVE WakerKnowsTarget'
  BY <1>10, TxnAssumption DEF WalkSelfVictim, LeaveQueue
<1>11. ASSUME NEW t \in Txn, WalkOtherVictim(t) PROVE WakerKnowsTarget'
  <2>1. PICK h \in Last(walk).todo \cap Path, v \in Txn \ {t} :
          /\ IsYoungest(v, Cycle(h))
          /\ victimAt' = [victimAt EXCEPT ![t] = IF v \in doomed THEN @ ELSE waitingFor[v]]
          /\ pc' = [pc EXCEPT ![t] = IF v \in doomed THEN "deadline" ELSE "wake"]
    BY <1>11 DEF WalkOtherVictim
  <2>2. waitingFor[v] # NoResource
    BY <1>11, <2>1, CycleProperties DEF WalkOtherVictim, IsYoungest
  <2> QED BY <2>1, <2>2
<1>12. ASSUME NEW t \in Txn, WakeOwn(t) PROVE WakerKnowsTarget'
  BY <1>12, TxnAssumption DEF WakeOwn
<1>13. ASSUME NEW t \in Txn, WakeDrop(t) PROVE WakerKnowsTarget'
  BY <1>13, TxnAssumption DEF WakeDrop
<1>14. ASSUME NEW t \in Txn, WakeTarget(t) PROVE WakerKnowsTarget'
  BY <1>14, TxnAssumption DEF WakeTarget
<1>15. ASSUME NEW t \in Txn, Reacquire(t) PROVE WakerKnowsTarget'
  BY <1>15, TxnAssumption DEF Reacquire
<1>16. ASSUME NEW t \in Txn, Sleep(t) PROVE WakerKnowsTarget'
  BY <1>16, TxnAssumption DEF Sleep
<1>17. ASSUME NEW t \in Txn, RaiseTimeout(t) PROVE WakerKnowsTarget'
  BY <1>17, TxnAssumption DEF RaiseTimeout, LeaveQueue
<1>18. ASSUME NEW t \in Txn, Unwind(t) PROVE WakerKnowsTarget'
  BY <1>18, TxnAssumption DEF Unwind
<1>19. ASSUME NEW t \in Txn, Expire(t) PROVE WakerKnowsTarget'
  BY <1>19, TxnAssumption DEF Expire
<1>20. ASSUME NEW t \in Txn, StartRelease(t) PROVE WakerKnowsTarget'
  BY <1>20, TxnAssumption DEF StartRelease
<1>21. ASSUME NEW t \in Txn, NEW r \in Resource, ReleaseEntry(t, r) PROVE WakerKnowsTarget'
  BY <1>21, TxnAssumption DEF ReleaseEntry
<1>22. ASSUME NEW t \in Txn, EndRelease(t) PROVE WakerKnowsTarget'
  BY <1>22, TxnAssumption DEF EndRelease
<1> QED
  BY <1>1, <1>2, <1>3, <1>4, <1>5, <1>6, <1>7, <1>8, <1>9, <1>10, <1>11, <1>12,
     <1>13, <1>14, <1>15, <1>16, <1>17, <1>18, <1>19, <1>20, <1>21, <1>22
  DEF Next, Acquire, WaitLoop, Detour, Detect, Release

(* A doom is cast on a transaction that waits and is lifted with the wait. *)
LEMMA DoomEndsStep ==
  ASSUME TypeOK, WalkUnderLatch, WalkPath, DoomEndsWithWait, Next
  PROVE  DoomEndsWithWait'
<1> USE DEF DoomEndsWithWait, TypeOK, Labels, Queued, lockVars, graphVars,
            threadVars, Notified
<1>1. ASSUME NEW t \in Txn, NEW r \in Resource, NEW m \in LockMode,
             AcquireHeld(t, r, m)
      PROVE  DoomEndsWithWait'
  BY <1>1 DEF AcquireHeld, Call
<1>2. ASSUME NEW t \in Txn, NEW r \in Resource, NEW m \in LockMode,
             AcquireNow(t, r, m)
      PROVE  DoomEndsWithWait'
  BY <1>2 DEF AcquireNow, Call
<1>3. ASSUME NEW t \in Txn, NEW r \in Resource, NEW m \in LockMode,
             AcquireWait(t, r, m)
      PROVE  DoomEndsWithWait'
  BY <1>3 DEF AcquireWait, Call
<1>4. ASSUME NEW t \in Txn, Grant(t) PROVE DoomEndsWithWait'
  BY <1>4 DEF Grant, LeaveQueue
<1>5. ASSUME NEW t \in Txn, RaiseDoomed(t) PROVE DoomEndsWithWait'
  BY <1>5 DEF RaiseDoomed, LeaveQueue
<1>6. ASSUME NEW t \in Txn, StartWalk(t) PROVE DoomEndsWithWait'
  BY <1>6 DEF StartWalk
<1>7. ASSUME NEW t \in Txn, WalkBacktrack(t) PROVE DoomEndsWithWait'
  BY <1>7 DEF WalkBacktrack
<1>8. ASSUME NEW t \in Txn, WalkFollow(t) PROVE DoomEndsWithWait'
  BY <1>8 DEF WalkFollow
<1>9. ASSUME NEW t \in Txn, WalkNone(t) PROVE DoomEndsWithWait'
  BY <1>9 DEF WalkNone
<1>10. ASSUME NEW t \in Txn, WalkSelfVictim(t) PROVE DoomEndsWithWait'
  BY <1>10 DEF WalkSelfVictim, LeaveQueue
<1>11. ASSUME NEW t \in Txn, WalkOtherVictim(t) PROVE DoomEndsWithWait'
  <2>1. PICK h \in Last(walk).todo \cap Path, v \in Txn \ {t} :
          IsYoungest(v, Cycle(h)) /\ doomed' = doomed \cup {v}
    BY <1>11 DEF WalkOtherVictim
  <2>2. waitingFor[v] # NoResource
    BY <1>11, <2>1, CycleProperties DEF WalkOtherVictim, IsYoungest
  <2> QED BY <1>11, <2>1, <2>2 DEF WalkOtherVictim
<1>12. ASSUME NEW t \in Txn, WakeOwn(t) PROVE DoomEndsWithWait'
  BY <1>12 DEF WakeOwn
<1>13. ASSUME NEW t \in Txn, WakeDrop(t) PROVE DoomEndsWithWait'
  BY <1>13 DEF WakeDrop
<1>14. ASSUME NEW t \in Txn, WakeTarget(t) PROVE DoomEndsWithWait'
  BY <1>14 DEF WakeTarget
<1>15. ASSUME NEW t \in Txn, Reacquire(t) PROVE DoomEndsWithWait'
  BY <1>15 DEF Reacquire
<1>16. ASSUME NEW t \in Txn, Sleep(t) PROVE DoomEndsWithWait'
  BY <1>16 DEF Sleep
<1>17. ASSUME NEW t \in Txn, RaiseTimeout(t) PROVE DoomEndsWithWait'
  BY <1>17 DEF RaiseTimeout, LeaveQueue
<1>18. ASSUME NEW t \in Txn, Unwind(t) PROVE DoomEndsWithWait'
  BY <1>18 DEF Unwind
<1>19. ASSUME NEW t \in Txn, Expire(t) PROVE DoomEndsWithWait'
  BY <1>19 DEF Expire
<1>20. ASSUME NEW t \in Txn, StartRelease(t) PROVE DoomEndsWithWait'
  BY <1>20 DEF StartRelease
<1>21. ASSUME NEW t \in Txn, NEW r \in Resource, ReleaseEntry(t, r) PROVE DoomEndsWithWait'
  BY <1>21 DEF ReleaseEntry
<1>22. ASSUME NEW t \in Txn, EndRelease(t) PROVE DoomEndsWithWait'
  BY <1>22 DEF EndRelease
<1> QED
  BY <1>1, <1>2, <1>3, <1>4, <1>5, <1>6, <1>7, <1>8, <1>9, <1>10, <1>11, <1>12,
     <1>13, <1>14, <1>15, <1>16, <1>17, <1>18, <1>19, <1>20, <1>21, <1>22
  DEF Next, Acquire, WaitLoop, Detour, Detect, Release

(* A cycle has at least two members, and its youngest is not the oldest. *)
LEMMA OldestStep ==
  ASSUME TypeOK, WalkPath, OldestNeverVictim, Next
  PROVE  OldestNeverVictim'
<1> USE DEF OldestNeverVictim, TypeOK, Labels, Queued, lockVars, graphVars,
            threadVars, Notified
<1>1. ASSUME NEW t \in Txn, NEW r \in Resource, NEW m \in LockMode,
             AcquireHeld(t, r, m)
      PROVE  OldestNeverVictim'
  BY <1>1 DEF AcquireHeld, Call
<1>2. ASSUME NEW t \in Txn, NEW r \in Resource, NEW m \in LockMode,
             AcquireNow(t, r, m)
      PROVE  OldestNeverVictim'
  BY <1>2 DEF AcquireNow, Call
<1>3. ASSUME NEW t \in Txn, NEW r \in Resource, NEW m \in LockMode,
             AcquireWait(t, r, m)
      PROVE  OldestNeverVictim'
  BY <1>3 DEF AcquireWait, Call
<1>4. ASSUME NEW t \in Txn, Grant(t) PROVE OldestNeverVictim'
  BY <1>4 DEF Grant, LeaveQueue
<1>5. ASSUME NEW t \in Txn, RaiseDoomed(t) PROVE OldestNeverVictim'
  BY <1>5 DEF RaiseDoomed, LeaveQueue
<1>6. ASSUME NEW t \in Txn, StartWalk(t) PROVE OldestNeverVictim'
  BY <1>6 DEF StartWalk
<1>7. ASSUME NEW t \in Txn, WalkBacktrack(t) PROVE OldestNeverVictim'
  BY <1>7 DEF WalkBacktrack
<1>8. ASSUME NEW t \in Txn, WalkFollow(t) PROVE OldestNeverVictim'
  BY <1>8 DEF WalkFollow
<1>9. ASSUME NEW t \in Txn, WalkNone(t) PROVE OldestNeverVictim'
  BY <1>9 DEF WalkNone
<1>10. ASSUME NEW t \in Txn, WalkSelfVictim(t) PROVE OldestNeverVictim'
  <2>1. PICK h \in Last(walk).todo \cap Path : IsYoungest(t, Cycle(h))
    BY <1>10 DEF WalkSelfVictim
  <2>2. \E u \in Txn : u < t
    <3>1. Cycle(h) \subseteq Txn /\ \E u, v \in Cycle(h) : u # v
      BY <1>10, CycleProperties DEF WalkSelfVictim
    <3> QED BY ONLY <2>1, <3>1, TxnAssumption DEF IsYoungest
  <2> QED BY <1>10, <2>2 DEF WalkSelfVictim, LeaveQueue
<1>11. ASSUME NEW t \in Txn, WalkOtherVictim(t) PROVE OldestNeverVictim'
  <2>1. PICK h \in Last(walk).todo \cap Path, v \in Txn \ {t} :
          IsYoungest(v, Cycle(h)) /\ doomed' = doomed \cup {v}
    BY <1>11 DEF WalkOtherVictim
  <2>2. \E u \in Txn : u < v
    <3>1. Cycle(h) \subseteq Txn /\ \E u, w \in Cycle(h) : u # w
      BY <1>11, CycleProperties DEF WalkOtherVictim
    <3> QED BY ONLY <2>1, <3>1, TxnAssumption DEF IsYoungest
  <2> QED BY <1>11, <2>1, <2>2 DEF WalkOtherVictim
<1>12. ASSUME NEW t \in Txn, WakeOwn(t) PROVE OldestNeverVictim'
  BY <1>12 DEF WakeOwn
<1>13. ASSUME NEW t \in Txn, WakeDrop(t) PROVE OldestNeverVictim'
  BY <1>13 DEF WakeDrop
<1>14. ASSUME NEW t \in Txn, WakeTarget(t) PROVE OldestNeverVictim'
  BY <1>14 DEF WakeTarget
<1>15. ASSUME NEW t \in Txn, Reacquire(t) PROVE OldestNeverVictim'
  BY <1>15 DEF Reacquire
<1>16. ASSUME NEW t \in Txn, Sleep(t) PROVE OldestNeverVictim'
  BY <1>16 DEF Sleep
<1>17. ASSUME NEW t \in Txn, RaiseTimeout(t) PROVE OldestNeverVictim'
  BY <1>17 DEF RaiseTimeout, LeaveQueue
<1>18. ASSUME NEW t \in Txn, Unwind(t) PROVE OldestNeverVictim'
  BY <1>18 DEF Unwind
<1>19. ASSUME NEW t \in Txn, Expire(t) PROVE OldestNeverVictim'
  BY <1>19 DEF Expire
<1>20. ASSUME NEW t \in Txn, StartRelease(t) PROVE OldestNeverVictim'
  BY <1>20 DEF StartRelease
<1>21. ASSUME NEW t \in Txn, NEW r \in Resource, ReleaseEntry(t, r) PROVE OldestNeverVictim'
  BY <1>21 DEF ReleaseEntry
<1>22. ASSUME NEW t \in Txn, EndRelease(t) PROVE OldestNeverVictim'
  BY <1>22 DEF EndRelease
<1> QED
  BY <1>1, <1>2, <1>3, <1>4, <1>5, <1>6, <1>7, <1>8, <1>9, <1>10, <1>11, <1>12,
     <1>13, <1>14, <1>15, <1>16, <1>17, <1>18, <1>19, <1>20, <1>21, <1>22
  DEF Next, Acquire, WaitLoop, Detour, Detect, Release

(* Nobody sleeps through its own sentence. *)
LEMMA DoomedHasWakerStep ==
  ASSUME TypeOK, OwnsCondition, WalkUnderLatch, DoomEndsWithWait, WalkPath, DoomedHasWaker, Next
  PROVE  DoomedHasWaker'
<1> USE DEF DoomedHasWaker, OwnsCondition, Owning, TypeOK, Labels, Queued,
            lockVars, graphVars, threadVars, Notified
<1>1. ASSUME NEW t \in Txn, NEW r \in Resource, NEW m \in LockMode,
             AcquireHeld(t, r, m)
      PROVE  DoomedHasWaker'
  BY <1>1 DEF AcquireHeld, Call
<1>2. ASSUME NEW t \in Txn, NEW r \in Resource, NEW m \in LockMode,
             AcquireNow(t, r, m)
      PROVE  DoomedHasWaker'
  BY <1>2 DEF AcquireNow, Call
<1>3. ASSUME NEW t \in Txn, NEW r \in Resource, NEW m \in LockMode,
             AcquireWait(t, r, m)
      PROVE  DoomedHasWaker'
  BY <1>3 DEF AcquireWait, Call
<1>4. ASSUME NEW t \in Txn, Grant(t) PROVE DoomedHasWaker'
  BY <1>4 DEF Grant, LeaveQueue
<1>5. ASSUME NEW t \in Txn, RaiseDoomed(t) PROVE DoomedHasWaker'
  BY <1>5 DEF RaiseDoomed, LeaveQueue
<1>6. ASSUME NEW t \in Txn, StartWalk(t) PROVE DoomedHasWaker'
  BY <1>6 DEF StartWalk
<1>7. ASSUME NEW t \in Txn, WalkBacktrack(t) PROVE DoomedHasWaker'
  BY <1>7 DEF WalkBacktrack
<1>8. ASSUME NEW t \in Txn, WalkFollow(t) PROVE DoomedHasWaker'
  BY <1>8 DEF WalkFollow
<1>9. ASSUME NEW t \in Txn, WalkNone(t) PROVE DoomedHasWaker'
  BY <1>9 DEF WalkNone, WalkUnderLatch
<1>10. ASSUME NEW t \in Txn, WalkSelfVictim(t) PROVE DoomedHasWaker'
  BY <1>10 DEF WalkSelfVictim, LeaveQueue
<1>11. ASSUME NEW t \in Txn, WalkOtherVictim(t) PROVE DoomedHasWaker'
  <2>1. PICK h \in Last(walk).todo \cap Path, v \in Txn \ {t} :
          /\ IsYoungest(v, Cycle(h))
          /\ doomed' = doomed \cup {v}
          /\ victimAt' = [victimAt EXCEPT ![t] = IF v \in doomed THEN @ ELSE waitingFor[v]]
          /\ pc' = [pc EXCEPT ![t] = IF v \in doomed THEN "deadline" ELSE "wake"]
    BY <1>11 DEF WalkOtherVictim
  <2>2. waitingFor[v] # NoResource
    BY <1>11, <2>1, CycleProperties DEF WalkOtherVictim, IsYoungest
  <2>3. waitingFor[v] = request[v].resource
    BY <2>2 DEF DoomEndsWithWait
  <2>4. pc[t] = "walk" /\ t \notin doomed /\ request' = request
    BY <1>11 DEF WalkOtherVictim, WalkUnderLatch
  <2> SUFFICES ASSUME NEW w \in doomed', pc'[w] \in {"deadline", "asleep"}
               PROVE  \E u \in Txn : /\ pc'[u] \in {"wake", "wakeTarget"}
                                     /\ victimAt'[u] = request'[w].resource
    OBVIOUS
  <2>5. CASE w = v /\ v \notin doomed
    BY <2>1, <2>3, <2>4, <2>5
  <2>6. CASE w \in doomed
    <3>1. w # t /\ pc'[w] = pc[w]
      BY <2>1, <2>4, <2>6
    <3>2. PICK u \in Txn : pc[u] \in {"wake", "wakeTarget"} /\ victimAt[u] = request[w].resource
      BY <2>6, <3>1
    <3>3. u # t /\ pc'[u] = pc[u] /\ victimAt'[u] = victimAt[u]
      BY <2>1, <2>4, <3>2
    <3> QED BY ONLY <2>4, <3>2, <3>3
  <2> QED BY <2>1, <2>5, <2>6
<1>12. ASSUME NEW t \in Txn, WakeOwn(t) PROVE DoomedHasWaker'
  <2> SUFFICES ASSUME NEW w \in doomed', pc'[w] \in {"deadline", "asleep"}
               PROVE  \E u \in Txn : /\ pc'[u] \in {"wake", "wakeTarget"}
                                     /\ victimAt'[u] = request'[w].resource
    OBVIOUS
  <2>1. w \in doomed /\ w \in Txn /\ w # t /\ request' = request
    BY <1>12 DEF WakeOwn
  <2>2. pc'[w] = pc[w] /\ ~(pc[w] = "asleep" /\ request[w].resource = request[t].resource)
    BY <1>12, <2>1 DEF WakeOwn
  <2>3. request[w].resource # request[t].resource
    BY <1>12, <2>1, <2>2 DEF WakeOwn, Free
  <2>4. PICK u \in Txn : pc[u] \in {"wake", "wakeTarget"} /\ victimAt[u] = request[w].resource
    BY <2>1, <2>2
  <2>5. u # t /\ pc'[u] = pc[u] /\ victimAt'[u] = victimAt[u]
    BY <1>12, <2>3, <2>4 DEF WakeOwn
  <2> QED BY ONLY <2>1, <2>4, <2>5
<1>13. ASSUME NEW t \in Txn, WakeDrop(t) PROVE DoomedHasWaker'
  BY <1>13 DEF WakeDrop
<1>14. ASSUME NEW t \in Txn, WakeTarget(t) PROVE DoomedHasWaker'
  <2> SUFFICES ASSUME NEW w \in doomed', pc'[w] \in {"deadline", "asleep"}
               PROVE  \E u \in Txn : /\ pc'[u] \in {"wake", "wakeTarget"}
                                     /\ victimAt'[u] = request'[w].resource
    OBVIOUS
  <2>1. w \in doomed /\ w \in Txn /\ w # t /\ request' = request
    BY <1>14 DEF WakeTarget
  <2>2. pc'[w] = pc[w] /\ ~(pc[w] = "asleep" /\ request[w].resource = victimAt[t])
    BY <1>14, <2>1 DEF WakeTarget
  <2>3. request[w].resource # victimAt[t]
    BY <1>14, <2>1, <2>2, TxnAssumption DEF WakeTarget, Free
  <2>4. PICK u \in Txn : pc[u] \in {"wake", "wakeTarget"} /\ victimAt[u] = request[w].resource
    BY <2>1, <2>2
  <2>5. u # t /\ pc'[u] = pc[u] /\ victimAt'[u] = victimAt[u]
    BY <1>14, <2>3, <2>4 DEF WakeTarget
  <2> QED BY ONLY <2>1, <2>4, <2>5
<1>15. ASSUME NEW t \in Txn, Reacquire(t) PROVE DoomedHasWaker'
  BY <1>15 DEF Reacquire
<1>16. ASSUME NEW t \in Txn, Sleep(t) PROVE DoomedHasWaker'
  BY <1>16 DEF Sleep
<1>17. ASSUME NEW t \in Txn, RaiseTimeout(t) PROVE DoomedHasWaker'
  BY <1>17 DEF RaiseTimeout, LeaveQueue
<1>18. ASSUME NEW t \in Txn, Unwind(t) PROVE DoomedHasWaker'
  BY <1>18 DEF Unwind
<1>19. ASSUME NEW t \in Txn, Expire(t) PROVE DoomedHasWaker'
  BY <1>19 DEF Expire
<1>20. ASSUME NEW t \in Txn, StartRelease(t) PROVE DoomedHasWaker'
  BY <1>20 DEF StartRelease
<1>21. ASSUME NEW t \in Txn, NEW r \in Resource, ReleaseEntry(t, r) PROVE DoomedHasWaker'
  BY <1>21 DEF ReleaseEntry
<1>22. ASSUME NEW t \in Txn, EndRelease(t) PROVE DoomedHasWaker'
  BY <1>22 DEF EndRelease
<1> QED
  BY <1>1, <1>2, <1>3, <1>4, <1>5, <1>6, <1>7, <1>8, <1>9, <1>10, <1>11, <1>12,
     <1>13, <1>14, <1>15, <1>16, <1>17, <1>18, <1>19, <1>20, <1>21, <1>22
  DEF Next, Acquire, WaitLoop, Detour, Detect, Release

-----------------------------------------------------------------------------
(* The step LocksOnlyGrow allows. *)
OnlyGrow ==
  \A r \in Resource, t \in Txn :
    holders[r][t] # NoLock /\ pc[t] # "release"
      => holders'[r][t] \in {holders[r][t], "EXCLUSIVE"}

(* Only an upgrade changes a mode before release_all(). *)
LEMMA OnlyGrowStep ==
  ASSUME TypeOK, NotSufficient, Next
  PROVE  OnlyGrow
<1> USE DEF OnlyGrow, NotSufficient, Sufficient, LockMode, NoLock, TypeOK,
            Labels, Queued, lockVars, graphVars, threadVars
<1>1. ASSUME NEW t \in Txn, NEW r \in Resource, NEW m \in LockMode,
             AcquireHeld(t, r, m)
      PROVE  OnlyGrow
  BY <1>1 DEF AcquireHeld, Call
<1>2. ASSUME NEW t \in Txn, NEW r \in Resource, NEW m \in LockMode,
             AcquireNow(t, r, m)
      PROVE  OnlyGrow
  BY <1>2 DEF AcquireNow, Call
<1>3. ASSUME NEW t \in Txn, NEW r \in Resource, NEW m \in LockMode,
             AcquireWait(t, r, m)
      PROVE  OnlyGrow
  BY <1>3 DEF AcquireWait, Call
<1>4. ASSUME NEW t \in Txn, Grant(t) PROVE OnlyGrow
  BY <1>4 DEF Grant, LeaveQueue
<1>5. ASSUME NEW t \in Txn, RaiseDoomed(t) PROVE OnlyGrow
  BY <1>5 DEF RaiseDoomed, LeaveQueue
<1>6. ASSUME NEW t \in Txn, StartWalk(t) PROVE OnlyGrow
  BY <1>6 DEF StartWalk
<1>7. ASSUME NEW t \in Txn, WalkBacktrack(t) PROVE OnlyGrow
  BY <1>7 DEF WalkBacktrack
<1>8. ASSUME NEW t \in Txn, WalkFollow(t) PROVE OnlyGrow
  BY <1>8 DEF WalkFollow
<1>9. ASSUME NEW t \in Txn, WalkNone(t) PROVE OnlyGrow
  BY <1>9 DEF WalkNone
<1>10. ASSUME NEW t \in Txn, WalkSelfVictim(t) PROVE OnlyGrow
  BY <1>10 DEF WalkSelfVictim, LeaveQueue
<1>11. ASSUME NEW t \in Txn, WalkOtherVictim(t) PROVE OnlyGrow
  BY <1>11 DEF WalkOtherVictim
<1>12. ASSUME NEW t \in Txn, WakeOwn(t) PROVE OnlyGrow
  BY <1>12 DEF WakeOwn
<1>13. ASSUME NEW t \in Txn, WakeDrop(t) PROVE OnlyGrow
  BY <1>13 DEF WakeDrop
<1>14. ASSUME NEW t \in Txn, WakeTarget(t) PROVE OnlyGrow
  BY <1>14 DEF WakeTarget
<1>15. ASSUME NEW t \in Txn, Reacquire(t) PROVE OnlyGrow
  BY <1>15 DEF Reacquire
<1>16. ASSUME NEW t \in Txn, Sleep(t) PROVE OnlyGrow
  BY <1>16 DEF Sleep
<1>17. ASSUME NEW t \in Txn, RaiseTimeout(t) PROVE OnlyGrow
  BY <1>17 DEF RaiseTimeout, LeaveQueue
<1>18. ASSUME NEW t \in Txn, Unwind(t) PROVE OnlyGrow
  BY <1>18 DEF Unwind
<1>19. ASSUME NEW t \in Txn, Expire(t) PROVE OnlyGrow
  BY <1>19 DEF Expire
<1>20. ASSUME NEW t \in Txn, StartRelease(t) PROVE OnlyGrow
  BY <1>20 DEF StartRelease
<1>21. ASSUME NEW t \in Txn, NEW r \in Resource, ReleaseEntry(t, r) PROVE OnlyGrow
  BY <1>21 DEF ReleaseEntry
<1>22. ASSUME NEW t \in Txn, EndRelease(t) PROVE OnlyGrow
  BY <1>22 DEF EndRelease
<1> QED
  BY <1>1, <1>2, <1>3, <1>4, <1>5, <1>6, <1>7, <1>8, <1>9, <1>10, <1>11, <1>12,
     <1>13, <1>14, <1>15, <1>16, <1>17, <1>18, <1>19, <1>20, <1>21, <1>22
  DEF Next, Acquire, WaitLoop, Detour, Detect, Release

-----------------------------------------------------------------------------
(* The inductive invariant holds in every reachable state. *)
LEMMA Invariance == Spec => []Inv
<1>1. Init => Inv
  <2>1. Init => TypeOK /\ WaitersQueued
    BY TypeInit
  <2>2. Init => /\ OwnsCondition /\ OwnersOnly /\ WakerKnowsTarget
                /\ NotGrantableYet /\ NotSufficient
                /\ WalkUnderLatch /\ WalkPath /\ DoomedHasWaker
                /\ HoldersCompatible /\ DoomEndsWithWait /\ OldestNeverVictim
    BY TxnAssumption DEF Init, Free, OwnsCondition, OwnersOnly, WakerKnowsTarget, NotGrantableYet, NotSufficient, WalkUnderLatch,
       WalkPath, DoomedHasWaker, HoldersCompatible, DoomEndsWithWait,
       OldestNeverVictim, Owning, Queued
  <2> QED BY <2>1, <2>2 DEF Inv
<1>2. Inv /\ [Next]_vars => Inv'
  <2>1. CASE Next
    BY <2>1, TypeStep, WaitersQueuedStep, OwnsConditionStep, OwnersOnlyStep, WakerKnowsTargetStep, NotGrantableStep,
       NotSufficientStep, HoldersCompatibleStep, WalkUnderLatchStep, WalkPathStep,
       DoomEndsStep, OldestStep, DoomedHasWakerStep
    DEF Inv
  <2>2. CASE UNCHANGED vars
    BY <2>2
    DEF Inv, vars, lockVars, graphVars, threadVars, TypeOK, WaitersQueued,
        OwnsCondition, OwnersOnly, WakerKnowsTarget, NotGrantableYet, NotSufficient, WalkUnderLatch, WalkPath,
        DoomedHasWaker, HoldersCompatible, DoomEndsWithWait, OldestNeverVictim,
        Grantable, Sufficient
  <2> QED BY <2>1, <2>2
<1> QED BY <1>1, <1>2, PTL DEF Spec

(* Type correctness of the lock table, for any transactions and resources; in
   particular no transaction ever stands twice in a queue of acquire(). *)
THEOREM TypeCorrect == Spec => []TypeOK
<1>1. Inv => TypeOK
  BY DEF Inv
<1> QED BY <1>1, Invariance, PTL

(* acquire() grants no two incompatible locks on one resource. *)
THEOREM MutualExclusion == Spec => []HoldersCompatible
<1>1. Inv => HoldersCompatible
  BY DEF Inv
<1> QED BY <1>1, Invariance, PTL

(* No thread sleeps in condition.wait() on a request that could be granted:
   every path that changes an entry owns its condition and notifies. *)
THEOREM NoWakeupLost == Spec => []NoLostWakeup
<1>1. Inv => NoLostWakeup
  BY DEF Inv, NotGrantableYet, NoLostWakeup
<1> QED BY <1>1, Invariance, PTL

(* A doomed transaction never sleeps without somebody on the way to wake it. *)
THEOREM VictimIsWoken == Spec => []DoomedIsWoken
<1>1. Inv => DoomedIsWoken
  BY DEF Inv, DoomedHasWaker, DoomedIsWoken
<1> QED BY <1>1, Invariance, PTL

(* _doomed and _waiting_for never outlive the acquire() they belong to. *)
THEOREM NoStaleDoom == Spec => []DoomEndsWithWait
<1>1. Inv => DoomEndsWithWait
  BY DEF Inv
<1> QED BY <1>1, Invariance, PTL

(* DeadlockError never strikes the oldest transaction. *)
THEOREM OldestSurvives == Spec => []OldestNeverVictim
<1>1. Inv => OldestNeverVictim
  BY DEF Inv
<1> QED BY <1>1, Invariance, PTL

(* The mutexes of the lock manager never deadlock.  Who holds the latch needs
   nothing, and who holds a condition needs at most the latch: _wake() gives
   its own condition back before it takes the victim's. *)
THEOREM LatchesNeverDeadlock == Spec => []NoLatchDeadlock
<1>1. ASSUME Inv PROVE NoLatchDeadlock
  <2> SUFFICES ASSUME NEW C \in (SUBSET Txn) \ {{}}
               PROVE  \E t \in C : \A u \in C : ~Blocks(u, t)
    BY DEF NoLatchDeadlock
  <2>1. \A t, u \in C : pc[t] = "walk" => ~Blocks(u, t)
    BY DEF Blocks
  <2>2. CASE \E t \in C : pc[t] = "walk"
    BY <2>1, <2>2
  <2>3. CASE \A t \in C : pc[t] # "walk"
    <3>1. \A u \in C : latch # u
      BY <1>1, <2>3 DEF Inv, OwnersOnly
    <3>2. CASE \E t \in C : pc[t] \in Owning
      <4>1. \A t, u \in C : pc[t] \in Owning => ~Blocks(u, t)
        BY <3>1 DEF Blocks, Owning
      <4> QED BY <3>2, <4>1
    <3>3. CASE \A t \in C : pc[t] \notin Owning
      <4>1. \A u \in C, r \in Resource : cond[r] # u
        <5>1. C \subseteq Txn
          OBVIOUS
        <5>2. \A r \in Resource, t \in Txn : cond[r] = t => pc[t] \in Owning
          BY <1>1 DEF Inv, OwnersOnly
        <5> QED BY ONLY <3>3, <5>1, <5>2
      <4>2. ASSUME NEW t \in C, NEW u \in C PROVE ~Blocks(u, t)
        <5>1. pc[t] = "wakeTarget" => victimAt[t] \in Resource
          BY <1>1 DEF Inv, WakerKnowsTarget
        <5>2. pc[t] = "reacquire" => request[t].resource \in Resource
          BY <1>1 DEF Inv, TypeOK, Queued
        <5>3. toRelease[t] \subseteq Resource
          BY <1>1 DEF Inv, TypeOK
        <5>4. latch # u /\ \A r \in Resource : cond[r] # u
          BY <3>1, <4>1
        <5> QED BY ONLY <5>1, <5>2, <5>3, <5>4, t \in C DEF Blocks
      <4>3. PICK t \in Txn : t \in C
        OBVIOUS
      <4> QED BY ONLY <4>2, <4>3
    <3> QED BY <3>2, <3>3
  <2> QED BY <2>2, <2>3
<1> QED BY <1>1, Invariance, PTL

(* Strict two-phase locking: outside release_all() locks are only taken and
   upgraded. *)
THEOREM StrictTwoPhase == Spec => LocksOnlyGrow
<1>1. Inv /\ [Next]_vars => [OnlyGrow]_vars
  BY OnlyGrowStep DEF Inv
<1>2. [][OnlyGrow]_vars => LocksOnlyGrow
  BY PTL DEF LocksOnlyGrow, OnlyGrow
<1> QED BY <1>1, <1>2, Invariance, PTL DEF Spec

-----------------------------------------------------------------------------
(* Grants, the only steps that record a lock, satisfy the table's rule. *)
LEMMA GrantIsGranted ==
  ASSUME TypeOK, NEW t \in Txn, NEW r \in Resource, NEW m \in LockMode,
         ~Sufficient(t, r, m), Grantable(t, r, m),
         holders' = [holders EXCEPT ![r][t] = m]
  PROVE  Table!Granted(t, r, m)
<1>1. ~Table!Has(t, r, m)
  BY DEF Table!Has, Sufficient
<1>2. Table!CanGrant(t, r, m)
  BY DEF Table!CanGrant, Grantable, Compatible, NoLock
<1> QED BY <1>1, <1>2 DEF Table!Granted

(* release_all() gives the entries back one at a time. *)
LEMMA EntryIsReleased ==
  ASSUME TypeOK, NEW t \in Txn, NEW r \in Resource, ReleaseEntry(t, r)
  PROVE  Table!Released(t, {r})
<1>1. holders' = [holders EXCEPT ![r] = [holders[r] EXCEPT ![t] = "none"]]
  BY DEF ReleaseEntry, TypeOK, NoLock
<1> QED BY <1>1 DEF Table!Released, Table!Without, TypeOK

LEMMA TableStep ==
  ASSUME TypeOK, NotSufficient, Next
  PROVE  Table!LockNext \/ UNCHANGED holders
<1> USE DEF lockVars, graphVars, threadVars
<1>1. ASSUME NEW t \in Txn, NEW r \in Resource, NEW m \in LockMode,
             AcquireNow(t, r, m)
      PROVE  Table!LockNext
  <2>1. Table!Granted(t, r, m)
    BY <1>1, GrantIsGranted DEF AcquireNow
  <2> QED BY <2>1 DEF Table!LockNext, Table!Modes, LockMode
<1>2. ASSUME NEW t \in Txn, Grant(t) PROVE Table!LockNext
  <2> DEFINE r == request[t].resource
             m == request[t].mode
  <2>1. r \in Resource /\ m \in LockMode /\ ~Sufficient(t, r, m)
    BY <1>2 DEF Grant, NotSufficient, Queued, TypeOK
  <2>2. Table!Granted(t, r, m)
    BY <1>2, <2>1, GrantIsGranted DEF Grant
  <2> QED BY <2>1, <2>2 DEF Table!LockNext, Table!Modes, LockMode
<1>3. ASSUME NEW t \in Txn, NEW r \in Resource, ReleaseEntry(t, r)
      PROVE  Table!LockNext
  BY <1>3, EntryIsReleased DEF Table!LockNext
<1>4. ASSUME NEW t \in Txn, NEW r \in Resource, NEW m \in LockMode,
             AcquireHeld(t, r, m) \/ AcquireWait(t, r, m)
      PROVE  UNCHANGED holders
  BY <1>4 DEF AcquireHeld, AcquireWait
<1>5. ASSUME NEW t \in Txn,
             RaiseDoomed(t) \/ StartWalk(t) \/ Detect(t) \/ WakeOwn(t)
               \/ WakeDrop(t) \/ WakeTarget(t)
      PROVE  UNCHANGED holders
  BY <1>5 DEF RaiseDoomed, StartWalk, Detect, WalkBacktrack, WalkFollow, WalkNone,
              WalkSelfVictim, WalkOtherVictim, WakeOwn, WakeDrop, WakeTarget
<1>6. ASSUME NEW t \in Txn,
             Reacquire(t) \/ Sleep(t) \/ RaiseTimeout(t) \/ Unwind(t)
               \/ Expire(t) \/ StartRelease(t) \/ EndRelease(t)
      PROVE  UNCHANGED holders
  BY <1>6 DEF Reacquire, Sleep, RaiseTimeout, Unwind, Expire, StartRelease, EndRelease
<1> QED
  BY <1>1, <1>2, <1>3, <1>4, <1>5, <1>6
  DEF Next, Acquire, WaitLoop, Detour, Detect, Release

(* The lock manager implements the lock table its callers reason with: every
   step of every thread is a compatible grant, a release, or invisible. *)
THEOREM LockTableRefinement == Spec => ImplementsLockTable
<1>1. Init => Table!LockInit
  BY DEF Init, Table!LockInit, Table!NoneHeld, NoLock
<1>2. Inv /\ [Next]_vars => [Table!LockNext]_holders
  BY TableStep DEF Inv, vars, lockVars
<1> QED BY <1>1, <1>2, Invariance, PTL DEF Spec, ImplementsLockTable, Table!LockSpec

=============================================================================
