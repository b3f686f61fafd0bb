---------------------------- MODULE LockManager ----------------------------
(***************************************************************************)
(* txn/locks.py: the LockManager shared by every Connection of a Database. *)
(*                                                                         *)
(* One process per transaction (a transaction is driven by one thread).    *)
(* Every critical section of the code is one step: the entry's condition   *)
(* protects holders and waiters, the manager's _latch protects             *)
(* _waiting_for and _doomed.  The one place where the code reads shared    *)
(* state outside its lock is kept fine grained: _detect_deadlock walks     *)
(* the holders of OTHER entries under the latch only, so the walk is a     *)
(* sequence of steps that grants and releases interleave with.             *)
(***************************************************************************)
EXTENDS Naturals, Sequences, FiniteSets, SequencesExt

CONSTANTS Txn,          \* transaction ids: positive, the larger the younger
          Resource,     \* lock names: "__schema__", "__writer__", tables
          NoResource,   \* Python's None where a resource is expected
          Impatient,    \* transactions whose busy_timeout can run out
          MaxRequests   \* bound: acquire() calls of one transaction

ASSUME TxnAssumption == Txn \subseteq Nat \ {0}
ASSUME ResourceAssumption == NoResource \notin Resource
ASSUME ImpatientAssumption == Impatient \subseteq Txn
ASSUME MaxRequestsAssumption == MaxRequests \in Nat

Free == 0     \* owner of a mutex nobody holds
LockMode == {"SHARED", "EXCLUSIVE"}
NoLock == "none"   \* holders.get(txn) is None

VARIABLES
  holders,      \* entry.holders: per resource, the mode each txn holds
  waiters,      \* entry.waiters: per resource, the FIFO queue of txns
  cond,         \* owner of entry.condition's mutex
  latch,        \* owner of LockManager._latch (only across a walk)
  waitingFor,   \* _waiting_for
  doomed,       \* keys of _doomed
  pc,           \* where in acquire()/release_all() the thread stands
  request,      \* arguments of the acquire() in progress
  expired,      \* transactions whose deadline has passed
  walk,         \* _detect_deadlock's DFS stack: <<[txn, todo], ...>>
  victimAt,     \* victim_resource: whose sleepers this txn must wake
  toRelease,    \* entries release_all() has not visited yet
  outcome,      \* how the last acquire() ended
  requests      \* acquire() calls so far

lockVars == <<holders, waiters>>
graphVars == <<latch, waitingFor, doomed, walk>>
threadVars == <<request, expired, victimAt, toRelease, outcome, requests>>
vars == <<lockVars, cond, graphVars, pc, threadVars>>

Labels == {"idle", "loop", "walk", "wake", "wakeTarget", "deadline",
           "asleep", "reacquire", "unwind", "release", "done"}
Outcomes == {"ok", "DeadlockError", "LockTimeoutError"}
NoRequest == [resource |-> NoResource, mode |-> "SHARED"]

-----------------------------------------------------------------------------
(* The COMPATIBLE matrix. *)
Compatible(m, n) == m = "SHARED" /\ n = "SHARED"

(* Mutant: an upgrade looks at nobody but itself. *)
GrantableUpgradeBlind(t, r, m) ==
  /\ waiters[r] # <<>> => Head(waiters[r]) = t
  /\ \A u \in Txn \ {t} :
       holders[r][u] # NoLock => Compatible(m, holders[r][u]) \/ holders[r][t] # NoLock

(* acquire()'s grantable(): nobody queued ahead, every OTHER holder compatible. *)
Grantable(t, r, m) ==
  /\ waiters[r] # <<>> => Head(waiters[r]) = t
  /\ \A u \in Txn \ {t} :
       holders[r][u] # NoLock => Compatible(m, holders[r][u])

(* condition.notify_all() on r: its sleepers compete for the mutex again. *)
Notified(r) ==
  [u \in Txn |-> IF pc[u] = "asleep" /\ request[u].resource = r
                 THEN "reacquire" ELSE pc[u]]

(* The holders a blocked transaction's wait-for edges lead to. *)
HoldersOtherThan(t, r) == {u \in Txn \ {t} : holders[r][u] # NoLock}

(* Mutants: finally forgets the queue unless the lock was granted; finally
   does not notify those who were queued behind. *)
LeaveQueueIfGranted(t, r, how) ==
  /\ waiters' = [waiters EXCEPT ![r] =
                   IF how = "ok" THEN RemoveFirst(@, t) ELSE @]
  /\ pc' = [Notified(r) EXCEPT ![t] = "unwind"]
  /\ outcome' = [outcome EXCEPT ![t] = how]

LeaveQueueSilently(t, r, how) ==
  /\ waiters' = [waiters EXCEPT ![r] = RemoveFirst(@, t)]
  /\ pc' = [pc EXCEPT ![t] = "unwind"]
  /\ outcome' = [outcome EXCEPT ![t] = how]

(* The thread leaves the queue of r: the first two statements of acquire()'s
   finally block, still under the condition. *)
LeaveQueue(t, r, how) ==
  /\ waiters' = [waiters EXCEPT ![r] = RemoveFirst(@, t)]
  /\ pc' = [Notified(r) EXCEPT ![t] = "unwind"]
  /\ outcome' = [outcome EXCEPT ![t] = how]

-----------------------------------------------------------------------------
Init ==
  /\ holders = [r \in Resource |-> [t \in Txn |-> NoLock]]
  /\ waiters = [r \in Resource |-> <<>>]
  /\ cond = [r \in Resource |-> Free]
  /\ latch = Free
  /\ waitingFor = [t \in Txn |-> NoResource]
  /\ doomed = {}
  /\ pc = [t \in Txn |-> "idle"]
  /\ request = [t \in Txn |-> NoRequest]
  /\ expired = {}
  /\ walk = <<>>
  /\ victimAt = [t \in Txn |-> NoResource]
  /\ toRelease = [t \in Txn |-> {}]
  /\ outcome = [t \in Txn |-> "ok"]
  /\ requests = [t \in Txn |-> 0]

(* Entering acquire(): the entry's condition is taken. *)
Call(t, r, m) ==
  /\ pc[t] = "idle"
  /\ requests[t] < MaxRequests
  /\ cond[r] = Free
  /\ requests' = [requests EXCEPT ![t] = @ + 1]

(* Mutant: only the very same mode counts as held. *)
SufficientSameMode(t, r, m) == holders[r][t] = m

Sufficient(t, r, m) == holders[r][t] \in {m, "EXCLUSIVE"}

(* Reentrant: the mode already held satisfies the request. *)
AcquireHeld(t, r, m) ==
  /\ Call(t, r, m)
  /\ Sufficient(t, r, m)
  /\ outcome' = [outcome EXCEPT ![t] = "ok"]
  /\ UNCHANGED <<lockVars, cond, graphVars, pc, request, expired, victimAt,
                 toRelease>>

(* Granted without queueing; notify_all() is part of it. *)
AcquireNow(t, r, m) ==
  /\ Call(t, r, m)
  /\ ~Sufficient(t, r, m)
  /\ Grantable(t, r, m)
  /\ holders' = [holders EXCEPT ![r][t] = m]
  /\ outcome' = [outcome EXCEPT ![t] = "ok"]
  /\ pc' = Notified(r)
  /\ UNCHANGED <<waiters, cond, graphVars, request, expired, victimAt, toRelease>>

(* Queued: the thread enters the wait loop holding the condition. *)
AcquireWait(t, r, m) ==
  /\ Call(t, r, m)
  /\ ~Sufficient(t, r, m)
  /\ ~Grantable(t, r, m)
  /\ request' = [request EXCEPT ![t] = [resource |-> r, mode |-> m]]
  /\ waiters' = [waiters EXCEPT ![r] = Append(@, t)]
  /\ cond' = [cond EXCEPT ![r] = t]
  /\ pc' = [pc EXCEPT ![t] = "loop"]
  /\ UNCHANGED <<holders, graphVars, expired, victimAt, toRelease, outcome>>

(* The loop's exit: the lock is recorded, the queue left, the rest notified. *)
Grant(t) ==
  LET r == request[t].resource  m == request[t].mode IN
  /\ pc[t] = "loop"
  /\ Grantable(t, r, m)
  /\ holders' = [holders EXCEPT ![r][t] = m]
  /\ LeaveQueue(t, r, "ok")
  /\ UNCHANGED <<cond, graphVars, request, expired, victimAt, toRelease, requests>>

(* Another waiter's detection pass doomed this transaction. *)
RaiseDoomed(t) ==
  LET r == request[t].resource IN
  /\ pc[t] = "loop"
  /\ ~Grantable(t, r, request[t].mode)
  /\ latch = Free
  /\ t \in doomed
  /\ doomed' = doomed \ {t}
  /\ LeaveQueue(t, r, "DeadlockError")
  /\ UNCHANGED <<holders, cond, latch, waitingFor, walk, request, expired,
                 victimAt, toRelease, requests>>

(* _waiting_for[t] = r, then _detect_deadlock(t): the walk's first frame. *)
StartWalk(t) ==
  LET r == request[t].resource IN
  /\ pc[t] = "loop"
  /\ ~Grantable(t, r, request[t].mode)
  /\ latch = Free
  /\ t \notin doomed
  /\ latch' = t
  /\ waitingFor' = [waitingFor EXCEPT ![t] = r]
  /\ walk' = <<[txn |-> t, todo |-> HoldersOtherThan(t, r)]>>
  /\ pc' = [pc EXCEPT ![t] = "walk"]
  /\ UNCHANGED <<lockVars, cond, doomed, threadVars>>

-----------------------------------------------------------------------------
(* The walk.  Dict order decides which holder is followed first: any. *)
Path == {walk[i].txn : i \in DOMAIN walk}

(* A dead end: every holder of this frame was followed in vain. *)
WalkBacktrack(t) ==
  /\ pc[t] = "walk"
  /\ walk # <<>> /\ Last(walk).todo = {}
  /\ walk' = Front(walk)
  /\ UNCHANGED <<lockVars, cond, latch, waitingFor, doomed, pc, threadVars>>

(* Follow one edge to a holder not yet on the path.  A holder that waits for
   nothing is a leaf; another one's entry is read at this moment, without
   the condition that protects it. *)
WalkFollow(t) ==
  /\ pc[t] = "walk"
  /\ walk # <<>>
  /\ \E h \in Last(walk).todo \ Path :
       LET rest == [walk EXCEPT ![Len(walk)].todo = @ \ {h}]
           r == waitingFor[h]
       IN walk' = IF r = NoResource THEN rest
                  ELSE Append(rest, [txn |-> h, todo |-> HoldersOtherThan(h, r)])
  /\ UNCHANGED <<lockVars, cond, latch, waitingFor, doomed, pc, threadVars>>

(* path[i:] for the holder h that closes the loop. *)
Cycle(h) ==
  LET i == CHOOSE k \in DOMAIN walk : walk[k].txn = h
  IN {walk[k].txn : k \in i..Len(walk)}

(* Mutant: min() for max(). *)
IsOldest(v, C) == v \in C /\ \A u \in C : v <= u

IsYoungest(v, C) == v \in C /\ \A u \in C : u <= v

(* The walk ended without a cycle. *)
WalkNone(t) ==
  /\ pc[t] = "walk"
  /\ walk = <<>>
  /\ latch' = Free
  /\ pc' = [pc EXCEPT ![t] = "deadline"]
  /\ UNCHANGED <<lockVars, cond, waitingFor, doomed, walk, threadVars>>

(* A cycle whose youngest member is the walker: it raises DeadlockError. *)
WalkSelfVictim(t) ==
  /\ pc[t] = "walk"
  /\ walk # <<>>
  /\ \E h \in Last(walk).todo \cap Path : IsYoungest(t, Cycle(h))
  /\ latch' = Free
  /\ walk' = <<>>
  /\ LeaveQueue(t, request[t].resource, "DeadlockError")
  /\ UNCHANGED <<holders, cond, waitingFor, doomed, request, expired,
                 victimAt, toRelease, requests>>

(* Mutant: the victim is doomed but nobody wakes it. *)
WalkOtherVictimSilently(t) ==
  /\ pc[t] = "walk"
  /\ walk # <<>>
  /\ \E h \in Last(walk).todo \cap Path, v \in Txn \ {t} :
       IsYoungest(v, Cycle(h)) /\ doomed' = doomed \cup {v}
  /\ latch' = Free
  /\ walk' = <<>>
  /\ pc' = [pc EXCEPT ![t] = "deadline"]
  /\ UNCHANGED <<lockVars, cond, waitingFor, threadVars>>

(* A cycle with another youngest member: doom it unless it already is, and
   go and wake it; otherwise just wait. *)
WalkOtherVictim(t) ==
  /\ pc[t] = "walk"
  /\ walk # <<>>
  /\ \E h \in Last(walk).todo \cap Path, v \in Txn \ {t} :
       /\ IsYoungest(v, Cycle(h))
       /\ doomed' = doomed \cup {v}
       /\ victimAt' = [victimAt EXCEPT ![t] = IF v \in doomed THEN @ ELSE waitingFor[v]]
       /\ pc' = [pc EXCEPT ![t] = IF v \in doomed THEN "deadline" ELSE "wake"]
  /\ latch' = Free
  /\ walk' = <<>>
  /\ UNCHANGED <<lockVars, cond, waitingFor, request, expired, toRelease,
                 outcome, requests>>

-----------------------------------------------------------------------------
(* _wake(): the victim sleeps on the walker's own entry. *)
WakeOwn(t) ==
  LET r == request[t].resource IN
  /\ pc[t] = "wake"
  /\ victimAt[t] = r
  /\ pc' = [Notified(r) EXCEPT ![t] = "loop"]
  /\ victimAt' = [victimAt EXCEPT ![t] = NoResource]
  /\ UNCHANGED <<lockVars, cond, graphVars, request, expired, toRelease,
                 outcome, requests>>

(* _wake(): another entry; the own condition is dropped first. *)
WakeDrop(t) ==
  LET r == request[t].resource IN
  /\ pc[t] = "wake"
  /\ victimAt[t] # r
  /\ cond' = [cond EXCEPT ![r] = Free]
  /\ pc' = [pc EXCEPT ![t] = "wakeTarget"]
  /\ UNCHANGED <<lockVars, graphVars, threadVars>>

(* ... the target's condition is taken, notified and released ... *)
WakeTarget(t) ==
  /\ pc[t] = "wakeTarget"
  /\ cond[victimAt[t]] = Free
  /\ pc' = [Notified(victimAt[t]) EXCEPT ![t] = "reacquire"]
  /\ victimAt' = [victimAt EXCEPT ![t] = NoResource]
  /\ UNCHANGED <<lockVars, cond, graphVars, request, expired, toRelease,
                 outcome, requests>>

(* Mutant: the target's condition is taken while the own one is held. *)
NestedDetour(t) ==
  \/ /\ pc[t] = "wake"
     /\ victimAt[t] # request[t].resource
     /\ pc' = [pc EXCEPT ![t] = "wakeTarget"]
     /\ UNCHANGED <<lockVars, cond, graphVars, threadVars>>
  \/ /\ pc[t] = "wakeTarget"
     /\ cond[victimAt[t]] = Free
     /\ pc' = [Notified(victimAt[t]) EXCEPT ![t] = "loop"]
     /\ victimAt' = [victimAt EXCEPT ![t] = NoResource]
     /\ UNCHANGED <<lockVars, cond, graphVars, request, expired, toRelease,
                    outcome, requests>>

Detour(t) == WakeDrop(t) \/ WakeTarget(t)

(* ... and the own condition taken back: also how wait() returns. *)
Reacquire(t) ==
  LET r == request[t].resource IN
  /\ pc[t] = "reacquire"
  /\ cond[r] = Free
  /\ cond' = [cond EXCEPT ![r] = t]
  /\ pc' = [pc EXCEPT ![t] = "loop"]
  /\ UNCHANGED <<lockVars, graphVars, threadVars>>

(* The deadline passes.  It is looked at only before wait(), and it ends a
   wait() in progress; passing anywhere else is no different. *)
Expire(t) ==
  /\ pc[t] \in {"deadline", "asleep"}
  /\ t \in Impatient \ expired
  /\ expired' = expired \cup {t}
  /\ pc' = [pc EXCEPT ![t] = IF @ = "asleep" THEN "reacquire" ELSE @]
  /\ UNCHANGED <<lockVars, cond, graphVars, request, victimAt, toRelease,
                 outcome, requests>>

(* condition.wait(): sleep and drop the mutex in one step. *)
Sleep(t) ==
  /\ pc[t] = "deadline"
  /\ t \notin expired
  /\ cond' = [cond EXCEPT ![request[t].resource] = Free]
  /\ pc' = [pc EXCEPT ![t] = "asleep"]
  /\ UNCHANGED <<lockVars, graphVars, threadVars>>

RaiseTimeout(t) ==
  /\ pc[t] = "deadline"
  /\ t \in expired
  /\ LeaveQueue(t, request[t].resource, "LockTimeoutError")
  /\ UNCHANGED <<holders, cond, graphVars, request, expired, victimAt,
                 toRelease, requests>>

(* Mutant: a doom that came too late stays behind. *)
UnwindKeepsDoom(t) ==
  /\ pc[t] = "unwind"
  /\ latch = Free
  /\ waitingFor' = [waitingFor EXCEPT ![t] = NoResource]
  /\ cond' = [cond EXCEPT ![request[t].resource] = Free]
  /\ expired' = expired \ {t}
  /\ request' = [request EXCEPT ![t] = NoRequest]
  /\ pc' = [pc EXCEPT ![t] = "idle"]
  /\ UNCHANGED <<lockVars, latch, walk, doomed, victimAt, toRelease, outcome, requests>>

(* The rest of finally: forget the wait under the latch, drop the condition. *)
Unwind(t) ==
  /\ pc[t] = "unwind"
  /\ latch = Free
  /\ waitingFor' = [waitingFor EXCEPT ![t] = NoResource]
  /\ doomed' = doomed \ {t}
  /\ cond' = [cond EXCEPT ![request[t].resource] = Free]
  /\ expired' = expired \ {t}
  /\ request' = [request EXCEPT ![t] = NoRequest]
  /\ pc' = [pc EXCEPT ![t] = "idle"]
  /\ UNCHANGED <<lockVars, latch, walk, victimAt, toRelease, outcome, requests>>

-----------------------------------------------------------------------------
(* release_all(), called at commit and rollback only. *)
StartRelease(t) ==
  /\ pc[t] = "idle"
  /\ latch = Free
  /\ toRelease' = [toRelease EXCEPT ![t] = Resource]
  /\ pc' = [pc EXCEPT ![t] = "release"]
  /\ UNCHANGED <<lockVars, cond, graphVars, request, expired, victimAt,
                 outcome, requests>>

ReleaseEntry(t, r) ==
  /\ pc[t] = "release"
  /\ r \in toRelease[t]
  /\ cond[r] = Free
  /\ toRelease' = [toRelease EXCEPT ![t] = @ \ {r}]
  /\ holders' = [holders EXCEPT ![r][t] = NoLock]
  /\ pc' = IF holders[r][t] # NoLock THEN Notified(r) ELSE pc
  /\ UNCHANGED <<waiters, cond, graphVars, request, expired, victimAt,
                 outcome, requests>>

(* The transaction is over: nothing of it is left. *)
EndRelease(t) ==
  /\ pc[t] = "release"
  /\ toRelease[t] = {}
  /\ latch = Free
  /\ waitingFor' = [waitingFor EXCEPT ![t] = NoResource]
  /\ doomed' = doomed \ {t}
  /\ pc' = [pc EXCEPT ![t] = "done"]
  /\ outcome' = [outcome EXCEPT ![t] = "ok"]
  /\ requests' = [requests EXCEPT ![t] = 0]
  /\ UNCHANGED <<lockVars, cond, latch, walk, request, expired, victimAt,
                 toRelease>>

-----------------------------------------------------------------------------
Detect(t) ==
  \/ WalkBacktrack(t) \/ WalkFollow(t) \/ WalkNone(t)
  \/ WalkSelfVictim(t) \/ WalkOtherVictim(t)

WaitLoop(t) ==
  \/ Grant(t) \/ RaiseDoomed(t) \/ StartWalk(t) \/ Detect(t)
  \/ WakeOwn(t) \/ Detour(t) \/ Reacquire(t)
  \/ Sleep(t) \/ RaiseTimeout(t) \/ Unwind(t)

Release(t) == (\E r \in Resource : ReleaseEntry(t, r)) \/ EndRelease(t)

Acquire(t) ==
  \E r \in Resource, m \in LockMode :
    AcquireHeld(t, r, m) \/ AcquireNow(t, r, m) \/ AcquireWait(t, r, m)

Next ==
  \E t \in Txn :
    Acquire(t) \/ WaitLoop(t) \/ Expire(t) \/ StartRelease(t) \/ Release(t)

Spec == Init /\ [][Next]_vars

(* The scheduler runs every runnable thread; a mutex that is released again
   and again is eventually obtained; and a transaction that got DeadlockError
   rolls back, as docs/concurrency.md requires of the caller.  Nothing is
   assumed of the other clients, and no deadline is assumed to pass. *)
Fairness ==
  \A t \in Txn :
    /\ SF_vars(WaitLoop(t))
    /\ SF_vars(Release(t))
    /\ WF_vars(outcome[t] = "DeadlockError" /\ StartRelease(t))

FairSpec == Spec /\ Fairness

-----------------------------------------------------------------------------
(* Where a thread inside acquire() may stand. *)
Queued == {"loop", "walk", "wake", "wakeTarget", "deadline", "asleep", "reacquire"}
(* ... owning its entry's condition. *)
Owning == {"loop", "walk", "wake", "deadline", "unwind"}

(* Every variable keeps the type LockManager's attributes have; a transaction
   stands in a queue at most once. *)
TypeOK ==
  /\ holders \in [Resource -> [Txn -> LockMode \cup {NoLock}]]
  /\ waiters \in [Resource -> Seq(Txn)]
  /\ \A r \in Resource : IsInjective(waiters[r])
  /\ cond \in [Resource -> Txn \cup {Free}]
  /\ latch \in Txn \cup {Free}
  /\ waitingFor \in [Txn -> Resource \cup {NoResource}]
  /\ doomed \in SUBSET Txn
  /\ pc \in [Txn -> Labels]
  /\ request \in [Txn -> [resource : Resource \cup {NoResource}, mode : LockMode]]
  /\ \A t \in Txn : pc[t] \in Queued \cup {"unwind"} => request[t].resource \in Resource
  /\ expired \in SUBSET Txn
  /\ walk \in Seq([txn : Txn, todo : SUBSET Txn])
  /\ victimAt \in [Txn -> Resource \cup {NoResource}]
  /\ toRelease \in [Txn -> SUBSET Resource]
  /\ outcome \in [Txn -> Outcomes]
  /\ requests \in [Txn -> Nat]

(* acquire() never lets two transactions hold one resource in incompatible
   modes, whatever upgrades, timeouts and wake-ups came before. *)
HoldersCompatible ==
  \A r \in Resource : \A t, u \in Txn :
    t # u /\ holders[r][t] # NoLock /\ holders[r][u] # NoLock
      => Compatible(holders[r][t], holders[r][u])

(* No lost wake-up (NOTES.md B6-1, B6-6): a thread asleep in condition.wait()
   never has a request that acquire() could grant now. *)
NoLostWakeup ==
  \A t \in Txn :
    pc[t] = "asleep" => ~Grantable(t, request[t].resource, request[t].mode)

(* A victim doomed by somebody else (NOTES.md B6-5) does not sleep on: as long
   as it is asleep, some thread is on its way through _wake() to the entry it
   sleeps on. *)
DoomedIsWoken ==
  \A v \in doomed :
    pc[v] = "asleep" =>
      \E t \in Txn : /\ pc[t] \in {"wake", "wakeTarget"}
                     /\ victimAt[t] = request[v].resource

(* A doom never outlives the wait it condemns: _doomed names only transactions
   that _waiting_for names, and those are inside acquire().  Otherwise a later,
   innocent acquire() of the same transaction would raise DeadlockError. *)
DoomEndsWithWait ==
  /\ \A t \in doomed : waitingFor[t] # NoResource
  /\ \A t \in Txn : waitingFor[t] # NoResource =>
       pc[t] \in Queued \cup {"unwind"} /\ waitingFor[t] = request[t].resource

(* The youngest-victim rule: DeadlockError never hits the oldest transaction,
   neither directly nor through _doomed. *)
OldestNeverVictim ==
  \A t \in Txn :
    t \in doomed \/ outcome[t] = "DeadlockError" => \E u \in Txn : u < t

(* Strict two-phase locking: outside release_all() no lock is dropped or
   weakened; in particular a SHARED request never downgrades an EXCLUSIVE. *)
LocksOnlyGrow ==
  [][\A r \in Resource, t \in Txn :
       holders[r][t] # NoLock /\ pc[t] # "release"
         => holders'[r][t] \in {holders[r][t], "EXCLUSIVE"}]_vars

Table == INSTANCE LockTable WITH held <- holders

(* Whatever the queues, the walks and the wake-ups do, callers see the plain
   lock table: acquire() returns holding a lock nobody conflicts with, and a
   lock is given up by release_all() only. *)
ImplementsLockTable == Table!LockSpec

(* C is deadlocked on held locks: every member is queued and waits for a
   conflicting lock that another member holds. *)
Deadlocked(C) ==
  \A t \in C :
    /\ pc[t] \in Queued
    /\ \E u \in C \ {t} :
         LET h == holders[request[t].resource][u] IN
         h # NoLock /\ ~Compatible(request[t].mode, h)

(* Detection, not the timeout, ends every deadlock on held locks: once a set
   of transactions is deadlocked, one of them leaves the queue. *)
DeadlockResolved ==
  \A C \in (SUBSET Txn) \ {{}} : Deadlocked(C) ~> ~Deadlocked(C)

(* The next step of thread t needs a mutex that thread u owns: the condition
   of an entry, or the latch. *)
Blocks(u, t) ==
  \/ pc[t] = "wakeTarget" /\ cond[victimAt[t]] = u
  \/ pc[t] = "reacquire" /\ cond[request[t].resource] = u
  \/ pc[t] = "release" /\ (latch = u \/ \E r \in toRelease[t] : cond[r] = u)
  \/ pc[t] \in {"loop", "wake", "unwind"} /\ latch = u

(* The mutexes of the lock manager itself never deadlock: no threads stand in
   a circle each needing the condition or the latch that the next one owns.
   _wake() gives its own condition back before it takes the victim's, or two
   detectors on their way to each other's entry would be such a circle. *)
NoLatchDeadlock ==
  \A C \in (SUBSET Txn) \ {{}} : \E t \in C : \A u \in C : ~Blocks(u, t)

(* docs/concurrency.md: "a cycle aborts the youngest transaction in it".  A
   transaction waits for the conflicting holders of its resource and for the
   transactions queued ahead of it; if all members of such a cycle sleep, one
   of them has been chosen as a victim. *)
Ahead(t, u) ==
  LET q == waiters[request[t].resource] IN
  \E i, j \in DOMAIN q : i < j /\ q[i] = u /\ q[j] = t

BlockedBy(t, u) ==
  LET h == holders[request[t].resource][u] IN
  Ahead(t, u) \/ (h # NoLock /\ ~Compatible(request[t].mode, h))

EverySleepingCycleHasVictim ==
  \A C \in (SUBSET Txn) \ {{}} :
    (\A t \in C : pc[t] = "asleep" /\ \E u \in C \ {t} : BlockedBy(t, u))
      => C \cap doomed # {}

=============================================================================
