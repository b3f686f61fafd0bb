------------------------------ MODULE Session ------------------------------
(***************************************************************************)
(* api/connection.py over everything the connections of one Database       *)
(* share: the lock table, the pager/pool hook, the in-memory header with   *)
(* its schema cookie, the Catalog, quill_stat1 and the plan cache.         *)
(*                                                                         *)
(* A connection runs one statement at a time; every point where it may     *)
(* wait for a lock, or where another thread may look at what it shares, is *)
(* a step.  The lock manager appears as the table it implements            *)
(* (LockTable), commit and rollback as the atomic store they implement     *)
(* (AtomicStore).  The content of a table is a version number.             *)
(***************************************************************************)
EXTENDS Naturals, FiniteSets

CONSTANTS Conn,           \* connections, each driven by its own thread
          Table,          \* user tables
          Index,          \* names CREATE INDEX may use
          Stat,           \* quill_stat1
          None,           \* Python's None
          MaxTxn,         \* bound: transactions over all connections
          MaxChanges      \* bound: statements that change the database

ASSUME NamesAssumption ==
  /\ Stat \notin Table /\ None \notin Nat /\ None \notin Index
  /\ {"__schema__", "__writer__"} \cap (Table \cup {Stat}) = {}
ASSUME SessionBounds == MaxTxn \in Nat /\ MaxChanges \in Nat

Tabs == Table \cup {Stat}
Resource == {"__schema__", "__writer__"} \cup Tabs
Txn == 1..MaxTxn

VARIABLES
  pc,          \* where in execute() or _end_txn() the connection stands
  call,        \* the locals of that call
  txn,         \* conn._txn
  cursor,      \* conn._open_cursor: None or [txn, implicit, bound]
  lastSeen,    \* conn._last_seen_cookie
  held,        \* the lock table
  hook,        \* pager._txn = pool._txn
  db,          \* what pool and pager show: [idx, cookie, ver]
  saved,       \* the writer's rollback point
  committed,   \* history: the last committed database
  catalog,     \* Catalog._indexes, per table
  plans,       \* PlanCache._entries of the SELECT on each table
  seen,        \* history: per transaction, the table versions it relies on
  nextTxn,     \* db._next_txn_id
  changes,
  stranded     \* history: transactions an exception of the planner cut loose

conn == <<pc, call, txn, cursor, lastSeen>>
store == <<hook, db, saved, committed>>
locks == <<held, seen>>
planned == <<plans, stranded>>
bounds == <<nextTxn, changes>>
vars == <<conn, store, catalog, planned, locks, bounds>>

Locks == INSTANCE LockTable

-----------------------------------------------------------------------------
Indexes == [Table -> SUBSET Index]
Version == 0..MaxChanges
Database == [idx : Indexes, cookie : Version, ver : [Tabs -> Version]]
Kinds == {"select", "write", "create_index", "analyze",
          "begin", "commit", "rollback", "close"}
Call == [kind : Kinds, table : Table \cup {None}, index : Index \cup {None},
         txn : Txn, auto : BOOLEAN, bound : Indexes, cookie : Version]
Cursor == [txn : Txn, implicit : BOOLEAN, bound : Indexes]

ASSUME NoneAssumption == None \notin Call /\ None \notin Cursor

Unread == [t \in Tabs |-> None]
NoIndexes == [t \in Table |-> {}]
Contents(idx, cookie, ver) == [idx |-> idx, cookie |-> cookie, ver |-> ver]
EmptyDb == Contents(NoIndexes, 0, [t \in Tabs |-> 0])

(* What execute() is given; BEGIN, COMMIT, ROLLBACK and close() name nothing. *)
Statement ==
  [kind : {"select", "write"}, table : Table, index : {None}]
    \cup [kind : {"create_index"}, table : Table, index : Index]
    \cup [kind : {"analyze"}, table : Table \cup {None}, index : {None}]

Control(kind) == [kind |-> kind, table |-> None, index |-> None]

(* execute()'s locals: the statement, stmt_txn, owns_txn, the indexes bind()
   found, and schema_cookie as read before planning. *)
Frame(s, x, auto, bound, cookie) ==
  [kind |-> s.kind, table |-> s.table, index |-> s.index, txn |-> x,
   auto |-> auto, bound |-> bound, cookie |-> cookie]
Fresh(s, x, auto) == Frame(s, x, auto, NoIndexes, 0)

Init ==
  /\ pc = [c \in Conn |-> "idle"]
  /\ call = [c \in Conn |-> None]
  /\ txn = [c \in Conn |-> None]
  /\ cursor = [c \in Conn |-> None]
  /\ lastSeen = [c \in Conn |-> 0]
  /\ held = Locks!NoneHeld
  /\ hook = None
  /\ db = EmptyDb /\ saved = None /\ committed = EmptyDb
  /\ catalog = NoIndexes
  /\ plans = [t \in Table |-> None]
  /\ seen = [x \in Txn |-> Unread]
  /\ nextTxn = 1
  /\ changes = 0
  /\ stranded = {}

Enter(c, l, f) == pc' = [pc EXCEPT ![c] = l] /\ call' = [call EXCEPT ![c] = f]
Goto(c, l) == pc' = [pc EXCEPT ![c] = l] /\ UNCHANGED call
Return(c) == Enter(c, "idle", None)

(* The locks of x are gone, and with them what it relies on. *)
Ended(x) == Locks!Released(x, Resource) /\ seen' = [seen EXCEPT ![x] = Unread]

(* Cursor.close(): the end of an autocommit SELECT's stream commits its
   transaction, which has no journal: its locks are released. *)
CloseCursor(c) ==
  /\ cursor' = [cursor EXCEPT ![c] = None]
  /\ IF cursor[c] # None /\ cursor[c].implicit THEN Ended(cursor[c].txn)
     ELSE UNCHANGED locks

(* fetchone() past the last row or raising, or an explicit close(). *)
FinishCursor(c) ==
  /\ pc[c] = "idle" /\ cursor[c] # None
  /\ CloseCursor(c)
  /\ UNCHANGED <<pc, call, txn, lastSeen, store, catalog, planned, bounds>>

(* Mutant: next_txn_id() hands out an id twice. *)
NewTxnTwice == nextTxn <= MaxTxn /\ UNCHANGED nextTxn

NewTxn == nextTxn <= MaxTxn /\ nextTxn' = nextTxn + 1

(* execute() of anything but BEGIN, COMMIT and ROLLBACK: the open cursor is
   closed, _statement_txn() chooses the transaction. *)
Execute(c, s) ==
  /\ pc[c] = "idle"
  /\ s.kind # "select" => changes < MaxChanges
  /\ CloseCursor(c)
  /\ IF txn[c] = None
     THEN /\ Enter(c, "schema", Fresh(s, nextTxn, TRUE))
          /\ NewTxn
     ELSE /\ Enter(c, "schema", Fresh(s, txn[c], FALSE))
          /\ UNCHANGED nextTxn
  /\ UNCHANGED <<txn, lastSeen, store, catalog, planned, changes>>

X(c) == call[c].txn
T(c) == call[c].table

(* Mutant: DDL asks for "__schema__" like everybody else. *)
SchemaModeShared(c) == "SHARED"

SchemaMode(c) == IF call[c].kind = "create_index" THEN "EXCLUSIVE" ELSE "SHARED"

(* lock_schema_read() / lock_schema_write(). *)
LockSchema(c) ==
  /\ pc[c] = "schema"
  /\ Locks!Granted(X(c), "__schema__", SchemaMode(c))
  /\ Goto(c, "bind")
  /\ UNCHANGED <<txn, cursor, lastSeen, store, catalog, planned, seen, bounds>>

(* Catalog.load() if another connection has moved the cookie. *)
Resync(c) ==
  /\ catalog' = IF db.cookie # lastSeen[c] THEN db.idx ELSE catalog
  /\ lastSeen' = [lastSeen EXCEPT ![c] = db.cookie]

(* bind(); a mutation's own transaction then becomes conn._txn. *)
Bind(c) ==
  LET select == call[c].kind = "select" IN
  /\ pc[c] = "bind"
  /\ Resync(c)
  /\ Enter(c, IF select THEN "plan" ELSE "writer",
           Frame(call[c], X(c), call[c].auto, catalog', call[c].cookie))
  /\ txn' = IF select THEN txn ELSE [txn EXCEPT ![c] = X(c)]
  /\ UNCHANGED <<cursor, store, planned, locks, bounds>>

(* Mutant: the statement's own transaction is forgotten. *)
AbandonForgets(c) == Return(c) /\ UNCHANGED locks

(* A statement ends before it has a cursor or a mutation body: its own
   transaction, which has changed nothing, is rolled back. *)
Abandon(c) == Return(c) /\ IF call[c].auto THEN Ended(X(c)) ELSE UNCHANGED locks

BindFails(c) ==
  /\ pc[c] = "bind"
  /\ Resync(c)
  /\ Abandon(c)
  /\ UNCHANGED <<txn, cursor, store, planned, bounds>>

-----------------------------------------------------------------------------
(* SELECT: the plan cache, the planner, and the scan's open(). *)

(* PlanCache.get() *)
CacheHit(c) == plans[T(c)] # None /\ plans[T(c)].cookie = db.cookie
PlanExists(c) == plans[T(c)].index \in catalog[T(c)] \cup {None}

PlanHit(c) ==
  /\ pc[c] = "plan" /\ CacheHit(c) /\ PlanExists(c)
  /\ Goto(c, "open")
  /\ UNCHANGED <<txn, cursor, lastSeen, store, catalog, planned, locks, bounds>>

(* rebuild_access_path() finds no index of the cached name. *)
StaleHit(c) == pc[c] = "plan" /\ CacheHit(c) /\ ~PlanExists(c)

(* build_operator() stands outside execute()'s try blocks.  It raises on a
   stale hit (StopIteration) and on any error of the planner's reads of
   quill_stat1, which take no lock (an I/O error, PoolExhausted, a row that
   ANALYZE is rewriting); nobody ends an autocommit SELECT's transaction. *)
PlanFails(c) ==
  /\ StaleHit(c) \/ pc[c] = "cost"
  /\ Return(c)
  /\ stranded' = IF call[c].auto THEN stranded \cup {X(c)} ELSE stranded
  /\ UNCHANGED <<txn, cursor, lastSeen, store, catalog, plans, locks, bounds>>

PlanMiss(c) ==
  /\ pc[c] = "plan" /\ ~CacheHit(c)
  /\ Enter(c, "cost", Frame(call[c], X(c), call[c].auto, call[c].bound,
                          db.cookie))
  /\ UNCHANGED <<txn, cursor, lastSeen, store, catalog, planned, locks, bounds>>

(* Any candidate may win; on_planned() stores it under the cookie read above. *)
PlanBuild(c) ==
  /\ pc[c] = "cost"
  /\ \E i \in catalog[T(c)] \cup {None} :
       plans' = [plans EXCEPT ![T(c)] = [cookie |-> call[c].cookie, index |-> i]]
  /\ Goto(c, "open")
  /\ UNCHANGED <<txn, cursor, lastSeen, store, catalog, stranded, locks, bounds>>

OpenCursor(c) ==
  /\ cursor' = [cursor EXCEPT ![c] =
                  [txn |-> X(c), implicit |-> call[c].auto,
                   bound |-> call[c].bound]]
  /\ seen' = [seen EXCEPT ![X(c)][T(c)] = db.ver[T(c)]]
  /\ Return(c)

(* Mutant: the autocommit SELECT's transaction ends with execute(). *)
OpenScanReleases(c) ==
  /\ pc[c] = "open"
  /\ Locks!CanGrant(X(c), T(c), "SHARED")
  /\ OpenCursor(c)
  /\ held' = IF call[c].auto THEN Locks!Without(X(c), Resource) ELSE held
  /\ UNCHANGED <<txn, lastSeen, store, catalog, planned, bounds>>

(* SeqScan/IndexScan.open(): SHARED on the table; the cursor stays open. *)
OpenScan(c) ==
  /\ pc[c] = "open"
  /\ Locks!Granted(X(c), T(c), "SHARED")
  /\ OpenCursor(c)
  /\ UNCHANGED <<txn, lastSeen, store, catalog, planned, bounds>>

(* LockTimeoutError or DeadlockError before a mutation body has begun. *)
LockFailsEarly(c) ==
  /\ \/ pc[c] = "schema" /\ ~Locks!Has(X(c), "__schema__", SchemaMode(c))
     \/ pc[c] = "open" /\ ~Locks!Has(X(c), T(c), "SHARED")
  /\ Abandon(c)
  /\ UNCHANGED <<txn, cursor, lastSeen, store, catalog, planned, bounds>>

-----------------------------------------------------------------------------
(* INSERT, UPDATE, DELETE, CREATE INDEX, ANALYZE: lock_for_write(), then the
   body, all inside _run_mutation(). *)
WriteTarget(c) == IF call[c].kind = "analyze" THEN Stat ELSE T(c)

(* _acquire_writer(): the first time, the rollback point is taken. *)
AcquireWriter(x) ==
  /\ Locks!Granted(x, "__writer__", "EXCLUSIVE")
  /\ saved' = IF Locks!Has(x, "__writer__", "EXCLUSIVE") THEN saved ELSE db

LockWriter(c) ==
  /\ pc[c] = "writer"
  /\ AcquireWriter(X(c))
  /\ Goto(c, "table")
  /\ UNCHANGED <<txn, cursor, lastSeen, hook, db, committed, catalog, planned,
                 seen, bounds>>

LockTarget(c) ==
  /\ pc[c] = "table"
  /\ Locks!Granted(X(c), WriteTarget(c), "EXCLUSIVE")
  /\ hook' = X(c)
  /\ Goto(c, IF call[c].kind = "analyze" THEN "reads" ELSE "work")
  /\ UNCHANGED <<txn, cursor, lastSeen, db, saved, committed, catalog, planned,
                 seen, bounds>>

(* ANALYZE reads every table it measures: its target, or all of them. *)
Measures(c) == IF T(c) = None THEN Table ELSE {T(c)}

LockMeasured(c, t) ==
  /\ pc[c] = "reads"
  /\ t \in Measures(c)
  /\ ~Locks!Has(X(c), t, "SHARED")
  /\ Locks!Granted(X(c), t, "SHARED")
  /\ UNCHANGED <<conn, store, catalog, planned, seen, bounds>>

Measured(c) == \A t \in Measures(c) : Locks!Has(X(c), t, "SHARED")

(* LockTimeoutError or DeadlockError inside a mutation body. *)
LockFailsLate(c) ==
  \/ pc[c] = "writer" /\ ~Locks!Has(X(c), "__writer__", "EXCLUSIVE")
  \/ pc[c] = "table" /\ ~Locks!Has(X(c), WriteTarget(c), "EXCLUSIVE")
  \/ pc[c] = "reads" /\ ~Measured(c)

(* The body is done: an autocommit statement commits. *)
BodyDone(c) == IF call[c].auto THEN Goto(c, "commit") ELSE Return(c)

(* The body raises: an autocommit statement rolls back, an explicit
   transaction stays open with whatever the body has done so far. *)
BodyRaises(c) == IF call[c].auto THEN Goto(c, "rollback") ELSE Return(c)

Written(x, t) ==
  /\ changes' = changes + 1
  /\ db' = Contents(db.idx, db.cookie, [db.ver EXCEPT ![t] = changes + 1])
  /\ seen' = [seen EXCEPT ![x][t] = changes + 1]

(* Some or all of the rows are written. *)
WriteRows(c) ==
  /\ pc[c] = "work" /\ call[c].kind = "write" /\ changes < MaxChanges
  /\ Written(X(c), T(c))
  /\ BodyDone(c) \/ BodyRaises(c)
  /\ UNCHANGED <<txn, cursor, lastSeen, hook, saved, committed, catalog, planned,
                 held, nextTxn>>

WithIndex(idx, c) == [idx EXCEPT ![T(c)] = @ \cup {call[c].index}]

(* create_index(): the row in page 1, the cookie, the shared Catalog. *)
CreateIndex(c) ==
  /\ pc[c] = "work" /\ call[c].kind = "create_index" /\ changes < MaxChanges
  /\ \A t \in Table : call[c].index \notin catalog[t]
  /\ db' = Contents(WithIndex(db.idx, c), db.cookie + 1, db.ver)
  /\ catalog' = WithIndex(catalog, c)
  /\ changes' = changes + 1
  /\ BodyDone(c)
  /\ UNCHANGED <<txn, cursor, lastSeen, hook, saved, committed, planned, locks,
                 nextTxn>>

(* A body that raises without changing anything more: no lock, or
   UniqueViolationError, IndexAlreadyExistsError, an I/O error. *)
BodyFails(c) ==
  /\ pc[c] \in {"work", "bump"} \/ LockFailsLate(c)
  /\ BodyRaises(c)
  /\ UNCHANGED <<txn, cursor, lastSeen, store, catalog, planned, locks, bounds>>

(* analyze(): the rows of quill_stat1 first, the cookie last. *)
AnalyzeRows(c) ==
  /\ pc[c] = "reads" /\ Measured(c) /\ changes < MaxChanges
  /\ Written(X(c), Stat)
  /\ Goto(c, "bump")
  /\ UNCHANGED <<txn, cursor, lastSeen, hook, saved, committed, catalog, planned,
                 held, nextTxn>>

AnalyzeBump(c) ==
  /\ pc[c] = "bump"
  /\ db' = Contents(db.idx, db.cookie + 1, db.ver)
  /\ BodyDone(c)
  /\ UNCHANGED <<txn, cursor, lastSeen, hook, saved, committed, catalog, planned,
                 locks, bounds>>

-----------------------------------------------------------------------------
(* _begin(); BEGIN IMMEDIATE then takes "__schema__" and "__writer__". *)
Begin(c, immediate) ==
  /\ pc[c] = "idle" /\ txn[c] = None
  /\ CloseCursor(c)
  /\ NewTxn
  /\ txn' = [txn EXCEPT ![c] = nextTxn]
  /\ IF immediate
     THEN Enter(c, "immSchema", Fresh(Control("begin"), nextTxn, FALSE))
     ELSE Return(c)
  /\ UNCHANGED <<lastSeen, store, catalog, planned, changes>>

ImmediateSchema(c) ==
  /\ pc[c] = "immSchema"
  /\ Locks!Granted(X(c), "__schema__", "SHARED")
  /\ Goto(c, "immWriter")
  /\ UNCHANGED <<txn, cursor, lastSeen, store, catalog, planned, seen, bounds>>

ImmediateWriter(c) ==
  /\ pc[c] = "immWriter"
  /\ AcquireWriter(X(c))
  /\ Return(c)
  /\ UNCHANGED <<txn, cursor, lastSeen, hook, db, committed, catalog, planned,
                 seen, bounds>>

(* lock_immediate() raises: conn._txn has been set already and stays. *)
ImmediateFails(c) ==
  /\ pc[c] \in {"immSchema", "immWriter"}
  /\ Return(c)
  /\ UNCHANGED <<txn, cursor, lastSeen, store, catalog, planned, locks, bounds>>

(* COMMIT, ROLLBACK, and close() with a transaction open: _end_txn() closes
   the cursor first. *)
EndTxn(c, how) ==
  /\ pc[c] = "idle" /\ txn[c] # None
  /\ CloseCursor(c)
  /\ Enter(c, IF how = "commit" THEN "commit" ELSE "rollback",
           Fresh(Control(how), txn[c], FALSE))
  /\ UNCHANGED <<txn, lastSeen, store, catalog, planned, bounds>>

CloseConnection(c) ==
  /\ pc[c] = "idle" /\ txn[c] = None
  /\ CloseCursor(c)
  /\ Enter(c, "closed", None)
  /\ UNCHANGED <<txn, lastSeen, store, catalog, planned, bounds>>

IsWriter(x) == held["__writer__"][x] = "EXCLUSIVE"

(* commit(release=False): what the writer shows is the committed state. *)
Commit(c) ==
  /\ pc[c] = "commit"
  /\ committed' = IF IsWriter(X(c)) THEN db ELSE committed
  /\ Goto(c, "unhookCommitted")
  /\ UNCHANGED <<txn, cursor, lastSeen, hook, db, saved, catalog, planned, locks,
                 bounds>>

(* commit() raises: the transaction, an autocommit one too, stays open. *)
CommitFails(c) ==
  /\ pc[c] = "commit" /\ hook = X(c)
  /\ Return(c)
  /\ UNCHANGED <<txn, cursor, lastSeen, store, catalog, planned, locks, bounds>>

(* rollback(release=False): back to the rollback point, header included. *)
Rollback(c) ==
  /\ pc[c] = "rollback"
  /\ db' = IF IsWriter(X(c)) THEN saved ELSE db
  /\ seen' = [seen EXCEPT ![X(c)] = Unread]
  /\ Goto(c, "unhookRolledBack")
  /\ UNCHANGED <<txn, cursor, lastSeen, hook, saved, committed, catalog, planned,
                 held, bounds>>

AfterUnhook(c) ==
  IF pc[c] = "unhookRolledBack" /\ Locks!Has(X(c), "__schema__", "EXCLUSIVE")
  THEN "reload" ELSE "release"

(* Mutant: the hook keeps naming the finished transaction. *)
UnhookForgotten(c) ==
  /\ pc[c] \in {"unhookCommitted", "unhookRolledBack"}
  /\ txn' = [txn EXCEPT ![c] = None]
  /\ Goto(c, AfterUnhook(c))
  /\ UNCHANGED <<cursor, lastSeen, store, catalog, planned, locks, bounds>>

(* The hook is unwired while "__writer__" is still held. *)
Unhook(c) ==
  /\ pc[c] \in {"unhookCommitted", "unhookRolledBack"}
  /\ hook' = IF hook = X(c) THEN None ELSE hook
  /\ txn' = [txn EXCEPT ![c] = None]
  /\ Goto(c, AfterUnhook(c))
  /\ UNCHANGED <<cursor, lastSeen, db, saved, committed, catalog, planned, locks,
                 bounds>>

(* A rolled-back DDL: the shared Catalog is reloaded under "__schema__". *)
ReloadCatalog(c) ==
  /\ pc[c] = "reload"
  /\ catalog' = db.idx
  /\ lastSeen' = [lastSeen EXCEPT ![c] = db.cookie]
  /\ Goto(c, "release")
  /\ UNCHANGED <<txn, cursor, store, planned, locks, bounds>>

ReleaseLocks(c) ==
  /\ pc[c] = "release"
  /\ Ended(X(c))
  /\ saved' = IF IsWriter(X(c)) THEN None ELSE saved
  /\ IF call[c].kind = "close" THEN Enter(c, "closed", None) ELSE Return(c)
  /\ UNCHANGED <<txn, cursor, lastSeen, hook, db, committed, catalog, planned,
                 bounds>>

-----------------------------------------------------------------------------
Select(c) ==
  PlanHit(c) \/ PlanFails(c) \/ PlanMiss(c) \/ PlanBuild(c) \/ OpenScan(c)

Mutation(c) ==
  \/ LockWriter(c) \/ LockTarget(c)
  \/ \E t \in Table : LockMeasured(c, t)
  \/ WriteRows(c) \/ CreateIndex(c) \/ BodyFails(c)
  \/ AnalyzeRows(c) \/ AnalyzeBump(c)

Transaction(c) ==
  \/ \E immediate \in BOOLEAN : Begin(c, immediate)
  \/ ImmediateSchema(c) \/ ImmediateWriter(c) \/ ImmediateFails(c)
  \/ \E how \in {"commit", "rollback", "close"} : EndTxn(c, how)
  \/ Commit(c) \/ CommitFails(c) \/ Rollback(c)
  \/ Unhook(c) \/ ReloadCatalog(c) \/ ReleaseLocks(c)

Next ==
  \E c \in Conn :
    \/ \E s \in Statement : Execute(c, s)
    \/ LockSchema(c) \/ Bind(c) \/ BindFails(c) \/ LockFailsEarly(c)
    \/ FinishCursor(c) \/ CloseConnection(c)
    \/ Select(c) \/ Mutation(c) \/ Transaction(c)

Spec == Init /\ [][Next]_vars

-----------------------------------------------------------------------------
Labels == {"idle", "schema", "bind", "plan", "cost", "open", "writer", "table",
           "reads", "work", "bump", "immSchema", "immWriter", "commit", "rollback",
           "unhookCommitted", "unhookRolledBack", "reload", "release", "closed"}

(* Every variable has its type, and a live transaction belongs to one
   connection: next_txn_id() never hands out an id twice. *)
TypeOK ==
  /\ pc \in [Conn -> Labels]
  /\ \A c \in Conn :
       /\ pc[c] \in {"idle", "closed"} <=> call[c] = None
       /\ call[c] \in Call \cup {None}
  /\ txn \in [Conn -> Txn \cup {None}]
  /\ \A c \in Conn : \A d \in Conn \ {c} :
       /\ txn[c] # None => txn[c] # txn[d]
       /\ call[c] # None /\ call[d] # None => X(c) # X(d)
  /\ cursor \in [Conn -> Cursor \cup {None}]
  /\ lastSeen \in [Conn -> Version]
  /\ held \in [Resource -> [Txn -> Locks!Modes]]
  /\ hook \in Txn \cup {None}
  /\ db \in Database /\ saved \in Database \cup {None} /\ committed \in Database
  /\ catalog \in Indexes
  /\ plans \in [Table -> [cookie : Version, index : Index \cup {None}] \cup {None}]
  /\ seen \in [Txn -> [Tabs -> Version \cup {None}]]
  /\ nextTxn \in 1..MaxTxn + 1 /\ changes \in Version /\ stranded \subseteq Txn

(* docs/concurrency.md, "Serializable": while a transaction lives - an
   autocommit SELECT lives until its stream ends - every table it has read or
   written is as it read or wrote it, and holds nobody else's uncommitted
   change. *)
ReadsStayValid ==
  \A x \in Txn, t \in Tabs :
    seen[x][t] # None =>
      /\ db.ver[t] = seen[x][t]
      /\ db.ver[t] = committed.ver[t] \/ hook = x

(* The schema a transaction may rely on: nobody else's uncommitted DDL. *)
SchemaFor(x, idx) ==
  /\ idx = db.idx /\ catalog = db.idx
  /\ db.idx = committed.idx \/ held["__schema__"][x] = "EXCLUSIVE"

(* docs/concurrency.md: a statement never binds or plans against an
   uncommitted DDL of another transaction, and no DDL commits underneath it;
   so an INSERT maintains exactly the indexes that exist, and an open cursor
   walks one that still does. *)
SchemaStable ==
  \A c \in Conn :
    /\ pc[c] \in {"plan", "cost", "open", "writer", "table", "reads", "work"}
         => SchemaFor(X(c), call[c].bound)
    /\ cursor[c] # None => SchemaFor(cursor[c].txn, cursor[c].bound)

(* lock_for_write(): whenever pages differ from the committed ones, the hook
   that journals them is set; and it only ever names the one holder of
   "__writer__". *)
HookIsWriter ==
  /\ hook # None => IsWriter(hook)
  /\ db # committed => hook # None

(* The transaction x is within the reach of connection c: its open one, that
   of its cursor, or that of its running statement. *)
WithinReach(c, x) ==
  \/ txn[c] = x
  \/ cursor[c] # None /\ cursor[c].txn = x
  \/ call[c] # None /\ X(c) = x

(* docs/concurrency.md: an autocommit SELECT's transaction "releases at its
   own commit": a transaction that holds a lock can still be ended by some
   connection.  The planner's exceptions break it (PlanFails). *)
NoLeakedLocks ==
  \A x \in Txn, r \in Resource :
    held[r][x] # "none" => \E c \in Conn : WithinReach(c, x)

(* How far the damage goes: whichever statement fails wherever, the only locks
   nobody can release any more are SHARED on "__schema__", of SELECTs whose
   planning raised.  They block DDL for as long as the Database lives; no
   table and no writer is ever blocked by a transaction that has no owner. *)
LeakIsSchemaRead ==
  \A x \in Txn, r \in Resource :
    held[r][x] # "none" =>
      \/ \E c \in Conn : WithinReach(c, x)
      \/ x \in stranded /\ r = "__schema__" /\ held[r][x] = "SHARED"

(* plan/cache.py: "A stale entry is simply never returned": the index a cache
   hit names exists. *)
CachedPlanUsable == \A c \in Conn : pc[c] = "plan" /\ CacheHit(c) => PlanExists(c)

=============================================================================
