# A TLA+ development of quilldb

quilldb is a pure-Python SQL engine over the SQLite file format: threads of one
process share a `Database`, each through its own `Connection`.  This directory
holds TLA+ modules of its concurrency and durability core, its two trees, its
planner and its executor, TLC configurations that check them on small instances,
and TLAPS proofs.  Paths below are relative to `src/src/quilldb/`; `PROJECT.json`
maps every definition to its lines.

## 1. The system

| Component | State it keeps | Operations | Works with |
|---|---|---|---|
| Lock manager `txn/locks.py` | per resource holders, FIFO queue, condition; `_waiting_for`, `_doomed` under `_latch` | `acquire`, `_detect_deadlock`, `_wake`, `release_all` | called by transactions; threads meet here |
| Transaction `txn/transaction.py` | journalled pages, page count at the rollback point, `barrier_passed`, locks held | `lock_*`, `will_modify`, `commit`, `rollback` | hooks itself into pager and pool as `_txn` |
| Journal, recovery `txn/journal.py`, `txn/recovery.py` | the `-journal` file: magic, nRec, original pages | `begin`, `record_original`, `commit_barrier`, `replay`, `delete`; `recover_if_needed` | pager |
| Pager `storage/pager.py`, header `storage/header.py` | the file, the in-memory header (page count, freelist, schema cookie) | read, write, sync, truncate, restore, reload | pool, journal |
| Buffer pool `storage/bufferpool.py` | cached pages, dirty flags, pins, LRU order | `get_page`, `get_page_for_write`, allocate, free, evict, flush, clear | transaction hook, pager |
| Connection, database `api/` | open transaction, open cursor, last seen cookie, connection count | `execute`, BEGIN/COMMIT/ROLLBACK, fetch, close | everything below |
| Catalog `catalog/` | tables and indexes in memory, rows of page 1 | `load`, `create_table`, `create_index` | schema cookie, pool |
| Statistics, plan cache `plan/analyze.py`, `plan/cache.py` | `quill_stat1`, cached plan shapes by SQL text and cookie | `analyze`, `table_stats`, `get`, `put` | catalog, planner |
| Planner `plan/` | none | predicates, access paths, costs, join order | statistics, catalog |
| Executor `exec/` | operator trees with cursors | open/next/close, INSERT/UPDATE/DELETE | B-trees, locks |
| Trees `btree/`, pages `storage/page.py`, `storage/overflow.py` | table and index trees, overflow chains | insert, delete, split, seek, scan | pool |
| Codec `codec/` | none | varints, records | trees |
| SQL front end `sql/`, command line `cli.py` | none | tokenise, parse, bind | catalog |

What is hard here, and hard to test: the interleaving of threads inside the
lock manager (lost wake-ups, a walk over data that other threads change, dooms
that outlive their wait); the order in which journal, pages, header and unlink
reach the disk, a crash between any two of them and again during recovery; a
COMMIT that fails halfway; statements of several connections that share one
catalog, one plan cache and one in-memory header; and, in the trees and the
planner, long sequences of legal calls and boundary cases.  `PROJECT.json`
lists each hazard at its line, with the property that watches it.

## 2. Modules

| Module | Models | State and actions |
|---|---|---|
| `LockManager` | `txn/locks.py` | `holders`, `waiters`, `waitingFor`, `doomed` are the code's dictionaries; `cond` and `latch` own its mutexes; `pc`, `request`, `walk` are a thread's locals. `Acquire`, `WaitLoop` (grant, enqueue or sleep), the detection walk one edge at a time, wake, time-out, unwind and `release_all()` one entry at a time |
| `LockTable` | what callers of the lock manager rely on | `held`; grant a compatible request, release everything of a transaction. Abstract specification of `LockManager`, and the locks of `Session` |
| `JournalCommit` | `txn/transaction.py`, `journal.py`, `recovery.py`, and what they drive of `storage/` | in-memory header and cache, the journal, the file as the operating system shows it and what a power cut may leave of it. Page writes, allocation and freeing, loads and evictions, COMMIT and ROLLBACK one I/O call at a time, a failing I/O call, crash, power cut, reopening and replay |
| `AtomicStore` | what COMMIT and ROLLBACK promise | a database that changes in one step at commit and at no other time. Abstract specification of `JournalCommit` |
| `Session` | `api/connection.py` with what connections share: hook, header, catalog, statistics, plan cache | one process per connection; every point at which a statement can wait for a lock, fail, or be observed is a step |
| `TreePages` | `storage/page.py`, `btree/search.py`, `btree/split.py` | no state: room, slots and the decisions of a split, for both trees |
| `BTree` | `btree/btree.py`, `cursor.py`'s `record()`, `storage/overflow.py` | `file` maps page numbers to leaves, interior pages, overflow pages or nothing; `op` is a promotion or an unlinking between two levels. Insert, delete, one step per level; descent and chains are functions that follow pointers |
| `TableCursor` | `btree/cursor.py` | no state of its own: the walks over `BTree`'s pages, which are recursive operators |
| `IndexTree` | `btree/index.py` | the same for a tree whose dividers are live entries: delete of a divider, merge, rotation, pulling a child up into the root, both walks |
| `Mutation` | `Insert`, `Delete`, `Update` of `exec/operators.py` under `Connection._run_mutation` | `rows`, `entries` of each index, the statement as a list of rows and the tree call it is at; each call may raise |
| `AccessPaths` | `plan/predicates.py`, `plan/planner.py`, `IndexScan.open()`'s probes, `compare_keys` | no state: which conjuncts an index consumes, the candidate paths, and the index entries a probe covers |
| `Select` | `plan/search.py`, `exec/join.py`, `exec/sort.py`, the scans and the tail of `exec/operators.py` | one SELECT: `plan` grows by the join order and one access path per table, `levels` are the scans open at the moment, `out` the rows delivered |
| `BufferPool` | `storage/bufferpool.py` with `commit`, `rollback` and `will_modify` as its users | `cache` with pins and dirty flags, `file`, the journalled originals; a step per latched method, `flush_all()` page by page; readers, one writer, `open_database()`'s unhooked writes, refusals of a full pool and of `clear()` |
| `MC*` | | instances for TLC |
| `LockManagerProofs`, `JournalProofs`, `SessionProofs`, `BufferPoolProofs`, `MutationProofs`, `BTreeProofs` | | the inductive invariants of these six, and the theorems of section 4 |
| `TreeProofs` | | lemmas of `BTreeProofs` that do not depend on its state: induction, `TreePages`' operators, trees of pages and what a split or an unlinking does to one |

How they fit: `LockManager` is shown to implement `LockTable`, and `Session`
runs on `LockTable`; `JournalCommit` is shown to implement `AtomicStore`, and
`Session`'s commit and rollback are the steps of that store.  So the session
model may take lock requests and commits as single steps without assuming more
than the two lower models deliver.  That includes transactions that allocate
before they journal anything, as all DDL does: the refinement has one exception
(`LeftGrown`), a transaction that ends with the file grown and nothing journalled,
after which the process counts more pages than are committed.  Those pages are
zero and no schema or tree points at them, so they are not in `Session`'s state.
Releasing all locks is one step in `Session` and several in `LockManager`: a release
only enables others and nothing reads the holder's own locks afterwards, so moving
the single releases together loses no behaviour a session property can see.

`BTree` and `IndexTree` show that a tree is a map of rows or an ordered set of
entries to whoever calls it, and that an operation that raises has changed
nothing, except for the torn rotation below.  `Mutation` and `Select` take trees
as just that, and `Mutation!IndexTears` takes the torn rotation as `IndexTree`
has it: an entry lost, another there twice, and any others where no search comes
to (`astray`).  `BTree!DeletedRowFitsAgain`, a theorem, is what lets `Mutation!TablePageFull`
put a row back, and `IndexTree!EntriesReadInOrder` what lets `Select` read
entries in key order from a probe.  All four run under the table lock that
`Session` takes for the statement, so nothing interleaves with them.

Abstractions worth knowing before reading:

* Pages are a header and one word; the value of a word tells row data from the
  next-pointer of a free page.  Only the first word decides recovery.
* `CREATE TABLE` is not separate from `CREATE INDEX` in `Session`: they differ in
  whether a table lock is taken.  EXPLAIN, `?` parameters and counters are out.
* `BufferPool` shares the pages among threads and leaves crashes, growth and the
  freelist to `JournalCommit`; which evictable page goes is left open, so the
  results do not depend on recency.  `JournalCommit` knows of recency what decides
  the order of flushing: which dirty pages have been used since COMMIT stamped
  page 1 (`recent`).
* In the trees a cell is its key, the room it takes and its overflow chain;
  payload bytes are out, and room is counted in units.  Page numbers are handed
  out lowest first; the freelist's own order is `JournalCommit`'s.
* In `Mutation` a WHERE clause is the set of rows it picks, and `damage` records
  what broke off a statement inside BEGIN that nobody has rolled back: a full page
  noticed before anything was written, a torn rotation, or an I/O error.
* In `AccessPaths` a value is a number with NULL as 0, which makes `compare_keys`
  the order of the numbers; an operand is a column of a table or a literal;
  `LIKE 'p%'` is membership in a block of neighbouring values.  Values of
  different storage classes are out.  Costs and estimates only choose among
  candidates, so in `Select` any candidate may be chosen.
* A SELECT of one table is a chain of one: WHERE then has only conjuncts of that
  table, and whatever no path consumes is checked either way.

## 3. What the runs check

Passing runs:

| Run | Shows |
|---|---|
| `locks` | two transactions, two resources, two requests each, one with a time-out, and a third transaction that joins them: no incompatible holders, no thread asleep on a grantable request, every doomed sleeper has a waker on its way, dooms end with their wait, the oldest transaction is never a victim, no circle of threads each needing the condition or the latch that the next one owns, locks only grow before release, and the whole implements `LockTable`. Under fair scheduling every deadlock on held locks is resolved |
| `commit` | process crashes (two, also during recovery) and one failing I/O call of COMMIT: the protocol implements `AtomicStore`, with growth before the first journalled page and every order in which LRU can flush; and `Pager.open()` accepts every file a crash leaves, of recovery too, unless a dirty page was read between the stamping of page 1 and its flush |
| `commit_power` | power cuts that lose any subset of the unsynced writes: what survives recovers to the state before or after the last commit |
| `session` | two connections, autocommit and explicit transactions, DML, DDL, ANALYZE, errors and closes: reads stay valid while their cursor or transaction lives, a statement executes against the schema it was bound to, the journalling hook names the holder of `__writer__`, and a lock that outlives its statement, cursor and transaction is `SHARED` on `__schema__`, left by a SELECT whose planning raised |
| `select` | every plan of every statement (below) returns the rows of the FROM clause joined as written and filtered, each as often as it should, and the i-th row is one that may stand at place OFFSET + i of the sorted answer, with a Sort or without |
| `table_tree` | any sequence of inserts and deletes: `search()` finds, and every seek, scan and reverse scan reads, exactly the rows that are there, each whole; all leaves stay at one depth and only the root is empty, every page has one owner between any two levels of a split or unlinking, and a deleted row can be put back at once |
| `index_tree` | the same for the index tree, dividers included: all entries once and in order both ways, no page without cells, no page over its room, each overflow chain owned once while its entry moves between leaf and divider |
| `mutation` | many-row statements, in autocommit and inside BEGIN, broken off by a UNIQUE violation, a full page, a torn rotation or an I/O error at any call: after a rollback indexes hold exactly the rows' entries and UNIQUE holds; a full page noticed before the index is written leaves no entry that points at no row or at one with another key; an UPDATE loses no row, also on torn indexes |
| `pool` | a pool smaller than the file, a reader and a writer, two transactions, a failing COMMIT: no page leaves the pool while it is pinned, no uncommitted page reaches the file before the barrier, readers see committed pages, and between transactions the pool agrees with the file |

Runs in which TLC finds a disagreement between the code and what the repository
says of it (`PROJECT.json`, "findings", quotes the lines):

| Run | Counterexample |
|---|---|
| `session_plan` | a plan cached inside a rolled-back DDL transaction comes back when its cookie is reused |
| `index_tear` | a delete empties a leaf, the rotation that refills it writes sibling and leaf, and only then finds that the parent has no room for the longer divider: one entry is lost and one is there twice |
| `join_layout` | with three tables joined, an index seek that takes its value from the second reads the column at that index of the first: rows are lost that the same query returns without the index |

More that the models show, each by putting the named property into a
configuration of its module:

* `LockManager!EverySleepingCycleHasVictim`: an upgrade queued behind a waiter
  that waits for the upgrader; both sleep until a time-out, since detection
  follows holders only.  `docs/concurrency.md:28-29` says "a cycle aborts the
  youngest transaction in it", `:98-99` that "no two transactions ever contend
  for an upgrade".
* `JournalCommit!HotJournalIsReplayed`: while COMMIT waits in the two fsyncs of
  `commit_barrier()`, after page 1 was stamped and before `flush_all()`
  (`txn/transaction.py:259`, `:265`), another connection's planner reads
  `quill_stat1` without a lock (`plan/analyze.py:350`).  The read moves a grown
  page of that table behind page 1 in the pool's order (`storage/bufferpool.py:140`),
  which is the order of flushing (`:246`).  Page 1 goes first, the process dies, and
  `Pager.open()` rejects the short file (`storage/pager.py:128`) although its
  journal is hot.  `txn/recovery.py:12-13` has recovery run "before anything else
  touches the file", and `docs/durability.md:104-105` says that atomicity holds "at
  every write and fsync boundary this code controls".  `FileOpens` says that nothing
  else leads there while only the process dies.  A power cut does whatever the
  order, since any unsynced write may be missing.
* `JournalCommit!RollbackExact`: a transaction allocates a page, which grows the
  in-memory header (`storage/bufferpool.py:373`; DDL allocates first,
  `catalog/catalog.py:228`, `:346`), and fails before it journals anything.
  `rollback()` then has no journal and skips the restoring of header and pool
  (`txn/transaction.py:309-311`), though it promises "exactly its pre-BEGIN state"
  (`:273-274`).
* `Session!NoLeakedLocks`: planning of an autocommit SELECT raises outside
  `execute()`'s `try` (`api/connection.py:629`), and its `SHARED` on `__schema__`
  then belongs to a transaction nobody can end.  `docs/concurrency.md:47-48` says
  that such a SELECT "releases at its own commit", `api/connection.py:497-498` that
  it holds the lock "until its cursor is drained".  `LeakIsSchemaRead` says that no
  other lock leaks.
* `Mutation!NoEntryOutlivesItsRow`: a rotation tears inside BEGIN
  (`btree/index.py:713`), and the caller next deletes the row of the divider that
  is in the index twice: one copy goes, the row goes, the other copy points at a
  rowid that will be used again.  The order of `Delete`'s calls is meant to rule
  that out: it "is not" recoverable (`exec/operators.py:853-856`).
* `Select!SameRowsOnEveryPlan` over statements of one table: `a = v AND a = v`
  builds a probe one value too long (`exec/operators.py:344-345`: "nothing
  upstream produces two equality predicates on the same column today"),
  `a < v` alone starts at the NULL keys and returns them, and `LIKE 'p%'` is
  consumed by the index but bounds nothing.
* `BTree!InteriorPagesHaveCells`: `delete()` keeps interior pages with one child
  and no cell, by choice (`btree/btree.py:204-207`); `btree/split.py:184-185`
  calls such a page "not a legal SQLite page".
* A detection walk does not see "one consistent snapshot" (`txn/locks.py:60`): it
  can follow the edge of a thread that has just left its queue, which costs a
  needless `DeadlockError`; no property forbids that, and `OldestNeverVictim` only
  says whom it cannot strike.  And transactions do not take locks "in one fixed
  order" (`docs/concurrency.md:59`): DDL after a write upgrades `__schema__`
  under `__writer__`.
* In `Mutation`, a page-full error inside BEGIN leaves a row without its entry in
  a UNIQUE index, which then admits a second row with that key; an I/O error
  between delete and insert leaves entries without a row.  The documents accept
  the first ("recoverable via DROP INDEX/CREATE INDEX"), so the properties leave
  out what follows such an error.

Read in the code and outside the models: EXPLAIN of a join with a correlated
seek raises `ColumnNotFoundError` (`exec/operators.py:527` evaluates the seek
value without an outer row); an `unlink()` that fails after the journal file
object is closed leaves a transaction whose ROLLBACK replays a closed file; a
pool that grew under no-steal never shrinks.

Situations kept out of the passing runs, so that the rest can be checked: plans
that fail `SoundSeeks` in `select` (`Misread`, `Doubled`, `OpenBelow`, `Unbounded`,
the four seeks above), so `SameRowsOnEveryPath` says nothing of those seeks; torn
trees in `index_tree`; and in `mutation` what follows the COMMIT of a transaction
that an I/O error has damaged (`CommitsNoFault`), of which nothing is claimed.  A
grown transaction (`LeftGrown` in `commit`), pages used before they are flushed
(`used`), a SELECT whose planning raised (`stranded` in `session`) and torn rotations
in `mutation` are in the runs, and the properties name what they leave behind.

### Bounds

* Locks: with two transactions each can hold and wait, upgrade, queue behind the
  other and doom it; two resources give a cycle and a second entry for the walk
  to read unlatched.  Two detectors on their way to each other's entry take three
  transactions, as the youngest never wakes anybody.  Three that are free all the
  way are too many states, so `ThirdJoins` lets the third one start where the first
  two have each made a request and hold `SHARED` on one resource each; then all three
  have one request left, which closes every kind of cycle.  What three do from the
  empty table is left to the theorems, which have no bound.
* Journal: three pages are page 1 with the header, a page that existed before
  the transaction and one that growth adds; three operations journal, grow and
  free in one transaction or spread over two; two crashes hit recovery itself.
  `commit` has two crashes, or a COMMIT that fails and one crash (`TwoAccidents`), and
  its VIEW drops what only a power cut reads; `commit_power` has up to all three.
* Session: two connections, because every property relates one connection to
  another; two transactions, so they overlap or follow one another; three
  changes reuse a cookie after a rollback.
* Select: the one-table statements run over every pair of three values, NULL
  included, and one key twice, with an index on both columns (prefix, gap,
  sandwich) and one on the second; all WHERE clauses of up to two conjuncts and
  triples of `=`, `>`, `<=`; ORDER BY on either column in mixed directions;
  LIMIT 0, 2 or none, OFFSET at the start, inside and past the end; DISTINCT.
  Joins are of two and three tables, INNER and LEFT, on keys that match once,
  twice, never, and on NULL; conditions in ON or WHERE, on either side.
* Trees: pages of two cells, so that six rowids give three levels with splits of
  leaf, interior page and root and their undoing; one payload fills a page and
  spills to two overflow pages, so sizes differ.  The index has eleven keys of
  sizes 1 and 2 on pages of four units: every kind of merge and rotation, and a
  predecessor longer than its divider.  Sizes stay within half a page, and the
  code's within a quarter.  Pages are plentiful (no allocation fails here).  The
  VIEW identifies states that differ in page numbers only: which number a page
  has decides nothing in the code but where it is found.
* Mutation: two rows, a UNIQUE column of NULL or one value and a plain column of
  two; a statement over both rows, an error between them, and a second statement
  that reuses what the first one left.  A rotation needs a leaf emptied next to one
  with entries and a divider between, so three rows; `ThirdRow` confines states with
  a third row to what that takes: the rows of the last commit alike, BEGIN when the
  table is full, and tears in the plain index; once a torn index is
  committed, statements follow in autocommit only.
* Pool: three pages for two places make every miss an eviction, a growth or a
  refusal; page 1 is read by threads that do not lock it, the others under
  two-phase locking; two pins per thread fill the pool; a second transaction
  meets what the first one left.

Deadlock checking is off where the model may legitimately stop: a bounded
number of requests, operations, crashes, transactions or changes is used up.

### Fairness

`LockManager!FairSpec` assumes strong fairness of the steps inside a wait loop and
inside `release_all()`: a thread whose next step needs an entry's mutex or the
latch competes with others for it, and the operating system grants it to each
contender that keeps trying.  A caller that received `DeadlockError` rolls back,
which `docs/concurrency.md` demands of it; a caller that holds locks is not
assumed to finish.  Time-outs are not assumed to fire.  Recovery needs no fairness:
that it can always begin is `FileOpens`, and each of its steps is one of a loop
over a finite journal.

## 4. What is proved

Every theorem holds for all values of the constants: any number of transactions,
connections, pages, indexes, crashes.  The bounds of a run are bounds of TLC only;
in the proofs they are arbitrary naturals.

| Theorem | Statement |
|---|---|
| `LockManagerProofs!TypeCorrect` | types; no queue holds a transaction twice |
| `MutualExclusion` | holders are compatible |
| `NoWakeupLost` | nobody sleeps on a request that can be granted |
| `VictimIsWoken` | a doomed sleeper has a thread on its way to notify it |
| `NoStaleDoom` | dooms and edges do not outlive the `acquire()` they belong to |
| `OldestSurvives` | the oldest transaction is never a victim |
| `LatchesNeverDeadlock` | no circle of threads needs each other's conditions and the latch |
| `StrictTwoPhase` | outside `release_all()` locks are only taken or upgraded |
| `LockTableRefinement` | `Spec => LockTable!LockSpec` under `held <- holders` |
| `JournalProofs!JournalTypes` | types |
| `JournalPowerCutAtomic` | after a power cut at any step recovery gives one of the last two committed states |
| `JournalDurable` | while only the process dies, recovery gives exactly the last committed state |
| `JournalImplementsStore` | the path refines `AtomicStore` step by step, `LeftGrown` apart, if `~PowerCuts` |
| `SessionProofs!SessionTypes` | types; a transaction belongs to one connection |
| `SessionReadsStayValid` | what a live transaction has read or written stays as it was |
| `SessionSchemaStable` | statements and cursors are bound to the schema that is there |
| `SessionHookIsWriter` | the hook names the holder of `__writer__`; nothing is dirty without it |
| `SessionLeakIsSchemaRead` | a held lock belongs to a transaction somebody can end, or it is `SHARED` on `__schema__`, of a SELECT whose planning raised |
| `BufferPoolProofs!PoolTypes` | types |
| `PoolPins` | pins are the borrows outstanding |
| `PoolNoSteal` | before the barrier the file holds committed pages |
| `PoolReadsCommitted` | a reader under its lock sees committed pages |
| `PoolIdleCoherent` | between transactions pool, file and committed state agree |
| `MutationProofs!MutationIndexesMatch` | indexes hold exactly the rows' entries |
| `MutationNoDanglingEntry` | an entry points at a row with its key, also after a full page inside BEGIN unless the index tore |
| `MutationUnique` | UNIQUE holds |
| `MutationUpdateKeepsRows` | an UPDATE loses no row |
| `BTreeProofs!TreeInvariant` | the inductive invariant below, of every step of every insert and delete |
| `TreeTypes` | types; no page holds more than its room |
| `TreeLookup` | the descent finds exactly the rows that are there, and each is read whole from leaf and chain |
| `TreeBalanced` | all leaves are at one depth, and only the root may be a leaf without rows |
| `TreeOwners` | at every step a page in use has one owner, a free page none |
| `DeletedRowFits` | a row just deleted can be put back |

Each module follows one scheme: an invariant `Inv`, `Init => Inv`, one lemma per
action that the action preserves it, and the properties from `Inv` by one temporal
step.  No property is inductive by itself; what `Inv` adds is what the code relies
on without saying so.  Each `Inv` but the tree's was checked by TLC, on the instance
of the component's run, before it was proved; the tree's says that functions from
pages to heights, key sets and chains exist, which are too many to enumerate, and
there TLC checked the properties that follow from it.

**Locks.**  A waiting thread stands once in the queue of the resource it asks for
(`WaitersQueued`); what `cond` says is what the program counters say
(`OwnsCondition`); a thread between its test and its sleep still cannot be granted,
since it has held the condition throughout (`NotGrantableYet`) and does not already
hold enough (`NotSufficient`); a walk runs under the latch (`WalkUnderLatch`) and its
stack is a path of edges starting at the walker (`WalkPath`), which is why the
youngest of a cycle is never the oldest of all; a doomed sleeper is the target of
some thread's pending wake (`DoomedHasWaker`).  No circle of threads closes
over conditions and latch because whoever has the latch needs no other mutex, and whoever
has a condition needs at most the latch (`OwnersOnly`): `_wake()` lets go of its own
condition first.  The refinement uses `Inv` for one
fact: what `WaitLoop` grants is compatible with every holder.  Assumed: transaction
ids are positive naturals (the code numbers them from 1), `None` is not a resource.

**Journal.**  `Keeps(fd, j, S)` says that journal `j` turns any surviving versions
`fd` of the pages into `S`: each page of `S` is in the journal as `S` has it, or no
other version of it exists.  `Protected` says it of every journal a power cut may
leave, for the last or the last but one committed state.  To keep it, the open
transaction's journal must hold the original of each page it may write
(`OwnJournal`) and be synced before the first page is (`JournalPhase`); originals
are right because untouched pages in the pool agree with the file (`Untouched`,
`CleanMatches`), and replay is right because what it has put back stays (`PutBack`).
The freelist of both the committed and the shown state is a chain without a cycle
(`ViewChain`): otherwise allocation could hand out a page that holds data.  The
refinement maps the abstract store to what recovery would give and what the process
shows; recovery's result equals the last acknowledged commit (`Durable`), and moves
at `journal.delete()` of COMMIT only.  A process between transactions shows the
last commit or is in `LeftGrown` (`IdleShows`), and steps into and out of `LeftGrown`
leave recovery's result alone.  `JournalImplementsStore` has one hypothesis: after a
power cut the last commit may be undone when the unlink is lost, which is what
`JournalPowerCutAtomic` states instead.  The order of flushing plays no part in any of
these: a file that `Pager.open()` rejects still has what its journal needs.  The
order shows in `FileOpens`, which is model-checked.  Assumed: the file may have two
pages or more, data words are positive, `None` is no page, entry or journal.

**Sessions.**  A transaction is within the reach of one connection: as `conn._txn`,
through its cursor or through its running call (`OneOwner`), and `Stages` says which
of the three at each point of `execute()` and `_end_txn()`.  So a step of one
connection touches no other's locks, and `LocksTaken` - the locks a connection has
by the time it stands at a label - survives everybody else.  The holder of
`__writer__` has the committed state as its rollback point until it ends and shows
it from then on (`RollbackPoint`); all that differs from it is locked EXCLUSIVE by
the hooked transaction (`DirtyIsLocked`); what a transaction has seen it has locked
(`SeenIsLocked`).  `ReadsStayValid` follows from the last two and compatibility.
`CatalogFresh` is the part that is easy to get wrong: the shared Catalog shows the
schema of the pool except between the rollback of DDL and its reload, and there
`__schema__` is held EXCLUSIVE - which is why `_end_txn()` has to reload before it
releases.  A transaction that planning cuts loose (`stranded`) holds only what a SELECT
had by then, which is `SHARED` on `__schema__` (`StrandedRead`), and nobody's reads rest
on it.  Every effect a step may have is a named formula (`Alone`, `KeepsOthers`,
`LetsGo`, `HookStep`, ...): each action is shown to have them, each conjunct of `Inv`
follows from those it needs (`Assemble`).  Assumed: the names of resources differ,
`None` is no frame or cursor.

**Pool.**  `CoherenceInv` ties the journalled originals to the committed pages
(`JournalHoldsCommitted`), clean pages to the file (`CleanMatchesFile`), and every
page that is not journalled to the committed state (`UntouchedCommitted`), through
flush and replay.  A reader holds no journalled page that is read under a lock (`ReadersOffJournal`),
which is what two-phase locking gives the pool.  Pins are counted as the finite set
of borrows, so that the library's theorems on cardinality apply.  Assumed: pages and
readers are finite sets, the capacity is at least 1.

**Mutation.**  `Midway` says, call by call, what each index holds in the middle of a
row: the entries of all other rows, the old entry until it is removed, the new one
once it is entered (`Expected`); `NoClash` that a UNIQUE check, once passed, is still
good when the row is put; nothing is `astray` before an index has torn.  What an error
breaks off is in `damage`, and how much of the agreement is left then is `Sound`.  The
statements of the properties are conditional on it as in section 3.

**Table B+tree.**  Induction over a tree is the work here, and two means carry it.
A set of naturals without a least element is empty (the library's `WFMin`), so
induction is a fact about sets (`SetInduction`): it gives the sum of sizes, the
existence of the functions that `Descent` and `ChainFrom` define, and what they
return (`Follow`, `Leads`).  And the tree itself is described from above, without
recursion: `Structure` says that some heights and some sets of keys can be given to
the pages so that each child is one lower than its parent, gets keys that its
separators lead to it and has no other parent; there every leaf has height 0, which is
balance, and a descent for a key stays among pages whose set has the key, which is
lookup.  An action is a change of heights and sets: a split gives the right half the
keys above the separator, growth of the root adds a level, an insert adds its key to
the pages on its way, and an unlinking leaves both as they are: a key that has gone
from a page may stay in its set.

Between two levels the file is not such a tree, and the invariant says what is: the
file with the separator already in the parent, however little room the parent has
(`TreeOf`), or the file with a hole where the unlinked page was (`HoleOf`).  Rows are
tied to leaves and chains by `Stored`: the cells of the leaves are the rows, one for
one, each pointing at a chain of its own whose pages carry its pieces in order;
chains of two rows never share a page, so freeing one leaves the others alone.
`TreeOwners` counts pointers from both.  `DeletedRowFits` needs one fact more
(`FitsAgain`), of the state a deletion leaves: either its leaf kept a row, and then
has room for the old one, or the leaf is gone, and then no other leaf has keys on both sides of the rowid
(`Apart`): it belongs before or after all the cells of the leaf it now falls on, and
a cell at an end can always be split off, by bytes or as an append.  Assumed:
rowids are naturals, a cell fits on an empty leaf, an interior page has room for two
cells, there is at least one page.

### Only model-checked

* Liveness (`DeadlockResolved`): fairness and `ENABLED` are outside the prover.
* `FileOpens`, with the order in which `flush_all()` writes.
* `CursorReadsRows` and `IndexTree`: their walks over a tree are recursive operators,
  which the prover cannot use.  What the walks rest on in the table tree (lookup,
  balance, no empty leaf) is proved.
* `Select` with `AccessPaths`: the answer of a join is a fold over the tables.
* What TLC refutes (section 3) is, of course, not proved in another form.

## 5. Not modelled

The bytes of pages and cells, record and varint encoding, aggregates, arithmetic
and three-valued connectives in expressions, the statistics' numbers and costs,
`validate.py` (which only reads; the tree properties say what it looks for).  Of
the SQL front end only what a bound SELECT is and `resolve_layout()` are in
`Select`; it and the command line keep no state between calls and are left to
their tests.  Two
processes on one file are out of the program's own scope.  Only SyncMode FULL is
modelled, the mode every `Transaction` runs in.

## 6. Plan

1. *Done*: `LockManager` with `LockTable` and proofs; `JournalCommit` with
   `AtomicStore`; `Session` on top of both; `BufferPool`; `BTree` and `IndexTree`
   with overflow chains; `Mutation`; `AccessPaths` and `Select` with joins; proofs
   for `LockManager`, `JournalCommit`, `Session`, `BufferPool`, `Mutation` and `BTree`.
2. `Codec`: varints and serial types with their width edges; `Expressions`: the
   three-valued tables and 64-bit overflow; `Aggregate` against a reference.
3. Proofs: the six components above are done.  Left: `IndexTree` along the lines of
   `BTree`, with `TreeProofs` as the base - its descent written with `Descent`, an
   entry in a divider as well as in a leaf, heights and parents first; and lemmas on
   `AccessPaths`' probes.
