------------------------------ MODULE BufferPool ------------------------------
(***************************************************************************)
(* storage/bufferpool.py: a bounded cache of pages shared by every thread, *)
(* with pins, dirty flags and no-steal under a transaction, and what       *)
(* COMMIT and ROLLBACK do to it (txn/transaction.py).                      *)
(*                                                                         *)
(* Every method runs under the pool's latch and is one step, but           *)
(* flush_all(), which latches one page at a time.  Which of several        *)
(* evictable pages goes is left open: recency is about speed only.  The    *)
(* freelist and file growth are in JournalCommit, as are crashes; here the *)
(* pages exist and several threads use them.                               *)
(*                                                                         *)
(* Strict two-phase locking stands around the pool: nobody reads a page    *)
(* that the writer has taken, nobody takes a page that is being read.      *)
(* Unlocked are the pages some code reads without that protection.         *)
(***************************************************************************)
EXTENDS Integers, FiniteSets

CONSTANTS
    Page,         \* the pages of the file
    HeaderPage,   \* page 1, which COMMIT stamps
    Reader,       \* threads that read
    Writer,       \* the thread that holds "__writer__"
    Unlocked,     \* pages read without their writer's lock: page 1, quill_stat1
    Capacity,     \* pages the pool means to hold
    Val,          \* contents of a page
    None,
    MaxPins,      \* bound: pins of one thread
    MaxTxns,      \* bound: transactions
    MaxFailures   \* bound: I/O errors of COMMIT

Thread == Reader \cup {Writer}

\* An _Entry of the pool.
PoolEntry == [data : Val, pins : Nat, dirty : BOOLEAN]
Entry(data, pins, dirty) == [data |-> data, pins |-> pins, dirty |-> dirty]

ASSUME PoolAssumption ==
    /\ HeaderPage \in Unlocked /\ Unlocked \subseteq Page /\ Writer \notin Reader
    /\ IsFiniteSet(Page) /\ IsFiniteSet(Reader)
    /\ Val # {} /\ None \notin Val \cup PoolEntry
    /\ Capacity \in Nat \ {0}
    /\ {MaxPins, MaxTxns, MaxFailures} \subseteq Nat

VARIABLES
    cache,      \* _cache: per page None or an _Entry [data, pins, dirty]
    file,       \* the database file
    held,       \* the pins every thread owes an unpin() for
    pc,         \* where the writer stands; "boot" is open_database()
    journal,    \* txn._journalled: per page None or the original content
    barrier,    \* txn.barrier_passed
    todo,       \* pages flush_all() has not come to yet
    committed,  \* history: the last committed content
    txns, failures

poolVars == <<cache, file>>
bounds == <<txns, failures>>
vars == <<poolVars, held, pc, journal, barrier, todo, committed, bounds>>

-----------------------------------------------------------------------------
Cached == {p \in Page : cache[p] # None}

\* pool._txn is not None
Hooked == pc \notin {"boot", "idle"}

Journalled == {p \in Page : journal[p] # None}

\* Mutant: rule 1 is forgotten.
EvictableThoughPinned(p) == p \in Cached /\ (cache[p].dirty => ~ Hooked)

\* Mutant: a dirty page is written back and dropped inside a transaction.
EvictableStolen(p) == p \in Cached /\ cache[p].pins = 0

\* Rules 1 and 2 of _evict_one(): not pinned, and not dirty under a
\* transaction (no-steal).
Evictable(p) ==
    /\ p \in Cached
    /\ cache[p].pins = 0
    /\ cache[p].dirty => ~ Hooked

\* An unpinned page that only no-steal keeps: the pool grows instead.
MayGrow == \E p \in Cached : cache[p].pins = 0 /\ cache[p].dirty /\ Hooked

Full == Cardinality(Cached) >= Capacity

\* _evict_one() found nothing: PoolExhaustedError.
Exhausted == Full /\ ~ MayGrow /\ ~ \E p \in Page : Evictable(p)

\* _get_page_locked(p): a hit, or a miss with room made first; `dirty` when
\* the caller is get_page_for_write().
Fetch(p, dirty) ==
    \/ /\ p \in Cached
       /\ cache' = [cache EXCEPT ![p] = Entry(@.data, @.pins + 1, @.dirty \/ dirty)]
       /\ UNCHANGED file
    \/ /\ p \notin Cached
       /\ ~ Full \/ (MayGrow /\ ~ \E q \in Page : Evictable(q))
       /\ cache' = [cache EXCEPT ![p] = Entry(file[p], 1, dirty)]
       /\ UNCHANGED file
    \/ /\ p \notin Cached
       /\ Full
       /\ \E q \in Page :
            /\ Evictable(q)
            /\ cache' = [cache EXCEPT ![q] = None, ![p] = Entry(file[p], 1, dirty)]
            /\ file' = IF cache[q].dirty THEN [file EXCEPT ![q] = cache[q].data] ELSE file

\* Every pin counts: the n-th pin of t on p is <<p, n>>, resp. <<t, n>>.
PinsOf(t) == {pin \in Page \X (1..MaxPins) : pin[2] <= held[t][pin[1]]}
PinsOn(p) == {pin \in Thread \X (1..MaxPins) : pin[2] <= held[pin[1]][p]}
Pins(t) == Cardinality(PinsOf(t))

Pin(t, p) ==
    /\ Pins(t) < MaxPins
    /\ held' = [held EXCEPT ![t][p] = @ + 1]

-----------------------------------------------------------------------------
(* Threads that use pages *)

\* get_page() by a reader, who holds SHARED on what the page belongs to.
Read(r, p) ==
    /\ pc # "boot"
    /\ p \in Unlocked \/ journal[p] = None
    /\ Fetch(p, FALSE)
    /\ Pin(r, p)
    /\ UNCHANGED <<pc, journal, barrier, todo, committed, bounds>>

\* The writer's statements also read.
WriterReads(p) ==
    /\ pc \in {"boot", "open"}
    /\ Fetch(p, FALSE)
    /\ Pin(Writer, p)
    /\ UNCHANGED <<pc, journal, barrier, todo, committed, bounds>>

\* Mutant: unpin() gives back two pins.
UnpinTwice(t, p) ==
    /\ held[t][p] > 0
    /\ cache' = [cache EXCEPT ![p] = Entry(@.data, @.pins - 2, @.dirty)]
    /\ held' = [held EXCEPT ![t][p] = @ - 1]
    /\ UNCHANGED <<file, pc, journal, barrier, todo, committed, bounds>>

\* unpin()
Unpin(t, p) ==
    /\ held[t][p] > 0
    /\ cache' = [cache EXCEPT ![p] = Entry(@.data, @.pins - 1, @.dirty)]
    /\ held' = [held EXCEPT ![t][p] = @ - 1]
    /\ UNCHANGED <<file, pc, journal, barrier, todo, committed, bounds>>

\* The writer's statements unpin what they have pinned before they return.
WriterUnpins(p) == pc \in {"boot", "open"} /\ Unpin(Writer, p)

\* EXCLUSIVE on what the page belongs to: no reader is inside it.
MayTake(p) == p \in Unlocked \/ \A r \in Reader : held[r][p] = 0

\* will_modify(): the original is read from the file, not from the pool.
WillModify(p) ==
    journal' = IF pc = "boot" \/ journal[p] # None THEN journal
               ELSE [journal EXCEPT ![p] = file[p]]

\* get_page_for_write().
Write(p) ==
    /\ pc \in {"boot", "open"}
    /\ MayTake(p)
    /\ WillModify(p)
    /\ Fetch(p, TRUE)
    /\ Pin(Writer, p)
    /\ UNCHANGED <<pc, barrier, todo, committed, bounds>>

\* The caller changes the page it has pinned for writing.
Modify(p, v) ==
    /\ pc \in {"boot", "open"}
    /\ held[Writer][p] > 0
    /\ cache[p].dirty
    /\ v # cache[p].data
    /\ cache' = [cache EXCEPT ![p] = Entry(v, @.pins, @.dirty)]
    /\ UNCHANGED <<file, held, pc, journal, barrier, todo, committed, bounds>>

\* get_page_for_write() raises PoolExhaustedError, from a statement or from
\* COMMIT's own: the page is journalled already, the transaction stays open.
WriteRefused(p) ==
    /\ pc = "open"
    /\ MayTake(p)
    /\ p \notin Cached /\ Exhausted
    /\ WillModify(p)
    /\ UNCHANGED <<poolVars, held, pc, barrier, todo, committed, bounds>>

-----------------------------------------------------------------------------
(* The life of a transaction *)

\* open_database() ends: flush_all() and sync(), with nobody else there yet.
EndBoot ==
    /\ pc = "boot" /\ Pins(Writer) = 0
    /\ file' = [p \in Page |-> IF p \in Cached THEN cache[p].data ELSE file[p]]
    /\ cache' = [p \in Page |-> IF p \in Cached THEN Entry(cache[p].data, cache[p].pins, FALSE) ELSE None]
    /\ committed' = file'
    /\ pc' = "idle"
    /\ UNCHANGED <<held, journal, barrier, todo, bounds>>

\* The pool's side of lock_for_write(): the hook is set.
Begin ==
    /\ pc = "idle" /\ txns < MaxTxns
    /\ pc' = "open" /\ txns' = txns + 1
    /\ UNCHANGED <<poolVars, held, journal, barrier, todo, committed, failures>>

\* _end_txn() unwires the hook and releases the locks.
Unhooked ==
    /\ pc' = "idle" /\ barrier' = FALSE /\ todo' = {}
    /\ journal' = [p \in Page |-> None]

\* commit() or rollback() of a transaction that journalled nothing.
EndUnjournalled ==
    /\ pc = "open" /\ Pins(Writer) = 0 /\ Journalled = {}
    /\ Unhooked
    /\ UNCHANGED <<poolVars, held, committed, bounds>>

\* commit() takes page 1 for writing ...
CommitStart ==
    /\ pc = "open" /\ Pins(Writer) = 0 /\ Journalled # {}
    /\ WillModify(HeaderPage)
    /\ Fetch(HeaderPage, TRUE)
    /\ Pin(Writer, HeaderPage)
    /\ pc' = "stamp"
    /\ UNCHANGED <<barrier, todo, committed, bounds>>

\* ... stamps the header and unpins it ...
StampHeader(v) ==
    /\ pc = "stamp"
    /\ cache' = [cache EXCEPT ![HeaderPage] = Entry(v, @.pins - 1, @.dirty)]
    /\ held' = [held EXCEPT ![Writer][HeaderPage] = @ - 1]
    /\ pc' = "barrier"
    /\ UNCHANGED <<file, journal, barrier, todo, committed, bounds>>

\* ... and passes the journal's barrier; flush_all() lists the pages.
CommitBarrier ==
    /\ pc = "barrier"
    /\ pc' = "flush" /\ barrier' = TRUE /\ todo' = Cached
    /\ UNCHANGED <<poolVars, held, journal, committed, bounds>>

\* Mutant: the dirty flag survives the write.
FlushKeepsDirty(p) ==
    /\ pc = "flush" /\ p \in todo
    /\ todo' = todo \ {p}
    /\ file' = IF p \in Cached /\ cache[p].dirty
               THEN [file EXCEPT ![p] = cache[p].data] ELSE file
    /\ UNCHANGED <<cache, held, pc, journal, barrier, committed, bounds>>

\* flush_page(p) out of flush_all(): nothing if the page has gone meanwhile.
FlushPage(p) ==
    /\ pc = "flush" /\ p \in todo
    /\ todo' = todo \ {p}
    /\ IF p \in Cached /\ cache[p].dirty
       THEN /\ file' = [file EXCEPT ![p] = cache[p].data]
            /\ cache' = [cache EXCEPT ![p] = Entry(@.data, @.pins, FALSE)]
       ELSE UNCHANGED poolVars
    /\ UNCHANGED <<held, pc, journal, barrier, committed, bounds>>

\* sync() and journal.delete(), then _end_txn() unwires the hook.
CommitDone ==
    /\ pc = "flush" /\ todo = {}
    /\ committed' = file
    /\ Unhooked
    /\ UNCHANGED <<poolVars, held, bounds>>

\* An I/O error: the transaction stays open, for another COMMIT, a ROLLBACK or
\* more statements.
CommitFails ==
    /\ pc \in {"barrier", "flush"} /\ failures < MaxFailures
    /\ pc' = "open" /\ todo' = {} /\ failures' = failures + 1
    /\ UNCHANGED <<poolVars, held, journal, barrier, committed, txns>>

\* rollback(): replay() restores the originals behind the pool's back.
Replay ==
    /\ pc = "open" /\ Pins(Writer) = 0 /\ Journalled # {}
    /\ file' = [p \in Page |-> IF p \in Journalled THEN journal[p] ELSE file[p]]
    /\ pc' = "undone"
    /\ UNCHANGED <<cache, held, journal, barrier, todo, committed, bounds>>

\* Mutant: only the dirty ones are dropped.
DroppedDirty == {p \in Journalled \cap Cached : cache[p].dirty}

\* The entries clear() drops once nothing in its way is pinned.
Dropped == Journalled

\* pool.clear(_journalled), and the hook is unwired.
Clear ==
    /\ pc = "undone"
    /\ \A p \in Journalled \cap Cached : cache[p].pins = 0
    /\ cache' = [p \in Page |-> IF p \in Dropped THEN None ELSE cache[p]]
    /\ Unhooked
    /\ UNCHANGED <<file, held, committed, bounds>>

\* clear() meets a page somebody has pinned and raises ValueError, after some
\* of the others are gone and the journal with them: nothing ends this
\* transaction any more.
ClearRefused ==
    /\ pc = "undone"
    /\ \E p \in Journalled \cap Cached : cache[p].pins > 0
    /\ \E D \in SUBSET {p \in Journalled \cap Cached : cache[p].pins = 0} :
         cache' = [p \in Page |-> IF p \in D THEN None ELSE cache[p]]
    /\ pc' = "refused"
    /\ UNCHANGED <<file, held, journal, barrier, todo, committed, bounds>>

-----------------------------------------------------------------------------
\* The pool of a database that has just been recovered is empty.
Init ==
    /\ cache = [p \in Page |-> None]
    /\ file \in [Page -> Val] /\ committed = file
    /\ held = [t \in Thread |-> [p \in Page |-> 0]]
    /\ pc = "boot"
    /\ journal = [p \in Page |-> None]
    /\ barrier = FALSE /\ todo = {}
    /\ txns = 0 /\ failures = 0

Use ==
    \E p \in Page :
        \/ \E r \in Reader : Read(r, p)
        \/ \E r \in Reader : Unpin(r, p)
        \/ WriterUnpins(p)
        \/ WriterReads(p) \/ Write(p) \/ WriteRefused(p)
        \/ \E v \in Val : Modify(p, v)

Commit ==
    \/ CommitStart \/ CommitBarrier \/ CommitDone \/ CommitFails
    \/ \E v \in Val : StampHeader(v)
    \/ \E p \in Page : FlushPage(p)

Rollback == Replay \/ Clear \/ ClearRefused

Next == EndBoot \/ Begin \/ EndUnjournalled \/ Use \/ Commit \/ Rollback

Spec == Init /\ [][Next]_vars

-----------------------------------------------------------------------------
(* Properties *)

\* Types: in particular no thread unpins a page more often than it has pinned
\* it.
TypeOK ==
    /\ cache \in [Page -> {None} \cup PoolEntry]
    /\ file \in [Page -> Val] /\ committed \in [Page -> Val]
    /\ held \in [Thread -> [Page -> 0..MaxPins]]
    /\ pc \in {"boot", "idle", "open", "stamp", "barrier", "flush", "undone", "refused"}
    /\ journal \in [Page -> Val \cup {None}]
    /\ barrier \in BOOLEAN /\ todo \subseteq Page
    /\ txns \in 0..MaxTxns /\ failures \in 0..MaxFailures

\* "The caller must eventually call unpin() exactly that many times": a page
\* that some thread still owes unpins for has its entry, with just that many
\* pins; so neither eviction nor clear() takes a page from under its user, and
\* unpin() never raises.
PinsMatchHolders ==
    \A p \in Page :
        Cardinality(PinsOn(p)) = IF p \in Cached THEN cache[p].pins ELSE 0

\* _evict_one(), no-steal, and the assertion of Pager.write_page(): before the
\* journal is valid the file holds committed pages only, however full the pool
\* is and whoever makes room in it.
NoSteal == Hooked /\ ~ barrier => file = committed

\* A page that a thread reads under its lock has committed content, whatever
\* the writer, a failed COMMIT or a ROLLBACK does to other pages meanwhile.
ReadsCommitted ==
    \A r \in Reader, p \in Page \ Unlocked :
        held[r][p] > 0 => cache[p].data = committed[p]

\* Between transactions the pool is clean and says what the file says, which
\* is the last committed state: pool.clear() of the journalled pages alone is
\* enough, and close()'s flush_all() has nothing to write.
IdleCoherent ==
    pc = "idle" =>
        /\ file = committed
        /\ \A p \in Cached : ~ cache[p].dirty /\ cache[p].data = file[p]
=============================================================================
