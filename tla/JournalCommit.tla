--------------------------- MODULE JournalCommit ---------------------------
(***************************************************************************)
(* The write path of one database file: a writer transaction               *)
(* (txn/transaction.py) over the buffer pool and the pager, its rollback   *)
(* journal (txn/journal.py), COMMIT, ROLLBACK, a process crash or a power  *)
(* cut at any step, and recover_if_needed() at the next open.              *)
(*                                                                         *)
(* "__writer__" admits one writer at a time, so the model has one; readers *)
(* appear as the page loads and evictions they cause.  A page is its       *)
(* first word: row data, or the next-pointer of a free page; page 1 also   *)
(* carries the file header.                                                *)
(***************************************************************************)
EXTENDS Integers, Sequences, FiniteSets

CONSTANTS MaxPages,     \* bound: pages the file can grow to
          Val,          \* what a statement can put into a page
          None,         \* no header / no page / no journal
          MaxOps,       \* bound: page operations over all transactions
          MaxFailures,  \* bound: I/O errors during COMMIT
          MaxCrashes,   \* bound: process crashes and power cuts
          PowerCuts     \* may the machine lose power?

ASSUME PagesAssumption == MaxPages \in Nat /\ MaxPages > 1
ASSUME ValAssumption == Val \subseteq Nat \ {0}
ASSUME PowerCutsAssumption == PowerCuts \in BOOLEAN
ASSUME BoundsAssumption ==
  MaxOps \in Nat /\ MaxFailures \in Nat /\ MaxCrashes \in Nat

PageId == 1..MaxPages
Header == [count : PageId, trunk : 0..MaxPages, free : 0..MaxPages]
HeaderOf(n, t, f) == [count |-> n, trunk |-> t, free |-> f]

(* The word of a free page: the freelist's next-pointer, told from data. *)
Link(n) == -1 - n
Word == Val \cup {0} \cup {Link(n) : n \in 0..MaxPages}
Page == [hdr : Header \cup {None}, word : Word]
PageOf(h, w) == [hdr |-> h, word |-> w]
ZeroPage == PageOf(None, 0)

(* _Entry of the pool; a record of the journal, and the journal. *)
PoolEntry == [data : Page, dirty : BOOLEAN]
Entry(data, dirty) == [data |-> data, dirty |-> dirty]
Original == [page : PageId, data : Page]
JournalFile == [count : PageId, recs : Seq(Original), nrec : Nat]
JournalOf(n, recs, nrec) == [count |-> n, recs |-> recs, nrec |-> nrec]

ASSUME NoneAssumption ==
  None \notin Header /\ None \notin Page /\ None \notin PoolEntry /\ None \notin JournalFile

VARIABLES
  pc,          \* where the writer, or the opening process, stands
  hdr,         \* pager._header
  cache,       \* pool._cache: per page None or [data, dirty]
  before,      \* txn._page_count_before
  journalled,  \* txn._journalled
  barrier,     \* txn.barrier_passed
  jrnl,        \* the -journal file: None or [count, recs, nrec]
  own,         \* the transaction has begun its journal (txn._journal)
  pos,         \* the next record replay() looks at
  recent,      \* dirty pages used since COMMIT stamped page 1: in LRU order
               \* they come behind it
  used,        \* history: there was such a use, and no flush_all() has finished since
  file,        \* the database file as the operating system shows it
  fileDur,     \* per page, the versions a power cut may leave
  jrnlDur,     \* the journals a power cut may leave
  acked,       \* history: the contents before and after the last commit
  ops, failures, crashes

memVars == <<hdr, cache>>
txnVars == <<before, journalled, barrier, own>>
diskVars == <<jrnl, jrnlDur, file, fileDur>>
bounds == <<acked, ops, failures, crashes>>
orderVars == <<pos, recent, used>>
vars == <<pc, memVars, txnVars, diskVars, orderVars, bounds>>

-----------------------------------------------------------------------------
(* The file. *)

(* read_page(): what lies past the end of the file reads as zeros. *)
Shown(v) == IF v = None THEN ZeroPage ELSE v
Read(f, p) == Shown(f[p])

FileLen(f) == CHOOSE n \in 0..MaxPages :
                /\ n > 0 => f[n] # None
                /\ \A p \in n + 1..MaxPages : f[p] = None

(* truncate(n) cuts the file, or extends it with zeros. *)
Truncated(f, n) ==
  [p \in PageId |-> IF p > n THEN None ELSE IF p = n THEN Read(f, p) ELSE f[p]]

(* pwrite(): the new version may or may not survive a power cut. *)
Pwrite(p, d) ==
  /\ file' = [file EXCEPT ![p] = d]
  /\ fileDur' = [fileDur EXCEPT ![p] = @ \cup {d}]

Fsync == fileDur' = [p \in PageId |-> {file[p]}] /\ UNCHANGED file

(* reload_header(): page 1 as it is in the file. *)
ReloadHeader == hdr' = file[1].hdr

(* is_hot(): the magic and a record count have been stamped. *)
Hot(j) == j # None /\ j.nrec > 0

(* What recover_if_needed() makes of file f and journal j. *)
Restored(f, j) ==
  [p \in PageId |->
     IF \E i \in 1..j.nrec : j.recs[i].page = p
     THEN j.recs[CHOOSE i \in 1..j.nrec : j.recs[i].page = p].data
     ELSE f[p]]

Recovered(f, j) == IF Hot(j) THEN Truncated(Restored(f, j), j.count) ELSE f

(* The database that a header and the pages amount to. *)
Contents(h, pages) ==
  [p \in 1..h.count |-> IF p = 1 THEN PageOf(h, pages[1].word) ELSE pages[p]]

StableOf(f) == Contents(f[1].hdr, [p \in PageId |-> Read(f, p)])
Stable == StableOf(Recovered(file, jrnl))

Cached(p) == IF cache[p] = None THEN Read(file, p) ELSE cache[p].data

View == Contents(hdr, [p \in PageId |-> Cached(p)])

-----------------------------------------------------------------------------
(* A database with one page besides page 1, opened and synced: creating it
   has added quill_stat1's root page. *)
SmallFile ==
  [p \in PageId |->
     CASE p = 1 -> PageOf(HeaderOf(2, 0, 0), 0)
       [] p = 2 -> ZeroPage
       [] OTHER -> None]

Init ==
  /\ pc = "idle"
  /\ file = SmallFile
  /\ fileDur = [p \in PageId |-> {SmallFile[p]}]
  /\ hdr = SmallFile[1].hdr
  /\ cache = [p \in PageId |-> None]
  /\ jrnl = None /\ jrnlDur = {None}
  /\ before = 2 /\ journalled = {} /\ barrier = FALSE /\ own = FALSE
  /\ pos = 1 /\ recent = {} /\ used = FALSE
  /\ acked = [old |-> Stable, new |-> Stable]
  /\ ops = 0 /\ failures = 0 /\ crashes = 0

(* lock_for_write(): "__writer__" is granted, the rollback point taken and
   the pager/pool hook set. *)
BeginWrite ==
  /\ pc = "idle"
  /\ pc' = "open"
  /\ before' = hdr.count
  /\ journalled' = {} /\ barrier' = FALSE /\ own' = FALSE
  /\ UNCHANGED <<memVars, diskVars, orderVars, bounds>>

(* Journal.begin(): magic and nRec are zero until the barrier. *)
BeginJournal(n) == JournalOf(n, <<>>, 0)

RecordOriginal(j, p) ==
  JournalOf(j.count, Append(j.recs, [page |-> p, data |-> Read(file, p)]), j.nrec)

(* will_modify(p): journal the page as it is in the FILE, once, unless the
   transaction itself allocated it; the first record begins the journal. *)
WillModify(p) ==
  /\ journalled' = journalled \cup {p}
  /\ IF p \in journalled \/ p > before
     THEN UNCHANGED <<own, jrnl, jrnlDur>>
     ELSE /\ own' = TRUE
          /\ jrnl' = RecordOriginal(IF own THEN jrnl ELSE BeginJournal(before), p)
          /\ jrnlDur' = jrnlDur \cup {jrnl'}

Op == pc = "open" /\ ops < MaxOps /\ ops' = ops + 1

(* get_page_for_write(p), then new content. *)
Modify(p, v) ==
  /\ Op
  /\ p <= hdr.count
  /\ Cached(p).word >= 0
  /\ WillModify(p)
  /\ cache' = [cache EXCEPT ![p] = Entry(PageOf(Cached(p).hdr, v), TRUE)]
  /\ UNCHANGED <<pc, hdr, before, barrier, file, fileDur, orderVars, acked, failures, crashes>>

(* allocate_page(): the head of the freelist; every caller initialises it. *)
AllocateFree ==
  /\ Op
  /\ hdr.free > 0
  /\ WillModify(hdr.trunk)
  /\ cache' = [cache EXCEPT ![hdr.trunk] = Entry(ZeroPage, TRUE)]
  /\ hdr' = HeaderOf(hdr.count, Link(Cached(hdr.trunk).word), hdr.free - 1)
  /\ UNCHANGED <<pc, before, barrier, file, fileDur, orderVars, acked, failures, crashes>>

(* allocate_page(): the file grows by a page that exists only in the pool. *)
AllocateGrow ==
  /\ Op
  /\ hdr.free = 0
  /\ hdr.count < MaxPages
  /\ hdr' = HeaderOf(hdr.count + 1, hdr.trunk, hdr.free)
  /\ cache' = [cache EXCEPT ![hdr.count + 1] = Entry(ZeroPage, TRUE)]
  /\ UNCHANGED <<pc, txnVars, diskVars, orderVars, acked, failures, crashes>>

(* free_page(p): the page becomes the freelist's head. *)
FreePage(p) ==
  /\ Op
  /\ p > 1 /\ p <= hdr.count
  /\ Cached(p).word >= 0
  /\ WillModify(p)
  /\ cache' = [cache EXCEPT ![p] = Entry(PageOf(None, Link(hdr.trunk)), TRUE)]
  /\ hdr' = HeaderOf(hdr.count, p, hdr.free + 1)
  /\ UNCHANGED <<pc, before, barrier, file, fileDur, orderVars, acked, failures, crashes>>

-----------------------------------------------------------------------------
(* Readers: get_page() loads a page, _evict_one() drops an unpinned one.  A
   dirty page is written back first, unless a writer's hook is set
   (no-steal). *)
Running == {"idle", "open", "stamped", "magic", "barrier", "flush", "sync",
            "delete", "replay", "truncate", "rbSync", "rbDelete", "clear"}

Load(p) ==
  /\ pc \in Running
  /\ p <= hdr.count /\ cache[p] = None
  /\ cache' = [cache EXCEPT ![p] = Entry(Read(file, p), FALSE)]
  /\ UNCHANGED <<pc, hdr, txnVars, diskVars, orderVars, bounds>>

(* A cached page is used again and moves to the end of the LRU order: while
   commit() waits for the journal's fsyncs, a planner that reads quill_stat1
   without its lock may use a dirty page.  Only the order of dirty pages around
   page 1 matters, and only to flush_all(), which takes its list of pages at
   the start.  Pages belong to no table here: it may be any of them. *)
Touch(p) ==
  /\ pc \in {"stamped", "magic", "barrier"}
  /\ cache[p] # None /\ cache[p].dirty
  /\ recent' = IF p = 1 THEN {} ELSE recent \cup {p}
  /\ used' = TRUE
  /\ UNCHANGED <<pc, memVars, txnVars, diskVars, pos, bounds>>

EvictClean(p) ==
  /\ pc \in Running
  /\ cache[p] # None /\ ~cache[p].dirty
  /\ cache' = [cache EXCEPT ![p] = None]
  /\ UNCHANGED <<pc, hdr, txnVars, diskVars, orderVars, bounds>>

EvictDirty(p) ==
  /\ pc = "idle"
  /\ cache[p] # None /\ cache[p].dirty
  /\ p <= hdr.count
  /\ Pwrite(p, cache[p].data)
  /\ cache' = [cache EXCEPT ![p] = None]
  /\ UNCHANGED <<pc, hdr, txnVars, jrnl, jrnlDur, orderVars, bounds>>

-----------------------------------------------------------------------------
(* commit() or rollback() of a transaction that has no journal: nothing to
   make durable, nothing on disk to undo. *)
EndWithoutJournal ==
  /\ pc = "open" /\ ~own
  /\ pc' = "idle"
  /\ UNCHANGED <<memVars, txnVars, diskVars, orderVars, bounds>>

(* commit() 1: the header goes into page 1, through get_page_for_write, which
   makes page 1 the most recently used page. *)
StampHeader ==
  /\ pc = "open" /\ own
  /\ WillModify(1)
  /\ cache' = [cache EXCEPT ![1] = Entry(PageOf(hdr, Cached(1).word), TRUE)]
  /\ pc' = "stamped"
  /\ recent' = {}
  /\ UNCHANGED <<hdr, before, barrier, file, fileDur, pos, used, bounds>>

(* commit_barrier(): fsync the journal's body and its directory entry ... *)
SyncJournalBody ==
  /\ pc = "stamped"
  /\ jrnlDur' = {jrnl}
  /\ pc' = "magic"
  /\ UNCHANGED <<memVars, txnVars, jrnl, file, fileDur, orderVars, bounds>>

(* Mutant: nRec counts one record too many. *)
StampJournalOneMore ==
  /\ pc = "magic"
  /\ jrnl' = JournalOf(jrnl.count, jrnl.recs, Len(jrnl.recs) + 1)
  /\ jrnlDur' = jrnlDur \cup {jrnl'}
  /\ pc' = "barrier"
  /\ UNCHANGED <<memVars, txnVars, file, fileDur, orderVars, bounds>>

(* ... write magic and nRec in one write ... *)
StampJournal ==
  /\ pc = "magic"
  /\ jrnl' = JournalOf(jrnl.count, jrnl.recs, Len(jrnl.recs))
  /\ jrnlDur' = jrnlDur \cup {jrnl'}
  /\ pc' = "barrier"
  /\ UNCHANGED <<memVars, txnVars, file, fileDur, orderVars, bounds>>

(* ... and fsync again: the journal is valid. *)
SyncJournalMagic ==
  /\ pc = "barrier"
  /\ jrnlDur' = {jrnl}
  /\ barrier' = TRUE
  /\ pc' = "flush"
  /\ UNCHANGED <<memVars, before, journalled, own, jrnl, file, fileDur, orderVars, bounds>>

Dirty == {p \in PageId : cache[p] # None /\ cache[p].dirty}

(* flush_all() in LRU order: page 1 after the pages that were used before it
   and before those used since. *)
NextToFlush(p) ==
  /\ p \in Dirty
  /\ p = 1 => Dirty \subseteq recent \cup {1}
  /\ p \in recent => 1 \notin Dirty

FlushPage(p) ==
  /\ pc = "flush"
  /\ NextToFlush(p)
  /\ p <= hdr.count
  /\ Pwrite(p, cache[p].data)
  /\ cache' = [cache EXCEPT ![p] = Entry(@.data, FALSE)]
  /\ UNCHANGED <<pc, hdr, txnVars, jrnl, jrnlDur, orderVars, bounds>>

FlushDone ==
  /\ pc = "flush" /\ Dirty = {}
  /\ pc' = "sync"
  /\ recent' = {} /\ used' = FALSE
  /\ UNCHANGED <<memVars, txnVars, diskVars, pos, bounds>>

(* Mutant: commit() skips pager.sync(). *)
SyncFileSkipped ==
  /\ pc = "sync"
  /\ pc' = "delete"
  /\ UNCHANGED <<memVars, txnVars, diskVars, orderVars, bounds>>

SyncFile ==
  /\ pc = "sync"
  /\ Fsync
  /\ pc' = "delete"
  /\ UNCHANGED <<memVars, txnVars, jrnl, jrnlDur, orderVars, bounds>>

(* journal.delete(), THE COMMIT POINT; then the hook is unset.  The
   directory is not fsynced: a power cut may bring the journal back. *)
DeleteJournal ==
  /\ pc = "delete"
  /\ jrnl' = None /\ jrnlDur' = jrnlDur \cup {None}
  /\ own' = FALSE
  /\ acked' = [old |-> acked.new, new |-> View]
  /\ pc' = "idle"
  /\ UNCHANGED <<memVars, before, journalled, barrier, file, fileDur, orderVars, ops,
                 failures, crashes>>

(* commit() raises: the transaction stays open for ROLLBACK or a new COMMIT.
   Either the operating system failed a write or an fsync ... *)
CommitFails ==
  /\ pc \in {"stamped", "magic", "barrier", "flush", "sync"}
  /\ failures < MaxFailures
  /\ failures' = failures + 1
  /\ pc' = "open"
  /\ recent' = {}
  /\ UNCHANGED <<memVars, txnVars, diskVars, pos, used, acked, ops, crashes>>

(* ... or write_page() raised PageOutOfRangeError. *)
FlushOutOfRange(p) ==
  /\ pc = "flush"
  /\ NextToFlush(p)
  /\ p > hdr.count
  /\ pc' = "open"
  /\ recent' = {}
  /\ UNCHANGED <<memVars, txnVars, diskVars, pos, used, bounds>>

-----------------------------------------------------------------------------
(* rollback(): replay() the journal, ... *)
RollbackStart ==
  /\ pc = "open" /\ own
  /\ pc' = "replay"
  /\ pos' = 1
  /\ UNCHANGED <<memVars, txnVars, diskVars, recent, used, bounds>>

ReplayRecord(from) ==
  /\ pc = from
  /\ pos <= jrnl.nrec
  /\ Pwrite(jrnl.recs[pos].page, jrnl.recs[pos].data)
  /\ pos' = pos + 1
  /\ UNCHANGED <<pc, memVars, txnVars, jrnl, jrnlDur, recent, used, bounds>>

ReplayDone(from, to) ==
  /\ pc = from
  /\ pos > jrnl.nrec
  /\ pc' = to
  /\ pos' = 1
  /\ UNCHANGED <<memVars, txnVars, diskVars, recent, used, bounds>>

(* ... truncate() ... *)
TruncateFile(from, to, n) ==
  /\ pc = from
  /\ file' = Truncated(file, n)
  /\ fileDur' = [p \in PageId |-> fileDur[p] \cup {file'[p]}]
  /\ hdr' = HeaderOf(n, 0, 0)
  /\ pc' = to
  /\ UNCHANGED <<cache, txnVars, jrnl, jrnlDur, orderVars, bounds>>

SyncRestored(from, to) ==
  /\ pc = from
  /\ Fsync
  /\ pc' = to
  /\ UNCHANGED <<memVars, txnVars, jrnl, jrnlDur, orderVars, bounds>>

RollbackDelete ==
  /\ pc = "rbDelete"
  /\ jrnl' = None /\ jrnlDur' = jrnlDur \cup {None}
  /\ pc' = "clear"
  /\ UNCHANGED <<memVars, txnVars, file, fileDur, orderVars, bounds>>

(* Mutant: the pool keeps the pages of the undone transaction. *)
RollbackKeepsCache ==
  /\ pc = "clear"
  /\ ReloadHeader
  /\ own' = FALSE /\ used' = FALSE
  /\ pc' = "idle"
  /\ UNCHANGED <<cache, before, journalled, barrier, diskVars, pos, recent, bounds>>

(* ... and at last pool.clear(_journalled), reload_header() and the hook. *)
RollbackClear ==
  /\ pc = "clear"
  /\ cache' = [p \in PageId |-> IF p \in journalled THEN None ELSE cache[p]]
  /\ ReloadHeader
  /\ own' = FALSE /\ used' = FALSE
  /\ pc' = "idle"
  /\ UNCHANGED <<before, journalled, barrier, diskVars, pos, recent, bounds>>

-----------------------------------------------------------------------------
(* The process dies; nothing in memory survives. *)
Lost ==
  /\ pc' = "down"
  /\ cache' = [p \in PageId |-> None]
  /\ before' = 1 /\ journalled' = {} /\ barrier' = FALSE /\ own' = FALSE
  /\ pos' = 1 /\ recent' = {}
  /\ UNCHANGED <<hdr, used>>

CanCrash == pc \notin {"down", "corrupt"} /\ crashes < MaxCrashes

Crash ==
  /\ CanCrash
  /\ crashes' = crashes + 1
  /\ Lost
  /\ UNCHANGED <<diskVars, acked, ops, failures>>

(* The page cache of the operating system is lost too: of every page and of
   the journal some version since the last fsync remains. *)
PowerCut ==
  /\ PowerCuts /\ CanCrash
  /\ crashes' = crashes + 1
  /\ Lost
  /\ \E f \in [PageId -> UNION {fileDur[p] : p \in PageId}] :
       /\ \A p \in PageId : f[p] \in fileDur[p]
       /\ file' = f /\ fileDur' = [p \in PageId |-> {f[p]}]
  /\ \E j \in jrnlDur : jrnl' = j /\ jrnlDur' = {j}
  /\ UNCHANGED <<acked, ops, failures>>

(* Pager.open() looks at the header and the length of the file before
   recover_if_needed() looks for a journal. *)
LengthOK == FileLen(file) >= file[1].hdr.count

OpenCorrupt ==
  /\ pc = "down" /\ ~LengthOK
  /\ pc' = "corrupt"
  /\ UNCHANGED <<memVars, txnVars, diskVars, orderVars, bounds>>

Open ==
  /\ pc = "down" /\ LengthOK
  /\ ReloadHeader
  /\ pc' = IF jrnl = None THEN "idle" ELSE IF Hot(jrnl) THEN "recover" ELSE "cold"
  /\ acked' = [old |-> acked.old, new |-> Stable]
  /\ used' = FALSE
  /\ UNCHANGED <<cache, txnVars, diskVars, pos, recent, ops, failures, crashes>>

(* recover_if_needed(): the last step, deleting the journal and, after a
   replay, reload_header(). *)
RecoverDelete ==
  /\ pc \in {"cold", "rcDelete"}
  /\ jrnl' = None /\ jrnlDur' = jrnlDur \cup {None}
  /\ ReloadHeader
  /\ pc' = "idle"
  /\ UNCHANGED <<cache, txnVars, file, fileDur, orderVars, bounds>>

-----------------------------------------------------------------------------
Statement ==
  \/ \E p \in PageId, v \in Val : Modify(p, v)
  \/ AllocateFree \/ AllocateGrow
  \/ \E p \in PageId : FreePage(p)

CommitStep ==
  \/ EndWithoutJournal \/ StampHeader
  \/ SyncJournalBody \/ StampJournal \/ SyncJournalMagic
  \/ \E p \in PageId : FlushPage(p) \/ FlushOutOfRange(p)
  \/ FlushDone \/ SyncFile \/ DeleteJournal

(* Mutant: the file is cut before the originals are back (docs/theory/txn's
   chapter 14, bug 2). *)
UndoTruncatesFirst(from, mid, sync, to, n) ==
  \/ TruncateFile(from, mid, n)
  \/ ReplayRecord(mid) \/ ReplayDone(mid, sync)
  \/ SyncRestored(sync, to)

Undo(from, mid, sync, to, n) ==
  \/ ReplayRecord(from) \/ ReplayDone(from, mid)
  \/ TruncateFile(mid, sync, n) \/ SyncRestored(sync, to)

RollbackStep ==
  \/ RollbackStart
  \/ Undo("replay", "truncate", "rbSync", "rbDelete", before)
  \/ RollbackDelete \/ RollbackClear

Recovery ==
  \/ Open \/ OpenCorrupt
  \/ /\ jrnl # None
     /\ Undo("recover", "rcTruncate", "rcSync", "rcDelete", jrnl.count)
  \/ RecoverDelete

PoolStep == \E p \in PageId : Load(p) \/ Touch(p) \/ EvictClean(p) \/ EvictDirty(p)

Next ==
  \/ BeginWrite \/ Statement \/ CommitStep \/ CommitFails \/ RollbackStep
  \/ PoolStep \/ Crash \/ PowerCut \/ Recovery

Spec == Init /\ [][Next]_vars

-----------------------------------------------------------------------------
(* Every variable keeps the type the code gives it; in particular no page
   operation leaves the file's bounds and no record is incomplete. *)
Versions == Page \cup {None}
TypeOK ==
  /\ pc \in Running \cup {"down", "corrupt", "cold", "recover", "rcTruncate",
                          "rcSync", "rcDelete"}
  /\ hdr \in Header
  /\ \A p \in PageId :
       cache[p] # None => cache[p].data \in Page /\ cache[p].dirty \in BOOLEAN
  /\ before \in PageId /\ journalled \in SUBSET PageId
  /\ recent \in SUBSET PageId /\ used \in BOOLEAN
  /\ barrier \in BOOLEAN /\ own \in BOOLEAN
  /\ jrnl # None => jrnl \in JournalFile /\ jrnl.nrec <= Len(jrnl.recs)
  /\ file \in [PageId -> Versions]
  /\ file[1] # None
  /\ \A p \in PageId : file[p] \in fileDur[p]
  /\ jrnl \in jrnlDur

Active == pc \in Running \ {"idle"}

Store == INSTANCE AtomicStore WITH
           State <- Seq(Page),
           stable <- Stable,
           view <- IF pc \in Running THEN View ELSE Stable,
           active <- Active

(* A transaction has ended after growing the file, with nothing journalled:
   CREATE TABLE and CREATE INDEX allocate the root page first and may then
   raise.  The header in memory still counts the page; every committed page is
   as it was. *)
LeftGrown ==
  /\ pc = "idle"
  /\ hdr.count > Stable[1].hdr.count
  /\ \A p \in 2..Stable[1].hdr.count : View[p] = Stable[p]

(* The write path implements an atomic store: what recovery would find
   changes at journal.delete() of a COMMIT only, and then to exactly what the
   process shows; and whenever a transaction ends otherwise, by ROLLBACK, a
   failed COMMIT followed by ROLLBACK, or a crash at any step, also of the
   recovery itself, the process shows the last committed state again.  The one
   exception is LeftGrown: the process then shows more pages than are
   committed, and the steps into and out of that state commit nothing. *)
ImplementsAtomicStore ==
  /\ Store!StoreInit
  /\ [][\/ Store!StoreNext
        \/ (LeftGrown \/ LeftGrown') /\ UNCHANGED Stable]_(Store!storeVars)

(* docs/durability.md rules out nothing about a power cut; the fsyncs of
   commit_barrier() and commit() are there for it.  Whatever versions of the
   pages and of the journal survive, recovering them gives a committed state:
   the last one, or, as unlink() is not followed by a directory fsync, the
   one before. *)
PowerCutAtomic == Stable \in {acked.old, acked.new}

(* Pager.open() checks the length of the file before recovery has a chance to
   repair it, and it never rejects what a process that died at any step left -
   of a commit, a rollback or of recovery itself, also for the second time -
   unless a dirty page was used while COMMIT waited for the journal, and
   flush_all() had not finished: it may then have written page 1 before the
   pages it counts. *)
FileOpens == pc = "corrupt" => used

(* rollback()'s docstring: the database is back in "exactly its pre-BEGIN
   state" whenever no transaction is open.  LeftGrown is the exception. *)
RollbackExact == pc = "idle" => View = Stable

(* recover_if_needed() gets to see every hot journal: Pager.open() does not
   reject a file that the journal would repair.  It does, see FileOpens. *)
HotJournalIsReplayed == pc = "corrupt" => ~Hot(jrnl)

=============================================================================
