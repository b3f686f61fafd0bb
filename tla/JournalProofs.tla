----------------------------- MODULE JournalProofs -----------------------------
(***************************************************************************)
(* Proofs about JournalCommit, for a file of any size, any contents, any   *)
(* number of operations, failures, crashes and power cuts.                 *)
(***************************************************************************)
EXTENDS JournalCommit, FiniteSetTheorems, SequenceTheorems, TLAPS

USE DEF orderVars

Writing == {"open", "stamped", "magic", "barrier", "flush", "sync", "delete"}
Undoing == {"replay", "truncate", "rbSync", "rbDelete", "clear"}
Replaying == {"recover", "rcTruncate", "rcSync", "rcDelete"}
Down == {"down", "corrupt"}

-----------------------------------------------------------------------------
(* What the variables hold. *)

Count(S) == S[1].hdr.count
IsDatabase(S) == S[1].hdr \in Header /\ S \in [1..Count(S) -> Page]

(* The freelist: as many pages as the header says, each one linked to the next
   and told from data by its word, no page twice, and never page 1. *)
Links == {Link(n) : n \in 0..MaxPages}
IsChain(S, h, s) ==
  /\ s \in [1..h.free -> 2..h.count]
  /\ \A i, k \in 1..h.free : s[i] = s[k] => i = k
  /\ h.free > 0 => s[1] = h.trunk
  /\ \A i \in 1..h.free : /\ S[s[i]].word \in Links
                          /\ i < h.free => S[s[i]].word = Link(s[i + 1])
FreeChain(S) == \E s : IsChain(S, S[1].hdr, s)

IsJournal(j) ==
  \/ j = None
  \/ /\ j \in JournalFile /\ j.nrec <= Len(j.recs)
     /\ \A i \in 1..Len(j.recs) : j.recs[i].page = 1 => j.recs[i].data.hdr \in Header

Typed ==
  /\ pc \in {"idle", "cold"} \cup Writing \cup Undoing \cup Replaying \cup Down
  /\ hdr \in Header
  /\ cache \in [PageId -> PoolEntry \cup {None}]
  /\ cache[1] # None => cache[1].data.hdr \in Header
  /\ before \in PageId /\ journalled \in SUBSET PageId
  /\ barrier \in BOOLEAN /\ own \in BOOLEAN
  /\ pos \in Nat \ {0} /\ (pc = "down" => pos = 1)

DiskTyped ==
  /\ file \in [PageId -> Versions] /\ fileDur \in [PageId -> SUBSET Versions]
  /\ \A p \in PageId : file[p] \in fileDur[p]
  /\ \A d \in fileDur[1] : d \in Page /\ d.hdr \in Header
  /\ jrnl \in jrnlDur /\ \A j \in jrnlDur : IsJournal(j)

AckedTyped ==
  /\ IsDatabase(acked.old) /\ FreeChain(acked.old)
  /\ IsDatabase(acked.new) /\ FreeChain(acked.new)
  /\ Count(acked.old) <= Count(acked.new)

-----------------------------------------------------------------------------
(* The journal protects the file. *)

(* Whatever versions fd of the pages survive, recovering them with journal j
   gives S: a page is in the journal as S has it, or has never been written. *)
Keeps(fd, j, S) ==
  /\ Hot(j) => j.count >= Count(S)
  /\ \A p \in 1..Count(S) :
       /\ Hot(j) => \A i \in 1..j.nrec : j.recs[i].page = p => j.recs[i].data = S[p]
       /\ (Hot(j) => \A i \in 1..j.nrec : j.recs[i].page # p)
            => \A d \in fd[p] : Shown(d) = S[p]

(* Every journal that a power cut may leave gives one of the last two committed
   states.  A hot journal that may be replayed is alone with ones that give
   the same state, for replaying it writes to the file. *)
Protected ==
  /\ \A j \in jrnlDur : Keeps(fileDur, j, acked.old) \/ Keeps(fileDur, j, acked.new)
  /\ \/ Keeps(fileDur, jrnl, acked.new)
     \/ pc \in Down /\ jrnlDur = {jrnl} /\ Keeps(fileDur, jrnl, acked.old)
  /\ Hot(jrnl) /\ Keeps(fileDur, jrnl, acked.new) => \A j \in jrnlDur : Keeps(fileDur, j, acked.new)

(* The journal of the open transaction has each page it may write to. *)
OwnJournal ==
  /\ jrnl # None /\ jrnl.count = before
  /\ \A i \in 1..Len(jrnl.recs) :
       /\ jrnl.recs[i].page \in journalled
       /\ jrnl.recs[i].page <= Count(acked.new) => jrnl.recs[i].data = acked.new[jrnl.recs[i].page]
  /\ \A p \in journalled : p <= before => \E i \in 1..Len(jrnl.recs) : jrnl.recs[i].page = p

JournalPhase ==
  /\ pc \in {"idle", "clear"} \/ (pc = "open" /\ ~own) => jrnl = None
  /\ pc = "open" /\ ~own => \A p \in journalled : p > before
  /\ pc \in (Writing \ {"open"}) \cup (Undoing \ {"clear"}) => own
  /\ own /\ pc \in Writing \cup (Undoing \ {"clear"}) => OwnJournal
  /\ pc \in {"barrier", "flush", "sync", "delete"} => jrnl.nrec = Len(jrnl.recs)
  /\ pc \in {"magic", "flush", "sync", "delete"} => jrnlDur = {jrnl}
  /\ pc = "cold" => jrnl # None /\ ~Hot(jrnl)
  /\ pc \in Replaying => Hot(jrnl)

Sizes ==
  /\ pc \in {"idle"} \cup Writing => Count(acked.new) <= hdr.count
  /\ pc \in Writing \cup Undoing => Count(acked.new) <= before
  /\ pc \in Writing => before <= hdr.count

-----------------------------------------------------------------------------
(* The pool shows what the file holds, but for the open transaction's pages. *)

Changed == IF pc = "idle" THEN {} ELSE journalled

(* Pages of the last committed state that the transaction has not touched. *)
Untouched ==
  pc \in {"idle"} \cup Writing \cup Undoing =>
    \A p \in 1..Count(acked.new) \ Changed :
      cache[p] # None => ~cache[p].dirty /\ cache[p].data = Read(file, p)

CleanMatches ==
  pc \in {"idle"} \cup Writing =>
    \A p \in 1..hdr.count :
      cache[p] # None /\ ~cache[p].dirty => cache[p].data = Read(file, p)

Stamped ==
  /\ pc \in Writing \ {"open"} => Cached(1).hdr = hdr
  /\ pc \in {"sync", "delete"} => Dirty = {}

ViewChain == pc \in {"idle"} \cup Writing => FreeChain(View)

ColdCache == pc \in Replaying \cup Down \cup {"cold"} => \A p \in PageId : cache[p] = None

-----------------------------------------------------------------------------
(* Undoing, by ROLLBACK or by recovery, puts the committed pages back. *)

Synced == \A p \in PageId : fileDur[p] = {file[p]}
PutBack ==
  /\ pc \in {"replay", "recover"} =>
       \A i \in 1..jrnl.nrec :
         i < pos /\ jrnl.recs[i].page <= Count(acked.new)
           => Read(file, jrnl.recs[i].page) = acked.new[jrnl.recs[i].page]
  /\ pc \in (Undoing \ {"replay", "clear"}) \cup (Replaying \ {"recover"}) =>
       \A p \in 1..Count(acked.new) : Read(file, p) = acked.new[p]
  /\ pc \in {"delete", "rbDelete", "rcDelete"} => Synced

(* Without a journal nothing has changed, unless the file has grown. *)
HeaderExact ==
  (pc = "idle" \/ (pc = "open" /\ ~own)) /\ hdr.count = Count(acked.new) => hdr = acked.new[1].hdr

Inv ==
  /\ Typed /\ DiskTyped /\ AckedTyped
  /\ Protected /\ JournalPhase /\ Sizes
  /\ Untouched /\ CleanMatches /\ Stamped /\ ViewChain /\ ColdCache
  /\ PutBack /\ HeaderExact

-----------------------------------------------------------------------------
(* Pages, headers, entries and journals, taken apart and put together. *)

LEMMA PageIds ==
  /\ 1 \in PageId /\ 2 \in PageId
  /\ \A p \in PageId : p \in Nat /\ p >= 1 /\ p <= MaxPages
  /\ \A p \in Nat : p >= 1 /\ p <= MaxPages => p \in PageId
  /\ MaxPages \in Nat
BY PagesAssumption DEF PageId

LEMMA LinkFacts ==
  ASSUME NEW w \in Links
  PROVE  w \in Int /\ w < 0 /\ Link(w) \in 0..MaxPages
<1>1. PICK n \in 0..MaxPages : w = Link(n)
  BY DEF Links
<1> QED BY <1>1 DEF Link

LEMMA Words ==
  /\ 0 \in Word /\ Links \subseteq Word /\ Val \subseteq Word
  /\ \A w \in Word : w \in Int /\ (w < 0 => w \in Links)
  /\ \A v \in Val : v >= 0
<1>1. 0 \in Word /\ Links \subseteq Word /\ Val \subseteq Word
  BY DEF Word, Links
<1>2. \A v \in Val : v >= 0 /\ v \in Int
  BY ValAssumption
<1>3. \A w \in Word : w \in Val \/ w = 0 \/ w \in Links
  BY DEF Word, Links
<1> QED BY <1>1, <1>2, <1>3, LinkFacts

LEMMA PageFields ==
  ASSUME NEW h \in Header \cup {None}, NEW w \in Word
  PROVE  PageOf(h, w) \in Page /\ PageOf(h, w).hdr = h /\ PageOf(h, w).word = w
BY DEF PageOf, Page

LEMMA PageParts ==
  ASSUME NEW d \in Page
  PROVE  /\ d.hdr \in Header \cup {None} /\ d.word \in Word
         /\ d = PageOf(d.hdr, d.word) /\ d # None /\ Shown(d) = d
BY NoneAssumption DEF PageOf, Page, Shown

LEMMA ZeroFacts ==
  ZeroPage \in Page /\ ZeroPage.hdr = None /\ ZeroPage.word = 0 /\ None \notin Header
BY Words, NoneAssumption, PageFields DEF ZeroPage

LEMMA ShownPage ==
  ASSUME NEW v \in Versions
  PROVE  Shown(v) \in Page /\ (v # None => v \in Page)
BY ZeroFacts DEF Shown, Versions

LEMMA HeaderFields ==
  ASSUME NEW n \in PageId, NEW t \in 0..MaxPages, NEW f \in 0..MaxPages
  PROVE  /\ HeaderOf(n, t, f) \in Header /\ HeaderOf(n, t, f).count = n
         /\ HeaderOf(n, t, f).trunk = t /\ HeaderOf(n, t, f).free = f
BY DEF HeaderOf, Header

LEMMA HeaderParts ==
  ASSUME NEW h \in Header
  PROVE  /\ h.count \in PageId /\ h.trunk \in 0..MaxPages /\ h.free \in 0..MaxPages
         /\ h # None
BY NoneAssumption DEF Header

LEMMA EntryFields ==
  ASSUME NEW d \in Page
  PROVE  /\ Entry(d, TRUE) \in PoolEntry /\ Entry(d, FALSE) \in PoolEntry
         /\ Entry(d, TRUE) # None /\ Entry(d, FALSE) # None
         /\ Entry(d, TRUE).data = d /\ Entry(d, FALSE).data = d
         /\ Entry(d, TRUE).dirty = TRUE /\ Entry(d, FALSE).dirty = FALSE
<1>1. Entry(d, TRUE) \in PoolEntry /\ Entry(d, FALSE) \in PoolEntry
  BY DEF Entry, PoolEntry
<1>2. Entry(d, TRUE) # None /\ Entry(d, FALSE) # None
  BY <1>1, NoneAssumption
<1>3. Entry(d, TRUE).data = d /\ Entry(d, FALSE).data = d
  BY DEF Entry
<1>4. Entry(d, TRUE).dirty = TRUE /\ Entry(d, FALSE).dirty = FALSE
  BY DEF Entry
<1> QED BY <1>1, <1>2, <1>3, <1>4

LEMMA EntryParts ==
  ASSUME NEW e \in PoolEntry \cup {None}, e # None
  PROVE  e.data \in Page /\ e.dirty \in BOOLEAN
BY DEF PoolEntry

LEMMA JournalFields ==
  ASSUME NEW n \in PageId, NEW recs \in Seq(Original), NEW k \in Nat
  PROVE  /\ JournalOf(n, recs, k) \in JournalFile /\ JournalOf(n, recs, k) # None
         /\ JournalOf(n, recs, k).count = n /\ JournalOf(n, recs, k).recs = recs
         /\ JournalOf(n, recs, k).nrec = k
<1> DEFINE j == JournalOf(n, recs, k)
<1>1. j.count = n /\ j.recs = recs /\ j.nrec = k
  BY DEF JournalOf
<1>2. j \in JournalFile
  BY DEF JournalOf, JournalFile
<1> HIDE DEF j
<1> QED BY <1>1, <1>2, NoneAssumption DEF j

LEMMA JournalParts ==
  ASSUME NEW j, IsJournal(j), j # None
  PROVE  /\ j \in JournalFile /\ j.count \in PageId /\ j.recs \in Seq(Original)
         /\ j.nrec \in Nat /\ j.nrec <= Len(j.recs) /\ Len(j.recs) \in Nat
         /\ \A i \in 1..Len(j.recs) : /\ j.recs[i].page \in PageId /\ j.recs[i].data \in Page
                                      /\ j.recs[i].page = 1 => j.recs[i].data.hdr \in Header
<1>1. /\ j \in JournalFile /\ j.nrec <= Len(j.recs)
      /\ \A i \in 1..Len(j.recs) : j.recs[i].page = 1 => j.recs[i].data.hdr \in Header
  BY DEF IsJournal
<1>2. j.count \in PageId /\ j.recs \in Seq(Original) /\ j.nrec \in Nat
  <2> DEFINE R == Seq(Original)
  <2>1. j \in [count : PageId, recs : R, nrec : Nat]
    BY <1>1 DEF JournalFile
  <2> HIDE DEF R
  <2>2. j.count \in PageId /\ j.recs \in R /\ j.nrec \in Nat
    BY <2>1
  <2> QED BY <2>2 DEF R
<1>3. Len(j.recs) \in Nat /\ \A i \in 1..Len(j.recs) : j.recs[i] \in Original
  BY <1>2, LenProperties, ElementOfSeq
<1>4. \A r \in Original : r.page \in PageId /\ r.data \in Page
  BY DEF Original
<1> QED BY <1>1, <1>2, <1>3, <1>4

(* The database that a header and pages amount to. *)
LEMMA ContentsFacts ==
  ASSUME NEW h \in Header, NEW pages \in [PageId -> Page]
  PROVE  /\ IsDatabase(Contents(h, pages)) /\ Count(Contents(h, pages)) = h.count
         /\ Contents(h, pages)[1] = PageOf(h, pages[1].word)
         /\ Contents(h, pages)[1].hdr = h /\ Contents(h, pages)[1].word = pages[1].word
         /\ \A p \in 2..h.count : Contents(h, pages)[p] = pages[p]
<1> DEFINE S == Contents(h, pages)
<1>1. h.count \in Nat /\ h.count >= 1 /\ 1..h.count \subseteq PageId /\ pages[1] \in Page
  BY PageIds, HeaderParts
<1>2. PageOf(h, pages[1].word) \in Page /\ PageOf(h, pages[1].word).hdr = h
      /\ PageOf(h, pages[1].word).word = pages[1].word
  BY <1>1, PageParts, PageFields
<1>3. S[1] = PageOf(h, pages[1].word) /\ \A p \in 2..h.count : S[p] = pages[p]
  BY <1>1 DEF Contents
<1>4. S \in [1..h.count -> Page]
  BY <1>1, <1>2 DEF Contents
<1> HIDE DEF S
<1>5. S[1].hdr = h /\ Count(S) = h.count
  BY <1>2, <1>3 DEF Count
<1>6. IsDatabase(S)
  BY <1>4, <1>5 DEF IsDatabase
<1> QED BY <1>2, <1>3, <1>5, <1>6 DEF S

(* Two databases are the same when their pages are. *)
LEMMA SameDatabase ==
  ASSUME NEW S, NEW T, IsDatabase(S), IsDatabase(T), Count(S) = Count(T),
         \A p \in 1..Count(S) : S[p] = T[p]
  PROVE  S = T
<1> DEFINE n == Count(S)
<1>1. S \in [1..n -> Page] /\ T \in [1..n -> Page]
  BY DEF IsDatabase
<1>2. \A p \in 1..n : S[p] = T[p]
  OBVIOUS
<1> HIDE DEF n
<1>3. S = [p \in 1..n |-> S[p]] /\ T = [p \in 1..n |-> T[p]]
  BY <1>1
<1>4. [p \in 1..n |-> S[p]] = [p \in 1..n |-> T[p]]
  BY <1>2
<1> QED BY <1>3, <1>4

LEMMA DatabaseSize ==
  ASSUME NEW S, IsDatabase(S)
  PROVE  /\ Count(S) \in PageId /\ Count(S) \in Nat /\ 1 \in 1..Count(S)
         /\ 1..Count(S) \subseteq PageId /\ \A p \in 1..Count(S) : S[p] \in Page
BY PageIds, HeaderParts DEF IsDatabase, Count

-----------------------------------------------------------------------------
(* What recovery makes of the file. *)

LEMMA HotJournal ==
  ASSUME NEW j, IsJournal(j), Hot(j)
  PROVE  j # None /\ j.nrec > 0
BY DEF Hot

(* A journal that keeps S does so whatever survived. *)
LEMMA KeepsRecovers ==
  ASSUME NEW S, IsDatabase(S), NEW j, IsJournal(j),
         NEW fd, NEW f \in [PageId -> Versions], \A p \in PageId : f[p] \in fd[p],
         Keeps(fd, j, S)
  PROVE  StableOf(Recovered(f, j)) = S
<1> DEFINE g == Recovered(f, j)
<1>1. ASSUME NEW p \in 1..Count(S) PROVE Read(g, p) = S[p] /\ (p = 1 => g[p] = S[p])
  <2>1. p \in PageId /\ S[p] \in Page /\ S[p] # None /\ f[p] \in fd[p] /\ p \in Nat
    BY <1>1, DatabaseSize, PageIds, PageParts
  <2>2. p = 1 => S[p].hdr \in Header
    BY DEF IsDatabase
  <2>3. Read(g, p) = S[p]
    <3>1. CASE ~Hot(j)
      <4>1. g = f
        BY <3>1 DEF Recovered
      <4>2. Shown(f[p]) = S[p]
        BY <1>1, <2>1, <3>1 DEF Keeps
      <4> QED BY <4>1, <4>2 DEF Read
    <3>2. CASE Hot(j)
      <4> DEFINE r == Restored(f, j)
      <4>1. g = Truncated(r, j.count) /\ p <= j.count /\ j.count \in Nat
        <5>1. j.count \in PageId /\ j.count >= Count(S)
          BY <3>2, HotJournal, JournalParts DEF Keeps
        <5>2. p <= j.count /\ j.count \in Nat
          BY <1>1, <5>1, PageIds, DatabaseSize
        <5> QED BY <3>2, <5>2 DEF Recovered
      <4>2. g[p] = IF p = j.count THEN Read(r, p) ELSE r[p]
        BY <2>1, <4>1 DEF Truncated
      <4>3. Shown(r[p]) = S[p]
        <5>1. CASE \E i \in 1..j.nrec : j.recs[i].page = p
          <6> DEFINE k == CHOOSE i \in 1..j.nrec : j.recs[i].page = p
          <6>1. k \in 1..j.nrec /\ j.recs[k].page = p
            BY <5>1
          <6>2. r[p] = j.recs[k].data
            BY <2>1, <5>1 DEF Restored
          <6> HIDE DEF k
          <6>3. r[p] = S[p]
            BY <1>1, <3>2, <6>1, <6>2 DEF Keeps
          <6> QED BY <2>1, <6>3, PageParts
        <5>2. CASE ~\E i \in 1..j.nrec : j.recs[i].page = p
          <6>1. r[p] = f[p]
            BY <2>1, <5>2 DEF Restored
          <6>2. Shown(f[p]) = S[p]
            BY <1>1, <2>1, <3>2, <5>2 DEF Keeps
          <6> QED BY <6>1, <6>2
        <5> QED BY <5>1, <5>2
      <4> HIDE DEF r
      <4>4. g[p] = S[p] \/ g[p] = r[p]
        BY <4>2, <4>3 DEF Read
      <4>5. Shown(g[p]) = S[p]
        BY <2>1, <4>3, <4>4, PageParts
      <4> HIDE DEF g
      <4> QED BY <4>5 DEF Read
    <3> QED BY <3>1, <3>2
  <2>4. p = 1 => g[p] = S[p]
    <3> HIDE DEF g
    <3> QED BY <2>2, <2>3, ZeroFacts DEF Read, Shown
  <2> QED BY <2>3, <2>4
<1>2. 1 \in 1..Count(S) /\ S[1].hdr \in Header /\ Count(S) = S[1].hdr.count
  BY DatabaseSize DEF IsDatabase, Count
<1>3. g[1] = S[1]
  BY <1>1, <1>2
<1>4. g \in [PageId -> Versions]
  <2>1. CASE ~Hot(j)
    BY <2>1 DEF Recovered
  <2>2. CASE Hot(j)
    <3> DEFINE r == Restored(f, j)
    <3>1. g = Truncated(r, j.count)
      BY <2>2 DEF Recovered
    <3>2. j # None /\ j.nrec \in Nat /\ j.nrec <= Len(j.recs) /\ Len(j.recs) \in Nat
      BY <2>2, HotJournal, JournalParts
    <3>3. \A i \in 1..j.nrec : j.recs[i].data \in Page
      BY <3>2, JournalParts
    <3>4. r \in [PageId -> Versions]
      BY <3>3 DEF Restored, Versions
    <3> HIDE DEF r
    <3>5. \A p \in PageId : Read(r, p) \in Versions
      BY <3>4, ShownPage DEF Read, Versions
    <3>6. None \in Versions
      BY DEF Versions
    <3> QED BY <3>1, <3>4, <3>5, <3>6 DEF Truncated
  <2> QED BY <2>1, <2>2
<1> HIDE DEF g
<1> DEFINE pages == [p \in PageId |-> Read(g, p)]
<1>5. pages \in [PageId -> Page]
  BY <1>4, ShownPage DEF Read
<1>6. \A p \in 1..Count(S) : pages[p] = S[p]
  BY <1>1, DatabaseSize
<1>7. StableOf(g) = Contents(S[1].hdr, pages)
  BY <1>3 DEF StableOf
<1> HIDE DEF pages
<1> DEFINE T == Contents(S[1].hdr, pages)
<1>8. IsDatabase(T) /\ Count(T) = Count(S) /\ T[1] = PageOf(S[1].hdr, pages[1].word)
      /\ \A p \in 2..Count(S) : T[p] = pages[p]
  BY <1>2, <1>5, ContentsFacts
<1> HIDE DEF T
<1>9. \A p \in 1..Count(S) : S[p] = T[p]
  <2>1. T[1] = S[1]
    <3>1. S[1] \in Page /\ pages[1] = S[1]
      BY <1>2, <1>6, DatabaseSize
    <3> QED BY <1>8, <3>1, PageParts
  <2>2. \A p \in 1..Count(S) : p = 1 \/ p \in 2..Count(S)
    BY DatabaseSize
  <2> QED BY <1>6, <1>8, <2>1, <2>2
<1>10. S = T
  BY <1>8, <1>9, SameDatabase
<1> QED BY <1>7, <1>10 DEF g, T

(* A step that writes to pages beyond S, to pages that the journal has, or
   what S has there, does not disturb it. *)
LEMMA KeepsStep ==
  ASSUME NEW S, NEW j, NEW fd, NEW fd2, Keeps(fd, j, S),
         \A p \in 1..Count(S) : \A d \in fd2[p] :
           \/ \E e \in fd[p] : Shown(d) = Shown(e)
           \/ Shown(d) = S[p]
           \/ Hot(j) /\ \E i \in 1..j.nrec : j.recs[i].page = p
  PROVE  Keeps(fd2, j, S)
BY DEF Keeps

(* Journals that are not hot keep what is in the file. *)
LEMMA KeepsCold ==
  ASSUME NEW S, NEW j, NEW fd, ~Hot(j)
  PROVE  Keeps(fd, j, S) <=> \A p \in 1..Count(S) : \A d \in fd[p] : Shown(d) = S[p]
BY DEF Keeps

LEMMA NoneIsCold == ~Hot(None)
BY DEF Hot

-----------------------------------------------------------------------------
(* What the process shows. *)

Shows(c, f) == [p \in PageId |-> IF c[p] = None THEN Read(f, p) ELSE c[p].data]

LEMMA ShowsPages ==
  ASSUME NEW c \in [PageId -> PoolEntry \cup {None}], NEW f \in [PageId -> Versions]
  PROVE  Shows(c, f) \in [PageId -> Page] /\ \A p \in PageId : Read(f, p) \in Page
<1>1. \A p \in PageId : Read(f, p) \in Page
  BY ShownPage DEF Read
<1>2. \A p \in PageId : c[p] # None => c[p].data \in Page
  BY EntryParts
<1> QED BY <1>1, <1>2 DEF Shows

LEMMA ViewIs ==
  /\ View = Contents(hdr, Shows(cache, file))
  /\ View' = Contents(hdr', Shows(cache', file'))
  /\ \A p \in PageId : /\ Cached(p) = Shows(cache, file)[p]
                       /\ Cached(p)' = Shows(cache', file')[p]
BY DEF View, Cached, Shows

LEMMA ViewFacts ==
  ASSUME Typed, DiskTyped
  PROVE  /\ IsDatabase(View) /\ Count(View) = hdr.count /\ View[1].hdr = hdr
         /\ View[1].word = Cached(1).word /\ View[1] = PageOf(hdr, Cached(1).word)
         /\ \A p \in 2..hdr.count : View[p] = Cached(p)
         /\ hdr.count \in Nat /\ 1 \in 1..hdr.count /\ 1..hdr.count \subseteq PageId
<1>1. Shows(cache, file) \in [PageId -> Page] /\ hdr \in Header
  BY ShowsPages DEF Typed, DiskTyped
<1>2. hdr.count \in Nat /\ 1 \in 1..hdr.count /\ 1..hdr.count \subseteq PageId /\ 1 \in PageId
  BY <1>1, HeaderParts, PageIds
<1>3. \A p \in 2..hdr.count : Cached(p) = Shows(cache, file)[p]
  BY <1>2, ViewIs
<1>4. Cached(1) = Shows(cache, file)[1]
  BY <1>2, ViewIs
<1> QED BY <1>1, <1>2, <1>3, <1>4, ViewIs, ContentsFacts

LEMMA ViewFactsNext ==
  ASSUME Typed', DiskTyped'
  PROVE  /\ IsDatabase(View') /\ Count(View') = hdr'.count /\ View'[1].hdr = hdr'
         /\ View'[1].word = Cached(1)'.word /\ View'[1] = PageOf(hdr', Cached(1)'.word)
         /\ \A p \in 2..hdr'.count : View'[p] = Cached(p)'
<1>1. Shows(cache', file') \in [PageId -> Page] /\ hdr' \in Header
  BY ShowsPages DEF Typed, DiskTyped
<1>2. hdr'.count \in Nat /\ 1..hdr'.count \subseteq PageId /\ 1 \in PageId
  BY <1>1, HeaderParts, PageIds
<1>3. \A p \in 2..hdr'.count : Cached(p)' = Shows(cache', file')[p]
  BY <1>2, ViewIs
<1>4. Cached(1)' = Shows(cache', file')[1]
  BY <1>2, ViewIs
<1> QED BY <1>1, <1>3, <1>4, ViewIs, ContentsFacts

LEMMA CachedPage ==
  ASSUME Typed, DiskTyped, NEW p \in PageId
  PROVE  /\ Cached(p) \in Page /\ Read(file, p) \in Page
         /\ p = 1 => Cached(p).hdr \in Header /\ Read(file, p).hdr \in Header /\ Read(file, p) = file[p]
<1>1. Cached(p) \in Page /\ Read(file, p) \in Page
  BY ViewIs, ShowsPages DEF Typed, DiskTyped
<1>2. p = 1 => file[p] \in Page /\ file[p].hdr \in Header
  BY DEF DiskTyped
<1>3. p = 1 => Read(file, p) = file[p]
  BY <1>2, PageParts DEF Read
<1>4. p = 1 => Cached(p).hdr \in Header
  BY <1>2, <1>3 DEF Cached, Typed
<1> QED BY <1>1, <1>2, <1>3, <1>4

(* Nothing changes what is shown. *)
LEMMA SameView ==
  ASSUME Typed, DiskTyped, Typed', DiskTyped', hdr' = hdr,
         \A p \in 1..hdr.count : Cached(p)' = Cached(p)
  PROVE  View' = View
<1>1. /\ IsDatabase(View) /\ Count(View) = hdr.count /\ View[1] = PageOf(hdr, Cached(1).word)
      /\ \A p \in 2..hdr.count : View[p] = Cached(p)
      /\ hdr.count \in Nat /\ 1 \in 1..hdr.count
  BY ViewFacts
<1>2. /\ IsDatabase(View') /\ Count(View') = hdr.count /\ View'[1] = PageOf(hdr, Cached(1)'.word)
      /\ \A p \in 2..hdr.count : View'[p] = Cached(p)'
  BY ViewFactsNext
<1>3. View'[1] = View[1]
  BY <1>1, <1>2
<1>4. \A p \in 1..hdr.count : p = 1 \/ p \in 2..hdr.count
  BY <1>1
<1>5. \A p \in 1..hdr.count : View'[p] = View[p]
  BY <1>1, <1>2, <1>3, <1>4
<1> QED BY <1>1, <1>2, <1>5, SameDatabase

(* The process shows a database S when it has its header and its pages. *)
LEMMA ViewOfDatabase ==
  ASSUME Typed', DiskTyped', NEW S, IsDatabase(S), hdr' = S[1].hdr,
         \A p \in 1..Count(S) : Cached(p)' = S[p]
  PROVE  View' = S
<1>1. /\ IsDatabase(View') /\ Count(View') = Count(S) /\ View'[1] = PageOf(S[1].hdr, Cached(1)'.word)
      /\ \A p \in 2..Count(S) : View'[p] = Cached(p)'
  BY ViewFactsNext DEF Count
<1>2. /\ 1 \in 1..Count(S) /\ Count(S) \in Nat /\ S[1] \in Page
  BY DatabaseSize
<1>3. View'[1] = S[1]
  BY <1>1, <1>2, PageParts
<1>4. \A p \in 1..Count(S) : p = 1 \/ p \in 2..Count(S)
  BY <1>2
<1>5. \A p \in 1..Count(S) : View'[p] = S[p]
  BY <1>1, <1>3, <1>4
<1> QED BY <1>1, <1>5, SameDatabase

(* Steps that leave the disk alone. *)
LEMMA SameDisk ==
  ASSUME Inv, UNCHANGED <<jrnl, jrnlDur, file, fileDur, acked>>, pc \notin Down \/ pc' \in Down
  PROVE  DiskTyped' /\ AckedTyped' /\ Protected'
<1>1. DiskTyped /\ AckedTyped /\ Protected
  BY DEF Inv
<1>2. DiskTyped'
  BY <1>1 DEF DiskTyped
<1>3. AckedTyped'
  BY <1>1 DEF AckedTyped
<1>4. Protected'
  BY <1>1 DEF Protected
<1> QED BY <1>2, <1>3, <1>4

(* The pages of the committed state that the transaction has not touched are
   in the file. *)
LEMMA FileIsCommitted ==
  ASSUME Inv, pc \in {"idle"} \cup Writing, NEW p \in 1..Count(acked.new),
         pc = "idle" \/ p \notin journalled
  PROVE  /\ \A d \in fileDur[p] : Shown(d) = acked.new[p]
         /\ Read(file, p) = acked.new[p]
<1>1. Keeps(fileDur, jrnl, acked.new) /\ p \in PageId /\ IsJournal(jrnl) /\ file[p] \in fileDur[p]
  <2>1. p \in PageId
    BY DatabaseSize DEF Inv, AckedTyped
  <2> QED BY <2>1 DEF Inv, Protected, DiskTyped, Down, Writing
<1>2. Hot(jrnl) => \A i \in 1..jrnl.nrec : jrnl.recs[i].page # p
  <2> SUFFICES ASSUME Hot(jrnl), NEW i \in 1..jrnl.nrec PROVE jrnl.recs[i].page # p
    OBVIOUS
  <2>1. jrnl # None
    BY <1>1, HotJournal
  <2>2. pc # "idle" /\ own /\ OwnJournal
    BY <2>1 DEF Inv, JournalPhase, Writing
  <2>3. i \in 1..Len(jrnl.recs)
    BY <1>1, <2>1, JournalParts
  <2> QED BY <2>2, <2>3 DEF OwnJournal
<1> QED BY <1>1, <1>2 DEF Keeps, Read

-----------------------------------------------------------------------------
(* will_modify(): the journal gets the page as the committed state has it. *)

(* The journal that the record is appended to. *)
LEMMA JournalToAppend ==
  ASSUME Inv, pc = "open", NEW j, j = IF own THEN jrnl ELSE BeginJournal(before)
  PROVE  /\ IsJournal(j) /\ j # None /\ j.count = before
         /\ Hot(j) => own
         /\ \A i \in 1..Len(j.recs) :
              /\ j.recs[i].page \in journalled
              /\ j.recs[i].page <= Count(acked.new) => j.recs[i].data = acked.new[j.recs[i].page]
         /\ \A p \in journalled : p <= before => \E i \in 1..Len(j.recs) : j.recs[i].page = p
<1>1. JournalPhase /\ DiskTyped /\ before \in PageId
  BY DEF Inv, Typed
<1>2. CASE own
  <2>1. j = jrnl /\ OwnJournal /\ IsJournal(j)
    BY <1>1, <1>2 DEF JournalPhase, DiskTyped, Writing
  <2> QED BY <1>2, <2>1 DEF OwnJournal
<1>3. CASE ~own
  <2> DEFINE e == <<>>
             z == 0
  <2>1. j = JournalOf(before, e, z) /\ e \in Seq(Original) /\ z \in Nat
    BY <1>3, EmptySeq DEF BeginJournal
  <2>2. Len(e) = 0 /\ z = 0
    BY EmptySeq
  <2> HIDE DEF e, z
  <2>3. /\ j \in JournalFile /\ j # None /\ j.count = before /\ j.recs = e /\ j.nrec = z
    BY <1>1, <2>1, JournalFields
  <2>4. Len(j.recs) = 0
    BY <2>2, <2>3
  <2>5. IsJournal(j) /\ ~Hot(j)
    BY <2>3, <2>4, <2>2 DEF IsJournal, Hot
  <2>6. \A p \in journalled : ~(p <= before)
    BY <1>1, <1>3, PageIds DEF JournalPhase, Inv, Typed
  <2> QED BY <2>3, <2>4, <2>5, <2>6
<1> QED BY <1>2, <1>3

LEMMA WillModifyKeeps ==
  ASSUME Inv, pc = "open", NEW p \in PageId, WillModify(p),
         UNCHANGED <<before, file, fileDur, acked>>,
         pc' = "open" \/ (pc' = "stamped" /\ own)
  PROVE  /\ DiskTyped' /\ AckedTyped' /\ Protected' /\ JournalPhase' /\ PutBack'
         /\ journalled' = journalled \cup {p} /\ own' \in BOOLEAN
         /\ p <= before \/ own => own'
<1>1. /\ Typed /\ DiskTyped /\ AckedTyped /\ Protected /\ JournalPhase
      /\ pc \in Writing /\ pc \notin Down /\ pc' \in Writing /\ pc' \notin Down
      /\ journalled' = journalled \cup {p}
  BY DEF Inv, Writing, Down, WillModify
<1>2. AckedTyped'
  BY <1>1 DEF AckedTyped
<1>3. PutBack'
  BY DEF PutBack, Undoing, Replaying
<1>4. CASE p \in journalled \/ p > before
  <2>1. UNCHANGED <<own, jrnl, jrnlDur>>
    BY <1>4 DEF WillModify
  <2>2. DiskTyped' /\ Protected'
    BY <1>1, <2>1, SameDisk
  <2>3. p <= before => own
    <3>1. p > before => ~(p <= before)
      BY <1>1, PageIds DEF Typed
    <3>2. p \in journalled /\ ~own => ~(p <= before)
      BY <1>1, PageIds DEF JournalPhase, Typed
    <3> QED BY <1>4, <3>1, <3>2
  <2>4. own => OwnJournal'
    <3> SUFFICES ASSUME own PROVE OwnJournal'
      OBVIOUS
    <3>1. OwnJournal
      BY <1>1 DEF JournalPhase
    <3>2. p \in journalled \/ ~(p <= before)
      BY <1>1, <1>4, PageIds DEF Typed
    <3> QED BY <1>1, <2>1, <3>1, <3>2 DEF OwnJournal
  <2>5. ~own => \A q \in journalled' : q > before
    BY <1>1, <1>4 DEF JournalPhase
  <2>6. JournalPhase'
    <3>1. CASE own
      BY <1>1, <2>1, <2>4, <3>1 DEF JournalPhase, Writing, Undoing, Replaying
    <3>2. CASE ~own
      <4>1. pc' = "open" /\ jrnl' = None
        BY <1>1, <2>1, <3>2 DEF JournalPhase
      <4> QED BY <2>1, <2>5, <3>2, <4>1 DEF JournalPhase, Writing, Undoing, Replaying
    <3> QED BY <3>1, <3>2
  <2> QED BY <1>1, <1>2, <1>3, <2>1, <2>2, <2>3, <2>6 DEF Typed
<1>5. CASE ~(p \in journalled \/ p > before)
  <2> DEFINE j0 == IF own THEN jrnl ELSE BeginJournal(before)
             rec == [page |-> p, data |-> Read(file, p)]
  <2>1. /\ own' = TRUE /\ jrnlDur' = jrnlDur \cup {jrnl'}
        /\ jrnl' = JournalOf(j0.count, Append(j0.recs, rec), j0.nrec)
    BY <1>5 DEF WillModify, RecordOriginal
  <2>2. /\ IsJournal(j0) /\ j0 # None /\ j0.count = before /\ (Hot(j0) => own)
        /\ \A i \in 1..Len(j0.recs) :
             /\ j0.recs[i].page \in journalled
             /\ j0.recs[i].page <= Count(acked.new) => j0.recs[i].data = acked.new[j0.recs[i].page]
        /\ \A q \in journalled : q <= before => \E i \in 1..Len(j0.recs) : j0.recs[i].page = q
    BY JournalToAppend
  <2>3. rec \in Original /\ rec.page = p /\ rec.data = Read(file, p)
        /\ (p = 1 => rec.data.hdr \in Header)
    BY <1>1, CachedPage DEF Original
  <2>4. own => j0 = jrnl
    OBVIOUS
  <2>5. ~own => jrnl = None
    BY <1>1 DEF JournalPhase
  <2> HIDE DEF j0, rec
  <2>6. /\ j0.recs \in Seq(Original) /\ j0.count \in PageId /\ j0.nrec \in Nat
        /\ j0.nrec <= Len(j0.recs) /\ Len(j0.recs) \in Nat
        /\ \A i \in 1..Len(j0.recs) : j0.recs[i].page = 1 => j0.recs[i].data.hdr \in Header
    BY <2>2, JournalParts
  <2> DEFINE recs == Append(j0.recs, rec)
  <2>7. /\ recs \in Seq(Original) /\ Len(recs) = Len(j0.recs) + 1
        /\ \A i \in 1..Len(j0.recs) : recs[i] = j0.recs[i]
        /\ recs[Len(j0.recs) + 1] = rec
    BY <2>3, <2>6, AppendProperties
  <2>8. jrnl' = JournalOf(j0.count, recs, j0.nrec)
    BY <2>1
  <2> HIDE DEF recs
  <2>9. /\ jrnl' \in JournalFile /\ jrnl' # None /\ jrnl'.count = before /\ jrnl'.recs = recs
        /\ jrnl'.nrec = j0.nrec
    BY <2>2, <2>6, <2>7, <2>8, JournalFields
  <2>10. \A i \in 1..Len(recs) : i \in 1..Len(j0.recs) \/ i = Len(j0.recs) + 1
    BY <2>6, <2>7
  <2>11. IsJournal(jrnl')
    <3>1. jrnl'.nrec <= Len(jrnl'.recs)
      BY <2>6, <2>7, <2>9
    <3>2. \A i \in 1..Len(recs) : recs[i].page = 1 => recs[i].data.hdr \in Header
      BY <2>3, <2>6, <2>7, <2>10
    <3> QED BY <2>9, <3>1, <3>2 DEF IsJournal
  <2>12. DiskTyped'
    BY <1>1, <2>1, <2>11 DEF DiskTyped
  <2>13. Keeps(fileDur, jrnl, acked.new)
    BY <1>1 DEF Protected
  <2>14. Hot(jrnl') <=> Hot(jrnl)
    BY <2>2, <2>4, <2>5, <2>9, NoneIsCold DEF Hot
  <2>15. Keeps(fileDur, jrnl', acked.new)
    <3>1. CASE ~Hot(jrnl)
      BY <2>13, <2>14, <3>1, KeepsCold
    <3>2. CASE Hot(jrnl)
      <4>1. own /\ j0 = jrnl
        BY <2>4, <2>5, <3>2, NoneIsCold
      <4>2. jrnl'.nrec = jrnl.nrec /\ jrnl'.count = jrnl.count
        BY <2>2, <2>9, <4>1
      <4>3. \A i \in 1..jrnl.nrec : jrnl'.recs[i] = jrnl.recs[i]
        BY <2>6, <2>7, <2>9, <4>1
      <4> QED BY <2>13, <2>14, <4>2, <4>3 DEF Keeps
    <3> QED BY <3>1, <3>2
  <2>16. Protected'
    <3>1. \A j \in jrnlDur' : Keeps(fileDur, j, acked.old) \/ Keeps(fileDur, j, acked.new)
      BY <1>1, <2>1, <2>15 DEF Protected
    <3>2. Hot(jrnl') => \A j \in jrnlDur' : Keeps(fileDur, j, acked.new)
      BY <1>1, <2>1, <2>13, <2>14, <2>15 DEF Protected
    <3> QED BY <2>15, <3>1, <3>2 DEF Protected
  <2>17. OwnJournal'
    <3>1. p <= Count(acked.new) => Read(file, p) = acked.new[p]
      <4>1. p <= Count(acked.new) => p \in 1..Count(acked.new)
        BY <1>1, PageIds, DatabaseSize DEF AckedTyped
      <4> QED BY <1>1, <1>5, <4>1, FileIsCommitted
    <3>2. \A i \in 1..Len(recs) :
            /\ recs[i].page \in journalled'
            /\ recs[i].page <= Count(acked.new) => recs[i].data = acked.new[recs[i].page]
      BY <1>1, <2>2, <2>3, <2>7, <2>10, <3>1
    <3>3. \A q \in journalled' : q <= before => \E i \in 1..Len(recs) : recs[i].page = q
      <4>1. Len(recs) \in 1..Len(recs) /\ 1..Len(j0.recs) \subseteq 1..Len(recs)
        BY <2>6, <2>7
      <4> QED BY <1>1, <2>2, <2>3, <2>7, <4>1
    <3> QED BY <2>9, <3>2, <3>3 DEF OwnJournal
  <2>18. JournalPhase'
    BY <1>1, <2>1, <2>17 DEF JournalPhase, Writing, Undoing, Replaying
  <2> QED BY <1>1, <1>2, <1>3, <2>1, <2>12, <2>16, <2>18
<1> QED BY <1>4, <1>5

-----------------------------------------------------------------------------
(* The freelist. *)

LEMMA ChainKept ==
  ASSUME NEW S, NEW T, NEW h, NEW s, IsChain(S, h, s),
         \A i \in 1..h.free : T[s[i]].word = S[s[i]].word
  PROVE  IsChain(T, h, s)
BY DEF IsChain

(* The head of the list, and the list without it. *)
LEMMA ChainHead ==
  ASSUME NEW S, NEW h \in Header, NEW s, IsChain(S, h, s), h.free > 0
  PROVE  /\ h.trunk \in 2..h.count /\ S[h.trunk].word \in Links
         /\ Link(S[h.trunk].word) \in 0..MaxPages
BY HeaderParts, LinkFacts DEF IsChain

LEMMA ChainTail ==
  ASSUME NEW S, NEW T, NEW h \in Header, NEW s, IsChain(S, h, s), h.free > 0,
         \A q \in 2..h.count : q # h.trunk => T[q].word = S[q].word
  PROVE  \E t : IsChain(T, HeaderOf(h.count, Link(S[h.trunk].word), h.free - 1), t)
<1> DEFINE n == h.free
           t == [i \in 1..n - 1 |-> s[i + 1]]
           g == HeaderOf(h.count, Link(S[h.trunk].word), n - 1)
<1>1. /\ n \in Nat /\ n > 0 /\ h.count \in PageId /\ n \in 0..MaxPages
      /\ Link(S[h.trunk].word) \in 0..MaxPages
  BY HeaderParts, ChainHead
<1>2. g.free = n - 1 /\ g.count = h.count /\ g.trunk = Link(S[h.trunk].word)
  <2> DEFINE a == Link(S[h.trunk].word)
             b == n - 1
  <2>1. a \in 0..MaxPages /\ b \in 0..MaxPages
    BY <1>1, PageIds
  <2> HIDE DEF a, b
  <2>2. g = HeaderOf(h.count, a, b)
    BY DEF a, b
  <2>3. g.free = b /\ g.count = h.count /\ g.trunk = a
    BY <1>1, <2>1, <2>2, HeaderFields
  <2> QED BY <2>3 DEF a, b
<1>3. /\ s \in [1..n -> 2..h.count] /\ s[1] = h.trunk
      /\ \A i, k \in 1..n : s[i] = s[k] => i = k
      /\ \A i \in 1..n : S[s[i]].word \in Links /\ (i < n => S[s[i]].word = Link(s[i + 1]))
  BY DEF IsChain
<1> HIDE DEF n, g
<1>4. t \in [1..n - 1 -> 2..h.count] /\ \A i \in 1..n - 1 : t[i] = s[i + 1] /\ i + 1 \in 1..n
  BY <1>1, <1>3
<1> HIDE DEF t
<1>5. \A i, k \in 1..n - 1 : t[i] = t[k] => i = k
  BY <1>1, <1>3, <1>4
<1>6. \A i \in 1..n - 1 : T[t[i]].word = S[s[i + 1]].word
  <2> SUFFICES ASSUME NEW i \in 1..n - 1 PROVE T[t[i]].word = S[s[i + 1]].word
    OBVIOUS
  <2>1. 1 \in 1..n /\ i + 1 # 1 /\ i + 1 \in 1..n
    BY <1>1
  <2>2. s[i + 1] # h.trunk /\ s[i + 1] \in 2..h.count
    BY <1>3, <2>1
  <2> QED BY <1>4, <2>2
<1>7. n - 1 > 0 => t[1] = Link(S[h.trunk].word)
  <2> SUFFICES ASSUME n - 1 > 0 PROVE t[1] = Link(S[h.trunk].word)
    OBVIOUS
  <2>1. 1 \in 1..n - 1 /\ 1 \in 1..n /\ 1 < n
    BY <1>1
  <2>2. t[1] = s[2] /\ S[h.trunk].word = Link(s[2]) /\ s[2] \in 2..h.count
    <3>1. 2 \in 1..n
      BY <1>1, <2>1
    <3> QED BY <1>3, <1>4, <2>1, <3>1
  <2>3. s[2] \in Int
    BY <1>1, <2>2, PageIds
  <2> QED BY <2>2, <2>3 DEF Link
<1>8. \A i \in 1..n - 1 : /\ T[t[i]].word \in Links
                          /\ i < n - 1 => T[t[i]].word = Link(t[i + 1])
  <2> SUFFICES ASSUME NEW i \in 1..n - 1
               PROVE  /\ T[t[i]].word \in Links
                      /\ i < n - 1 => T[t[i]].word = Link(t[i + 1])
    OBVIOUS
  <2>1. i + 1 \in 1..n /\ (i < n - 1 => i + 1 \in 1..n - 1 /\ i + 1 < n)
    BY <1>1
  <2> QED BY <1>3, <1>4, <1>6, <2>1
<1>9. IsChain(T, g, t)
  BY <1>2, <1>4, <1>5, <1>7, <1>8 DEF IsChain
<1> QED BY <1>9 DEF g, n

(* A page put in front of the list; the list never grows past the file. *)
LEMMA ChainCons ==
  ASSUME NEW S, NEW T, NEW h \in Header, NEW s, IsChain(S, h, s),
         NEW p \in 2..h.count, S[p].word \notin Links, T[p].word = Link(h.trunk),
         \A q \in 2..h.count : q # p => T[q].word = S[q].word
  PROVE  /\ h.free + 1 \in 0..MaxPages
         /\ \E t : IsChain(T, HeaderOf(h.count, p, h.free + 1), t)
<1> DEFINE n == h.free
           t == [i \in 1..n + 1 |-> IF i = 1 THEN p ELSE s[i - 1]]
           g == HeaderOf(h.count, p, n + 1)
<1>1. n \in Nat /\ h.count \in PageId /\ h.count \in Nat /\ h.count <= MaxPages /\ h.trunk \in 0..MaxPages
  BY HeaderParts, PageIds
<1>2. /\ s \in [1..n -> 2..h.count]
      /\ \A i, k \in 1..n : s[i] = s[k] => i = k
      /\ n > 0 => s[1] = h.trunk
      /\ \A i \in 1..n : S[s[i]].word \in Links /\ (i < n => S[s[i]].word = Link(s[i + 1]))
  BY DEF IsChain
<1> HIDE DEF n
<1>3. \A i \in 1..n : s[i] # p
  BY <1>2
<1>4. /\ t \in [1..n + 1 -> 2..h.count] /\ t[1] = p
      /\ \A i \in 1..n + 1 : i # 1 => t[i] = s[i - 1] /\ i - 1 \in 1..n
  BY <1>1, <1>2
<1> HIDE DEF t
<1>5. \A i, k \in 1..n + 1 : t[i] = t[k] => i = k
  <2> SUFFICES ASSUME NEW i \in 1..n + 1, NEW k \in 1..n + 1, t[i] = t[k] PROVE i = k
    OBVIOUS
  <2>1. CASE i = 1 /\ k # 1
    BY <1>3, <1>4, <2>1
  <2>2. CASE i # 1 /\ k = 1
    BY <1>3, <1>4, <2>2
  <2>3. CASE i # 1 /\ k # 1
    <3>1. i - 1 = k - 1
      BY <1>2, <1>4, <2>3
    <3> QED BY <1>1, <3>1
  <2> QED BY <2>1, <2>2, <2>3
<1>6. n + 1 <= MaxPages
  <2> SUFFICES ASSUME ~(n + 1 <= MaxPages) PROVE FALSE
    OBVIOUS
  <2>1. /\ IsFiniteSet(1..n + 1) /\ Cardinality(1..n + 1) = n + 1
        /\ IsFiniteSet(2..h.count) /\ Cardinality(2..h.count) <= h.count
    <3> DEFINE m == n + 1
               c == h.count
    <3>1. m \in Nat /\ m >= 1 /\ c \in Nat /\ c >= 1 /\ 1 \in Int /\ 2 \in Int
      BY <1>1, PageIds
    <3> HIDE DEF m, c
    <3>2. IsFiniteSet(1..m) /\ Cardinality(1..m) = m
      BY <3>1, FS_Interval
    <3>3. IsFiniteSet(2..c) /\ Cardinality(2..c) = IF 2 > c THEN 0 ELSE c - 2 + 1
      <4> DEFINE lo == 2
      <4>1. lo \in Int /\ c \in Int
        BY <3>1
      <4> HIDE DEF lo
      <4>2. IsFiniteSet(lo..c) /\ Cardinality(lo..c) = IF lo > c THEN 0 ELSE c - lo + 1
        BY <4>1, FS_Interval
      <4> QED BY <4>2 DEF lo
    <3>4. Cardinality(2..c) <= c
      BY <3>1, <3>3
    <3> QED BY <3>2, <3>3, <3>4 DEF m, c
  <2>2. Cardinality(2..h.count) < Cardinality(1..n + 1)
    <3>1. Cardinality(2..h.count) \in Nat
      BY <2>1, FS_CardinalityType
    <3> QED BY <1>1, <2>1, <3>1, PageIds
  <2>3. \E x, y \in 1..n + 1 : x # y /\ t[x] = t[y]
    <3> DEFINE A == 1..n + 1
               B == 2..h.count
    <3>1. IsFiniteSet(A) /\ IsFiniteSet(B) /\ Cardinality(B) < Cardinality(A) /\ t \in [A -> B]
      BY <1>4, <2>1, <2>2
    <3> HIDE DEF A, B
    <3>2. \E x, y \in A : x # y /\ t[x] = t[y]
      BY <3>1, FS_PigeonHole
    <3> QED BY <3>2 DEF A
  <2> QED BY <1>5, <2>3
<1>7. g.free = n + 1 /\ g.count = h.count /\ g.trunk = p
  <2> DEFINE b == n + 1
  <2>1. b \in 0..MaxPages /\ p \in 0..MaxPages
    BY <1>1, <1>6, PageIds
  <2> HIDE DEF b
  <2>2. g = HeaderOf(h.count, p, b)
    BY DEF b
  <2>3. g.free = b /\ g.count = h.count /\ g.trunk = p
    BY <1>1, <2>1, <2>2, HeaderFields
  <2> QED BY <2>3 DEF b
<1> HIDE DEF g
<1>8. \A i \in 1..n + 1 : /\ T[t[i]].word \in Links
                          /\ i < n + 1 => T[t[i]].word = Link(t[i + 1])
  <2> SUFFICES ASSUME NEW i \in 1..n + 1
               PROVE  /\ T[t[i]].word \in Links
                      /\ i < n + 1 => T[t[i]].word = Link(t[i + 1])
    OBVIOUS
  <2>1. i < n + 1 => i + 1 \in 1..n + 1 /\ i + 1 # 1 /\ t[i + 1] = s[i] /\ i \in 1..n
    <3> SUFFICES ASSUME i < n + 1
                 PROVE  i + 1 \in 1..n + 1 /\ i + 1 # 1 /\ t[i + 1] = s[i] /\ i \in 1..n
      OBVIOUS
    <3>1. i + 1 \in 1..n + 1 /\ i + 1 # 1 /\ i \in 1..n /\ (i + 1) - 1 = i
      BY <1>1
    <3> QED BY <1>4, <3>1
  <2>2. CASE i = 1
    <3>1. T[t[i]].word = Link(h.trunk)
      BY <1>4, <2>2
    <3>2. Link(h.trunk) \in Links
      BY <1>1 DEF Links
    <3>3. i < n + 1 => s[i] = h.trunk
      BY <1>1, <1>2, <2>2
    <3> QED BY <2>1, <3>1, <3>2, <3>3
  <2>3. CASE i # 1
    <3>1. t[i] = s[i - 1] /\ i - 1 \in 1..n /\ (i - 1) + 1 = i
      BY <1>1, <1>4, <2>3
    <3>2. s[i - 1] \in 2..h.count /\ s[i - 1] # p
      BY <1>2, <1>3, <3>1
    <3>3. T[t[i]].word = S[s[i - 1]].word
      BY <3>1, <3>2
    <3>4. S[s[i - 1]].word \in Links /\ (i - 1 < n => S[s[i - 1]].word = Link(s[i]))
      BY <1>2, <3>1
    <3>5. i < n + 1 => i - 1 < n
      BY <1>1
    <3> QED BY <2>1, <3>3, <3>4, <3>5
  <2> QED BY <2>2, <2>3
<1>9. IsChain(T, g, t)
  BY <1>4, <1>5, <1>7, <1>8 DEF IsChain
<1> QED BY <1>1, <1>6, <1>9, PageIds DEF g, n

-----------------------------------------------------------------------------
(* The operations of a statement. *)

(* A page gets new contents in the pool. *)
LEMMA PoolWrite ==
  ASSUME Inv, pc = "open", pc' \in {"open", "stamped"}, NEW p \in PageId, NEW d \in Page,
         p = 1 => d.hdr \in Header,
         cache' = [cache EXCEPT ![p] = Entry(d, TRUE)], hdr' \in Header,
         hdr'.count = hdr.count \/ (hdr'.count = hdr.count + 1 /\ p = hdr.count + 1),
         p \in journalled' \/ p = hdr.count + 1, journalled \subseteq journalled',
         journalled' \subseteq PageId, own' \in BOOLEAN,
         UNCHANGED <<before, barrier, pos, file, acked>>
  PROVE  /\ Typed' /\ Sizes' /\ Untouched' /\ CleanMatches' /\ ColdCache'
         /\ Cached(p)' = d /\ \A q \in PageId \ {p} : Cached(q)' = Cached(q)
<1>1. /\ Typed /\ AckedTyped /\ Sizes /\ Untouched /\ CleanMatches
      /\ pc \in Writing /\ pc' \in Writing /\ pc' \notin Undoing
      /\ pc' \notin Replaying \cup Down \cup {"cold"} /\ pc' # "idle"
  BY DEF Inv, Writing, Undoing, Replaying, Down
<1>2. /\ Entry(d, TRUE) \in PoolEntry /\ Entry(d, TRUE) # None
      /\ Entry(d, TRUE).data = d /\ Entry(d, TRUE).dirty = TRUE
  BY EntryFields
<1> DEFINE e == Entry(d, TRUE)
<1>3. /\ cache' \in [PageId -> PoolEntry \cup {None}] /\ cache'[p] = e
      /\ \A q \in PageId : q # p => cache'[q] = cache[q]
  BY <1>1, <1>2 DEF Typed
<1> HIDE DEF e
<1>4. cache'[p] # None /\ cache'[p].data = d /\ cache'[p].dirty = TRUE
  BY <1>2, <1>3 DEF e
<1>5. Typed'
  <2>1. cache'[1] # None => cache'[1].data.hdr \in Header
    BY <1>1, <1>3, <1>4, PageIds DEF Typed
  <2>2. pc' \in {"idle", "cold"} \cup Writing \cup Undoing \cup Replaying \cup Down /\ pc' # "down"
    BY <1>1 DEF Writing
  <2> QED BY <1>1, <1>3, <2>1, <2>2 DEF Typed
<1>6. hdr.count \in Nat /\ hdr'.count \in Nat /\ hdr.count <= hdr'.count /\ before \in Nat
      /\ Count(acked.new) \in Nat /\ 1..Count(acked.new) \subseteq PageId /\ 1..hdr'.count \subseteq PageId
  BY <1>1, HeaderParts, PageIds, DatabaseSize DEF Typed, AckedTyped
<1>7. Sizes'
  BY <1>1, <1>6 DEF Sizes
<1>8. Untouched'
  <2> SUFFICES ASSUME NEW q \in 1..Count(acked.new), q \notin journalled', cache'[q] # None
               PROVE  ~cache'[q].dirty /\ cache'[q].data = Read(file, q)
    BY <1>1 DEF Untouched, Changed
  <2>1. q # p
    BY <1>1, <1>6 DEF Sizes
  <2>2. q \in PageId /\ q \notin journalled /\ cache[q] # None /\ cache'[q] = cache[q]
    BY <1>3, <1>6, <2>1
  <2> QED BY <1>1, <2>2 DEF Untouched, Changed
<1>9. CleanMatches'
  <2> SUFFICES ASSUME NEW q \in 1..hdr'.count, cache'[q] # None, ~cache'[q].dirty
               PROVE  cache'[q].data = Read(file, q)
    BY <1>1 DEF CleanMatches
  <2>1. q # p
    BY <1>4
  <2>2. q \in PageId /\ q \in 1..hdr.count /\ cache'[q] = cache[q]
    BY <1>3, <1>6, <2>1
  <2> QED BY <1>1, <2>2 DEF CleanMatches
<1>10. ColdCache'
  BY <1>1 DEF ColdCache
<1>11. Cached(p)' = d /\ \A q \in PageId \ {p} : Cached(q)' = Cached(q)
  BY <1>3, <1>4 DEF Cached
<1> QED BY <1>5, <1>7, <1>8, <1>9, <1>10, <1>11

(* An operation on a page that is there has its journal, unless the file has
   grown. *)
LEMMA OpHasJournal ==
  ASSUME Inv, pc = "open", hdr.count = Count(acked.new), NEW p \in PageId, p <= hdr.count,
         p <= before \/ own => own'
  PROVE  own'
<1>1. hdr.count <= before /\ hdr.count \in Nat /\ before \in Nat
  BY HeaderParts, PageIds DEF Inv, Typed, Sizes, Writing
<1>2. p <= before
  BY <1>1, PageIds
<1> QED BY <1>2

LEMMA ModifyKeeps ==
  ASSUME Inv, NEW p \in PageId, NEW v \in Val, Modify(p, v)
  PROVE  Inv'
<1>1. /\ Typed /\ DiskTyped /\ ViewChain /\ Cached(p) \in Page /\ v \in Word
      /\ p = 1 => Cached(p).hdr \in Header
  BY CachedPage, Words DEF Inv
<1> DEFINE d == PageOf(Cached(p).hdr, v)
<1>2. d \in Page /\ d.hdr = Cached(p).hdr /\ d.word = v
  BY <1>1, PageParts, PageFields
<1>3. /\ pc = "open" /\ pc' = "open" /\ WillModify(p) /\ Cached(p).word >= 0 /\ p <= hdr.count
      /\ cache' = [cache EXCEPT ![p] = Entry(d, TRUE)]
      /\ UNCHANGED <<hdr, before, barrier, file, fileDur, pos, acked>>
  BY DEF Modify, Op
<1> HIDE DEF d
<1>4. /\ DiskTyped' /\ AckedTyped' /\ Protected' /\ JournalPhase' /\ PutBack'
      /\ journalled' = journalled \cup {p} /\ own' \in BOOLEAN
      /\ p <= before \/ own => own'
  BY <1>3, WillModifyKeeps
<1>5. /\ Typed' /\ Sizes' /\ Untouched' /\ CleanMatches' /\ ColdCache'
      /\ Cached(p)' = d /\ \A q \in PageId \ {p} : Cached(q)' = Cached(q)
  BY <1>1, <1>2, <1>3, <1>4, PoolWrite DEF Typed
<1>6. ViewChain'
  <2>1. PICK s : IsChain(View, hdr, s)
    BY <1>1, <1>3, ViewFacts DEF ViewChain, FreeChain, Writing
  <2>2. ASSUME NEW i \in 1..hdr.free PROVE View'[s[i]].word = View[s[i]].word
    <3>1. s[i] \in 2..hdr.count /\ View[s[i]].word \in Links /\ s[i] \in PageId
      BY <1>1, <2>1, ViewFacts DEF IsChain
    <3>2. View[s[i]] = Cached(s[i]) /\ View'[s[i]] = Cached(s[i])'
      BY <1>1, <1>3, <1>4, <1>5, <3>1, ViewFacts, ViewFactsNext
    <3>3. s[i] # p
      <4>1. Cached(s[i]).word < 0 /\ Cached(s[i]).word \in Int
        BY <3>1, <3>2, LinkFacts
      <4>2. Cached(p).word \in Int
        BY <1>1, PageParts, Words
      <4> QED BY <1>3, <4>1, <4>2
    <3> QED BY <1>5, <3>1, <3>2, <3>3
  <2>3. IsChain(View', hdr, s)
    BY <2>1, <2>2, ChainKept
  <2>4. View'[1].hdr = hdr
    BY <1>3, <1>4, <1>5, ViewFactsNext
  <2> QED BY <2>3, <2>4 DEF ViewChain, FreeChain
<1>7. HeaderExact'
  BY <1>3, <1>4, OpHasJournal DEF HeaderExact
<1>8. Stamped'
  BY <1>3 DEF Stamped
<1> QED BY <1>4, <1>5, <1>6, <1>7, <1>8 DEF Inv

LEMMA AllocateFreeKeeps ==
  ASSUME Inv, AllocateFree
  PROVE  Inv'
<1>1. /\ Typed /\ DiskTyped /\ ViewChain /\ hdr \in Header /\ hdr.count \in Nat
      /\ 1..hdr.count \subseteq PageId
  BY ViewFacts DEF Inv, Typed
<1> DEFINE p == hdr.trunk
           w == Link(Cached(p).word)
           f == hdr.free - 1
<1>2. /\ pc = "open" /\ pc' = "open" /\ WillModify(p) /\ hdr.free > 0
      /\ cache' = [cache EXCEPT ![p] = Entry(ZeroPage, TRUE)]
      /\ hdr' = HeaderOf(hdr.count, w, f)
      /\ UNCHANGED <<before, barrier, file, fileDur, pos, acked>>
  BY DEF AllocateFree, Op
<1>3. PICK s : IsChain(View, hdr, s)
  BY <1>1, <1>2, ViewFacts DEF ViewChain, FreeChain, Writing
<1>4. p \in 2..hdr.count /\ View[p].word \in Links /\ Link(View[p].word) \in 0..MaxPages
  BY <1>1, <1>2, <1>3, ChainHead
<1>5. /\ p \in PageId /\ p # 1 /\ p <= hdr.count /\ View[p] = Cached(p) /\ w = Link(View[p].word)
      /\ w \in 0..MaxPages /\ f \in 0..MaxPages
  <2>1. p \in PageId /\ p # 1 /\ p <= hdr.count /\ View[p] = Cached(p)
    BY <1>1, <1>4, ViewFacts
  <2>2. f \in 0..MaxPages
    BY <1>1, <1>2, HeaderParts, PageIds
  <2> QED BY <1>4, <2>1, <2>2
<1>6. \E t : IsChain(View', HeaderOf(hdr.count, Link(View[p].word), hdr.free - 1), t)
        \/ ~(Typed' /\ DiskTyped' /\ hdr'.count = hdr.count
             /\ \A q \in PageId \ {p} : Cached(q)' = Cached(q))
  <2> SUFFICES ASSUME Typed', DiskTyped', hdr'.count = hdr.count,
                      \A q \in PageId \ {p} : Cached(q)' = Cached(q)
               PROVE  \E t : IsChain(View', HeaderOf(hdr.count, Link(View[p].word), hdr.free - 1), t)
    OBVIOUS
  <2>1. \A q \in 2..hdr.count : q # hdr.trunk => View'[q].word = View[q].word
    BY <1>1, ViewFacts, ViewFactsNext
  <2> QED BY <1>1, <1>2, <1>3, <2>1, ChainTail
<1> HIDE DEF p, w, f
<1>7. hdr' \in Header /\ hdr'.count = hdr.count
  BY <1>1, <1>2, <1>5, HeaderFields, HeaderParts
<1>8. /\ DiskTyped' /\ AckedTyped' /\ Protected' /\ JournalPhase' /\ PutBack'
      /\ journalled' = journalled \cup {p} /\ own' \in BOOLEAN
      /\ p <= before \/ own => own'
  BY <1>2, <1>5, WillModifyKeeps
<1>9. /\ Typed' /\ Sizes' /\ Untouched' /\ CleanMatches' /\ ColdCache'
      /\ \A q \in PageId \ {p} : Cached(q)' = Cached(q)
  BY <1>1, <1>2, <1>5, <1>7, <1>8, ZeroFacts, PoolWrite DEF Typed
<1>10. ViewChain'
  <2>1. View'[1].hdr = hdr'
    BY <1>8, <1>9, ViewFactsNext
  <2>2. hdr' = HeaderOf(hdr.count, Link(View[p].word), hdr.free - 1)
    BY <1>2, <1>5 DEF f
  <2> QED BY <1>6, <1>7, <1>8, <1>9, <2>1, <2>2 DEF ViewChain, FreeChain
<1>11. HeaderExact'
  BY <1>2, <1>5, <1>7, <1>8, OpHasJournal DEF HeaderExact
<1>12. Stamped'
  BY <1>2 DEF Stamped
<1> QED BY <1>8, <1>9, <1>10, <1>11, <1>12 DEF Inv

LEMMA AllocateGrowKeeps ==
  ASSUME Inv, AllocateGrow
  PROVE  Inv'
<1>1. /\ Typed /\ DiskTyped /\ ViewChain /\ JournalPhase /\ hdr \in Header /\ hdr.count \in Nat
      /\ 1..hdr.count \subseteq PageId /\ hdr.trunk \in 0..MaxPages /\ hdr.free \in 0..MaxPages
  BY ViewFacts, HeaderParts DEF Inv, Typed
<1> DEFINE p == hdr.count + 1
<1>2. /\ pc = "open" /\ pc' = "open" /\ hdr.free = 0
      /\ cache' = [cache EXCEPT ![p] = Entry(ZeroPage, TRUE)]
      /\ hdr' = HeaderOf(p, hdr.trunk, hdr.free)
      /\ UNCHANGED <<before, journalled, barrier, own, jrnl, jrnlDur, file, fileDur, pos, acked>>
  BY DEF AllocateGrow, Op, txnVars, diskVars
<1>3. p \in PageId /\ p # 1 /\ p = hdr.count + 1
  BY <1>1, PageIds, HeaderParts DEF AllocateGrow
<1> HIDE DEF p
<1>4. hdr' \in Header /\ hdr'.count = p /\ hdr'.free = 0
  BY <1>1, <1>2, <1>3, HeaderFields
<1>5. DiskTyped' /\ AckedTyped' /\ Protected'
  BY <1>2, SameDisk DEF Down
<1>6. JournalPhase' /\ PutBack' /\ Stamped' /\ HeaderExact'
  <2>1. OwnJournal => OwnJournal'
    BY <1>2 DEF OwnJournal
  <2>2. JournalPhase'
    BY <1>1, <1>2, <2>1 DEF JournalPhase, Writing, Undoing, Replaying
  <2>3. PutBack' /\ Stamped'
    BY <1>2 DEF PutBack, Stamped, Writing, Undoing, Replaying
  <2>4. hdr'.count # Count(acked'.new)
    <3>1. Count(acked.new) <= hdr.count /\ Count(acked.new) \in Nat
      BY <1>2, DatabaseSize DEF Inv, Sizes, AckedTyped, Writing
    <3> QED BY <1>1, <1>2, <1>3, <1>4, <3>1
  <2> QED BY <2>2, <2>3, <2>4 DEF HeaderExact
<1>7. /\ Typed' /\ Sizes' /\ Untouched' /\ CleanMatches' /\ ColdCache'
  BY <1>1, <1>2, <1>3, <1>4, ZeroFacts, PoolWrite DEF Typed
<1>8. ViewChain'
  <2>1. View'[1].hdr = hdr'
    BY <1>5, <1>7, ViewFactsNext
  <2>2. IsChain(View', hdr', [i \in 1..0 |-> 2])
    BY <1>4 DEF IsChain
  <2> QED BY <2>1, <2>2 DEF ViewChain, FreeChain
<1> QED BY <1>5, <1>6, <1>7, <1>8 DEF Inv

LEMMA FreePageKeeps ==
  ASSUME Inv, NEW p \in PageId, FreePage(p)
  PROVE  Inv'
<1>1. /\ Typed /\ DiskTyped /\ ViewChain /\ hdr \in Header /\ hdr.count \in Nat
      /\ 1..hdr.count \subseteq PageId /\ hdr.trunk \in 0..MaxPages
  BY ViewFacts, HeaderParts DEF Inv, Typed
<1> DEFINE w == Link(hdr.trunk)
           f == hdr.free + 1
           d == PageOf(None, w)
<1>2. /\ pc = "open" /\ pc' = "open" /\ WillModify(p) /\ p > 1 /\ p <= hdr.count
      /\ Cached(p).word >= 0
      /\ cache' = [cache EXCEPT ![p] = Entry(d, TRUE)]
      /\ hdr' = HeaderOf(hdr.count, p, f)
      /\ UNCHANGED <<before, barrier, file, fileDur, pos, acked>>
  BY DEF FreePage, Op
<1>3. w \in Word
  BY <1>1, Words DEF Links
<1> HIDE DEF w
<1>4. d \in Page /\ d.word = w
  BY <1>3, PageFields
<1> HIDE DEF d
<1>5. PICK s : IsChain(View, hdr, s)
  BY <1>1, <1>2, ViewFacts DEF ViewChain, FreeChain, Writing
<1>6. p \in 2..hdr.count /\ View[p].word \notin Links
  <2>1. p \in 2..hdr.count
    BY <1>1, <1>2, PageIds
  <2>2. Cached(p).word \in Int /\ ~(Cached(p).word < 0)
    BY <1>1, <1>2, CachedPage, PageParts, Words
  <2> QED BY <1>1, <2>1, <2>2, ViewFacts, LinkFacts
<1>7. f \in 0..MaxPages
  <2> DEFINE T == [q \in 1..hdr.count |-> IF q = p THEN d ELSE View[q]]
  <2>1. T[p].word = Link(hdr.trunk) /\ \A q \in 2..hdr.count : q # p => T[q].word = View[q].word
    BY <1>1, <1>4, <1>6 DEF w
  <2> HIDE DEF T
  <2> QED BY <1>1, <1>5, <1>6, <2>1, ChainCons
<1> HIDE DEF f
<1>8. hdr' \in Header /\ hdr'.count = hdr.count
  <2>1. p \in 0..MaxPages /\ hdr.count \in PageId
    BY <1>1, PageIds, HeaderParts
  <2> QED BY <1>2, <1>7, <2>1, HeaderFields
<1>9. /\ DiskTyped' /\ AckedTyped' /\ Protected' /\ JournalPhase' /\ PutBack'
      /\ journalled' = journalled \cup {p} /\ own' \in BOOLEAN
      /\ p <= before \/ own => own'
  BY <1>2, WillModifyKeeps
<1>10. /\ Typed' /\ Sizes' /\ Untouched' /\ CleanMatches' /\ ColdCache'
       /\ Cached(p)' = d /\ \A q \in PageId \ {p} : Cached(q)' = Cached(q)
  <2>1. p # 1
    BY <1>2
  <2> QED BY <1>1, <1>2, <1>4, <1>8, <1>9, <2>1, PoolWrite DEF Typed
<1>11. ViewChain'
  <2>1. View'[1].hdr = hdr' /\ View'[p].word = w
    BY <1>4, <1>6, <1>8, <1>9, <1>10, ViewFactsNext
  <2>2. \A q \in 2..hdr.count : q # p => View'[q].word = View[q].word
    BY <1>1, <1>8, <1>9, <1>10, ViewFacts, ViewFactsNext
  <2>3. \E t : IsChain(View', HeaderOf(hdr.count, p, hdr.free + 1), t)
    BY <1>1, <1>5, <1>6, <2>1, <2>2, ChainCons DEF w
  <2> QED BY <1>2, <2>1, <2>3 DEF ViewChain, FreeChain, f
<1>12. HeaderExact'
  BY <1>2, <1>8, <1>9, OpHasJournal DEF HeaderExact
<1>13. Stamped'
  BY <1>2 DEF Stamped
<1> QED BY <1>9, <1>10, <1>11, <1>12, <1>13 DEF Inv

-----------------------------------------------------------------------------
(* Steps that move the writer only. *)

LEMMA BeginWriteKeeps ==
  ASSUME Inv, BeginWrite
  PROVE  Inv'
<1>1. /\ pc = "idle" /\ pc' = "open" /\ before' = hdr.count /\ journalled' = {}
      /\ barrier' = FALSE /\ own' = FALSE
      /\ UNCHANGED <<hdr, cache, jrnl, jrnlDur, file, fileDur, pos, acked>>
  BY DEF BeginWrite, memVars, diskVars, bounds
<1>2. /\ Typed /\ JournalPhase /\ Sizes /\ Untouched /\ CleanMatches /\ ViewChain /\ HeaderExact
      /\ hdr.count \in PageId /\ hdr.count \in Nat
  BY HeaderParts, PageIds DEF Inv, Typed
<1>3. DiskTyped' /\ AckedTyped' /\ Protected'
  BY <1>1, SameDisk DEF Down
<1>4. Typed'
  BY <1>1, <1>2 DEF Typed, Writing
<1>5. JournalPhase'
  BY <1>1, <1>2 DEF JournalPhase, Writing, Undoing, Replaying
<1>6. Sizes'
  BY <1>1, <1>2 DEF Sizes, Writing, Undoing
<1>7. Untouched' /\ CleanMatches'
  BY <1>1, <1>2 DEF Untouched, CleanMatches, Changed, Writing
<1>8. Stamped' /\ ColdCache' /\ PutBack' /\ HeaderExact'
  BY <1>1, <1>2 DEF Stamped, ColdCache, PutBack, HeaderExact, Writing, Undoing, Replaying, Down
<1>9. ViewChain'
  BY <1>1, <1>2 DEF ViewChain, View, Cached
<1> QED BY <1>3, <1>4, <1>5, <1>6, <1>7, <1>8, <1>9 DEF Inv

LEMMA EndWithoutJournalKeeps ==
  ASSUME Inv, EndWithoutJournal
  PROVE  Inv'
<1>1. /\ pc = "open" /\ pc' = "idle" /\ ~own
      /\ UNCHANGED <<hdr, cache, before, journalled, barrier, own, jrnl, jrnlDur, file, fileDur, pos, acked>>
  BY DEF EndWithoutJournal, memVars, txnVars, diskVars, bounds
<1>2. Typed /\ AckedTyped /\ JournalPhase /\ Sizes /\ Untouched /\ CleanMatches /\ ViewChain /\ HeaderExact
  BY DEF Inv
<1>3. DiskTyped' /\ AckedTyped' /\ Protected'
  BY <1>1, SameDisk DEF Down
<1>4. Typed'
  BY <1>1, <1>2 DEF Typed
<1>5. JournalPhase'
  BY <1>1, <1>2 DEF JournalPhase, Writing, Undoing, Replaying
<1>6. Sizes'
  BY <1>1, <1>2 DEF Sizes, Writing, Undoing
<1>7. Untouched'
  <2>1. \A p \in 1..Count(acked.new) : p \notin journalled
    <3>1. Count(acked.new) <= before /\ \A p \in journalled : p > before
      BY <1>1, <1>2 DEF Sizes, JournalPhase, Writing
    <3>2. Count(acked.new) \in Nat /\ before \in Nat
      BY <1>2, DatabaseSize, PageIds DEF Typed, AckedTyped
    <3> QED BY <3>1, <3>2
  <2> QED BY <1>1, <1>2, <2>1 DEF Untouched, Changed, Writing
<1>8. CleanMatches'
  BY <1>1, <1>2 DEF CleanMatches, Writing
<1>9. Stamped' /\ ColdCache' /\ PutBack' /\ HeaderExact'
  BY <1>1, <1>2 DEF Stamped, ColdCache, PutBack, HeaderExact, Writing, Undoing, Replaying, Down
<1>10. ViewChain'
  BY <1>1, <1>2 DEF ViewChain, View, Cached, Writing
<1> QED BY <1>3, <1>4, <1>5, <1>6, <1>7, <1>8, <1>9, <1>10 DEF Inv

(* A commit that has flushed the last page, or that has failed. *)
LEMMA CommitMoves ==
  ASSUME Inv, pc \in Writing \ {"open", "delete"}, pc' = "open" \/ (pc = "flush" /\ pc' = "sync" /\ Dirty = {}),
         UNCHANGED <<hdr, cache, before, journalled, barrier, own, jrnl, jrnlDur, file, fileDur, pos, acked>>
  PROVE  Inv'
<1>1. Typed /\ JournalPhase /\ Sizes /\ Untouched /\ CleanMatches /\ ViewChain /\ Stamped /\ own
  BY DEF Inv, JournalPhase
<1>2. DiskTyped' /\ AckedTyped' /\ Protected'
  BY SameDisk DEF Down, Writing
<1>3. Typed'
  BY <1>1 DEF Typed, Writing
<1>4. JournalPhase'
  <2>1. OwnJournal' /\ own'
    BY <1>1 DEF JournalPhase, OwnJournal
  <2> QED BY <1>1, <2>1 DEF JournalPhase, Writing, Undoing, Replaying
<1>5. Sizes'
  BY <1>1 DEF Sizes, Writing, Undoing
<1>6. Untouched' /\ CleanMatches'
  BY <1>1 DEF Untouched, CleanMatches, Changed, Writing
<1>7. Stamped'
  BY <1>1 DEF Stamped, Dirty, Cached, Writing
<1>8. ColdCache' /\ PutBack' /\ HeaderExact'
  BY <1>1 DEF ColdCache, PutBack, HeaderExact, Writing, Undoing, Replaying, Down
<1>9. ViewChain'
  BY <1>1 DEF ViewChain, View, Cached, Writing
<1> QED BY <1>2, <1>3, <1>4, <1>5, <1>6, <1>7, <1>8, <1>9 DEF Inv

LEMMA CommitFailsKeeps ==
  ASSUME Inv, CommitFails
  PROVE  Inv'
BY CommitMoves DEF CommitFails, memVars, txnVars, diskVars, Writing

LEMMA FlushOutOfRangeKeeps ==
  ASSUME Inv, NEW p \in PageId, FlushOutOfRange(p)
  PROVE  Inv'
BY CommitMoves DEF FlushOutOfRange, memVars, txnVars, diskVars, bounds, Writing

LEMMA FlushDoneKeeps ==
  ASSUME Inv, FlushDone
  PROVE  Inv'
BY CommitMoves DEF FlushDone, memVars, txnVars, diskVars, bounds, Writing

LEMMA RollbackStartKeeps ==
  ASSUME Inv, RollbackStart
  PROVE  Inv'
<1>1. /\ pc = "open" /\ pc' = "replay" /\ own /\ pos' = 1
      /\ UNCHANGED <<hdr, cache, before, journalled, barrier, own, jrnl, jrnlDur, file, fileDur, acked>>
  BY DEF RollbackStart, memVars, txnVars, diskVars, bounds
<1>2. Typed /\ DiskTyped /\ JournalPhase /\ Sizes /\ Untouched
  BY DEF Inv
<1>3. DiskTyped' /\ AckedTyped' /\ Protected'
  BY <1>1, SameDisk DEF Down
<1>4. Typed'
  BY <1>1, <1>2 DEF Typed, Undoing
<1>5. JournalPhase'
  <2>1. OwnJournal'
    BY <1>1, <1>2 DEF JournalPhase, OwnJournal, Writing
  <2> QED BY <1>1, <1>2, <2>1 DEF JournalPhase, Writing, Undoing, Replaying
<1>6. Sizes' /\ Untouched'
  BY <1>1, <1>2 DEF Sizes, Untouched, Changed, Writing, Undoing
<1>7. CleanMatches' /\ Stamped' /\ ViewChain' /\ ColdCache' /\ HeaderExact'
  BY <1>1 DEF CleanMatches, Stamped, ViewChain, ColdCache, HeaderExact, Writing, Replaying, Down
<1>8. PutBack'
  BY <1>1 DEF PutBack, Undoing, Replaying
<1> QED BY <1>3, <1>4, <1>5, <1>6, <1>7, <1>8 DEF Inv

LEMMA OpenCorruptKeeps ==
  ASSUME Inv, OpenCorrupt
  PROVE  Inv'
<1>1. /\ pc = "down" /\ pc' = "corrupt"
      /\ UNCHANGED <<hdr, cache, before, journalled, barrier, own, jrnl, jrnlDur, file, fileDur, pos, acked>>
  BY DEF OpenCorrupt, memVars, txnVars, diskVars, bounds
<1>2. DiskTyped' /\ AckedTyped' /\ Protected'
  BY <1>1, SameDisk DEF Down
<1>3. Typed' /\ ColdCache'
  BY <1>1 DEF Inv, Typed, ColdCache, Down
<1>4. /\ JournalPhase' /\ Sizes' /\ Untouched' /\ CleanMatches' /\ Stamped' /\ ViewChain'
      /\ PutBack' /\ HeaderExact'
  BY <1>1 DEF JournalPhase, Sizes, Untouched, CleanMatches, Stamped, ViewChain, PutBack, HeaderExact,
              Writing, Undoing, Replaying
<1> QED BY <1>2, <1>3, <1>4 DEF Inv

-----------------------------------------------------------------------------
(* Readers load pages into the pool and evict them. *)

(* A page comes into the pool, or leaves it, as it is in the file. *)
LEMMA PoolMoves ==
  ASSUME Inv, pc \in {"idle"} \cup Writing \cup Undoing, NEW p \in PageId,
         cache[p] # None => ~cache[p].dirty,
         cache' \in [PageId -> PoolEntry \cup {None}],
         \A q \in PageId : q # p => cache'[q] = cache[q],
         cache'[p] # None => ~cache'[p].dirty /\ cache'[p].data = Read(file, p),
         UNCHANGED <<pc, hdr, before, journalled, barrier, own, jrnl, jrnlDur, file, fileDur, pos, acked>>
  PROVE  Inv'
<1>1. /\ Typed /\ DiskTyped /\ AckedTyped /\ JournalPhase /\ Sizes /\ Untouched /\ CleanMatches /\ ViewChain
      /\ Stamped /\ PutBack /\ HeaderExact
      /\ 1 \in PageId /\ 1 \in 1..hdr.count /\ 1..hdr.count \subseteq PageId /\ hdr \in Header
      /\ 1..Count(acked.new) \subseteq PageId
  BY ViewFacts, PageIds, DatabaseSize DEF Inv, Typed, AckedTyped
<1>2. DiskTyped' /\ AckedTyped' /\ Protected'
  BY SameDisk
<1>3. Typed'
  <2>1. cache'[1] # None => cache'[1].data.hdr \in Header
    BY <1>1, CachedPage DEF Typed
  <2> QED BY <1>1, <2>1 DEF Typed
<1>4. JournalPhase' /\ Sizes' /\ HeaderExact'
  <2>1. OwnJournal => OwnJournal'
    BY DEF OwnJournal
  <2> QED BY <1>1, <2>1 DEF JournalPhase, Sizes, HeaderExact
<1>5. PutBack'
  BY <1>1 DEF PutBack, Synced
<1>6. ColdCache'
  BY DEF ColdCache, Writing, Undoing, Replaying, Down
<1>7. Untouched'
  <2> SUFFICES ASSUME NEW q \in 1..Count(acked.new), q \notin Changed', cache'[q] # None
               PROVE  ~cache'[q].dirty /\ cache'[q].data = Read(file, q)
    BY DEF Untouched
  <2>1. q \notin Changed /\ q \in PageId
    BY <1>1 DEF Changed
  <2> QED BY <1>1, <2>1 DEF Untouched
<1>8. CleanMatches'
  BY <1>1 DEF CleanMatches
<1>9. pc \in {"idle"} \cup Writing => \A q \in 1..hdr.count : Cached(q)' = Cached(q)
  <2> SUFFICES ASSUME pc \in {"idle"} \cup Writing, NEW q \in 1..hdr.count PROVE Cached(q)' = Cached(q)
    OBVIOUS
  <2>1. CASE q # p
    BY <1>1, <2>1 DEF Cached
  <2>2. CASE q = p
    BY <1>1, <2>2 DEF Cached, CleanMatches
  <2> QED BY <2>1, <2>2
<1>10. Stamped'
  <2>1. pc \in Writing \ {"open"} => Cached(1)'.hdr = hdr
    BY <1>1, <1>9 DEF Stamped
  <2>2. Dirty' = Dirty
    BY DEF Dirty
  <2> QED BY <1>1, <2>1, <2>2 DEF Stamped
<1>11. ViewChain'
  <2>1. pc \in {"idle"} \cup Writing => View' = View
    BY <1>1, <1>2, <1>3, <1>9, SameView
  <2> QED BY <1>1, <2>1 DEF ViewChain
<1> QED BY <1>2, <1>3, <1>4, <1>5, <1>6, <1>7, <1>8, <1>10, <1>11 DEF Inv

LEMMA RunningIs == Running = {"idle"} \cup Writing \cup Undoing
BY DEF Running, Writing, Undoing

LEMMA LoadKeeps ==
  ASSUME Inv, NEW p \in PageId, Load(p)
  PROVE  Inv'
<1>1. /\ pc \in {"idle"} \cup Writing \cup Undoing /\ cache[p] = None
      /\ cache' = [cache EXCEPT ![p] = Entry(Read(file, p), FALSE)]
      /\ UNCHANGED <<pc, hdr, before, journalled, barrier, own, jrnl, jrnlDur, file, fileDur, pos, acked>>
  BY RunningIs DEF Load, txnVars, diskVars, bounds
<1> DEFINE d == Read(file, p)
           e == Entry(d, FALSE)
<1>2. d \in Page /\ cache \in [PageId -> PoolEntry \cup {None}]
  BY CachedPage DEF Inv, Typed
<1> HIDE DEF d
<1>3. e \in PoolEntry /\ e.data = d /\ e.dirty = FALSE
  BY <1>2, EntryFields
<1>4. cache' = [cache EXCEPT ![p] = e]
  BY <1>1 DEF d
<1> HIDE DEF e
<1>5. /\ cache' \in [PageId -> PoolEntry \cup {None}] /\ cache'[p] = e
      /\ \A q \in PageId : q # p => cache'[q] = cache[q]
  BY <1>2, <1>3, <1>4
<1> QED BY <1>1, <1>3, <1>5, PoolMoves DEF d

LEMMA EvictCleanKeeps ==
  ASSUME Inv, NEW p \in PageId, EvictClean(p)
  PROVE  Inv'
<1>1. /\ pc \in {"idle"} \cup Writing \cup Undoing /\ cache[p] # None /\ ~cache[p].dirty
      /\ cache' = [cache EXCEPT ![p] = None]
      /\ UNCHANGED <<pc, hdr, before, journalled, barrier, own, jrnl, jrnlDur, file, fileDur, pos, acked>>
  BY RunningIs DEF EvictClean, txnVars, diskVars, bounds
<1>2. cache \in [PageId -> PoolEntry \cup {None}]
  BY DEF Inv, Typed
<1>3. /\ cache' \in [PageId -> PoolEntry \cup {None}] /\ cache'[p] = None
      /\ \A q \in PageId : q # p => cache'[q] = cache[q]
  BY <1>1, <1>2
<1> QED BY <1>1, <1>3, PoolMoves

(* Between transactions only pages past the committed ones can be dirty. *)
LEMMA EvictDirtyKeeps ==
  ASSUME Inv, NEW p \in PageId, EvictDirty(p)
  PROVE  Inv'
<1>1. /\ pc = "idle" /\ pc' = "idle" /\ cache[p] # None /\ cache[p].dirty /\ p <= hdr.count
      /\ cache' = [cache EXCEPT ![p] = None]
      /\ file' = [file EXCEPT ![p] = cache[p].data]
      /\ fileDur' = [fileDur EXCEPT ![p] = @ \cup {cache[p].data}]
      /\ UNCHANGED <<hdr, before, journalled, barrier, own, jrnl, jrnlDur, pos, acked>>
  BY DEF EvictDirty, Pwrite, txnVars, bounds
<1>2. /\ Typed /\ DiskTyped /\ AckedTyped /\ Protected /\ JournalPhase /\ Sizes /\ Untouched
      /\ CleanMatches /\ ViewChain /\ HeaderExact
      /\ 1 \in PageId /\ 1 \in 1..hdr.count /\ 1..hdr.count \subseteq PageId /\ hdr.count \in Nat
      /\ 1..Count(acked.new) \subseteq PageId /\ 1..Count(acked.old) \subseteq PageId
      /\ Count(acked.new) \in Nat /\ Count(acked.old) \in Nat /\ 1 \in 1..Count(acked.new)
  BY ViewFacts, PageIds, DatabaseSize DEF Inv, AckedTyped
<1> DEFINE d == cache[p].data
<1>3. d \in Page /\ d # None /\ Shown(d) = d /\ Cached(p) = d
  BY <1>1, <1>2, EntryParts, PageParts DEF Typed, Cached
<1>4. p \notin 1..Count(acked.new) /\ p \notin 1..Count(acked.old) /\ p # 1
  <2>1. p \notin 1..Count(acked.new)
    BY <1>1, <1>2 DEF Untouched, Changed
  <2> QED BY <1>2, <2>1 DEF AckedTyped
<1>5. /\ file' = [file EXCEPT ![p] = d] /\ fileDur' = [fileDur EXCEPT ![p] = @ \cup {d}]
  BY <1>1
<1> HIDE DEF d
<1>6. /\ file' \in [PageId -> Versions] /\ fileDur' \in [PageId -> SUBSET Versions]
      /\ file'[p] = d /\ fileDur'[p] = fileDur[p] \cup {d}
      /\ \A q \in PageId : q # p => file'[q] = file[q] /\ fileDur'[q] = fileDur[q]
  BY <1>2, <1>3, <1>5 DEF DiskTyped, Versions
<1>7. /\ cache' \in [PageId -> PoolEntry \cup {None}] /\ cache'[p] = None
      /\ \A q \in PageId : q # p => cache'[q] = cache[q]
  BY <1>1, <1>2 DEF Typed
<1>8. DiskTyped'
  BY <1>1, <1>2, <1>4, <1>6 DEF DiskTyped
<1>9. AckedTyped'
  BY <1>1, <1>2 DEF AckedTyped
<1>10. ~Hot(jrnl) /\ pc \notin Down
  BY <1>1, <1>2, NoneIsCold DEF JournalPhase, Down
<1>11. Protected'
  <2>1. ASSUME NEW S, 1..Count(S) \subseteq PageId, p \notin 1..Count(S), NEW j, Keeps(fileDur, j, S)
        PROVE  Keeps(fileDur', j, S)
    <3>1. \A q \in 1..Count(S) : fileDur'[q] = fileDur[q]
      BY <1>6, <2>1
    <3> QED BY <2>1, <3>1, KeepsStep
  <2>2. \A j : /\ Keeps(fileDur, j, acked.old) => Keeps(fileDur', j, acked.old)
               /\ Keeps(fileDur, j, acked.new) => Keeps(fileDur', j, acked.new)
    BY <1>2, <1>4, <2>1
  <2> QED BY <1>1, <1>2, <1>10, <2>2 DEF Protected
<1>12. Typed'
  BY <1>1, <1>2, <1>4, <1>7 DEF Typed
<1>13. JournalPhase' /\ Sizes' /\ HeaderExact'
  BY <1>1, <1>2 DEF JournalPhase, Sizes, HeaderExact, Writing, Undoing, Replaying
<1>14. PutBack' /\ ColdCache' /\ Stamped'
  BY <1>1 DEF PutBack, ColdCache, Stamped, Writing, Undoing, Replaying, Down
<1>15. Untouched'
  BY <1>1, <1>2, <1>4, <1>6, <1>7 DEF Untouched, Changed, Read
<1>16. CleanMatches'
  BY <1>1, <1>2, <1>6, <1>7 DEF CleanMatches, Read
<1>17. \A q \in PageId : Cached(q)' = Cached(q)
  BY <1>3, <1>6, <1>7 DEF Cached, Read
<1>18. ViewChain'
  <2>1. View' = View
    BY <1>1, <1>2, <1>8, <1>12, <1>17, SameView
  <2> QED BY <1>1, <1>2, <2>1 DEF ViewChain
<1> QED BY <1>8, <1>9, <1>11, <1>12, <1>13, <1>14, <1>15, <1>16, <1>18 DEF Inv

-----------------------------------------------------------------------------
(* COMMIT. *)

LEMMA StampHeaderKeeps ==
  ASSUME Inv, StampHeader
  PROVE  Inv'
<1> DEFINE p == 1
           d == PageOf(hdr, Cached(1).word)
<1>1. /\ Typed /\ DiskTyped /\ ViewChain /\ hdr \in Header /\ hdr.count \in Nat /\ p \in PageId
      /\ 1..hdr.count \subseteq PageId
  BY ViewFacts, PageIds DEF Inv, Typed
<1>2. d \in Page /\ d.hdr = hdr
  BY <1>1, CachedPage, PageParts, PageFields
<1>3. /\ pc = "open" /\ pc' = "stamped" /\ own /\ WillModify(p)
      /\ cache' = [cache EXCEPT ![p] = Entry(d, TRUE)]
      /\ UNCHANGED <<hdr, before, barrier, file, fileDur, pos, acked>>
  BY DEF StampHeader, bounds
<1>4. /\ p = 1 => d.hdr \in Header
      /\ \A q \in 2..hdr.count : q # p /\ q \in PageId
  BY <1>1, <1>2
<1> HIDE DEF p, d
<1>5. /\ DiskTyped' /\ AckedTyped' /\ Protected' /\ JournalPhase' /\ PutBack'
      /\ journalled' = journalled \cup {p} /\ own' \in BOOLEAN
      /\ p <= before \/ own => own'
  BY <1>1, <1>3, WillModifyKeeps
<1>6. /\ Typed' /\ Sizes' /\ Untouched' /\ CleanMatches' /\ ColdCache'
      /\ Cached(p)' = d /\ \A q \in PageId \ {p} : Cached(q)' = Cached(q)
  BY <1>1, <1>2, <1>3, <1>4, <1>5, PoolWrite DEF Typed
<1>7. ViewChain'
  <2>1. PICK s : IsChain(View, hdr, s)
    BY <1>1, <1>3, ViewFacts DEF ViewChain, FreeChain, Writing
  <2>2. ASSUME NEW i \in 1..hdr.free PROVE View'[s[i]].word = View[s[i]].word
    <3>1. s[i] \in 2..hdr.count
      BY <2>1 DEF IsChain
    <3> QED BY <1>1, <1>3, <1>4, <1>5, <1>6, <3>1, ViewFacts, ViewFactsNext
  <2>3. IsChain(View', hdr, s)
    BY <2>1, <2>2, ChainKept
  <2>4. View'[1].hdr = hdr
    BY <1>3, <1>5, <1>6, ViewFactsNext
  <2> QED BY <2>3, <2>4 DEF ViewChain, FreeChain
<1>8. Stamped' /\ HeaderExact'
  BY <1>2, <1>3, <1>5, <1>6 DEF Stamped, HeaderExact, p
<1> QED BY <1>5, <1>6, <1>7, <1>8 DEF Inv

(* Between two phases of the barrier: only the journal changes. *)
LEMMA BarrierMoves ==
  ASSUME Inv, pc \in {"stamped", "magic", "barrier"}, pc' \in {"magic", "barrier", "flush"},
         UNCHANGED <<hdr, cache, before, journalled, own, file, fileDur, pos, acked>>,
         barrier' \in BOOLEAN
  PROVE  /\ Typed' /\ AckedTyped' /\ Sizes' /\ Untouched' /\ CleanMatches' /\ Stamped' /\ ViewChain'
         /\ ColdCache' /\ PutBack' /\ HeaderExact'
<1>1. /\ Typed /\ AckedTyped /\ Sizes /\ Untouched /\ CleanMatches /\ Stamped /\ ViewChain
      /\ pc \in Writing \ {"open", "sync", "delete"} /\ pc' \in Writing \ {"open", "sync", "delete"}
  BY DEF Inv, Writing
<1>2. Typed' /\ AckedTyped'
  BY <1>1 DEF Typed, AckedTyped, Writing
<1>3. Sizes' /\ Untouched' /\ CleanMatches'
  BY <1>1 DEF Sizes, Untouched, CleanMatches, Changed, Writing, Undoing
<1>4. Stamped' /\ ViewChain'
  BY <1>1 DEF Stamped, ViewChain, View, Cached, Writing
<1>5. ColdCache' /\ PutBack' /\ HeaderExact'
  BY <1>1 DEF ColdCache, PutBack, HeaderExact, Writing, Undoing, Replaying, Down
<1> QED BY <1>2, <1>3, <1>4, <1>5

(* The journal is synced. *)
LEMMA JournalSynced ==
  ASSUME Inv, pc \notin Down, pc' \notin Down, UNCHANGED <<jrnl, file, fileDur, acked>>, jrnlDur' = {jrnl}
  PROVE  DiskTyped' /\ Protected'
<1>1. DiskTyped /\ Protected
  BY DEF Inv
<1>2. DiskTyped'
  BY <1>1 DEF DiskTyped
<1>3. Protected'
  BY <1>1 DEF Protected
<1> QED BY <1>2, <1>3

LEMMA SyncJournalBodyKeeps ==
  ASSUME Inv, SyncJournalBody
  PROVE  Inv'
<1>1. /\ pc = "stamped" /\ pc' = "magic" /\ jrnlDur' = {jrnl}
      /\ UNCHANGED <<hdr, cache, before, journalled, barrier, own, jrnl, file, fileDur, pos, acked>>
  BY DEF SyncJournalBody, memVars, txnVars, bounds
<1>2. DiskTyped' /\ Protected'
  BY <1>1, JournalSynced DEF Down
<1>3. /\ Typed' /\ AckedTyped' /\ Sizes' /\ Untouched' /\ CleanMatches' /\ Stamped' /\ ViewChain'
      /\ ColdCache' /\ PutBack' /\ HeaderExact'
  BY <1>1, BarrierMoves DEF Inv, Typed
<1>4. JournalPhase'
  <2>1. own /\ OwnJournal
    BY <1>1 DEF Inv, JournalPhase, Writing
  <2>2. OwnJournal'
    BY <1>1, <2>1 DEF OwnJournal
  <2> QED BY <1>1, <2>1, <2>2 DEF JournalPhase, Writing, Undoing, Replaying
<1> QED BY <1>2, <1>3, <1>4 DEF Inv

(* From here on the journal is hot, and has every page that may be flushed. *)
LEMMA StampJournalKeeps ==
  ASSUME Inv, StampJournal
  PROVE  Inv'
<1> DEFINE n == Len(jrnl.recs)
<1>1. /\ pc = "magic" /\ pc' = "barrier" /\ jrnl' = JournalOf(jrnl.count, jrnl.recs, n)
      /\ jrnlDur' = jrnlDur \cup {jrnl'}
      /\ UNCHANGED <<hdr, cache, before, journalled, barrier, own, file, fileDur, pos, acked>>
  BY DEF StampJournal, memVars, txnVars, bounds
<1>2. /\ Typed /\ DiskTyped /\ AckedTyped /\ Protected /\ own /\ OwnJournal /\ jrnlDur = {jrnl}
      /\ Count(acked.new) <= before
  BY <1>1 DEF Inv, JournalPhase, Sizes, Writing
<1>3. /\ IsJournal(jrnl) /\ jrnl # None
      /\ jrnl.count \in PageId /\ jrnl.recs \in Seq(Original) /\ jrnl.nrec \in Nat /\ jrnl.nrec <= n /\ n \in Nat
      /\ \A i \in 1..n : jrnl.recs[i].page = 1 => jrnl.recs[i].data.hdr \in Header
  BY <1>2, JournalParts DEF DiskTyped, OwnJournal
<1> HIDE DEF n
<1>4. /\ jrnl' \in JournalFile /\ jrnl' # None /\ jrnl'.count = jrnl.count /\ jrnl'.recs = jrnl.recs
      /\ jrnl'.nrec = n
  BY <1>1, <1>3, JournalFields
<1>5. IsJournal(jrnl')
  <2>1. jrnl'.nrec <= Len(jrnl'.recs)
    BY <1>3, <1>4 DEF n
  <2> QED BY <1>3, <1>4, <2>1 DEF IsJournal, n
<1>6. Keeps(fileDur, jrnl, acked.new) /\ pc \notin Down
  BY <1>1, <1>2 DEF Protected, Down
<1>7. Keeps(fileDur, jrnl', acked.new)
  <2>1. jrnl'.count >= Count(acked.new)
    <3>1. jrnl'.count = before /\ before \in Nat /\ Count(acked.new) \in Nat
      BY <1>2, <1>4, PageIds, DatabaseSize DEF OwnJournal, Typed, AckedTyped
    <3> QED BY <1>2, <3>1
  <2>2. Hot(jrnl) => Hot(jrnl')
    BY <1>3, <1>4 DEF Hot
  <2>3. ASSUME NEW p \in 1..Count(acked.new), NEW i \in 1..n, jrnl.recs[i].page = p
        PROVE  jrnl.recs[i].data = acked.new[p]
    <3>1. Count(acked.new) \in Nat /\ p <= Count(acked.new)
      BY <1>2, <2>3, DatabaseSize DEF AckedTyped
    <3> QED BY <1>2, <2>3, <3>1 DEF OwnJournal, n
  <2>4. 1..jrnl.nrec \subseteq 1..n
    BY <1>3
  <2> QED BY <1>4, <1>6, <2>1, <2>2, <2>3, <2>4 DEF Keeps
<1>8. DiskTyped'
  BY <1>1, <1>2, <1>5 DEF DiskTyped
<1>9. Protected'
  BY <1>1, <1>2, <1>6, <1>7 DEF Protected
<1>10. /\ Typed' /\ AckedTyped' /\ Sizes' /\ Untouched' /\ CleanMatches' /\ Stamped' /\ ViewChain'
       /\ ColdCache' /\ PutBack' /\ HeaderExact'
  BY <1>1, <1>2, BarrierMoves DEF Typed
<1>11. JournalPhase'
  <2>1. OwnJournal'
    BY <1>1, <1>2, <1>4 DEF OwnJournal
  <2> QED BY <1>1, <1>2, <1>4, <2>1 DEF JournalPhase, Writing, Undoing, Replaying, n
<1> QED BY <1>8, <1>9, <1>10, <1>11 DEF Inv

LEMMA SyncJournalMagicKeeps ==
  ASSUME Inv, SyncJournalMagic
  PROVE  Inv'
<1>1. /\ pc = "barrier" /\ pc' = "flush" /\ jrnlDur' = {jrnl} /\ barrier' = TRUE
      /\ UNCHANGED <<hdr, cache, before, journalled, own, jrnl, file, fileDur, pos, acked>>
  BY DEF SyncJournalMagic, memVars, bounds
<1>2. DiskTyped' /\ Protected'
  BY <1>1, JournalSynced DEF Down
<1>3. /\ Typed' /\ AckedTyped' /\ Sizes' /\ Untouched' /\ CleanMatches' /\ Stamped' /\ ViewChain'
      /\ ColdCache' /\ PutBack' /\ HeaderExact'
  BY <1>1, BarrierMoves
<1>4. JournalPhase'
  <2>1. own /\ OwnJournal /\ jrnl.nrec = Len(jrnl.recs)
    BY <1>1 DEF Inv, JournalPhase, Writing
  <2>2. OwnJournal'
    BY <1>1, <2>1 DEF OwnJournal
  <2> QED BY <1>1, <2>1, <2>2 DEF JournalPhase, Writing, Undoing, Replaying
<1> QED BY <1>2, <1>3, <1>4 DEF Inv

(* A page goes into the file only when the journal has it, or when it lies
   past the committed pages. *)
LEMMA FlushPageKeeps ==
  ASSUME Inv, NEW p \in PageId, FlushPage(p)
  PROVE  Inv'
<1>1. /\ pc = "flush" /\ pc' = "flush" /\ p <= hdr.count /\ cache[p] # None /\ cache[p].dirty
      /\ cache' = [cache EXCEPT ![p] = Entry(cache[p].data, FALSE)]
      /\ file' = [file EXCEPT ![p] = cache[p].data]
      /\ fileDur' = [fileDur EXCEPT ![p] = @ \cup {cache[p].data}]
      /\ UNCHANGED <<hdr, before, journalled, barrier, own, jrnl, jrnlDur, pos, acked>>
  BY DEF FlushPage, NextToFlush, Dirty, Pwrite, txnVars, bounds
<1>2. /\ Typed /\ DiskTyped /\ AckedTyped /\ Protected /\ JournalPhase /\ Sizes /\ Untouched
      /\ CleanMatches /\ Stamped /\ ViewChain
      /\ 1 \in PageId /\ 1 \in 1..hdr.count /\ 1..hdr.count \subseteq PageId /\ hdr.count \in Nat
      /\ 1..Count(acked.new) \subseteq PageId /\ Count(acked.new) \in Nat /\ before \in Nat
  BY ViewFacts, PageIds, DatabaseSize DEF Inv, AckedTyped, Typed
<1>3. /\ own /\ OwnJournal /\ jrnlDur = {jrnl} /\ jrnl.nrec = Len(jrnl.recs)
      /\ Count(acked.new) <= before /\ pc \in Writing /\ pc \notin Down
  BY <1>1, <1>2 DEF JournalPhase, Sizes, Writing, Down
<1> DEFINE d == cache[p].data
           e == Entry(d, FALSE)
<1>4. d \in Page /\ d # None /\ Shown(d) = d /\ Cached(p) = d /\ (p = 1 => d.hdr \in Header)
  BY <1>1, <1>2, EntryParts, PageParts DEF Typed, Cached
<1>5. /\ file' = [file EXCEPT ![p] = d] /\ fileDur' = [fileDur EXCEPT ![p] = @ \cup {d}]
      /\ cache' = [cache EXCEPT ![p] = e]
  BY <1>1
<1> HIDE DEF d
<1>6. e \in PoolEntry /\ e # None /\ e.data = d /\ e.dirty = FALSE
  BY <1>4, EntryFields
<1> HIDE DEF e
<1>7. /\ file' \in [PageId -> Versions] /\ fileDur' \in [PageId -> SUBSET Versions]
      /\ file'[p] = d /\ fileDur'[p] = fileDur[p] \cup {d}
      /\ \A q \in PageId : q # p => file'[q] = file[q] /\ fileDur'[q] = fileDur[q]
  BY <1>2, <1>4, <1>5 DEF DiskTyped, Versions
<1>8. /\ cache' \in [PageId -> PoolEntry \cup {None}] /\ cache'[p] = e
      /\ \A q \in PageId : q # p => cache'[q] = cache[q]
  BY <1>2, <1>5, <1>6 DEF Typed
<1>9. p \in 1..Count(acked.new) => p \in journalled
  BY <1>1, <1>2, <1>3 DEF Untouched, Changed
<1>10. DiskTyped'
  BY <1>1, <1>2, <1>4, <1>7 DEF DiskTyped
<1>11. AckedTyped'
  BY <1>1, <1>2 DEF AckedTyped
<1>12. Protected'
  <2>1. Keeps(fileDur, jrnl, acked.new)
    BY <1>2, <1>3 DEF Protected
  <2>2. ASSUME NEW q \in 1..Count(acked.new), NEW x \in fileDur'[q]
        PROVE  \/ \E y \in fileDur[q] : Shown(x) = Shown(y)
               \/ Shown(x) = acked.new[q]
               \/ Hot(jrnl) /\ \E i \in 1..jrnl.nrec : jrnl.recs[i].page = q
    <3>1. CASE q # p
      BY <1>2, <1>7, <2>2, <3>1
    <3>2. CASE q = p
      <4>1. q \in journalled /\ q <= before
        BY <1>2, <1>3, <1>9, <2>2, <3>2
      <4>2. PICK i \in 1..jrnl.nrec : jrnl.recs[i].page = q
        BY <1>3, <4>1 DEF OwnJournal
      <4>3. jrnl # None /\ jrnl.nrec \in Nat /\ jrnl.nrec > 0
        <5>1. jrnl # None /\ IsJournal(jrnl)
          BY <1>2, <1>3 DEF OwnJournal, DiskTyped
        <5>2. jrnl.nrec \in Nat
          BY <5>1, JournalParts
        <5> QED BY <4>2, <5>1, <5>2
      <4> QED BY <4>2, <4>3 DEF Hot
    <3> QED BY <3>1, <3>2
  <2>3. Keeps(fileDur', jrnl, acked.new)
    BY <2>1, <2>2, KeepsStep
  <2> QED BY <1>1, <1>3, <2>3 DEF Protected
<1>13. Typed'
  BY <1>1, <1>2, <1>4, <1>6, <1>8 DEF Typed
<1>14. JournalPhase' /\ Sizes'
  <2>1. OwnJournal'
    BY <1>1, <1>3 DEF OwnJournal
  <2> QED BY <1>1, <1>2, <1>3, <2>1 DEF JournalPhase, Sizes, Writing, Undoing, Replaying
<1>15. PutBack' /\ ColdCache' /\ HeaderExact'
  BY <1>1 DEF PutBack, ColdCache, HeaderExact, Writing, Undoing, Replaying, Down
<1>16. Untouched'
  <2> SUFFICES ASSUME NEW q \in 1..Count(acked.new), q \notin journalled, cache'[q] # None
               PROVE  ~cache'[q].dirty /\ cache'[q].data = Read(file', q)
    BY <1>1 DEF Untouched, Changed
  <2>1. q \in PageId /\ q # p
    BY <1>2, <1>9
  <2> QED BY <1>1, <1>2, <1>3, <1>7, <1>8, <2>1 DEF Untouched, Changed, Read
<1>17. CleanMatches'
  BY <1>1, <1>2, <1>3, <1>4, <1>6, <1>7, <1>8 DEF CleanMatches, Read
<1>18. \A q \in PageId : Cached(q)' = Cached(q)
  BY <1>4, <1>6, <1>7, <1>8 DEF Cached, Read
<1>19. Stamped'
  BY <1>1, <1>2, <1>18 DEF Stamped, Writing
<1>20. ViewChain'
  <2>1. View' = View
    BY <1>1, <1>2, <1>10, <1>13, <1>18, SameView
  <2> QED BY <1>1, <1>2, <1>3, <2>1 DEF ViewChain
<1> QED BY <1>10, <1>11, <1>12, <1>13, <1>14, <1>15, <1>16, <1>17, <1>19, <1>20 DEF Inv

(* fsync of the database file: fewer versions can survive. *)
LEMMA FileSynced ==
  ASSUME Inv, Fsync, pc \notin Down, pc' \notin Down, UNCHANGED <<jrnl, jrnlDur, acked>>
  PROVE  DiskTyped' /\ AckedTyped' /\ Protected' /\ Synced' /\ file' = file
<1>1. /\ DiskTyped /\ AckedTyped /\ Protected /\ file' = file
      /\ \A p \in PageId : fileDur'[p] = {file[p]} /\ fileDur'[p] \subseteq fileDur[p]
      /\ fileDur' \in [PageId -> SUBSET Versions] /\ 1 \in PageId
      /\ 1..Count(acked.new) \subseteq PageId /\ 1..Count(acked.old) \subseteq PageId
  BY PageIds, DatabaseSize DEF Inv, Fsync, DiskTyped, AckedTyped
<1>2. DiskTyped'
  BY <1>1 DEF DiskTyped
<1>3. AckedTyped'
  BY <1>1 DEF AckedTyped
<1>4. Synced'
  BY <1>1 DEF Synced
<1>5. Protected'
  <2>1. ASSUME NEW S, 1..Count(S) \subseteq PageId, NEW j, Keeps(fileDur, j, S)
        PROVE  Keeps(fileDur', j, S)
    <3>1. \A q \in 1..Count(S) : fileDur'[q] \subseteq fileDur[q]
      BY <1>1, <2>1
    <3> QED BY <2>1, <3>1, KeepsStep
  <2>2. \A j : /\ Keeps(fileDur, j, acked.old) => Keeps(fileDur', j, acked.old)
               /\ Keeps(fileDur, j, acked.new) => Keeps(fileDur', j, acked.new)
    BY <1>1, <2>1
  <2>3. Keeps(fileDur, jrnl, acked.new)
    BY <1>1 DEF Protected
  <2> QED BY <1>1, <2>2, <2>3 DEF Protected
<1> QED BY <1>1, <1>2, <1>3, <1>4, <1>5

LEMMA SyncFileKeeps ==
  ASSUME Inv, SyncFile
  PROVE  Inv'
<1>1. /\ pc = "sync" /\ pc' = "delete" /\ Fsync
      /\ UNCHANGED <<hdr, cache, before, journalled, barrier, own, jrnl, jrnlDur, pos, acked>>
  BY DEF SyncFile, memVars, txnVars, bounds
<1>2. Typed /\ JournalPhase /\ Sizes /\ Untouched /\ CleanMatches /\ Stamped /\ ViewChain
  BY DEF Inv
<1>3. DiskTyped' /\ AckedTyped' /\ Protected' /\ Synced' /\ file' = file
  BY <1>1, FileSynced DEF Down
<1>4. Typed'
  BY <1>1, <1>2 DEF Typed, Writing
<1>5. JournalPhase'
  <2>1. own /\ OwnJournal
    BY <1>1, <1>2 DEF JournalPhase, Writing
  <2>2. OwnJournal'
    BY <1>1, <2>1 DEF OwnJournal
  <2> QED BY <1>1, <1>2, <2>1, <2>2 DEF JournalPhase, Writing, Undoing, Replaying
<1>6. Sizes' /\ Untouched' /\ CleanMatches'
  BY <1>1, <1>2, <1>3 DEF Sizes, Untouched, CleanMatches, Changed, Writing, Undoing
<1>7. Stamped' /\ ViewChain'
  BY <1>1, <1>2, <1>3 DEF Stamped, ViewChain, View, Cached, Dirty, Writing
<1>8. PutBack' /\ ColdCache' /\ HeaderExact'
  BY <1>1, <1>3 DEF PutBack, ColdCache, HeaderExact, Writing, Undoing, Replaying, Down
<1> QED BY <1>3, <1>4, <1>5, <1>6, <1>7, <1>8 DEF Inv

(* The commit point: what the process shows is what the file holds. *)
LEMMA DeleteShowsFile ==
  ASSUME Inv, pc = "delete"
  PROVE  /\ \A p \in 1..hdr.count : Read(file, p) = View[p] /\ fileDur[p] = {file[p]}
         /\ \A p \in 1..hdr.count : cache[p] # None => ~cache[p].dirty /\ cache[p].data = Read(file, p)
<1>1. /\ Typed /\ DiskTyped /\ CleanMatches /\ Dirty = {} /\ Cached(1).hdr = hdr /\ Synced
      /\ 1 \in PageId /\ 1..hdr.count \subseteq PageId /\ hdr.count \in Nat /\ 1 \in 1..hdr.count
  BY ViewFacts, PageIds DEF Inv, Stamped, PutBack, Writing
<1>2. \A p \in 1..hdr.count : cache[p] # None => ~cache[p].dirty /\ cache[p].data = Read(file, p)
  BY <1>1 DEF Dirty, CleanMatches, Writing
<1>3. \A p \in 1..hdr.count : Cached(p) = Read(file, p) /\ fileDur[p] = {file[p]}
  BY <1>1, <1>2 DEF Cached, Synced
<1>4. View[1] = Cached(1)
  BY <1>1, ViewFacts, CachedPage, PageParts
<1>5. \A p \in 1..hdr.count : p = 1 \/ p \in 2..hdr.count
  BY <1>1
<1> QED BY <1>1, <1>2, <1>3, <1>4, <1>5, ViewFacts

LEMMA DeleteJournalKeeps ==
  ASSUME Inv, DeleteJournal
  PROVE  Inv'
<1>1. /\ pc = "delete" /\ pc' = "idle" /\ jrnl' = None /\ jrnlDur' = jrnlDur \cup {None} /\ own' = FALSE
      /\ acked' = [old |-> acked.new, new |-> View]
      /\ UNCHANGED <<hdr, cache, before, journalled, barrier, file, fileDur, pos>>
  BY DEF DeleteJournal, memVars
<1>2. /\ Typed /\ DiskTyped /\ AckedTyped /\ Protected /\ JournalPhase /\ Sizes
      /\ CleanMatches /\ ViewChain
      /\ IsDatabase(View) /\ Count(View) = hdr.count /\ View[1].hdr = hdr
  BY ViewFacts DEF Inv
<1>3. acked'.old = acked.new /\ acked'.new = View
  BY <1>1
<1>4. AckedTyped'
  BY <1>1, <1>2, <1>3 DEF AckedTyped, ViewChain, Sizes, Writing
<1>5. DiskTyped'
  BY <1>1, <1>2 DEF DiskTyped, IsJournal
<1>6. Protected'
  <2>1. Keeps(fileDur, jrnl, acked.new) /\ jrnlDur = {jrnl}
    BY <1>1, <1>2 DEF Protected, JournalPhase, Down
  <2>2. Keeps(fileDur, None, View)
    <3>1. \A p \in 1..Count(View) : \A d \in fileDur[p] : Shown(d) = View[p]
      BY <1>1, <1>2, DeleteShowsFile DEF Read
    <3> QED BY <3>1, NoneIsCold, KeepsCold
  <2> QED BY <1>1, <1>3, <2>1, <2>2, NoneIsCold DEF Protected
<1>7. Typed'
  BY <1>1, <1>2 DEF Typed
<1>8. JournalPhase'
  BY <1>1 DEF JournalPhase, Writing, Undoing, Replaying
<1>9. Sizes'
  <2>1. hdr.count \in Nat
    BY <1>2, ViewFacts
  <2> QED BY <1>1, <1>2, <1>3, <2>1 DEF Sizes, Writing, Undoing
<1>10. Untouched' /\ CleanMatches'
  BY <1>1, <1>2, <1>3, DeleteShowsFile DEF Untouched, CleanMatches, Changed
<1>11. PutBack' /\ ColdCache' /\ Stamped' /\ HeaderExact'
  BY <1>1, <1>2, <1>3 DEF PutBack, ColdCache, Stamped, HeaderExact, Writing, Undoing, Replaying, Down
<1>12. ViewChain'
  BY <1>1, <1>2 DEF ViewChain, View, Cached, Writing
<1> QED BY <1>4, <1>5, <1>6, <1>7, <1>8, <1>9, <1>10, <1>11, <1>12 DEF Inv

-----------------------------------------------------------------------------
(* ROLLBACK and recovery. *)

(* The journal that is replayed holds the committed pages. *)
LEMMA ReplayedRecord ==
  ASSUME Inv, pc \in {"replay", "recover"}, pos <= jrnl.nrec
  PROVE  /\ jrnl # None /\ Hot(jrnl) /\ pos \in 1..jrnl.nrec /\ jrnl.nrec \in Nat
         /\ jrnl.recs[pos].page \in PageId /\ jrnl.recs[pos].data \in Page
         /\ jrnl.recs[pos].page = 1 => jrnl.recs[pos].data.hdr \in Header
         /\ jrnl.recs[pos].page \in 1..Count(acked.new)
              => jrnl.recs[pos].data = acked.new[jrnl.recs[pos].page]
         /\ \A j \in jrnlDur : Keeps(fileDur, j, acked.new)
         /\ pc = "replay" => jrnl.recs[pos].page \in journalled
<1>1. Typed /\ DiskTyped /\ AckedTyped /\ Protected /\ JournalPhase /\ pc \notin Down /\ IsJournal(jrnl)
  BY DEF Inv, Down, DiskTyped
<1>2. jrnl # None
  BY <1>1 DEF JournalPhase, OwnJournal, Hot, Undoing, Replaying
<1>3. jrnl.nrec \in Nat /\ jrnl.nrec <= Len(jrnl.recs) /\ Len(jrnl.recs) \in Nat
      /\ \A i \in 1..Len(jrnl.recs) : /\ jrnl.recs[i].page \in PageId /\ jrnl.recs[i].data \in Page
                                      /\ jrnl.recs[i].page = 1 => jrnl.recs[i].data.hdr \in Header
  BY <1>1, <1>2, JournalParts
<1>4. pos \in Nat \ {0}
  BY <1>1 DEF Typed
<1>5. pos \in 1..jrnl.nrec /\ pos \in 1..Len(jrnl.recs) /\ jrnl.nrec > 0
  BY <1>3, <1>4
<1>6. Hot(jrnl)
  BY <1>2, <1>5 DEF Hot
<1>7. Keeps(fileDur, jrnl, acked.new) /\ \A j \in jrnlDur : Keeps(fileDur, j, acked.new)
  BY <1>1, <1>6 DEF Protected
<1>8. jrnl.recs[pos].page \in 1..Count(acked.new)
        => jrnl.recs[pos].data = acked.new[jrnl.recs[pos].page]
  BY <1>5, <1>6, <1>7 DEF Keeps
<1>9. pc = "replay" => jrnl.recs[pos].page \in journalled
  BY <1>1, <1>5 DEF JournalPhase, OwnJournal, Undoing
<1> QED BY <1>2, <1>3, <1>5, <1>6, <1>7, <1>8, <1>9

LEMMA ReplayRecordKeeps ==
  ASSUME Inv, NEW from \in {"replay", "recover"}, ReplayRecord(from)
  PROVE  Inv'
<1> DEFINE q == jrnl.recs[pos].page
           d == jrnl.recs[pos].data
<1>1. /\ pc = from /\ pc' = pc /\ pos <= jrnl.nrec /\ pos' = pos + 1
      /\ file' = [file EXCEPT ![q] = d] /\ fileDur' = [fileDur EXCEPT ![q] = @ \cup {d}]
      /\ UNCHANGED <<hdr, cache, before, journalled, barrier, own, jrnl, jrnlDur, acked>>
  BY DEF ReplayRecord, Pwrite, memVars, txnVars, bounds
<1>2. /\ Typed /\ DiskTyped /\ AckedTyped /\ JournalPhase /\ Sizes /\ Untouched /\ ColdCache /\ PutBack
      /\ pc \in {"replay", "recover"}
      /\ 1..Count(acked.new) \subseteq PageId /\ 1 \in PageId /\ Count(acked.new) \in Nat
  BY <1>1, DatabaseSize, PageIds DEF Inv, AckedTyped
<1>3. /\ jrnl # None /\ pos \in 1..jrnl.nrec /\ jrnl.nrec \in Nat /\ q \in PageId /\ d \in Page
      /\ q = 1 => d.hdr \in Header
      /\ q \in 1..Count(acked.new) => d = acked.new[q]
      /\ \A j \in jrnlDur : Keeps(fileDur, j, acked.new)
      /\ pc = "replay" => q \in journalled
  BY <1>1, <1>2, ReplayedRecord
<1>4. Shown(d) = d
  BY <1>3, PageParts
<1>5. \A i \in 1..jrnl.nrec : i = pos => jrnl.recs[i].page = q
  OBVIOUS
<1> HIDE DEF q, d
<1>6. /\ file' \in [PageId -> Versions] /\ fileDur' \in [PageId -> SUBSET Versions]
      /\ file'[q] = d /\ fileDur'[q] = fileDur[q] \cup {d}
      /\ \A p \in PageId : p # q => file'[p] = file[p] /\ fileDur'[p] = fileDur[p]
  BY <1>1, <1>2, <1>3 DEF DiskTyped, Versions
<1>7. DiskTyped'
  BY <1>1, <1>2, <1>3, <1>6 DEF DiskTyped
<1>8. AckedTyped'
  BY <1>1, <1>2 DEF AckedTyped
<1>9. Protected'
  <2>1. ASSUME NEW j \in jrnlDur PROVE Keeps(fileDur', j, acked.new)
    <3>1. ASSUME NEW p \in 1..Count(acked.new), NEW x \in fileDur'[p]
          PROVE  (\E y \in fileDur[p] : Shown(x) = Shown(y)) \/ Shown(x) = acked.new[p]
      BY <1>2, <1>3, <1>4, <1>6, <3>1
    <3> QED BY <1>3, <2>1, <3>1, KeepsStep
  <2>2. jrnl \in jrnlDur
    BY <1>2 DEF DiskTyped
  <2> QED BY <1>1, <2>1, <2>2 DEF Protected
<1>10. Typed'
  BY <1>1, <1>2 DEF Typed
<1>11. JournalPhase' /\ Sizes' /\ ColdCache'
  <2>1. OwnJournal => OwnJournal'
    BY <1>1 DEF OwnJournal
  <2> QED BY <1>1, <1>2, <2>1 DEF JournalPhase, Sizes, ColdCache, Writing
<1>12. Untouched'
  <2> SUFFICES ASSUME pc = "replay", NEW p \in 1..Count(acked.new), p \notin journalled, cache'[p] # None
               PROVE  ~cache'[p].dirty /\ cache'[p].data = Read(file', p)
    BY <1>1, <1>2 DEF Untouched, Changed, Writing, Undoing
  <2>1. p \in PageId /\ p # q
    BY <1>2, <1>3
  <2> QED BY <1>1, <1>2, <1>6, <2>1 DEF Untouched, Changed, Undoing, Read
<1>13. PutBack'
  <2> SUFFICES ASSUME NEW i \in 1..jrnl.nrec, i < pos + 1, jrnl.recs[i].page <= Count(acked.new)
               PROVE  Read(file', jrnl.recs[i].page) = acked.new[jrnl.recs[i].page]
    BY <1>1, <1>2 DEF PutBack, Undoing, Replaying
  <2> DEFINE p == jrnl.recs[i].page
  <2>1. p \in PageId /\ p \in 1..Count(acked.new)
    <3>1. IsJournal(jrnl)
      BY <1>2 DEF DiskTyped
    <3>2. jrnl.nrec <= Len(jrnl.recs) /\ Len(jrnl.recs) \in Nat
      BY <1>3, <3>1, JournalParts
    <3>3. i \in 1..Len(jrnl.recs)
      BY <1>3, <3>2
    <3>4. p \in PageId
      BY <1>3, <3>1, <3>3, JournalParts
    <3> QED BY <1>2, <3>4, PageIds
  <2>2. CASE p = q
    BY <1>3, <1>4, <1>6, <2>1, <2>2 DEF Read
  <2>3. CASE p # q
    <3>1. i < pos
      <4>1. i # pos
        BY <1>5, <2>3
      <4> QED BY <1>3, <4>1
    <3>2. Read(file, p) = acked.new[p]
      BY <1>2, <3>1 DEF PutBack
    <3> QED BY <1>6, <2>1, <2>3, <3>2 DEF Read
  <2> QED BY <2>2, <2>3
<1>14. CleanMatches' /\ Stamped' /\ ViewChain' /\ HeaderExact'
  BY <1>1, <1>2 DEF CleanMatches, Stamped, ViewChain, HeaderExact, Writing
<1> QED BY <1>7, <1>8, <1>9, <1>10, <1>11, <1>12, <1>13, <1>14 DEF Inv

(* A page without a record has never been written. *)
LEMMA ReplayDoneKeeps ==
  ASSUME Inv, NEW from, NEW to, ReplayDone(from, to),
         (from = "replay" /\ to = "truncate") \/ (from = "recover" /\ to = "rcTruncate")
  PROVE  Inv'
<1>1. /\ pc = from /\ pc' = to /\ pos > jrnl.nrec /\ pos' = 1
      /\ UNCHANGED <<hdr, cache, before, journalled, barrier, own, jrnl, jrnlDur, file, fileDur, acked>>
  BY DEF ReplayDone, memVars, txnVars, diskVars, bounds
<1>2. /\ Typed /\ DiskTyped /\ AckedTyped /\ Protected /\ JournalPhase /\ Sizes /\ Untouched /\ ColdCache
      /\ PutBack /\ 1..Count(acked.new) \subseteq PageId /\ Count(acked.new) \in Nat
  BY DatabaseSize DEF Inv, AckedTyped
<1>3. DiskTyped' /\ AckedTyped' /\ Protected'
  BY <1>1, SameDisk DEF Down
<1>4. Typed'
  BY <1>1, <1>2 DEF Typed, Undoing, Replaying
<1>5. JournalPhase'
  <2>1. OwnJournal => OwnJournal'
    BY <1>1 DEF OwnJournal
  <2> QED BY <1>1, <1>2, <2>1 DEF JournalPhase, Writing, Undoing, Replaying
<1>6. Sizes' /\ Untouched' /\ ColdCache'
  BY <1>1, <1>2 DEF Sizes, Untouched, ColdCache, Changed, Writing, Undoing, Replaying, Down
<1>7. PutBack'
  <2> SUFFICES ASSUME NEW p \in 1..Count(acked.new) PROVE Read(file, p) = acked.new[p]
    BY <1>1 DEF PutBack, Undoing, Replaying
  <2>1. jrnl # None /\ IsJournal(jrnl)
    BY <1>1, <1>2 DEF JournalPhase, OwnJournal, Hot, Undoing, Replaying, DiskTyped
  <2>2. jrnl.nrec \in Nat /\ pos \in Nat
    BY <1>2, <2>1, JournalParts DEF Typed
  <2>3. Keeps(fileDur, jrnl, acked.new)
    BY <1>1, <1>2 DEF Protected, Down
  <2>4. CASE \E i \in 1..jrnl.nrec : jrnl.recs[i].page = p
    <3>1. PICK i \in 1..jrnl.nrec : jrnl.recs[i].page = p
      BY <2>4
    <3>2. i < pos /\ jrnl.recs[i].page <= Count(acked.new)
      BY <1>1, <1>2, <2>2, <3>1
    <3> QED BY <1>1, <1>2, <3>1, <3>2 DEF PutBack
  <2>5. CASE ~\E i \in 1..jrnl.nrec : jrnl.recs[i].page = p
    <3>1. file[p] \in fileDur[p]
      BY <1>2 DEF DiskTyped
    <3> QED BY <2>3, <2>5, <3>1 DEF Keeps, Read
  <2> QED BY <2>4, <2>5
<1>8. CleanMatches' /\ Stamped' /\ ViewChain' /\ HeaderExact'
  BY <1>1 DEF CleanMatches, Stamped, ViewChain, HeaderExact, Writing
<1> QED BY <1>3, <1>4, <1>5, <1>6, <1>7, <1>8 DEF Inv

(* Cutting or extending the file leaves the committed pages alone. *)
LEMMA TruncateFileKeeps ==
  ASSUME Inv, NEW from, NEW to, NEW n, TruncateFile(from, to, n),
         \/ from = "truncate" /\ to = "rbSync" /\ n = before
         \/ from = "rcTruncate" /\ to = "rcSync" /\ n = jrnl.count
  PROVE  Inv'
<1>1. /\ pc = from /\ pc' = to /\ file' = Truncated(file, n)
      /\ fileDur' = [p \in PageId |-> fileDur[p] \cup {file'[p]}] /\ hdr' = HeaderOf(n, 0, 0)
      /\ UNCHANGED <<cache, before, journalled, barrier, own, jrnl, jrnlDur, pos, acked>>
  BY DEF TruncateFile, txnVars, bounds
<1>2. /\ Typed /\ DiskTyped /\ AckedTyped /\ Protected /\ JournalPhase /\ Sizes /\ Untouched /\ ColdCache
      /\ PutBack /\ pc \notin Down
      /\ 1..Count(acked.new) \subseteq PageId /\ Count(acked.new) \in Nat /\ 1 \in 1..Count(acked.new)
      /\ 1..Count(acked.old) \subseteq PageId /\ Count(acked.old) \in Nat
      /\ Count(acked.old) <= Count(acked.new)
  BY <1>1, DatabaseSize DEF Inv, AckedTyped, Down
<1>3. n \in PageId /\ n \in Nat /\ Count(acked.new) <= n
  <2>1. CASE n = before /\ from = "truncate"
    BY <1>1, <1>2, <2>1, PageIds DEF Typed, Sizes, Undoing
  <2>2. CASE n = jrnl.count /\ from = "rcTruncate"
    <3>1. Hot(jrnl) /\ Keeps(fileDur, jrnl, acked.new) /\ IsJournal(jrnl)
      BY <1>1, <1>2, <2>2 DEF JournalPhase, Protected, DiskTyped, Replaying
    <3>2. n \in PageId /\ n >= Count(acked.new)
      BY <2>2, <3>1, HotJournal, JournalParts DEF Keeps
    <3> QED BY <1>2, <3>2, PageIds
  <2> QED BY <2>1, <2>2
<1>4. \A p \in PageId : file[p] \in Versions /\ Read(file, p) \in Page
  BY <1>2, CachedPage DEF DiskTyped
<1>5. /\ file' \in [PageId -> Versions]
      /\ \A p \in PageId : p <= n => file'[p] = file[p] \/ file'[p] = Read(file, p)
  <2>1. \A p \in PageId : p \in Nat
    BY PageIds
  <2> QED BY <1>1, <1>3, <1>4, <2>1 DEF Truncated, Versions
<1>6. \A p \in PageId : p <= n => Shown(file'[p]) = Shown(file[p])
  BY <1>4, <1>5, PageParts DEF Read
<1>7. \A p \in PageId : fileDur'[p] = fileDur[p] \cup {file'[p]}
  BY <1>1
<1>8. DiskTyped'
  <2>1. file'[1] \in Page /\ file'[1].hdr \in Header
    <3>1. 1 \in PageId /\ 1 <= n
      BY <1>3, PageIds
    <3> QED BY <1>2, <1>5, <3>1, CachedPage DEF DiskTyped
  <2>2. fileDur' \in [PageId -> SUBSET Versions]
    BY <1>1, <1>2, <1>5 DEF DiskTyped
  <2> QED BY <1>1, <1>2, <1>5, <1>7, <2>1, <2>2, PageIds DEF DiskTyped
<1>9. AckedTyped'
  BY <1>1, <1>2 DEF AckedTyped
<1>10. Protected'
  <2>1. ASSUME NEW S, 1..Count(S) \subseteq PageId, Count(S) \in Nat, Count(S) <= n,
               NEW j, Keeps(fileDur, j, S)
        PROVE  Keeps(fileDur', j, S)
    <3>1. ASSUME NEW p \in 1..Count(S), NEW x \in fileDur'[p]
          PROVE  \E y \in fileDur[p] : Shown(x) = Shown(y)
      <4>1. p \in PageId /\ p <= n
        BY <1>3, <2>1, <3>1
      <4>2. file[p] \in fileDur[p]
        BY <1>2, <4>1 DEF DiskTyped
      <4> QED BY <1>6, <1>7, <3>1, <4>1, <4>2
    <3> QED BY <2>1, <3>1, KeepsStep
  <2>2. \A j : /\ Keeps(fileDur, j, acked.old) => Keeps(fileDur', j, acked.old)
               /\ Keeps(fileDur, j, acked.new) => Keeps(fileDur', j, acked.new)
    <3>1. Count(acked.old) <= n
      BY <1>2, <1>3
    <3> QED BY <1>2, <1>3, <2>1, <3>1
  <2> QED BY <1>1, <1>2, <2>2 DEF Protected
<1>11. Typed'
  <2> DEFINE z == 0
  <2>1. z \in 0..MaxPages /\ hdr' = HeaderOf(n, z, z)
    BY <1>1, PageIds
  <2> HIDE DEF z
  <2>2. hdr' \in Header
    BY <1>3, <2>1, HeaderFields
  <2> QED BY <1>1, <1>2, <2>2 DEF Typed, Undoing, Replaying
<1>12. JournalPhase' /\ Sizes' /\ ColdCache'
  <2>1. OwnJournal => OwnJournal'
    BY <1>1 DEF OwnJournal
  <2> QED BY <1>1, <1>2, <2>1 DEF JournalPhase, Sizes, ColdCache, Writing, Undoing, Replaying, Down
<1>13. \A p \in 1..Count(acked.new) : Read(file', p) = Read(file, p)
  BY <1>2, <1>3, <1>6 DEF Read
<1>14. Untouched'
  BY <1>1, <1>2, <1>13 DEF Untouched, Changed, Writing, Undoing
<1>15. PutBack'
  BY <1>1, <1>2, <1>13 DEF PutBack, Undoing, Replaying
<1>16. CleanMatches' /\ Stamped' /\ ViewChain' /\ HeaderExact'
  BY <1>1 DEF CleanMatches, Stamped, ViewChain, HeaderExact, Writing
<1> QED BY <1>8, <1>9, <1>10, <1>11, <1>12, <1>14, <1>15, <1>16 DEF Inv

LEMMA SyncRestoredKeeps ==
  ASSUME Inv, NEW from, NEW to, SyncRestored(from, to),
         (from = "rbSync" /\ to = "rbDelete") \/ (from = "rcSync" /\ to = "rcDelete")
  PROVE  Inv'
<1>1. /\ pc = from /\ pc' = to /\ Fsync
      /\ UNCHANGED <<hdr, cache, before, journalled, barrier, own, jrnl, jrnlDur, pos, acked>>
  BY DEF SyncRestored, memVars, txnVars, bounds
<1>2. Typed /\ JournalPhase /\ Sizes /\ Untouched /\ ColdCache /\ PutBack
  BY DEF Inv
<1>3. DiskTyped' /\ AckedTyped' /\ Protected' /\ Synced' /\ file' = file
  BY <1>1, FileSynced DEF Down
<1>4. Typed'
  BY <1>1, <1>2 DEF Typed, Undoing, Replaying
<1>5. JournalPhase'
  <2>1. OwnJournal => OwnJournal'
    BY <1>1 DEF OwnJournal
  <2> QED BY <1>1, <1>2, <2>1 DEF JournalPhase, Writing, Undoing, Replaying
<1>6. Sizes' /\ Untouched' /\ ColdCache'
  BY <1>1, <1>2, <1>3 DEF Sizes, Untouched, ColdCache, Changed, Writing, Undoing, Replaying, Down
<1>7. PutBack'
  BY <1>1, <1>2, <1>3 DEF PutBack, Undoing, Replaying
<1>8. CleanMatches' /\ Stamped' /\ ViewChain' /\ HeaderExact'
  BY <1>1 DEF CleanMatches, Stamped, ViewChain, HeaderExact, Writing
<1> QED BY <1>3, <1>4, <1>5, <1>6, <1>7, <1>8 DEF Inv

(* Once the committed pages are back and synced, no journal is needed. *)
LEMMA RestoredNeedsNoJournal ==
  ASSUME Inv, pc \in {"rbDelete", "rcDelete"} \/ (pc \notin Down /\ ~Hot(jrnl))
  PROVE  Keeps(fileDur, None, acked.new)
<1>1. CASE pc \in {"rbDelete", "rcDelete"}
  <2>1. /\ \A p \in 1..Count(acked.new) : Read(file, p) = acked.new[p]
        /\ Synced /\ 1..Count(acked.new) \subseteq PageId
    BY <1>1, DatabaseSize DEF Inv, PutBack, AckedTyped, Undoing, Replaying
  <2>2. \A p \in 1..Count(acked.new) : \A d \in fileDur[p] : Shown(d) = acked.new[p]
    BY <2>1 DEF Synced, Read
  <2> QED BY <2>2, NoneIsCold, KeepsCold
<1>2. CASE pc \notin Down /\ ~Hot(jrnl)
  <2>1. Keeps(fileDur, jrnl, acked.new)
    BY <1>2 DEF Inv, Protected
  <2>2. \A p \in 1..Count(acked.new) : \A d \in fileDur[p] : Shown(d) = acked.new[p]
    BY <1>2, <2>1, KeepsCold
  <2> QED BY <2>2, NoneIsCold, KeepsCold
<1> QED BY <1>1, <1>2

(* unlink() of such a journal; it may come back after a power cut. *)
LEMMA JournalDeleted ==
  ASSUME Inv, pc \notin Down, Keeps(fileDur, None, acked.new),
         jrnl' = None, jrnlDur' = jrnlDur \cup {None}, UNCHANGED <<file, fileDur, acked>>
  PROVE  DiskTyped' /\ AckedTyped' /\ Protected'
<1>1. DiskTyped /\ AckedTyped /\ Protected
  BY DEF Inv
<1>2. DiskTyped'
  BY <1>1 DEF DiskTyped, IsJournal
<1>3. AckedTyped'
  BY <1>1 DEF AckedTyped
<1>4. Protected'
  BY <1>1, NoneIsCold DEF Protected
<1> QED BY <1>2, <1>3, <1>4

LEMMA RollbackDeleteKeeps ==
  ASSUME Inv, RollbackDelete
  PROVE  Inv'
<1>1. /\ pc = "rbDelete" /\ pc' = "clear" /\ jrnl' = None /\ jrnlDur' = jrnlDur \cup {None}
      /\ UNCHANGED <<hdr, cache, before, journalled, barrier, own, file, fileDur, pos, acked>>
  BY DEF RollbackDelete, memVars, txnVars, bounds
<1>2. Typed /\ Sizes /\ Untouched
  BY DEF Inv
<1>3. DiskTyped' /\ AckedTyped' /\ Protected'
  BY <1>1, RestoredNeedsNoJournal, JournalDeleted DEF Down
<1>4. Typed'
  BY <1>1, <1>2 DEF Typed, Undoing
<1>5. JournalPhase' /\ PutBack'
  BY <1>1 DEF JournalPhase, PutBack, Writing, Undoing, Replaying
<1>6. Sizes' /\ Untouched'
  BY <1>1, <1>2 DEF Sizes, Untouched, Changed, Writing, Undoing
<1>7. CleanMatches' /\ Stamped' /\ ViewChain' /\ ColdCache' /\ HeaderExact'
  BY <1>1 DEF CleanMatches, Stamped, ViewChain, ColdCache, HeaderExact, Writing, Replaying, Down
<1> QED BY <1>3, <1>4, <1>5, <1>6, <1>7 DEF Inv

(* Without a hot journal the file is the committed state. *)
LEMMA FileIsDatabase ==
  ASSUME NEW S, IsDatabase(S), NEW f, NEW fd, NEW j, ~Hot(j), Keeps(fd, j, S),
         \A p \in PageId : f[p] \in fd[p], f[1] \in Page
  PROVE  f[1] = S[1] /\ \A p \in 1..Count(S) : Read(f, p) = S[p]
<1>1. 1..Count(S) \subseteq PageId /\ 1 \in 1..Count(S)
  BY DatabaseSize
<1>2. \A p \in 1..Count(S) : Read(f, p) = S[p]
  BY <1>1, KeepsCold DEF Read
<1>3. Shown(f[1]) = f[1]
  BY PageParts
<1> QED BY <1>1, <1>2, <1>3 DEF Read

(* The process takes up, or resumes, the committed state. *)
LEMMA ShowsCommitted ==
  ASSUME pc' = "idle", Typed', DiskTyped', AckedTyped', Protected', jrnl' = None,
         hdr' = file'[1].hdr,
         \A p \in 1..Count(acked'.new) :
           cache'[p] # None => ~cache'[p].dirty /\ cache'[p].data = Read(file', p)
  PROVE  Inv' /\ View' = acked'.new
<1> DEFINE S == acked'.new
<1>1. IsDatabase(S) /\ FreeChain(S) /\ Count(S) \in Nat
  BY DatabaseSize DEF AckedTyped
<1>2. file'[1] = S[1] /\ \A p \in 1..Count(S) : Read(file', p) = S[p]
  <2>1. Keeps(fileDur', jrnl', S) /\ ~Hot(jrnl')
    BY NoneIsCold DEF Protected, Down
  <2>2. (\A p \in PageId : file'[p] \in fileDur'[p]) /\ file'[1] \in Page
    BY PageIds DEF DiskTyped
  <2> HIDE DEF S
  <2> QED BY <1>1, <2>1, <2>2, FileIsDatabase
<1>3. hdr' = S[1].hdr /\ hdr'.count = Count(S)
  BY <1>2 DEF Count
<1>4. \A p \in 1..Count(S) : Cached(p)' = S[p]
  BY <1>2 DEF Cached
<1> HIDE DEF S
<1>5. View' = S
  BY <1>1, <1>3, <1>4, ViewOfDatabase
<1>6. ViewChain'
  BY <1>1, <1>5 DEF ViewChain
<1>7. Sizes'
  BY <1>1, <1>3 DEF Sizes, Writing, Undoing, S
<1>8. Untouched' /\ CleanMatches'
  BY <1>3 DEF Untouched, CleanMatches, Changed, S
<1>9. JournalPhase' /\ Stamped' /\ ColdCache' /\ PutBack'
  BY DEF JournalPhase, Stamped, ColdCache, PutBack, Writing, Undoing, Replaying, Down
<1>10. HeaderExact'
  BY <1>3 DEF HeaderExact, S
<1> QED BY <1>5, <1>6, <1>7, <1>8, <1>9, <1>10 DEF Inv, S

(* ROLLBACK shows the last committed state again. *)
LEMMA RollbackClearKeeps ==
  ASSUME Inv, RollbackClear
  PROVE  Inv' /\ View' = acked'.new
<1>1. /\ pc = "clear" /\ pc' = "idle" /\ hdr' = file[1].hdr /\ own' = FALSE
      /\ cache' = [p \in PageId |-> IF p \in journalled THEN None ELSE cache[p]]
      /\ UNCHANGED <<before, journalled, barrier, jrnl, jrnlDur, file, fileDur, pos, acked>>
  BY DEF RollbackClear, ReloadHeader, diskVars, bounds
<1>2. /\ Typed /\ DiskTyped /\ AckedTyped /\ JournalPhase /\ Untouched
      /\ 1..Count(acked.new) \subseteq PageId /\ 1 \in PageId
  BY DatabaseSize, PageIds DEF Inv, AckedTyped
<1>3. DiskTyped' /\ AckedTyped' /\ Protected'
  BY <1>1, SameDisk DEF Down
<1>4. jrnl' = None
  BY <1>1, <1>2 DEF JournalPhase
<1>5. Typed'
  <2>1. hdr' \in Header
    BY <1>1, <1>2 DEF DiskTyped
  <2>2. cache' \in [PageId -> PoolEntry \cup {None}] /\ \A p \in PageId : cache'[p] \in {None, cache[p]}
    BY <1>1, <1>2 DEF Typed
  <2> QED BY <1>1, <1>2, <2>1, <2>2 DEF Typed
<1>6. \A p \in 1..Count(acked'.new) :
        cache'[p] # None => ~cache'[p].dirty /\ cache'[p].data = Read(file', p)
  BY <1>1, <1>2 DEF Untouched, Changed, Undoing
<1> QED BY <1>1, <1>3, <1>4, <1>5, <1>6, ShowsCommitted

LEMMA RecoverDeleteKeeps ==
  ASSUME Inv, RecoverDelete
  PROVE  Inv' /\ View' = acked'.new
<1>1. /\ pc \in {"cold", "rcDelete"} /\ pc' = "idle" /\ hdr' = file[1].hdr
      /\ jrnl' = None /\ jrnlDur' = jrnlDur \cup {None}
      /\ UNCHANGED <<cache, before, journalled, barrier, own, file, fileDur, pos, acked>>
  BY DEF RecoverDelete, ReloadHeader, txnVars, bounds
<1>2. /\ Typed /\ DiskTyped /\ AckedTyped /\ JournalPhase /\ ColdCache
      /\ 1..Count(acked.new) \subseteq PageId /\ 1 \in PageId
  BY DatabaseSize, PageIds DEF Inv, AckedTyped
<1>3. Keeps(fileDur, None, acked.new) /\ pc \notin Down
  BY <1>1, <1>2, RestoredNeedsNoJournal DEF JournalPhase, Down
<1>4. DiskTyped' /\ AckedTyped' /\ Protected'
  BY <1>1, <1>3, JournalDeleted
<1>5. Typed'
  BY <1>1, <1>2 DEF Typed, DiskTyped
<1>6. \A p \in PageId : cache'[p] = None
  BY <1>1, <1>2 DEF ColdCache, Replaying
<1> QED BY <1>1, <1>2, <1>4, <1>5, <1>6, ShowsCommitted

-----------------------------------------------------------------------------
(* Crashes, power cuts and the next open. *)

LEMMA LostKeeps ==
  ASSUME Inv, Lost, DiskTyped', AckedTyped', Protected'
  PROVE  Inv'
<1>1. /\ pc' = "down" /\ cache' = [p \in PageId |-> None] /\ hdr' = hdr /\ pos' = 1
      /\ before' = 1 /\ journalled' = {} /\ barrier' = FALSE /\ own' = FALSE
  BY DEF Lost
<1>2. Typed'
  <2>1. cache' \in [PageId -> PoolEntry \cup {None}] /\ cache'[1] = None
    BY <1>1, PageIds
  <2>2. hdr' \in Header /\ before' \in PageId
    BY <1>1, PageIds DEF Inv, Typed
  <2>3. pc' \in Down /\ pos' \in Nat \ {0}
    BY <1>1 DEF Down
  <2> QED BY <1>1, <2>1, <2>2, <2>3 DEF Typed
<1>3. ColdCache'
  BY <1>1 DEF ColdCache
<1>4. /\ JournalPhase' /\ Sizes' /\ Untouched' /\ CleanMatches' /\ Stamped' /\ ViewChain'
      /\ PutBack' /\ HeaderExact'
  BY <1>1 DEF JournalPhase, Sizes, Untouched, CleanMatches, Stamped, ViewChain, PutBack, HeaderExact,
              Writing, Undoing, Replaying
<1> QED BY <1>2, <1>3, <1>4 DEF Inv

LEMMA CrashKeeps ==
  ASSUME Inv, Crash
  PROVE  Inv'
<1>1. Lost /\ pc' \in Down /\ UNCHANGED <<jrnl, jrnlDur, file, fileDur, acked>>
  BY DEF Crash, Lost, diskVars, Down
<1>2. DiskTyped' /\ AckedTyped' /\ Protected'
  BY <1>1, SameDisk
<1> QED BY <1>1, <1>2, LostKeeps

LEMMA PowerCutKeeps ==
  ASSUME Inv, PowerCut
  PROVE  Inv'
<1>1. Lost /\ pc' \in Down /\ acked' = acked
  BY DEF PowerCut, Lost, Down
<1>2. PICK f : /\ f \in [PageId -> UNION {fileDur[p] : p \in PageId}]
               /\ \A p \in PageId : f[p] \in fileDur[p]
               /\ file' = f /\ fileDur' = [p \in PageId |-> {f[p]}]
  BY DEF PowerCut
<1>3. PICK j \in jrnlDur : jrnl' = j /\ jrnlDur' = {j}
  BY DEF PowerCut
<1>4. /\ DiskTyped /\ AckedTyped /\ Protected
      /\ 1..Count(acked.new) \subseteq PageId /\ 1..Count(acked.old) \subseteq PageId
  BY DatabaseSize DEF Inv, AckedTyped
<1>5. f \in [PageId -> Versions]
  <2>1. \A p \in PageId : fileDur[p] \subseteq Versions
    BY <1>4 DEF DiskTyped
  <2>2. f = [p \in PageId |-> f[p]]
    BY <1>2
  <2> QED BY <1>2, <2>1, <2>2
<1>6. \A p \in PageId : fileDur'[p] = {f[p]} /\ fileDur'[p] \subseteq fileDur[p]
  BY <1>2
<1>7. DiskTyped'
  <2>1. fileDur' \in [PageId -> SUBSET Versions]
    BY <1>2, <1>5
  <2> QED BY <1>2, <1>3, <1>4, <1>5, <1>6, <2>1, PageIds DEF DiskTyped
<1>8. AckedTyped'
  BY <1>1, <1>4 DEF AckedTyped
<1>9. Protected'
  <2>1. ASSUME NEW S, 1..Count(S) \subseteq PageId, Keeps(fileDur, j, S) PROVE Keeps(fileDur', j, S)
    <3>1. \A q \in 1..Count(S) : fileDur'[q] \subseteq fileDur[q]
      BY <1>6, <2>1
    <3> QED BY <2>1, <3>1, KeepsStep
  <2>2. Keeps(fileDur', j, acked.old) \/ Keeps(fileDur', j, acked.new)
    BY <1>4, <2>1 DEF Protected
  <2> QED BY <1>1, <1>3, <2>2 DEF Protected
<1> QED BY <1>1, <1>7, <1>8, <1>9, LostKeeps

(* The next process finds the last committed state, or, if a journal that was
   deleted has come back, the one before. *)
LEMMA StableIs ==
  ASSUME Inv, NEW S, IsDatabase(S), Keeps(fileDur, jrnl, S)
  PROVE  Stable = S
<1>1. /\ IsJournal(jrnl) /\ file \in [PageId -> Versions] /\ \A p \in PageId : file[p] \in fileDur[p]
  BY DEF Inv, DiskTyped
<1>2. StableOf(Recovered(file, jrnl)) = S
  BY <1>1, KeepsRecovers
<1> QED BY <1>2 DEF Stable

LEMMA StableIsCommitted ==
  ASSUME Inv
  PROVE  Stable \in {acked.old, acked.new} /\ (pc \notin Down => Stable = acked.new)
<1>1. AckedTyped /\ Protected
  BY DEF Inv
<1>2. Keeps(fileDur, jrnl, acked.new) => Stable = acked.new
  BY <1>1, StableIs DEF AckedTyped
<1>3. Keeps(fileDur, jrnl, acked.old) => Stable = acked.old
  BY <1>1, StableIs DEF AckedTyped
<1> QED BY <1>1, <1>2, <1>3 DEF Protected

LEMMA OpenKeeps ==
  ASSUME Inv, Open
  PROVE  Inv' /\ (pc' = "idle" => View' = acked'.new)
<1>1. /\ pc = "down" /\ hdr' = file[1].hdr
      /\ pc' = IF jrnl = None THEN "idle" ELSE IF Hot(jrnl) THEN "recover" ELSE "cold"
      /\ acked' = [old |-> acked.old, new |-> Stable]
      /\ UNCHANGED <<cache, before, journalled, barrier, own, jrnl, jrnlDur, file, fileDur, pos>>
  BY DEF Open, ReloadHeader, txnVars, diskVars
<1>2. /\ Typed /\ DiskTyped /\ AckedTyped /\ Protected /\ ColdCache /\ pos = 1 /\ 1 \in PageId
  BY <1>1, PageIds DEF Inv, Typed
<1>3. acked'.old = acked.old /\ acked'.new = Stable
  BY <1>1
<1>4. DiskTyped'
  BY <1>1, <1>2 DEF DiskTyped
<1>5. \/ Stable = acked.new /\ Keeps(fileDur, jrnl, acked.new)
      \/ Stable = acked.old /\ Keeps(fileDur, jrnl, acked.old) /\ jrnlDur = {jrnl}
  <2>1. Keeps(fileDur, jrnl, acked.new) => Stable = acked.new
    BY <1>2, StableIs DEF AckedTyped
  <2>2. Keeps(fileDur, jrnl, acked.old) => Stable = acked.old
    BY <1>2, StableIs DEF AckedTyped
  <2> QED BY <1>2, <2>1, <2>2 DEF Protected
<1>6. AckedTyped' /\ Protected'
  <2>1. CASE Stable = acked.new /\ Keeps(fileDur, jrnl, acked.new)
    <3>1. acked'.new = acked.new
      BY <1>3, <2>1
    <3>2. AckedTyped'
      BY <1>2, <1>3, <3>1 DEF AckedTyped
    <3>3. Protected'
      BY <1>1, <1>2, <1>3, <2>1, <3>1 DEF Protected
    <3> QED BY <3>2, <3>3
  <2>2. CASE Stable = acked.old /\ Keeps(fileDur, jrnl, acked.old) /\ jrnlDur = {jrnl}
    <3>1. acked'.new = acked.old
      BY <1>3, <2>2
    <3>2. AckedTyped'
      <4>1. Count(acked.old) <= Count(acked.old)
        BY <1>2, DatabaseSize DEF AckedTyped
      <4> QED BY <1>2, <1>3, <3>1, <4>1 DEF AckedTyped
    <3>3. Protected'
      BY <1>1, <1>3, <2>2, <3>1 DEF Protected
    <3> QED BY <3>2, <3>3
  <2> QED BY <1>5, <2>1, <2>2
<1>7. Typed'
  BY <1>1, <1>2 DEF Typed, DiskTyped, Replaying
<1>8. \A p \in PageId : cache'[p] = None
  BY <1>1, <1>2 DEF ColdCache, Down
<1>9. CASE jrnl = None
  <2>1. pc' = "idle" /\ jrnl' = None /\ hdr' = file'[1].hdr
    BY <1>1, <1>9
  <2>2. 1..Count(acked'.new) \subseteq PageId
    BY <1>6, DatabaseSize DEF AckedTyped
  <2> QED BY <1>4, <1>6, <1>7, <1>8, <2>1, <2>2, ShowsCommitted
<1>10. CASE jrnl # None
  <2>1. /\ pc' = "recover" => Hot(jrnl')
        /\ pc' = "cold" => jrnl' # None /\ ~Hot(jrnl')
        /\ pc' \in {"recover", "cold"}
    BY <1>1, <1>10
  <2>2. JournalPhase' /\ ColdCache'
    BY <1>8, <2>1 DEF JournalPhase, ColdCache, Writing, Undoing, Replaying
  <2>3. PutBack'
    BY <1>1, <1>2, <2>1 DEF PutBack, Undoing, Replaying
  <2>4. Sizes' /\ Untouched' /\ CleanMatches' /\ Stamped' /\ ViewChain' /\ HeaderExact'
    BY <2>1 DEF Sizes, Untouched, CleanMatches, Stamped, ViewChain, HeaderExact, Writing, Undoing
  <2> QED BY <1>4, <1>6, <1>7, <2>1, <2>2, <2>3, <2>4 DEF Inv
<1> QED BY <1>9, <1>10

-----------------------------------------------------------------------------
(* The invariant. *)

LEMMA SmallFileFacts ==
  /\ SmallFile \in [PageId -> Versions] /\ SmallFile[1] \in Page /\ SmallFile[1].hdr \in Header
  /\ SmallFile[1].hdr.count = 2 /\ SmallFile[1].hdr.free = 0
  /\ IsDatabase(StableOf(SmallFile)) /\ Count(StableOf(SmallFile)) = 2
  /\ \A p \in 1..2 : Read(SmallFile, p) = StableOf(SmallFile)[p]
  /\ StableOf(SmallFile)[1].hdr = SmallFile[1].hdr
<1> DEFINE n == 2
           z == 0
           h == HeaderOf(n, z, z)
           d == PageOf(h, z)
<1>1. n \in PageId /\ z \in 0..MaxPages /\ z \in Word
  BY PageIds, Words
<1>2. /\ SmallFile = [p \in PageId |-> CASE p = 1 -> d [] p = 2 -> ZeroPage [] OTHER -> None]
      /\ n = 2 /\ z = 0
  BY DEF SmallFile
<1> HIDE DEF n, z
<1>3. h \in Header /\ h.count = n /\ h.free = z
  BY <1>1, HeaderFields
<1> HIDE DEF h
<1>4. d \in Page /\ d.hdr = h /\ d.word = z
  BY <1>1, <1>3, PageFields
<1>5. d = PageOf(h, z)
  OBVIOUS
<1> HIDE DEF d
<1>6. /\ SmallFile \in [PageId -> Versions] /\ SmallFile[1] = d /\ SmallFile[2] = ZeroPage
  BY <1>2, <1>4, PageIds, ZeroFacts DEF Versions
<1> DEFINE pages == [p \in PageId |-> Read(SmallFile, p)]
<1>7. pages \in [PageId -> Page] /\ pages[1] = d /\ pages[2] = ZeroPage
      /\ Read(SmallFile, 1) = d /\ Read(SmallFile, 2) = ZeroPage
  <2>1. \A p \in PageId : Read(SmallFile, p) \in Page
    BY <1>6, ShownPage DEF Read
  <2>2. Read(SmallFile, 1) = d /\ Read(SmallFile, 2) = ZeroPage
    BY <1>4, <1>6, ZeroFacts, PageParts DEF Read
  <2> QED BY <2>1, <2>2, PageIds
<1>8. StableOf(SmallFile) = Contents(h, pages)
  BY <1>4, <1>6 DEF StableOf
<1> HIDE DEF pages
<1>9. /\ IsDatabase(StableOf(SmallFile)) /\ Count(StableOf(SmallFile)) = 2
      /\ StableOf(SmallFile)[1] = d /\ StableOf(SmallFile)[2] = ZeroPage
  <2>1. /\ IsDatabase(Contents(h, pages)) /\ Count(Contents(h, pages)) = h.count
        /\ Contents(h, pages)[1] = PageOf(h, pages[1].word)
        /\ \A p \in 2..h.count : Contents(h, pages)[p] = pages[p]
    BY <1>3, <1>7, ContentsFacts
  <2>2. 2 \in 2..h.count
    BY <1>2, <1>3
  <2> QED BY <1>2, <1>3, <1>4, <1>5, <1>7, <1>8, <2>1, <2>2
<1>10. \A p \in 1..2 : p = 1 \/ p = 2
  OBVIOUS
<1> QED BY <1>2, <1>3, <1>4, <1>6, <1>7, <1>9, <1>10

LEMMA InitInv == Init => Inv
<1> SUFFICES ASSUME Init PROVE Inv
  OBVIOUS
<1> DEFINE S == StableOf(SmallFile)
<1>1. /\ pc = "idle" /\ file = SmallFile /\ fileDur = [p \in PageId |-> {SmallFile[p]}]
      /\ hdr = SmallFile[1].hdr /\ cache = [p \in PageId |-> None]
      /\ jrnl = None /\ jrnlDur = {None} /\ before = 2 /\ journalled = {} /\ barrier = FALSE /\ own = FALSE
      /\ pos = 1 /\ acked = [old |-> Stable, new |-> Stable]
  BY DEF Init
<1>2. Stable = S
  BY <1>1, NoneIsCold DEF Stable, Recovered
<1>3. acked.old = S /\ acked.new = S
  BY <1>1, <1>2
<1>4. /\ SmallFile \in [PageId -> Versions] /\ SmallFile[1] \in Page /\ SmallFile[1].hdr \in Header
      /\ SmallFile[1].hdr.count = 2 /\ SmallFile[1].hdr.free = 0
      /\ IsDatabase(S) /\ Count(S) = 2
      /\ \A p \in 1..2 : Read(SmallFile, p) = S[p]
      /\ S[1].hdr = SmallFile[1].hdr /\ 1 \in PageId /\ 2 \in PageId /\ 1..2 \subseteq PageId
  BY SmallFileFacts, PageIds
<1> HIDE DEF S
<1>5. Typed
  <2>1. cache \in [PageId -> PoolEntry \cup {None}] /\ cache[1] = None
    BY <1>1, <1>4
  <2>2. pc # "down" /\ pos \in Nat \ {0}
    BY <1>1
  <2> QED BY <1>1, <1>4, <2>1, <2>2 DEF Typed
<1>6. DiskTyped
  <2>1. \A p \in PageId : fileDur[p] = {SmallFile[p]}
    BY <1>1
  <2>2. fileDur \in [PageId -> SUBSET Versions]
    BY <1>1, <1>4
  <2> QED BY <1>1, <1>4, <2>1, <2>2 DEF DiskTyped, IsJournal
<1>7. FreeChain(S)
  <2>1. IsChain(S, S[1].hdr, [i \in 1..0 |-> 2])
    BY <1>4 DEF IsChain
  <2> QED BY <2>1 DEF FreeChain
<1>8. AckedTyped
  BY <1>3, <1>4, <1>7 DEF AckedTyped
<1>9. Protected
  <2>1. \A p \in 1..Count(S) : \A d \in fileDur[p] : Shown(d) = S[p]
    BY <1>1, <1>4 DEF Read
  <2>2. Keeps(fileDur, None, S)
    BY <2>1, NoneIsCold, KeepsCold
  <2> QED BY <1>1, <1>3, <2>2 DEF Protected
<1>10. JournalPhase /\ Stamped /\ ColdCache /\ PutBack
  BY <1>1 DEF JournalPhase, Stamped, ColdCache, PutBack, Writing, Undoing, Replaying, Down
<1>11. Sizes /\ HeaderExact
  BY <1>1, <1>3, <1>4 DEF Sizes, HeaderExact, Writing, Undoing
<1>12. Untouched /\ CleanMatches
  <2>1. \A p \in 1..2 : cache[p] = None
    BY <1>1, <1>4
  <2> QED BY <1>1, <1>3, <1>4, <2>1 DEF Untouched, CleanMatches
<1>13. ViewChain
  <2>1. View[1].hdr = hdr
    BY <1>5, <1>6, ViewFacts
  <2>2. IsChain(View, hdr, [i \in 1..0 |-> 2])
    BY <1>1, <1>4 DEF IsChain
  <2> QED BY <2>1, <2>2 DEF ViewChain, FreeChain
<1> QED BY <1>5, <1>6, <1>8, <1>9, <1>10, <1>11, <1>12, <1>13 DEF Inv

(* Neither doing nothing nor using a page again changes what Inv is about. *)
LEMMA StutterKeeps ==
  ASSUME Inv, UNCHANGED vars \/ \E p \in PageId : Touch(p)
  PROVE  Inv'
<1>1. UNCHANGED <<pc, hdr, cache, before, journalled, barrier, own, jrnl, jrnlDur, file, fileDur, pos, acked>>
  BY DEF vars, Touch, memVars, txnVars, diskVars, bounds
<1>2. /\ Typed /\ DiskTyped /\ AckedTyped /\ Protected /\ JournalPhase /\ Sizes
      /\ Untouched /\ CleanMatches /\ Stamped /\ ViewChain /\ ColdCache /\ PutBack /\ HeaderExact
  BY DEF Inv
<1>3. Typed' /\ DiskTyped' /\ AckedTyped'
  BY <1>1, <1>2 DEF Typed, DiskTyped, AckedTyped
<1>4. Protected' /\ Sizes' /\ CleanMatches' /\ ColdCache' /\ HeaderExact'
  BY <1>1, <1>2 DEF Protected, Sizes, CleanMatches, ColdCache, HeaderExact
<1>5. JournalPhase'
  <2>1. OwnJournal => OwnJournal'
    BY <1>1 DEF OwnJournal
  <2> QED BY <1>1, <1>2, <2>1 DEF JournalPhase
<1>6. Untouched' /\ PutBack'
  BY <1>1, <1>2 DEF Untouched, Changed, PutBack, Synced
<1>7. Stamped' /\ ViewChain'
  BY <1>1, <1>2 DEF Stamped, ViewChain, View, Cached, Dirty
<1> QED BY <1>3, <1>4, <1>5, <1>6, <1>7 DEF Inv

LEMMA UndoKeeps ==
  ASSUME Inv
  PROVE  /\ Undo("replay", "truncate", "rbSync", "rbDelete", before) => Inv'
         /\ Undo("recover", "rcTruncate", "rcSync", "rcDelete", jrnl.count) => Inv'
<1>1. ASSUME NEW from, NEW mid, NEW sync, NEW to, NEW n, Undo(from, mid, sync, to, n),
             \/ /\ from = "replay" /\ mid = "truncate" /\ sync = "rbSync" /\ to = "rbDelete"
                /\ n = before
             \/ /\ from = "recover" /\ mid = "rcTruncate" /\ sync = "rcSync" /\ to = "rcDelete"
                /\ n = jrnl.count
      PROVE  Inv'
  <2>1. CASE ReplayRecord(from)
    BY <1>1, <2>1, ReplayRecordKeeps
  <2>2. CASE ReplayDone(from, mid)
    BY <1>1, <2>2, ReplayDoneKeeps
  <2>3. CASE TruncateFile(mid, sync, n)
    BY <1>1, <2>3, TruncateFileKeeps
  <2>4. CASE SyncRestored(sync, to)
    BY <1>1, <2>4, SyncRestoredKeeps
  <2> QED BY <1>1, <2>1, <2>2, <2>3, <2>4 DEF Undo
<1> QED BY <1>1

LEMMA NextKeeps == Inv /\ [Next]_vars => Inv'
<1> SUFFICES ASSUME Inv, [Next]_vars PROVE Inv'
  OBVIOUS
<1>1. CASE BeginWrite
  BY <1>1, BeginWriteKeeps
<1>2. CASE Statement
  BY <1>2, ModifyKeeps, AllocateFreeKeeps, AllocateGrowKeeps, FreePageKeeps DEF Statement
<1>3. CASE CommitStep
  BY <1>3, EndWithoutJournalKeeps, StampHeaderKeeps, SyncJournalBodyKeeps, StampJournalKeeps,
     SyncJournalMagicKeeps, FlushPageKeeps, FlushOutOfRangeKeeps, FlushDoneKeeps, SyncFileKeeps,
     DeleteJournalKeeps DEF CommitStep
<1>4. CASE CommitFails
  BY <1>4, CommitFailsKeeps
<1>5. CASE RollbackStep
  BY <1>5, RollbackStartKeeps, UndoKeeps, RollbackDeleteKeeps, RollbackClearKeeps DEF RollbackStep
<1>6. CASE PoolStep
  BY <1>6, LoadKeeps, StutterKeeps, EvictCleanKeeps, EvictDirtyKeeps DEF PoolStep
<1>7. CASE Crash
  BY <1>7, CrashKeeps
<1>8. CASE PowerCut
  BY <1>8, PowerCutKeeps
<1>9. CASE Recovery
  BY <1>9, OpenKeeps, OpenCorruptKeeps, UndoKeeps, RecoverDeleteKeeps DEF Recovery
<1>10. CASE UNCHANGED vars
  BY <1>10, StutterKeeps
<1> QED BY <1>1, <1>2, <1>3, <1>4, <1>5, <1>6, <1>7, <1>8, <1>9, <1>10 DEF Next

(* The journal protects the committed state, the pool agrees with the file and
   the freelist is a list, in every state that commits, failures, rollbacks,
   crashes and power cuts can reach. *)
THEOREM JournalInvariant == Spec => []Inv
<1>1. Init => Inv
  BY InitInv
<1>2. Inv /\ [Next]_vars => Inv'
  BY NextKeeps
<1> QED BY <1>1, <1>2, PTL DEF Spec

(* What is behind page 1 in LRU order are pages; used is a truth value. *)
RecentTyped == recent \in SUBSET PageId /\ used \in BOOLEAN

LEMMA RecentStaysTyped == Spec => []RecentTyped
<1>1. Init => RecentTyped
  BY DEF Init, RecentTyped
<1>2. RecentTyped /\ [Next]_vars => RecentTyped'
  <2> SUFFICES ASSUME RecentTyped, [Next]_vars PROVE RecentTyped'
    OBVIOUS
  <2>1. CASE BeginWrite \/ Statement
    BY <2>1 DEF BeginWrite, Statement, Modify, AllocateFree, AllocateGrow, FreePage, RecentTyped
  <2>2. CASE CommitStep \/ CommitFails
    BY <2>2 DEF CommitStep, CommitFails, EndWithoutJournal, StampHeader, SyncJournalBody, StampJournal,
                SyncJournalMagic, FlushPage, FlushOutOfRange, FlushDone, SyncFile, DeleteJournal,
                RecentTyped
  <2>3. CASE RollbackStep
    BY <2>3 DEF RollbackStep, RollbackStart, RollbackDelete, RollbackClear, Undo, ReplayRecord,
                ReplayDone, TruncateFile, SyncRestored, RecentTyped
  <2>4. CASE Recovery
    BY <2>4 DEF Recovery, Undo, ReplayRecord, ReplayDone, TruncateFile, SyncRestored, Open,
                OpenCorrupt, RecoverDelete, RecentTyped
  <2>5. CASE PoolStep
    BY <2>5 DEF PoolStep, Load, Touch, EvictClean, EvictDirty, RecentTyped
  <2>6. CASE Crash \/ PowerCut
    BY <2>6 DEF Crash, PowerCut, Lost, RecentTyped
  <2>7. CASE UNCHANGED vars
    BY <2>7 DEF vars, RecentTyped
  <2> QED BY <2>1, <2>2, <2>3, <2>4, <2>5, <2>6, <2>7 DEF Next
<1> QED BY <1>1, <1>2, PTL DEF Spec

(* Every variable keeps its type: no page operation leaves the file's bounds
   and no journal claims more records than it has. *)
THEOREM JournalTypes == Spec => []TypeOK
<1>1. Inv /\ RecentTyped => TypeOK
  <2> SUFFICES ASSUME Inv, RecentTyped PROVE TypeOK
    OBVIOUS
  <2>1. Typed /\ DiskTyped /\ 1 \in PageId
    BY PageIds DEF Inv
  <2>2. pc \in Running \cup {"down", "corrupt", "cold", "recover", "rcTruncate", "rcSync", "rcDelete"}
    BY <2>1 DEF Typed, Running, Writing, Undoing, Replaying, Down
  <2>3. \A p \in PageId : cache[p] # None => cache[p].data \in Page /\ cache[p].dirty \in BOOLEAN
    BY <2>1, EntryParts DEF Typed
  <2>4. jrnl # None => jrnl \in JournalFile /\ jrnl.nrec <= Len(jrnl.recs)
    BY <2>1, JournalParts DEF DiskTyped
  <2>5. file[1] # None
    BY <2>1, PageParts DEF DiskTyped
  <2> QED BY <2>1, <2>2, <2>3, <2>4, <2>5 DEF TypeOK, Typed, DiskTyped, RecentTyped
<1> QED BY <1>1, JournalInvariant, RecentStaysTyped, PTL

(* Whatever survives a power cut at any step, recovering it gives one of the
   last two committed states. *)
THEOREM JournalPowerCutAtomic == Spec => []PowerCutAtomic
<1>1. Inv => PowerCutAtomic
  BY StableIsCommitted DEF PowerCutAtomic
<1> QED BY <1>1, JournalInvariant, PTL

-----------------------------------------------------------------------------
(* The write path implements the atomic store. *)

(* As long as only the process dies, the last commit is what is recovered. *)
Durable == ~PowerCuts => Stable = acked.new

StableWhileUp == pc \notin Down => Stable = acked.new

LEMMA StableNext == Inv' => StableWhileUp'
<1>1. Inv => StableWhileUp
  BY StableIsCommitted DEF StableWhileUp
<1> QED BY <1>1, PTL

(* Between transactions the process shows the last commit, or that and pages
   by which the file has grown. *)
IdleShows ==
  pc = "idle" =>
    /\ hdr.count = Count(acked.new) => View = acked.new
    /\ hdr.count # Count(acked.new) =>
         /\ hdr.count > Count(acked.new)
         /\ \A p \in 2..Count(acked.new) : View[p] = acked.new[p]

LEMMA IdleIsCommitted == Inv => IdleShows
<1> SUFFICES ASSUME Inv, pc = "idle"
             PROVE  /\ hdr.count = Count(acked.new) => View = acked.new
                    /\ hdr.count # Count(acked.new) =>
                         /\ hdr.count > Count(acked.new)
                         /\ \A p \in 2..Count(acked.new) : View[p] = acked.new[p]
  BY DEF IdleShows
<1> DEFINE S == acked.new
<1>1. /\ Typed /\ DiskTyped /\ IsDatabase(S) /\ Untouched /\ Count(S) \in Nat
      /\ 1 \in 1..Count(S) /\ S[1] \in Page /\ Count(S) <= hdr.count /\ hdr.count \in Nat
  BY DatabaseSize, HeaderParts, PageIds DEF Inv, AckedTyped, Typed, Sizes
<1>2. \A p \in 1..Count(S) : Read(file, p) = S[p]
  BY FileIsCommitted
<1>3. \A p \in 1..Count(S) : Cached(p) = S[p]
  BY <1>1, <1>2 DEF Untouched, Changed, Cached
<1>4. hdr.count = Count(S) => hdr = S[1].hdr
  BY DEF Inv, HeaderExact
<1> HIDE DEF S
<1>5. /\ IsDatabase(View) /\ Count(View) = hdr.count /\ View[1] = PageOf(hdr, Cached(1).word)
      /\ \A p \in 2..hdr.count : View[p] = Cached(p)
  BY <1>1, ViewFacts DEF Count
<1>6. \A p \in 2..Count(S) : View[p] = S[p]
  <2>1. \A p \in 2..Count(S) : p \in 1..Count(S) /\ p \in 2..hdr.count
    BY <1>1
  <2> QED BY <1>3, <1>5, <2>1
<1>7. CASE hdr.count = Count(S)
  <2>1. View[1] = S[1]
    BY <1>1, <1>3, <1>4, <1>5, <1>7, PageParts
  <2>2. \A p \in 1..Count(S) : p = 1 \/ p \in 2..Count(S)
    BY <1>1
  <2>3. \A p \in 1..Count(S) : View[p] = S[p]
    BY <1>6, <2>1, <2>2
  <2>4. View = S
    BY <1>1, <1>5, <1>7, <2>3, SameDatabase
  <2> QED BY <1>7, <2>4 DEF S
<1>8. CASE hdr.count # Count(S)
  <2>1. hdr.count > Count(S)
    BY <1>1, <1>8
  <2> QED BY <1>6, <1>8, <2>1 DEF S
<1> QED BY <1>7, <1>8

LEMMA IdleNext == Inv' => IdleShows'
<1>1. Inv => IdleShows
  BY IdleIsCommitted
<1> QED BY <1>1, PTL

(* What the process shows is a sequence of pages. *)
Shapes == Stable \in {acked.old, acked.new} /\ View \in Seq(Page) /\ acked.new \in Seq(Page)

LEMMA ShapesHold == Inv => Shapes
<1> SUFFICES ASSUME Inv PROVE Shapes
  OBVIOUS
<1>1. ASSUME NEW S, IsDatabase(S) PROVE S \in Seq(Page)
  <2> DEFINE n == Count(S)
  <2>1. n \in Nat /\ S \in [1..n -> Page]
    BY <1>1, DatabaseSize DEF IsDatabase
  <2> HIDE DEF n
  <2> QED BY <2>1
<1>2. IsDatabase(View) /\ IsDatabase(acked.new)
  BY ViewFacts DEF Inv, AckedTyped
<1> QED BY <1>1, <1>2, StableIsCommitted DEF Shapes

LEMMA ShapesNext == Inv' => Shapes'
<1>1. Inv => Shapes
  BY ShapesHold
<1> QED BY <1>1, PTL

(* Only the commit point, and opening the file, set what is committed. *)
LEMMA CommittedChanges ==
  ASSUME [Next]_vars
  PROVE  acked' = acked \/ DeleteJournal \/ Open
<1>1. CASE BeginWrite \/ Statement
  BY <1>1 DEF BeginWrite, Statement, Modify, AllocateFree, AllocateGrow, FreePage, bounds
<1>2. CASE CommitStep \/ CommitFails
  BY <1>2 DEF CommitStep, CommitFails, EndWithoutJournal, StampHeader, SyncJournalBody, StampJournal,
              SyncJournalMagic, FlushPage, FlushOutOfRange, FlushDone, SyncFile, bounds
<1>3. CASE RollbackStep \/ Recovery
  BY <1>3 DEF RollbackStep, Recovery, RollbackStart, RollbackDelete, RollbackClear, Undo, ReplayRecord,
              ReplayDone, TruncateFile, SyncRestored, OpenCorrupt, RecoverDelete, bounds
<1>4. CASE PoolStep \/ Crash \/ PowerCut
  BY <1>4 DEF PoolStep, Load, Touch, EvictClean, EvictDirty, Crash, PowerCut, bounds
<1>5. CASE UNCHANGED vars
  BY <1>5 DEF vars, bounds
<1> QED BY <1>1, <1>2, <1>3, <1>4, <1>5 DEF Next

(* Nothing but BeginWrite starts a transaction. *)
LEMMA TransactionStarts ==
  ASSUME [Next]_vars, ~Active
  PROVE  ~Active' \/ BeginWrite
<1>1. pc \notin Running \ {"idle"}
  BY DEF Active
<1>2. CASE Statement
  BY <1>1, <1>2 DEF Statement, Modify, AllocateFree, AllocateGrow, FreePage, Op, Running
<1>3. CASE CommitStep \/ CommitFails
  BY <1>1, <1>3 DEF CommitStep, CommitFails, EndWithoutJournal, StampHeader, SyncJournalBody, StampJournal,
              SyncJournalMagic, FlushPage, FlushOutOfRange, FlushDone, SyncFile, DeleteJournal, Running
<1>4. CASE RollbackStep
  BY <1>1, <1>4 DEF RollbackStep, RollbackStart, RollbackDelete, RollbackClear, Undo, ReplayRecord,
              ReplayDone, TruncateFile, SyncRestored, Running
<1>5. CASE Recovery
  <2>1. pc' \in {"idle", "corrupt", "cold", "recover", "rcTruncate", "rcSync", "rcDelete"}
    BY <1>5 DEF Recovery, Open, OpenCorrupt, RecoverDelete, Undo, ReplayRecord, ReplayDone,
                TruncateFile, SyncRestored
  <2> QED BY <2>1 DEF Active, Running
<1>6. CASE PoolStep
  BY <1>1, <1>6 DEF PoolStep, Load, Touch, EvictClean, EvictDirty, Active, Running
<1>7. CASE Crash \/ PowerCut
  BY <1>7 DEF Crash, PowerCut, Lost, Active, Running
<1>8. CASE UNCHANGED vars
  BY <1>1, <1>8 DEF vars, Active
<1> QED BY <1>2, <1>3, <1>4, <1>5, <1>6, <1>7, <1>8 DEF Next

(* A dead process stays dead, or dies, without a power cut: the disk is as it was. *)
LEMMA DownKeepsDisk ==
  ASSUME [Next]_vars, pc' \in Down, ~PowerCuts
  PROVE  UNCHANGED <<jrnl, file, acked>>
<1>1. CASE BeginWrite \/ Statement
  BY <1>1 DEF BeginWrite, Statement, Modify, AllocateFree, AllocateGrow, FreePage, Op, Down
<1>2. CASE CommitStep \/ CommitFails
  BY <1>2 DEF CommitStep, CommitFails, EndWithoutJournal, StampHeader, SyncJournalBody, StampJournal,
              SyncJournalMagic, FlushPage, FlushOutOfRange, FlushDone, SyncFile, DeleteJournal, Down
<1>3. CASE RollbackStep
  BY <1>3 DEF RollbackStep, RollbackStart, RollbackDelete, RollbackClear, Undo, ReplayRecord,
              ReplayDone, TruncateFile, SyncRestored, Down
<1>4. CASE Recovery
  BY <1>4 DEF Recovery, Open, OpenCorrupt, RecoverDelete, Undo, ReplayRecord, ReplayDone,
              TruncateFile, SyncRestored, Down, diskVars, bounds
<1>5. CASE PoolStep
  BY <1>5 DEF PoolStep, Load, Touch, EvictClean, EvictDirty, Down, Running
<1>6. CASE Crash
  BY <1>6 DEF Crash, diskVars
<1>7. CASE UNCHANGED vars
  BY <1>7 DEF vars, diskVars, bounds
<1> QED BY <1>1, <1>2, <1>3, <1>4, <1>5, <1>6, <1>7 DEF Next, PowerCut

(* As long as only the process crashes, at any step and any number of times,
   recovery finds exactly the last committed state. *)
THEOREM JournalDurable == Spec => []Durable
<1>1. Init => Durable
  BY DEF Init, Durable
<1>2. Durable /\ Inv' /\ [Next]_vars => Durable'
  <2> SUFFICES ASSUME Durable, Inv', [Next]_vars, ~PowerCuts PROVE Stable' = acked'.new
    BY DEF Durable
  <2>1. CASE pc' \notin Down
    BY <2>1, StableNext DEF StableWhileUp
  <2>2. CASE pc' \in Down
    BY <2>2, DownKeepsDisk DEF Durable, Stable
  <2> QED BY <2>1, <2>2
<1> QED BY <1>1, <1>2, JournalInvariant, PTL DEF Spec

LEMMA StoreStarts ==
  ASSUME Init, Inv, Durable, ~PowerCuts
  PROVE  Store!StoreInit
<1>1. pc = "idle" /\ hdr = SmallFile[1].hdr /\ acked.new = Stable /\ file = SmallFile /\ jrnl = None
  BY DEF Init
<1>2. hdr.count = Count(acked.new)
  <2>1. Recovered(file, jrnl) = SmallFile
    BY <1>1, NoneIsCold DEF Recovered
  <2>2. IsDatabase(StableOf(SmallFile)) /\ StableOf(SmallFile)[1].hdr = SmallFile[1].hdr
    BY SmallFileFacts
  <2> QED BY <1>1, <2>1, <2>2 DEF Stable, Count
<1>3. Stable = acked.new /\ View = acked.new /\ acked.new \in Seq(Page)
  BY <1>1, <1>2, IdleIsCommitted, ShapesHold DEF IdleShows, Shapes
<1> QED BY <1>1, <1>3 DEF Store!StoreInit, Active, Running

(* A step of the store, or one into or out of the state in which the file has
   grown. *)
StoreStep ==
  \/ Store!StoreNext
  \/ (LeftGrown \/ LeftGrown') /\ UNCHANGED Stable

LEMMA GrownIsLeft ==
  ASSUME IdleShows, pc = "idle", Stable = acked.new
  PROVE  View = Stable \/ LeftGrown
BY DEF IdleShows, LeftGrown, Count

LEMMA GrownIsLeftNext ==
  IdleShows' /\ (pc = "idle")' /\ (Stable = acked.new)' => (View = Stable)' \/ LeftGrown'
<1>1. IdleShows /\ pc = "idle" /\ Stable = acked.new => View = Stable \/ LeftGrown
  BY GrownIsLeft
<1> QED BY <1>1, PTL

(* Every step is a step of the store, one that it does not see, or one into or
   out of LeftGrown. *)
LEMMA StoreSteps ==
  ASSUME ~PowerCuts, Inv, Inv', Durable, Durable', [Next]_vars
  PROVE  [StoreStep]_(Store!storeVars)
<1>1. /\ Stable = acked.new /\ Stable' = acked'.new
      /\ pc = "idle" => View = Stable \/ LeftGrown
      /\ pc' = "idle" => View' = Stable' \/ LeftGrown'
      /\ View' \in Seq(Page) /\ acked'.new \in Seq(Page)
  <2>1. Stable = acked.new /\ Stable' = acked'.new /\ IdleShows /\ IdleShows'
    BY IdleIsCommitted, IdleNext DEF Durable
  <2>2. pc = "idle" => View = Stable \/ LeftGrown
    BY <2>1, GrownIsLeft
  <2>3. pc' = "idle" => View' = Stable' \/ LeftGrown'
    BY <2>1, GrownIsLeftNext
  <2> QED BY <2>1, <2>2, <2>3, ShapesNext DEF Shapes
<1> DEFINE shown == IF pc \in Running THEN View ELSE Stable
<1>2. /\ ~Active => shown = Stable \/ LeftGrown
      /\ ~Active' => shown' = Stable' \/ LeftGrown'
      /\ Active' => shown' = View'
  BY <1>1 DEF Active
<1>3. Active \in BOOLEAN /\ Active' \in BOOLEAN
  BY DEF Active
<1>4. CASE DeleteJournal
  <2>1. /\ pc = "delete" /\ pc' = "idle" /\ acked'.new = View /\ View' = View
    BY <1>4 DEF DeleteJournal, View, Cached, memVars
  <2>2. Store!Commit
    BY <1>1, <2>1 DEF Store!Commit, Active, Running
  <2> QED BY <2>2 DEF StoreStep, Store!StoreNext
<1>5. CASE ~DeleteJournal
  <2>1. Stable' = Stable
    <3>1. CASE Open
      BY <1>1, <3>1 DEF Open
    <3>2. CASE ~Open
      BY <1>1, <1>5, <3>2, CommittedChanges
    <3> QED BY <3>1, <3>2
  <2>2. CASE LeftGrown \/ LeftGrown'
    BY <2>1, <2>2 DEF StoreStep
  <2>3. CASE ~LeftGrown /\ ~LeftGrown'
    <3>1. (~Active => shown = Stable) /\ (~Active' => shown' = Stable')
      BY <1>2, <2>3
    <3>2. CASE ~Active /\ ~Active'
      <4>1. UNCHANGED Store!storeVars
        BY <1>3, <2>1, <3>1, <3>2 DEF Store!storeVars
      <4> QED BY <4>1
    <3>3. CASE ~Active /\ Active'
      <4>1. BeginWrite
        BY <3>3, TransactionStarts
      <4>2. shown' = shown
        BY <3>3, <4>1 DEF BeginWrite, Active, View, Cached, Running, memVars, diskVars
      <4>3. Store!Begin
        BY <1>3, <2>1, <3>3, <4>2 DEF Store!Begin
      <4> QED BY <4>3 DEF StoreStep, Store!StoreNext
    <3>4. CASE Active /\ Active'
      <4>1. Store!Write
        BY <1>1, <1>2, <1>3, <2>1, <3>4 DEF Store!Write
      <4> QED BY <4>1 DEF StoreStep, Store!StoreNext
    <3>5. CASE Active /\ ~Active'
      <4>1. Store!Abandon
        BY <1>3, <2>1, <3>1, <3>5 DEF Store!Abandon
      <4> QED BY <4>1 DEF StoreStep, Store!StoreNext
    <3> QED BY <3>2, <3>3, <3>4, <3>5
  <2> QED BY <2>2, <2>3
<1> QED BY <1>4, <1>5

(* The write path implements the atomic store, as long as only the process
   dies: what recovery finds changes at journal.delete() of a COMMIT only, to
   what the process shows, and however else a transaction ends, the process
   shows the last committed state again - or, when it has grown the file and
   journalled nothing, that state and more pages, and then nothing has been
   committed. *)
THEOREM JournalImplementsStore ==
  ASSUME ~PowerCuts
  PROVE  Spec => ImplementsAtomicStore
<1>1. Init /\ Inv /\ Durable => Store!StoreInit
  BY StoreStarts
<1>2. Inv /\ Inv' /\ Durable /\ Durable' /\ [Next]_vars => [StoreStep]_(Store!storeVars)
  BY StoreSteps
<1>3. Spec => Store!StoreInit /\ [][StoreStep]_(Store!storeVars)
  BY <1>1, <1>2, JournalInvariant, JournalDurable, PTL DEF Spec
<1> QED BY <1>3 DEF ImplementsAtomicStore, StoreStep
=============================================================================
