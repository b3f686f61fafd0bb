--------------------------- MODULE BufferPoolProofs ---------------------------
(***************************************************************************)
(* Proofs about BufferPool, for any set of pages, threads and contents and *)
(* any capacity, and for any number of pins, transactions and failures.    *)
(***************************************************************************)
EXTENDS BufferPool, FiniteSetTheorems, TLAPS

(* Outside a transaction nothing is journalled and the barrier is not
   passed; while the database is opened nobody but the opener is there. *)
OutsideTxn ==
  /\ ~Hooked => Journalled = {} /\ ~barrier
  /\ pc = "boot" => \A r \in Reader, p \in Page : held[r][p] = 0

(* A page the open transaction has not journalled is as it was committed, on
   file and in the pool. *)
UntouchedCommitted ==
  pc # "boot" =>
    \A p \in Page \ Journalled :
      /\ file[p] = committed[p]
      /\ p \in Cached => ~cache[p].dirty /\ cache[p].data = file[p]

(* will_modify() has saved what was committed, not what a statement wrote. *)
JournalHoldsCommitted ==
  \A p \in Journalled : journal[p] = committed[p]

(* A clean entry says what the file says, until replay() writes to the file
   behind the pool's back. *)
CleanMatchesFile ==
  pc \notin {"boot", "undone", "refused"} =>
    \A p \in Cached : ~cache[p].dirty => cache[p].data = file[p]

(* What flush_all() has passed stays clean until it returns. *)
FlushedStaysClean ==
  pc = "flush" => barrier /\ \A p \in Cached \ todo : ~cache[p].dirty

(* After replay() the file is the committed one again. *)
ReplayedFile ==
  pc \in {"undone", "refused"} => file = committed

(* COMMIT holds page 1, dirty and journalled, while it stamps it. *)
HeaderHeld ==
  pc = "stamp" =>
    /\ held[Writer][HeaderPage] > 0
    /\ HeaderPage \in Cached \cap Journalled /\ cache[HeaderPage].dirty

(* Nobody reads, under its lock, a page the transaction has taken. *)
ReadersOffJournal ==
  \A r \in Reader, p \in Page \ Unlocked : held[r][p] > 0 => p \notin Journalled

CoherenceInv ==
  /\ OutsideTxn /\ UntouchedCommitted /\ JournalHoldsCommitted
  /\ CleanMatchesFile /\ FlushedStaysClean /\ ReplayedFile
  /\ HeaderHeld /\ ReadersOffJournal /\ NoSteal

Inv == TypeOK /\ PinsMatchHolders /\ CoherenceInv

-----------------------------------------------------------------------------
(* The pins of one thread, and those on one page, are finitely many; a thread
   below its bound is below it on every page. *)
LEMMA PinSetsFinite ==
  ASSUME TypeOK
  PROVE  /\ \A t \in Thread : IsFiniteSet(PinsOf(t))
         /\ \A p \in Page : IsFiniteSet(PinsOn(p))
         /\ \A t \in Thread, p \in Page : Pins(t) < MaxPins => held[t][p] < MaxPins
<1>1. IsFiniteSet(1..MaxPins) /\ Cardinality(1..MaxPins) = MaxPins
  <2>1. 1 \in Int /\ MaxPins \in Nat
    BY PoolAssumption
  <2>2. IsFiniteSet(1..MaxPins) /\ Cardinality(1..MaxPins) = IF 1 > MaxPins THEN 0 ELSE MaxPins - 1 + 1
    BY <2>1, FS_Interval
  <2> QED BY <2>1, <2>2
<1>2. IsFiniteSet(Thread)
  BY PoolAssumption, FS_AddElement DEF Thread
<1>3. IsFiniteSet(Page \X (1..MaxPins)) /\ IsFiniteSet(Thread \X (1..MaxPins))
  BY PoolAssumption, <1>1, <1>2, FS_Product
<1>4. \A t \in Thread : IsFiniteSet(PinsOf(t))
  BY <1>3, FS_Subset DEF PinsOf
<1>5. \A p \in Page : IsFiniteSet(PinsOn(p))
  BY <1>3, FS_Subset DEF PinsOn
<1>6. ASSUME NEW t \in Thread, NEW p \in Page, Pins(t) < MaxPins
      PROVE  held[t][p] < MaxPins
  <2>1. held[t][p] \in 0..MaxPins /\ MaxPins \in Nat
    BY PoolAssumption DEF TypeOK
  <2> SUFFICES ASSUME held[t][p] = MaxPins PROVE FALSE
    BY <2>1
  <2>2. IsFiniteSet({p}) /\ Cardinality({p}) = 1
    BY FS_Singleton
  <2>3. Cardinality({p} \X (1..MaxPins)) = MaxPins
    BY <1>1, <2>1, <2>2, FS_Product
  <2>4. {p} \X (1..MaxPins) \subseteq PinsOf(t)
    BY <2>1 DEF PinsOf
  <2>5. MaxPins <= Pins(t)
    BY <1>4, <2>3, <2>4, FS_Subset DEF Pins
  <2>6. Pins(t) \in Nat
    BY <1>4, FS_CardinalityType DEF Pins
  <2> QED BY <1>6, <2>1, <2>5, <2>6
<1> QED BY <1>4, <1>5, <1>6

(* _get_page_locked() adds one pin, to the page it returns. *)
LEMMA PinAddsOne ==
  ASSUME TypeOK, NEW t \in Thread, NEW p \in Page, Pin(t, p)
  PROVE  /\ held' \in [Thread -> [Page -> 0..MaxPins]]
         /\ held'[t][p] = held[t][p] + 1
         /\ \A u \in Thread, q \in Page : <<u, q>> # <<t, p>> => held'[u][q] = held[u][q]
         /\ Cardinality(PinsOn(p)') = Cardinality(PinsOn(p)) + 1
         /\ \A q \in Page : q # p => PinsOn(q)' = PinsOn(q)
<1>1. held[t][p] < MaxPins /\ IsFiniteSet(PinsOn(p))
  BY PinSetsFinite DEF Pin
<1>2. held[t][p] \in 0..MaxPins /\ MaxPins \in Nat
  BY PoolAssumption DEF TypeOK
<1>3. /\ held' \in [Thread -> [Page -> 0..MaxPins]]
      /\ held'[t][p] = held[t][p] + 1
      /\ \A u \in Thread, q \in Page : <<u, q>> # <<t, p>> => held'[u][q] = held[u][q]
  BY <1>1, <1>2 DEF Pin, TypeOK
<1>4. \A q \in Page : q # p => PinsOn(q)' = PinsOn(q)
  BY <1>3 DEF PinsOn
<1>5. PinsOn(p)' = PinsOn(p) \cup {<<t, held[t][p] + 1>>}
  <2>1. ASSUME NEW u \in Thread, NEW n \in 1..MaxPins
        PROVE  <<u, n>> \in PinsOn(p)' <=> <<u, n>> \in PinsOn(p) \cup {<<t, held[t][p] + 1>>}
    <3>1. held[u][p] \in 0..MaxPins
      BY DEF TypeOK
    <3> QED BY <1>2, <1>3, <3>1 DEF PinsOn
  <2>2. <<t, held[t][p] + 1>> \in Thread \X (1..MaxPins)
    BY <1>1, <1>2
  <2>3. PinsOn(p) \subseteq Thread \X (1..MaxPins) /\ PinsOn(p)' \subseteq Thread \X (1..MaxPins)
    BY DEF PinsOn
  <2> QED BY <2>1, <2>2, <2>3
<1>6. <<t, held[t][p] + 1>> \notin PinsOn(p)
  BY <1>2 DEF PinsOn
<1>7. Cardinality(PinsOn(p)') = Cardinality(PinsOn(p)) + 1
  BY <1>1, <1>5, <1>6, FS_AddElement
<1> QED BY <1>3, <1>4, <1>7

(* unpin() takes one pin away, from that page. *)
LEMMA UnpinTakesOne ==
  ASSUME TypeOK, NEW t \in Thread, NEW p \in Page, held[t][p] > 0,
         held' = [held EXCEPT ![t][p] = @ - 1]
  PROVE  /\ held' \in [Thread -> [Page -> 0..MaxPins]]
         /\ \A u \in Thread, q \in Page : <<u, q>> # <<t, p>> => held'[u][q] = held[u][q]
         /\ Cardinality(PinsOn(p)) \in Nat \ {0}
         /\ Cardinality(PinsOn(p)') = Cardinality(PinsOn(p)) - 1
         /\ \A q \in Page : q # p => PinsOn(q)' = PinsOn(q)
<1>1. IsFiniteSet(PinsOn(p))
  BY PinSetsFinite
<1>2. held[t][p] \in 0..MaxPins /\ MaxPins \in Nat
  BY PoolAssumption DEF TypeOK
<1>3. /\ held' \in [Thread -> [Page -> 0..MaxPins]]
      /\ held'[t][p] = held[t][p] - 1
      /\ \A u \in Thread, q \in Page : <<u, q>> # <<t, p>> => held'[u][q] = held[u][q]
  BY <1>2 DEF TypeOK
<1>4. \A q \in Page : q # p => PinsOn(q)' = PinsOn(q)
  BY <1>3 DEF PinsOn
<1>5. PinsOn(p)' = PinsOn(p) \ {<<t, held[t][p]>>}
  <2>1. ASSUME NEW u \in Thread, NEW n \in 1..MaxPins
        PROVE  <<u, n>> \in PinsOn(p)' <=> <<u, n>> \in PinsOn(p) \ {<<t, held[t][p]>>}
    <3>1. held[u][p] \in 0..MaxPins
      BY DEF TypeOK
    <3> QED BY <1>2, <1>3, <3>1 DEF PinsOn
  <2>2. PinsOn(p) \subseteq Thread \X (1..MaxPins) /\ PinsOn(p)' \subseteq Thread \X (1..MaxPins)
    BY DEF PinsOn
  <2> QED BY <2>1, <2>2
<1>6. <<t, held[t][p]>> \in PinsOn(p)
  BY <1>2 DEF PinsOn
<1>7. Cardinality(PinsOn(p)') = Cardinality(PinsOn(p)) - 1
  <2> DEFINE S == PinsOn(p)
             x == <<t, held[t][p]>>
  <2>1. Cardinality(S \ {x}) = IF x \in S THEN Cardinality(S) - 1 ELSE Cardinality(S)
    <3> HIDE DEF S, x
    <3> QED BY <1>1, FS_RemoveElement DEF S
  <2> QED BY <1>5, <1>6, <2>1
<1>8. Cardinality(PinsOn(p)) \in Nat /\ Cardinality(PinsOn(p)) # 0
  BY <1>1, <1>6, FS_EmptySet, FS_CardinalityType
<1> QED BY <1>3, <1>4, <1>7, <1>8

(* _get_page_locked(p): the page is there afterwards, with one pin more and
   the content of the pool or of the file; at most an evictable page has
   gone, and only outside a transaction has eviction written to the file. *)
LEMMA FetchEffect ==
  ASSUME TypeOK, NEW p \in Page, NEW d \in BOOLEAN, Fetch(p, d)
  PROVE  /\ cache' \in [Page -> {None} \cup PoolEntry]
         /\ file' \in [Page -> Val]
         /\ p \in Cached =>
              cache'[p] = Entry(cache[p].data, cache[p].pins + 1, cache[p].dirty \/ d)
         /\ p \notin Cached => cache'[p] = Entry(file[p], 1, d)
         /\ \A q \in Page : q # p => \/ cache'[q] = cache[q]
                                     \/ cache'[q] = None /\ Evictable(q)
         /\ \A q \in Page : file'[q] # file[q] => q \in Cached /\ cache[q].dirty /\ ~Hooked
<1>1. cache \in [Page -> {None} \cup PoolEntry] /\ file \in [Page -> Val]
  BY DEF TypeOK
<1>2. CASE /\ p \in Cached
           /\ cache' = [cache EXCEPT ![p] = Entry(@.data, @.pins + 1, @.dirty \/ d)]
           /\ UNCHANGED file
  <2>1. cache[p] \in PoolEntry
    BY <1>1, <1>2 DEF Cached
  <2>2. Entry(cache[p].data, cache[p].pins + 1, cache[p].dirty \/ d) \in PoolEntry
    BY <2>1 DEF Entry, PoolEntry
  <2> QED BY <1>1, <1>2, <2>2
<1>3. Entry(file[p], 1, d) \in PoolEntry
  BY <1>1 DEF Entry, PoolEntry
<1>4. CASE /\ p \notin Cached
           /\ cache' = [cache EXCEPT ![p] = Entry(file[p], 1, d)]
           /\ UNCHANGED file
  BY <1>1, <1>3, <1>4
<1>5. ASSUME p \notin Cached, NEW q \in Page, Evictable(q),
             cache' = [cache EXCEPT ![q] = None, ![p] = Entry(file[p], 1, d)],
             file' = IF cache[q].dirty THEN [file EXCEPT ![q] = cache[q].data] ELSE file
      PROVE  /\ cache' \in [Page -> {None} \cup PoolEntry]
             /\ file' \in [Page -> Val]
             /\ cache'[p] = Entry(file[p], 1, d)
             /\ \A x \in Page : x # p => \/ cache'[x] = cache[x]
                                         \/ cache'[x] = None /\ Evictable(x)
             /\ \A x \in Page : file'[x] # file[x] => x \in Cached /\ cache[x].dirty /\ ~Hooked
  <2>1. q # p /\ q \in Cached /\ cache[q] \in PoolEntry
    BY <1>1, <1>5 DEF Evictable, Cached
  <2>2. cache[q].data \in Val
    BY <2>1 DEF PoolEntry
  <2>3. cache'[p] = Entry(file[p], 1, d) /\ cache' \in [Page -> {None} \cup PoolEntry]
    BY <1>1, <1>3, <1>5, <2>1
  <2>4. \A x \in Page : x # p => \/ cache'[x] = cache[x]
                                 \/ cache'[x] = None /\ Evictable(x)
    BY <1>1, <1>5, <2>1
  <2>5. file' \in [Page -> Val]
    BY <1>1, <1>5, <2>2
  <2>6. \A x \in Page : file'[x] # file[x] => x \in Cached /\ cache[x].dirty /\ ~Hooked
    BY <1>1, <1>5, <2>1 DEF Evictable
  <2> QED BY <2>3, <2>4, <2>5, <2>6
<1> QED BY <1>2, <1>4, <1>5 DEF Fetch

(* A page somebody holds is in the pool, pinned. *)
LEMMA HeldIsCached ==
  ASSUME TypeOK, PinsMatchHolders, NEW t \in Thread, NEW p \in Page, held[t][p] > 0
  PROVE  /\ p \in Cached /\ cache[p] \in PoolEntry
         /\ cache[p].pins = Cardinality(PinsOn(p)) /\ cache[p].pins > 0
<1>1. held[t][p] \in 0..MaxPins /\ MaxPins \in Nat
  BY PoolAssumption DEF TypeOK
<1>2. <<t, held[t][p]>> \in PinsOn(p)
  BY <1>1 DEF PinsOn
<1>3. Cardinality(PinsOn(p)) # 0 /\ Cardinality(PinsOn(p)) \in Nat
  BY <1>2, PinSetsFinite, FS_EmptySet, FS_CardinalityType
<1>4. p \in Cached /\ cache[p].pins = Cardinality(PinsOn(p))
  BY <1>3 DEF PinsMatchHolders
<1>5. cache[p] \in PoolEntry
  BY <1>4 DEF TypeOK, Cached
<1> QED BY <1>3, <1>4, <1>5

(* A page fetched and pinned by one thread: pins and holders still agree. *)
LEMMA FetchPins ==
  ASSUME TypeOK, PinsMatchHolders, NEW t \in Thread, NEW p \in Page, NEW d \in BOOLEAN,
         Fetch(p, d), Pin(t, p)
  PROVE  PinsMatchHolders'
<1> SUFFICES ASSUME NEW q \in Page
             PROVE  Cardinality(PinsOn(q)') = IF cache'[q] # None THEN cache'[q].pins ELSE 0
  BY DEF PinsMatchHolders, Cached
<1>1. Cardinality(PinsOn(q)) = IF cache[q] # None THEN cache[q].pins ELSE 0
  BY DEF PinsMatchHolders, Cached
<1>2. CASE q # p
  <2>1. PinsOn(q)' = PinsOn(q)
    BY <1>2, PinAddsOne
  <2>2. cache'[q] = cache[q] \/ (cache'[q] = None /\ Evictable(q))
    BY <1>2, FetchEffect
  <2> QED BY <1>1, <2>1, <2>2 DEF Evictable
<1>3. CASE q = p
  <2>1. Cardinality(PinsOn(p)') = Cardinality(PinsOn(p)) + 1
    BY PinAddsOne
  <2>2. /\ p \in Cached => cache'[p] = Entry(cache[p].data, cache[p].pins + 1, cache[p].dirty \/ d)
        /\ p \notin Cached => cache'[p] = Entry(file[p], 1, d)
        /\ cache' \in [Page -> {None} \cup PoolEntry]
    BY FetchEffect
  <2>3. CASE p \in Cached
    <3>1. cache'[p].pins = cache[p].pins + 1 /\ cache'[p] # None
      <4>1. cache[p] \in PoolEntry
        BY <2>3 DEF TypeOK, Cached
      <4>2. cache'[p] \in PoolEntry /\ cache'[p].pins = cache[p].pins + 1
        BY <2>2, <2>3, <4>1 DEF Entry, PoolEntry
      <4> QED BY <4>2, PoolAssumption
    <3> QED BY <1>1, <1>3, <2>1, <2>3, <3>1 DEF Cached
  <2>4. CASE p \notin Cached
    <3>1. cache'[p].pins = 1 /\ cache'[p] # None
      <4>1. file[p] \in Val
        BY DEF TypeOK
      <4>2. cache'[p] \in PoolEntry /\ cache'[p].pins = 1
        BY <2>2, <2>4, <4>1 DEF Entry, PoolEntry
      <4> QED BY <4>2, PoolAssumption
    <3> QED BY <1>1, <1>3, <2>1, <2>4, <3>1 DEF Cached
  <2> QED BY <2>3, <2>4
<1> QED BY <1>2, <1>3

(* What an entry is made of. *)
LEMMA EntryFields ==
  ASSUME NEW x, NEW n, NEW d
  PROVE  /\ Entry(x, n, d).data = x /\ Entry(x, n, d).pins = n /\ Entry(x, n, d).dirty = d
         /\ x \in Val /\ n \in Nat /\ d \in BOOLEAN => Entry(x, n, d) \in PoolEntry
BY DEF Entry, PoolEntry

(* An entry changed in place. *)
LEMMA EntryChanged ==
  ASSUME TypeOK, NEW p \in Cached, NEW e \in PoolEntry, cache' = [cache EXCEPT ![p] = e]
  PROVE  /\ cache' \in [Page -> {None} \cup PoolEntry]
         /\ cache'[p] = e
         /\ \A q \in Page : q # p => cache'[q] = cache[q]
         /\ Cached' = Cached
<1>1. cache \in [Page -> {None} \cup PoolEntry] /\ p \in Page
  BY DEF TypeOK, Cached
<1>2. e # None
  BY PoolAssumption
<1>3. cache'[p] = e /\ \A q \in Page : q # p => cache'[q] = cache[q]
  BY <1>1
<1>4. Cached' = Cached
  BY <1>2, <1>3 DEF Cached
<1> QED BY <1>1, <1>3, <1>4

(* An in-place change of a held page that leaves pins and holders as they
   were. *)
LEMMA SamePins ==
  ASSUME TypeOK, PinsMatchHolders, Cached' = Cached, UNCHANGED held,
         \A q \in Cached : cache'[q].pins = cache[q].pins
  PROVE  PinsMatchHolders'
<1>1. \A q \in Page : PinsOn(q)' = PinsOn(q)
  BY DEF PinsOn
<1> QED BY <1>1 DEF PinsMatchHolders

(* The same for a page that loses one pin with one of its holders'. *)
LEMMA UnpinPins ==
  ASSUME TypeOK, PinsMatchHolders, NEW t \in Thread, NEW p \in Page, held[t][p] > 0,
         held' = [held EXCEPT ![t][p] = @ - 1],
         NEW x \in Val, NEW d \in BOOLEAN,
         cache' = [cache EXCEPT ![p] = Entry(x, cache[p].pins - 1, d)]
  PROVE  /\ PinsMatchHolders'
         /\ cache' \in [Page -> {None} \cup PoolEntry]
         /\ p \in Cached /\ Cached' = Cached
         /\ cache'[p].data = x /\ cache'[p].dirty = d
         /\ \A q \in Page : q # p => cache'[q] = cache[q]
<1>1. /\ p \in Cached /\ cache[p] \in PoolEntry
      /\ cache[p].pins = Cardinality(PinsOn(p)) /\ cache[p].pins > 0
  BY HeldIsCached
<1>2. cache[p].pins - 1 \in Nat
  BY <1>1 DEF PoolEntry
<1>3. /\ cache' \in [Page -> {None} \cup PoolEntry]
      /\ cache'[p].pins = cache[p].pins - 1
      /\ cache'[p].data = x /\ cache'[p].dirty = d
      /\ \A q \in Page : q # p => cache'[q] = cache[q]
      /\ Cached' = Cached
  <2> DEFINE e == Entry(x, cache[p].pins - 1, d)
  <2>1. e \in PoolEntry /\ e.pins = cache[p].pins - 1 /\ e.data = x /\ e.dirty = d
    BY <1>2, EntryFields
  <2> HIDE DEF e
  <2>2. cache' = [cache EXCEPT ![p] = e]
    BY DEF e
  <2> QED BY <1>1, <2>1, <2>2, EntryChanged
<1>4. /\ Cardinality(PinsOn(p)') = Cardinality(PinsOn(p)) - 1
      /\ \A q \in Page : q # p => PinsOn(q)' = PinsOn(q)
  BY UnpinTakesOne
<1>5. PinsMatchHolders'
  BY <1>1, <1>3, <1>4 DEF PinsMatchHolders
<1> QED BY <1>1, <1>3, <1>5

-----------------------------------------------------------------------------
(* Every step keeps the types, and the pins of an entry in step with the
   threads that owe an unpin(). *)
LEMMA TypeAndPinsStep ==
  ASSUME Inv, Next
  PROVE  TypeOK' /\ PinsMatchHolders'
<1> USE DEF Inv
<1> DEFINE Rest == /\ committed' \in [Page -> Val]
                   /\ pc' \in {"boot", "idle", "open", "stamp", "barrier", "flush", "undone", "refused"}
                   /\ journal' \in [Page -> Val \cup {None}]
                   /\ barrier' \in BOOLEAN /\ todo' \subseteq Page
                   /\ txns' \in 0..MaxTxns /\ failures' \in 0..MaxFailures
           Pool == /\ cache' \in [Page -> {None} \cup PoolEntry]
                   /\ file' \in [Page -> Val]
                   /\ held' \in [Thread -> [Page -> 0..MaxPins]]
                   /\ PinsMatchHolders'
<1>0. Writer \in Thread /\ Reader \subseteq Thread /\ HeaderPage \in Page
  BY PoolAssumption DEF Thread
<1>1. ASSUME NEW t \in Thread, NEW p \in Page, NEW d \in BOOLEAN, Fetch(p, d), Pin(t, p)
      PROVE  Pool
  BY <1>1, FetchEffect, PinAddsOne, FetchPins
<1>2. ASSUME NEW p \in Page, WillModify(p) PROVE journal' \in [Page -> Val \cup {None}]
  BY <1>2 DEF TypeOK, WillModify
<1>3. ASSUME NEW t \in Thread, NEW p \in Page, Unpin(t, p) PROVE Pool /\ Rest
  <2>1. cache[p] \in PoolEntry
    BY <1>3, HeldIsCached DEF Unpin
  <2>2. cache[p].data \in Val /\ cache[p].dirty \in BOOLEAN
    BY <2>1 DEF PoolEntry
  <2>3. PinsMatchHolders' /\ cache' \in [Page -> {None} \cup PoolEntry]
    BY <1>3, <2>2, UnpinPins DEF Unpin
  <2>4. held' \in [Thread -> [Page -> 0..MaxPins]]
    BY <1>3, UnpinTakesOne DEF Unpin
  <2>5. file' \in [Page -> Val] /\ Rest
    BY <1>3 DEF Unpin, TypeOK, bounds
  <2> QED BY <2>3, <2>4, <2>5
<1>4. ASSUME UNCHANGED <<poolVars, held>> PROVE Pool
  <2>1. Cached' = Cached
    BY <1>4 DEF Cached, poolVars
  <2>2. PinsMatchHolders'
    BY <1>4, <2>1, SamePins DEF poolVars
  <2> QED BY <1>4, <2>2 DEF TypeOK, poolVars
<1>5. CASE EndBoot
  <2>1. file' \in [Page -> Val]
    <3>1. \A p \in Cached : cache[p].data \in Val
      BY DEF TypeOK, Cached, PoolEntry
    <3> QED BY <1>5, <3>1 DEF EndBoot, TypeOK
  <2>2. \A p \in Cached : /\ cache'[p] = Entry(cache[p].data, cache[p].pins, FALSE)
                         /\ cache'[p] \in PoolEntry /\ cache'[p].pins = cache[p].pins
    <3> SUFFICES ASSUME NEW p \in Cached
                 PROVE  /\ cache'[p] = Entry(cache[p].data, cache[p].pins, FALSE)
                        /\ cache'[p] \in PoolEntry /\ cache'[p].pins = cache[p].pins
      OBVIOUS
    <3>1. cache[p] \in PoolEntry /\ p \in Page
      BY DEF TypeOK, Cached
    <3>2. cache'[p] = Entry(cache[p].data, cache[p].pins, FALSE)
      BY <1>5, <3>1 DEF EndBoot
    <3> QED BY <3>1, <3>2 DEF Entry, PoolEntry
  <2>3. cache' \in [Page -> {None} \cup PoolEntry] /\ Cached' = Cached
    <3>1. \A p \in Page \ Cached : cache'[p] = None
      BY <1>5 DEF EndBoot
    <3>2. cache' \in [Page -> {None} \cup PoolEntry]
      BY <1>5, <2>2, <3>1 DEF EndBoot
    <3>3. \A p \in Cached : cache'[p] # None
      BY <2>2, PoolAssumption
    <3> QED BY <3>1, <3>2, <3>3 DEF Cached
  <2>4. PinsMatchHolders'
    BY <1>5, <2>2, <2>3, SamePins DEF EndBoot
  <2>5. Rest /\ held' \in [Thread -> [Page -> 0..MaxPins]]
    BY <1>5, <2>1 DEF EndBoot, TypeOK, bounds
  <2> QED BY <2>1, <2>3, <2>4, <2>5 DEF TypeOK
<1>6. CASE Begin
  <2>1. Rest
    BY <1>6, PoolAssumption DEF Begin, TypeOK
  <2> QED BY <1>4, <1>6, <2>1 DEF Begin, TypeOK
<1>7. CASE EndUnjournalled
  <2>1. Rest
    BY <1>7 DEF EndUnjournalled, Unhooked, TypeOK, bounds
  <2> QED BY <1>4, <1>7, <2>1 DEF EndUnjournalled, TypeOK
<1>8. ASSUME NEW p \in Page, NEW r \in Reader, Read(r, p) PROVE TypeOK' /\ PinsMatchHolders'
  <2>1. Rest
    BY <1>8 DEF Read, TypeOK, bounds
  <2> QED BY <1>0, <1>1, <1>8, <2>1 DEF Read, TypeOK
<1>9. ASSUME NEW p \in Page, NEW r \in Reader, Unpin(r, p) PROVE TypeOK' /\ PinsMatchHolders'
  BY <1>0, <1>3, <1>9 DEF TypeOK
<1>10. ASSUME NEW p \in Page, WriterUnpins(p) PROVE TypeOK' /\ PinsMatchHolders'
  BY <1>0, <1>3, <1>10 DEF WriterUnpins, TypeOK
<1>11. ASSUME NEW p \in Page, WriterReads(p) PROVE TypeOK' /\ PinsMatchHolders'
  <2>1. Rest
    BY <1>11 DEF WriterReads, TypeOK, bounds
  <2> QED BY <1>0, <1>1, <1>11, <2>1 DEF WriterReads, TypeOK
<1>12. ASSUME NEW p \in Page, Write(p) PROVE TypeOK' /\ PinsMatchHolders'
  <2>1. Rest
    BY <1>2, <1>12 DEF Write, TypeOK, bounds
  <2> QED BY <1>0, <1>1, <1>12, <2>1 DEF Write, TypeOK
<1>13. ASSUME NEW p \in Page, WriteRefused(p) PROVE TypeOK' /\ PinsMatchHolders'
  <2>1. Rest
    BY <1>2, <1>13 DEF WriteRefused, TypeOK, bounds
  <2> QED BY <1>4, <1>13, <2>1 DEF WriteRefused, TypeOK
<1>14. ASSUME NEW p \in Page, NEW v \in Val, Modify(p, v) PROVE TypeOK' /\ PinsMatchHolders'
  <2>1. p \in Cached /\ cache[p] \in PoolEntry
    BY <1>0, <1>14, HeldIsCached DEF Modify
  <2>2. cache[p].pins \in Nat /\ cache[p].dirty \in BOOLEAN
    BY <2>1 DEF PoolEntry
  <2>3. /\ cache' \in [Page -> {None} \cup PoolEntry] /\ Cached' = Cached
        /\ cache'[p].pins = cache[p].pins
        /\ \A q \in Page : q # p => cache'[q] = cache[q]
    <3> DEFINE e == Entry(v, cache[p].pins, cache[p].dirty)
    <3>1. e \in PoolEntry /\ e.pins = cache[p].pins
      BY <2>2, EntryFields
    <3> HIDE DEF e
    <3>2. cache' = [cache EXCEPT ![p] = e]
      BY <1>14 DEF e, Modify
    <3> QED BY <2>1, <3>1, <3>2, EntryChanged
  <2>4. \A q \in Cached : cache'[q].pins = cache[q].pins
    BY <2>3 DEF Cached
  <2>5. PinsMatchHolders'
    BY <1>14, <2>3, <2>4, SamePins DEF Modify
  <2> QED BY <1>14, <2>3, <2>5 DEF Modify, TypeOK, bounds
<1>15. CASE CommitStart
  <2>1. Rest
    BY <1>0, <1>2, <1>15 DEF CommitStart, TypeOK, bounds
  <2> QED BY <1>0, <1>1, <1>15, <2>1 DEF CommitStart, TypeOK
<1>16. ASSUME NEW v \in Val, StampHeader(v) PROVE TypeOK' /\ PinsMatchHolders'
  <2>1. held[Writer][HeaderPage] > 0 /\ cache[HeaderPage] \in PoolEntry
    BY <1>0, <1>16 DEF StampHeader, CoherenceInv, HeaderHeld, TypeOK, Cached
  <2>2. cache[HeaderPage].dirty \in BOOLEAN
    BY <2>1 DEF PoolEntry
  <2>3. PinsMatchHolders' /\ cache' \in [Page -> {None} \cup PoolEntry]
    BY <1>0, <1>16, <2>1, <2>2, UnpinPins DEF StampHeader
  <2>4. held' \in [Thread -> [Page -> 0..MaxPins]]
    BY <1>0, <1>16, <2>1, UnpinTakesOne DEF StampHeader
  <2> QED BY <1>16, <2>3, <2>4 DEF StampHeader, TypeOK, bounds
<1>17. CASE CommitBarrier
  <2>1. Rest
    BY <1>17 DEF CommitBarrier, TypeOK, Cached, bounds
  <2> QED BY <1>4, <1>17, <2>1 DEF CommitBarrier, TypeOK
<1>18. ASSUME NEW p \in Page, FlushPage(p) PROVE TypeOK' /\ PinsMatchHolders'
  <2>1. Rest /\ UNCHANGED held
    BY <1>18 DEF FlushPage, TypeOK, bounds
  <2>2. CASE p \in Cached /\ cache[p].dirty
    <3>1. cache[p] \in PoolEntry
      BY <2>2 DEF TypeOK, Cached
    <3>2. cache[p].pins \in Nat /\ cache[p].data \in Val
      BY <3>1 DEF PoolEntry
    <3>3. /\ cache' \in [Page -> {None} \cup PoolEntry] /\ Cached' = Cached
          /\ cache'[p].pins = cache[p].pins
          /\ \A q \in Page : q # p => cache'[q] = cache[q]
      <4>1. cache' = [cache EXCEPT ![p] = Entry(cache[p].data, cache[p].pins, FALSE)]
        BY <1>18, <2>2 DEF FlushPage
      <4>2. /\ Entry(cache[p].data, cache[p].pins, FALSE) \in PoolEntry
            /\ Entry(cache[p].data, cache[p].pins, FALSE).pins = cache[p].pins
        BY <3>2 DEF Entry, PoolEntry
      <4> QED BY <2>2, <4>1, <4>2, EntryChanged
    <3>4. \A q \in Cached : cache'[q].pins = cache[q].pins
      BY <3>3 DEF Cached
    <3>5. PinsMatchHolders'
      BY <2>1, <3>3, <3>4, SamePins
    <3>6. file' \in [Page -> Val]
      <4>1. file' = [file EXCEPT ![p] = cache[p].data]
        BY <1>18, <2>2 DEF FlushPage
      <4> QED BY <3>2, <4>1 DEF TypeOK
    <3> QED BY <2>1, <3>3, <3>5, <3>6 DEF TypeOK
  <2>3. CASE ~(p \in Cached /\ cache[p].dirty)
    BY <1>4, <1>18, <2>1, <2>3 DEF FlushPage, TypeOK
  <2> QED BY <2>2, <2>3
<1>19. CASE CommitDone
  <2>1. Rest
    BY <1>19 DEF CommitDone, Unhooked, TypeOK, bounds
  <2> QED BY <1>4, <1>19, <2>1 DEF CommitDone, TypeOK
<1>20. CASE CommitFails
  <2>1. Rest
    BY <1>20, PoolAssumption DEF CommitFails, TypeOK
  <2> QED BY <1>4, <1>20, <2>1 DEF CommitFails, TypeOK
<1>21. CASE Replay
  <2>1. Cached' = Cached
    BY <1>21 DEF Replay, Cached
  <2>2. PinsMatchHolders'
    BY <1>21, <2>1, SamePins DEF Replay
  <2>3. file' \in [Page -> Val]
    BY <1>21 DEF Replay, Journalled, TypeOK
  <2> QED BY <1>21, <2>2, <2>3 DEF Replay, TypeOK, bounds
<1>22. ASSUME NEW D \in SUBSET Page, \A p \in D \cap Cached : cache[p].pins = 0,
              cache' = [p \in Page |-> IF p \in D THEN None ELSE cache[p]], UNCHANGED held
       PROVE  PinsMatchHolders' /\ cache' \in [Page -> {None} \cup PoolEntry]
  <2>1. \A q \in Page : PinsOn(q)' = PinsOn(q)
    BY <1>22 DEF PinsOn
  <2> QED BY <1>22, <2>1 DEF PinsMatchHolders, Cached, TypeOK
<1>23. CASE Clear
  <2>1. PinsMatchHolders' /\ cache' \in [Page -> {None} \cup PoolEntry]
    BY <1>22, <1>23 DEF Clear, Dropped, Journalled
  <2> QED BY <1>23, <2>1 DEF Clear, Unhooked, TypeOK, bounds
<1>24. CASE ClearRefused
  <2>1. PICK D \in SUBSET {p \in Journalled \cap Cached : cache[p].pins = 0} :
          cache' = [p \in Page |-> IF p \in D THEN None ELSE cache[p]]
    BY <1>24 DEF ClearRefused
  <2>2. PinsMatchHolders' /\ cache' \in [Page -> {None} \cup PoolEntry]
    BY <1>22, <1>24, <2>1 DEF ClearRefused, Journalled
  <2> QED BY <1>24, <2>2 DEF ClearRefused, TypeOK, bounds
<1> QED
  BY <1>5, <1>6, <1>7, <1>8, <1>9, <1>10, <1>11, <1>12, <1>13, <1>14, <1>15, <1>16,
     <1>17, <1>18, <1>19, <1>20, <1>21, <1>23, <1>24 DEF Next, Use, Commit, Rollback

-----------------------------------------------------------------------------
(* While the database is opened there is nothing to keep coherent. *)
LEMMA BootCoherent ==
  ASSUME pc' = "boot", Journalled' = {}, ~barrier',
         \A r \in Reader, p \in Page : held'[r][p] = 0
  PROVE  CoherenceInv'
BY DEF CoherenceInv, OutsideTxn, UntouchedCommitted, JournalHoldsCommitted,
       CleanMatchesFile, FlushedStaysClean, ReplayedFile, HeaderHeld,
       ReadersOffJournal, NoSteal, Hooked

(* Once the database is open eviction writes nothing: under a transaction it
   takes clean pages only, and without one there are no others. *)
LEMMA FetchKeepsFile ==
  ASSUME Inv, pc # "boot", NEW p \in Page, NEW d \in BOOLEAN, Fetch(p, d)
  PROVE  file' = file
<1>1. /\ file' \in [Page -> Val]
      /\ \A q \in Page : file'[q] # file[q] => q \in Cached /\ cache[q].dirty /\ ~Hooked
  BY FetchEffect DEF Inv
<1>2. ~Hooked => \A q \in Cached : ~cache[q].dirty
  BY DEF Inv, CoherenceInv, OutsideTxn, UntouchedCommitted, Cached
<1>3. \A q \in Page : file'[q] = file[q]
  BY <1>1, <1>2
<1> QED BY <1>1, <1>3 DEF Inv, TypeOK

(* What will_modify() saves is the committed content: nothing but the open
   transaction has changed the file, and it journals before it does. *)
LEMMA WillModifySaves ==
  ASSUME Inv, pc # "boot", NEW p \in Page, WillModify(p), UNCHANGED committed
  PROVE  /\ Journalled' = Journalled \cup {p}
         /\ JournalHoldsCommitted'
<1>1. /\ journal[p] = None => file[p] = committed[p] /\ file[p] \in Val
      /\ file[p] # None
  BY PoolAssumption DEF Inv, CoherenceInv, UntouchedCommitted, Journalled, TypeOK
<1>2. CASE journal[p] # None
  BY <1>2 DEF WillModify, Journalled, JournalHoldsCommitted, Inv, CoherenceInv
<1>3. CASE journal[p] = None
  <2>1. journal' = [journal EXCEPT ![p] = file[p]]
    BY <1>3 DEF WillModify
  <2>2. \A q \in Page : journal'[q] = IF q = p THEN file[p] ELSE journal[q]
    BY <2>1 DEF Inv, TypeOK
  <2>3. Journalled' = Journalled \cup {p}
    BY <1>1, <2>2 DEF Journalled
  <2>4. JournalHoldsCommitted'
    BY <1>1, <1>3, <2>2, <2>3 DEF JournalHoldsCommitted, Inv, CoherenceInv, Journalled
  <2> QED BY <2>3, <2>4
<1> QED BY <1>2, <1>3

(* get_page() and get_page_for_write() of a reader, of a statement or of
   COMMIT keep pool, file, journal and locks coherent. *)
LEMMA FetchCoherent ==
  ASSUME Inv, pc # "boot", NEW t \in Thread, NEW p \in Page, NEW d \in BOOLEAN,
         Fetch(p, d), Pin(t, p), UNCHANGED <<committed, todo, barrier>>,
         d => p \in Journalled' /\ pc = "open",
         t # Writer => p \in Unlocked \/ p \notin Journalled,
         \/ Journalled' = Journalled
         \/ Journalled' = Journalled \cup {p} /\ t = Writer /\ MayTake(p) /\ pc = "open",
         JournalHoldsCommitted',
         \/ pc' = pc
         \/ pc = "open" /\ pc' = "stamp" /\ p = HeaderPage /\ t = Writer /\ d
  PROVE  CoherenceInv'
<1> USE DEF Inv, CoherenceInv
<1>1. file' = file
  BY FetchKeepsFile
<1>2. Journalled \subseteq Journalled' /\ Journalled' \subseteq Page
  BY DEF Journalled
<1>3. ASSUME NEW q \in Cached'
      PROVE  /\ q \in Page /\ (q # p => cache'[q] = cache[q] /\ q \in Cached)
             /\ q = p => \/ /\ q \in Cached /\ cache'[q].data = cache[q].data
                            /\ cache'[q].dirty <=> (cache[q].dirty \/ d)
                         \/ /\ q \notin Cached /\ cache'[q].data = file[q]
                            /\ cache'[q].dirty <=> d
  <2>1. q \in Page /\ cache'[q] # None
    BY <1>3 DEF Cached
  <2>2. q # p => cache'[q] = cache[q] /\ q \in Cached
    BY <2>1, FetchEffect DEF Cached
  <2>3. CASE q = p /\ q \in Cached
    <3>1. cache'[q] = Entry(cache[q].data, cache[q].pins + 1, cache[q].dirty \/ d)
      BY <2>3, FetchEffect
    <3>2. cache'[q].data = cache[q].data
      BY <3>1 DEF Entry
    <3>3. cache'[q].dirty <=> (cache[q].dirty \/ d)
      <4> DEFINE x == cache[q].dirty \/ d
      <4>1. x <=> (cache[q].dirty \/ d)
        OBVIOUS
      <4>2. cache'[q] = Entry(cache[q].data, cache[q].pins + 1, x)
        BY <3>1
      <4> HIDE DEF x
      <4>3. cache'[q].dirty = x
        BY <4>2, EntryFields
      <4> QED BY <4>1, <4>3
    <3> QED BY <2>1, <2>3, <3>2, <3>3
  <2>4. CASE q = p /\ q \notin Cached
    <3>1. cache'[q] = Entry(file[q], 1, d)
      BY <2>4, FetchEffect
    <3> QED BY <2>1, <2>4, <3>1 DEF Entry
  <2> QED BY <2>1, <2>2, <2>3, <2>4
<1>4. OutsideTxn'
  BY DEF OutsideTxn, Hooked
<1>5. UntouchedCommitted'
  BY <1>1, <1>2, <1>3 DEF UntouchedCommitted
<1>6. CleanMatchesFile'
  BY <1>1, <1>3 DEF CleanMatchesFile
<1>7. FlushedStaysClean'
  BY <1>3 DEF FlushedStaysClean
<1>8. ReplayedFile'
  BY <1>1 DEF ReplayedFile
<1>9. HeaderHeld'
  <2> SUFFICES ASSUME pc' = "stamp" PROVE HeaderHeld'
    BY DEF HeaderHeld
  <2>1. HeaderPage \in Page /\ Writer \in Thread
    BY PoolAssumption DEF Thread
  <2>2. /\ held'[t][p] = held[t][p] + 1 /\ held[t][p] \in Nat /\ held[Writer][HeaderPage] \in Nat
        /\ \A u \in Thread, q \in Page : <<u, q>> # <<t, p>> => held'[u][q] = held[u][q]
    BY <2>1, PinAddsOne DEF TypeOK
  <2>3. CASE pc = "stamp"
    <3>1. /\ held[Writer][HeaderPage] > 0 /\ HeaderPage \in Cached \cap Journalled
          /\ cache[HeaderPage].dirty
      BY <2>3 DEF HeaderHeld
    <3>2. cache[HeaderPage].pins > 0 /\ cache[HeaderPage].pins \in Nat
      BY <2>1, <3>1, HeldIsCached DEF PoolEntry
    <3>3. HeaderPage \in Cached'
      <4>1. CASE HeaderPage # p
        BY <2>1, <3>1, <3>2, <4>1, FetchEffect DEF Evictable, Cached
      <4>2. CASE HeaderPage = p
        <5>1. cache'[p] = Entry(cache[p].data, cache[p].pins + 1, cache[p].dirty \/ d)
          BY <3>1, <4>2, FetchEffect
        <5>2. cache[p] \in PoolEntry
          BY <3>1, <4>2 DEF TypeOK, Cached
        <5>3. cache'[p] \in PoolEntry
          BY <5>1, <5>2 DEF Entry, PoolEntry
        <5> QED BY <4>2, <5>3, PoolAssumption DEF Cached
      <4> QED BY <4>1, <4>2
    <3>4. cache'[HeaderPage].dirty
      BY <1>3, <3>1, <3>3
    <3>5. held'[Writer][HeaderPage] > 0
      BY <2>1, <2>2, <3>1
    <3> QED BY <1>2, <3>1, <3>3, <3>4, <3>5 DEF HeaderHeld
  <2>4. CASE pc = "open" /\ p = HeaderPage /\ t = Writer /\ d
    <3>1. p \in Cached'
      <4>1. \/ /\ cache'[p] = Entry(cache[p].data, cache[p].pins + 1, cache[p].dirty \/ d)
               /\ p \in Cached
            \/ cache'[p] = Entry(file[p], 1, d)
        BY FetchEffect
      <4>2. file[p] \in Val /\ (p \in Cached => cache[p] \in PoolEntry)
        BY DEF TypeOK, Cached
      <4>3. cache'[p] \in PoolEntry
        BY <4>1, <4>2 DEF Entry, PoolEntry
      <4> QED BY <4>3, PoolAssumption DEF Cached
    <3>2. cache'[p].dirty
      BY <1>3, <2>4, <3>1
    <3> QED BY <2>2, <2>4, <3>1, <3>2 DEF HeaderHeld
  <2> QED BY <2>3, <2>4
<1>10. ReadersOffJournal'
  <2> SUFFICES ASSUME NEW r \in Reader, NEW q \in Page \ Unlocked, held'[r][q] > 0,
                      q \in Journalled'
               PROVE  FALSE
    BY DEF ReadersOffJournal
  <2>1. r \in Thread /\ r # Writer /\ held[r][q] \in Nat
    BY PoolAssumption DEF Thread, TypeOK
  <2>2. <<r, q>> # <<t, p>> => held'[r][q] = held[r][q]
    BY <2>1, PinAddsOne
  <2>3. CASE q \in Journalled
    BY <2>1, <2>2, <2>3 DEF ReadersOffJournal
  <2>4. CASE q \notin Journalled
    BY <2>1, <2>2, <2>4 DEF MayTake
  <2> QED BY <2>3, <2>4
<1>11. NoSteal'
  BY <1>1 DEF NoSteal, Hooked
<1> QED BY <1>4, <1>5, <1>6, <1>7, <1>8, <1>9, <1>10, <1>11

(* Every step keeps pool, file, journal and locks coherent. *)
LEMMA CoherenceStep ==
  ASSUME Inv, Next, TypeOK'
  PROVE  CoherenceInv'
<1> USE DEF Inv, CoherenceInv
<1>0. Writer \in Thread /\ Writer \notin Reader /\ Reader \subseteq Thread
      /\ HeaderPage \in Page /\ HeaderPage \in Unlocked
  BY PoolAssumption DEF Thread
<1>1. pc = "boot" => /\ Journalled = {} /\ ~barrier
                     /\ \A r \in Reader, p \in Page : held[r][p] = 0
  BY DEF OutsideTxn, Hooked
<1>2. ASSUME pc = "boot", pc' = "boot", UNCHANGED <<journal, barrier>>,
             \A r \in Reader, p \in Page : held'[r][p] = held[r][p]
      PROVE  CoherenceInv'
  <2>1. Journalled' = {}
    BY <1>1, <1>2 DEF Journalled
  <2> QED BY <1>1, <1>2, <2>1, BootCoherent
<1>3. ASSUME NEW p \in Page, Pin(Writer, p)
      PROVE  \A r \in Reader, q \in Page : held'[r][q] = held[r][q]
  BY <1>0, <1>3, PinAddsOne
<1>4. ASSUME NEW t \in Thread, NEW p \in Page, Unpin(t, p),
             t = Writer => pc \in {"boot", "open"}
      PROVE  CoherenceInv'
  <2>1. cache[p] \in PoolEntry
    BY <1>4, HeldIsCached DEF Unpin
  <2>2. cache[p].data \in Val /\ cache[p].dirty \in BOOLEAN
    BY <2>1 DEF PoolEntry
  <2>3. /\ p \in Cached /\ Cached' = Cached
        /\ cache'[p].data = cache[p].data /\ cache'[p].dirty = cache[p].dirty
        /\ \A q \in Page : q # p => cache'[q] = cache[q]
    BY <1>4, <2>2, UnpinPins DEF Unpin
  <2>4. \A q \in Cached : /\ q \in Page
                         /\ cache'[q].data = cache[q].data /\ cache'[q].dirty = cache[q].dirty
    BY <2>3 DEF Cached
  <2>5. UNCHANGED <<file, pc, journal, barrier, todo, committed>> /\ Journalled' = Journalled
    BY <1>4 DEF Unpin, Journalled
  <2>6. /\ \A u \in Thread, q \in Page : <<u, q>> # <<t, p>> => held'[u][q] = held[u][q]
        /\ held'[t][p] = held[t][p] - 1 /\ held[t][p] \in Nat /\ held[t][p] > 0
    BY <1>4, UnpinTakesOne DEF Unpin, TypeOK
  <2>7. OutsideTxn' /\ ReadersOffJournal'
    BY <1>0, <2>5, <2>6 DEF OutsideTxn, ReadersOffJournal, Hooked
  <2>8. HeaderHeld'
    BY <1>0, <1>4, <2>3, <2>4, <2>5, <2>6 DEF HeaderHeld
  <2> QED BY <2>3, <2>4, <2>5, <2>7, <2>8
        DEF UntouchedCommitted, JournalHoldsCommitted, CleanMatchesFile, FlushedStaysClean,
            ReplayedFile, NoSteal, Hooked
<1>5. CASE EndBoot
  <2>1. Journalled' = {} /\ ~barrier' /\ pc' = "idle" /\ committed' = file'
    BY <1>1, <1>5 DEF EndBoot, Journalled
  <2>2. \A p \in Cached' : ~cache'[p].dirty /\ cache'[p].data = file'[p]
    <3> SUFFICES ASSUME NEW p \in Cached'
                 PROVE  ~cache'[p].dirty /\ cache'[p].data = file'[p]
      OBVIOUS
    <3>1. p \in Page /\ p \in Cached
      BY <1>5 DEF EndBoot, Cached
    <3>2. cache'[p] = Entry(cache[p].data, cache[p].pins, FALSE) /\ file'[p] = cache[p].data
      BY <1>5, <3>1 DEF EndBoot
    <3> QED BY <3>2 DEF Entry
  <2> QED BY <2>1, <2>2
        DEF OutsideTxn, UntouchedCommitted, JournalHoldsCommitted, CleanMatchesFile,
            FlushedStaysClean, ReplayedFile, HeaderHeld, ReadersOffJournal, NoSteal, Hooked
<1>6. CASE Begin
  <2>1. Journalled = {} /\ ~barrier /\ Journalled' = {} /\ Cached' = Cached
    BY <1>6 DEF Begin, OutsideTxn, Hooked, Journalled, Cached, poolVars
  <2>2. file = committed
    BY <1>6, <2>1 DEF Begin, UntouchedCommitted, TypeOK
  <2> QED BY <1>6, <2>1, <2>2
        DEF Begin, poolVars, OutsideTxn, UntouchedCommitted, JournalHoldsCommitted,
            CleanMatchesFile, FlushedStaysClean, ReplayedFile, HeaderHeld, ReadersOffJournal,
            NoSteal, Hooked
<1>7. ASSUME Unhooked, UNCHANGED <<file, held>>, committed' = file,
             \A p \in Cached' : ~cache'[p].dirty /\ cache'[p].data = file[p]
      PROVE  CoherenceInv'
  <2>1. Journalled' = {} /\ ~barrier' /\ pc' = "idle"
    BY <1>7 DEF Unhooked, Journalled
  <2> QED BY <1>7, <2>1
        DEF OutsideTxn, UntouchedCommitted, JournalHoldsCommitted, CleanMatchesFile,
            FlushedStaysClean, ReplayedFile, HeaderHeld, ReadersOffJournal, NoSteal, Hooked
<1>8. CASE EndUnjournalled
  <2>1. file = committed
    BY <1>8 DEF EndUnjournalled, UntouchedCommitted, TypeOK
  <2>2. \A p \in Cached' : ~cache'[p].dirty /\ cache'[p].data = file[p]
    BY <1>8 DEF EndUnjournalled, UntouchedCommitted, Cached, poolVars
  <2> QED BY <1>7, <1>8, <2>1, <2>2 DEF EndUnjournalled, poolVars
<1>9. ASSUME NEW p \in Page, NEW r \in Reader, Read(r, p) PROVE CoherenceInv'
  <2>1. Journalled' = Journalled /\ JournalHoldsCommitted'
    BY <1>9 DEF Read, Journalled, JournalHoldsCommitted
  <2>2. p \in Unlocked \/ p \notin Journalled
    BY <1>9 DEF Read, Journalled
  <2>3. FALSE \in BOOLEAN
    OBVIOUS
  <2> QED BY <1>0, <1>9, <2>1, <2>2, <2>3, FetchCoherent DEF Read
<1>10. ASSUME NEW p \in Page, NEW r \in Reader, Unpin(r, p) PROVE CoherenceInv'
  BY <1>0, <1>4, <1>10
<1>11. ASSUME NEW p \in Page, WriterUnpins(p) PROVE CoherenceInv'
  BY <1>0, <1>4, <1>11 DEF WriterUnpins
<1>12. ASSUME NEW p \in Page, WriterReads(p) PROVE CoherenceInv'
  <2>1. CASE pc = "boot"
    BY <1>2, <1>3, <1>12, <2>1 DEF WriterReads
  <2>2. CASE pc # "boot"
    <3>1. Journalled' = Journalled /\ JournalHoldsCommitted'
      BY <1>12 DEF WriterReads, Journalled, JournalHoldsCommitted
    <3>2. FALSE \in BOOLEAN
      OBVIOUS
    <3> QED BY <1>0, <1>12, <2>2, <3>1, <3>2, FetchCoherent DEF WriterReads
  <2> QED BY <2>1, <2>2
<1>13. ASSUME NEW p \in Page, Write(p) PROVE CoherenceInv'
  <2>1. CASE pc = "boot"
    BY <1>2, <1>3, <1>13, <2>1 DEF Write, WillModify
  <2>2. CASE pc # "boot"
    <3>1. Journalled' = Journalled \cup {p} /\ JournalHoldsCommitted'
      BY <1>13, <2>2, WillModifySaves DEF Write
    <3>2. TRUE \in BOOLEAN
      OBVIOUS
    <3> QED BY <1>0, <1>13, <2>2, <3>1, <3>2, FetchCoherent DEF Write
  <2> QED BY <2>1, <2>2
<1>14. ASSUME NEW p \in Page, WriteRefused(p) PROVE CoherenceInv'
  <2>1. Journalled' = Journalled \cup {p} /\ JournalHoldsCommitted'
    BY <1>14, WillModifySaves DEF WriteRefused
  <2>2. Cached' = Cached /\ p \notin Cached
    BY <1>14 DEF WriteRefused, Cached, poolVars
  <2>3. ReadersOffJournal'
    <3>1. \A r \in Reader : held[r][p] \in Nat
      BY <1>0 DEF TypeOK
    <3> QED BY <1>14, <2>1, <3>1 DEF ReadersOffJournal, WriteRefused, MayTake
  <2> QED BY <1>14, <2>1, <2>2, <2>3
        DEF WriteRefused, poolVars, OutsideTxn, UntouchedCommitted, CleanMatchesFile,
            FlushedStaysClean, ReplayedFile, HeaderHeld, NoSteal, Hooked
<1>15. ASSUME NEW p \in Page, NEW v \in Val, Modify(p, v) PROVE CoherenceInv'
  <2>1. CASE pc = "boot"
    BY <1>2, <1>15, <2>1 DEF Modify
  <2>2. CASE pc # "boot"
    <3>1. pc = "open" /\ p \in Cached /\ cache[p] \in PoolEntry /\ cache[p].dirty
      BY <1>0, <1>15, <2>2, HeldIsCached DEF Modify
    <3>2. p \in Journalled
      BY <2>2, <3>1 DEF UntouchedCommitted
    <3>3. /\ Cached' = Cached /\ cache'[p].dirty
          /\ \A q \in Page : q # p => cache'[q] = cache[q]
      <4> DEFINE e == Entry(v, cache[p].pins, cache[p].dirty)
      <4>1. e \in PoolEntry /\ e.dirty = cache[p].dirty
        BY <3>1, EntryFields DEF PoolEntry
      <4> HIDE DEF e
      <4>2. cache' = [cache EXCEPT ![p] = e]
        BY <1>15 DEF e, Modify
      <4> QED BY <3>1, <4>1, <4>2, EntryChanged
    <3>4. UNCHANGED <<file, held, pc, journal, barrier, todo, committed>> /\ Journalled' = Journalled
      BY <1>15 DEF Modify, Journalled
    <3>5. Cached \subseteq Page
      BY DEF Cached
    <3> QED BY <3>1, <3>2, <3>3, <3>4, <3>5
          DEF OutsideTxn, UntouchedCommitted, JournalHoldsCommitted, CleanMatchesFile,
              FlushedStaysClean, ReplayedFile, HeaderHeld, ReadersOffJournal, NoSteal, Hooked
  <2> QED BY <2>1, <2>2
<1>16. CASE CommitStart
  <2>1. Journalled' = Journalled \cup {HeaderPage} /\ JournalHoldsCommitted'
    BY <1>0, <1>16, WillModifySaves DEF CommitStart
  <2>2. TRUE \in BOOLEAN /\ MayTake(HeaderPage)
    BY <1>0 DEF MayTake
  <2> QED BY <1>0, <1>16, <2>1, <2>2, FetchCoherent DEF CommitStart
<1>17. ASSUME NEW v \in Val, StampHeader(v) PROVE CoherenceInv'
  <2>1. /\ held[Writer][HeaderPage] > 0 /\ HeaderPage \in Cached \cap Journalled
        /\ cache[HeaderPage].dirty /\ cache[HeaderPage] \in PoolEntry
    BY <1>0, <1>17 DEF StampHeader, HeaderHeld, TypeOK, Cached
  <2>2. cache[HeaderPage].dirty \in BOOLEAN
    BY <2>1 DEF PoolEntry
  <2>3. /\ Cached' = Cached /\ cache'[HeaderPage].dirty = cache[HeaderPage].dirty
        /\ \A q \in Page : q # HeaderPage => cache'[q] = cache[q]
    BY <1>0, <1>17, <2>1, <2>2, UnpinPins DEF StampHeader
  <2>4. \A r \in Reader, q \in Page : held'[r][q] = held[r][q]
    BY <1>0, <1>17, <2>1, UnpinTakesOne DEF StampHeader
  <2>5. /\ UNCHANGED <<file, journal, barrier, todo, committed>> /\ Journalled' = Journalled
        /\ pc = "stamp" /\ pc' = "barrier" /\ Cached \subseteq Page
    BY <1>17 DEF StampHeader, Journalled, Cached
  <2> QED BY <2>1, <2>3, <2>4, <2>5
        DEF OutsideTxn, UntouchedCommitted, JournalHoldsCommitted, CleanMatchesFile,
            FlushedStaysClean, ReplayedFile, HeaderHeld, ReadersOffJournal, NoSteal, Hooked
<1>18. CASE CommitBarrier
  <2>1. Journalled' = Journalled /\ Cached' = Cached
    BY <1>18 DEF CommitBarrier, Journalled, Cached, poolVars
  <2> QED BY <1>18, <2>1
        DEF CommitBarrier, poolVars, OutsideTxn, UntouchedCommitted, JournalHoldsCommitted,
            CleanMatchesFile, FlushedStaysClean, ReplayedFile, HeaderHeld, ReadersOffJournal,
            NoSteal, Hooked
<1>19. ASSUME NEW p \in Page, FlushPage(p) PROVE CoherenceInv'
  <2>1. /\ UNCHANGED <<held, pc, journal, barrier, committed>> /\ Journalled' = Journalled
        /\ pc = "flush" /\ barrier /\ todo' = todo \ {p} /\ Cached \subseteq Page
    BY <1>19 DEF FlushPage, Journalled, FlushedStaysClean, Cached
  <2>2. CASE p \in Cached /\ cache[p].dirty
    <3>1. cache[p] \in PoolEntry
      BY <2>2 DEF TypeOK, Cached
    <3>2. p \in Journalled
      BY <2>1, <2>2 DEF UntouchedCommitted
    <3>3. /\ Cached' = Cached /\ cache'[p].dirty = FALSE /\ cache'[p].data = cache[p].data
          /\ \A q \in Page : q # p => cache'[q] = cache[q]
      <4>1. /\ Entry(cache[p].data, cache[p].pins, FALSE) \in PoolEntry
            /\ Entry(cache[p].data, cache[p].pins, FALSE).dirty = FALSE
            /\ Entry(cache[p].data, cache[p].pins, FALSE).data = cache[p].data
        BY <3>1 DEF Entry, PoolEntry
      <4>2. cache' = [cache EXCEPT ![p] = Entry(cache[p].data, cache[p].pins, FALSE)]
        BY <1>19, <2>2 DEF FlushPage
      <4> QED BY <2>2, <4>1, <4>2, EntryChanged
    <3>4. file'[p] = cache[p].data /\ \A q \in Page : q # p => file'[q] = file[q]
      <4>1. file' = [file EXCEPT ![p] = cache[p].data]
        BY <1>19, <2>2 DEF FlushPage
      <4> QED BY <4>1 DEF TypeOK
    <3> QED BY <2>1, <2>2, <3>2, <3>3, <3>4
          DEF OutsideTxn, UntouchedCommitted, JournalHoldsCommitted, CleanMatchesFile,
              FlushedStaysClean, ReplayedFile, HeaderHeld, ReadersOffJournal, NoSteal, Hooked
  <2>3. CASE ~(p \in Cached /\ cache[p].dirty)
    <3>1. UNCHANGED <<cache, file>> /\ Cached' = Cached
      BY <1>19, <2>3 DEF FlushPage, poolVars, Cached
    <3> QED BY <2>1, <2>3, <3>1
          DEF OutsideTxn, UntouchedCommitted, JournalHoldsCommitted, CleanMatchesFile,
              FlushedStaysClean, ReplayedFile, HeaderHeld, ReadersOffJournal, NoSteal, Hooked
  <2> QED BY <2>2, <2>3
<1>20. CASE CommitDone
  <2>1. \A p \in Cached' : ~cache'[p].dirty /\ cache'[p].data = file[p]
    BY <1>20 DEF CommitDone, poolVars, Cached, FlushedStaysClean, CleanMatchesFile
  <2> QED BY <1>7, <1>20, <2>1 DEF CommitDone, poolVars
<1>21. CASE CommitFails
  <2>1. Journalled' = Journalled /\ Cached' = Cached
    BY <1>21 DEF CommitFails, Journalled, Cached, poolVars
  <2> QED BY <1>21, <2>1
        DEF CommitFails, poolVars, OutsideTxn, UntouchedCommitted, JournalHoldsCommitted,
            CleanMatchesFile, FlushedStaysClean, ReplayedFile, HeaderHeld, ReadersOffJournal,
            NoSteal, Hooked
<1>22. CASE Replay
  <2>1. Journalled' = Journalled /\ Cached' = Cached
    BY <1>22 DEF Replay, Journalled, Cached
  <2>2. \A p \in Page : file'[p] = committed[p]
    BY <1>22 DEF Replay, UntouchedCommitted, JournalHoldsCommitted
  <2>3. file' = committed
    BY <1>22, <2>2 DEF TypeOK, Replay
  <2>4. \A p \in Page \ Journalled : file'[p] = file[p]
    BY <1>22 DEF Replay
  <2> QED BY <1>22, <2>1, <2>3, <2>4
        DEF Replay, OutsideTxn, UntouchedCommitted, JournalHoldsCommitted,
            CleanMatchesFile, FlushedStaysClean, ReplayedFile, HeaderHeld, ReadersOffJournal,
            NoSteal, Hooked
<1>23. CASE Clear
  <2>1. file = committed
    BY <1>23 DEF Clear, ReplayedFile
  <2>2. \A p \in Cached' : p \in Cached /\ p \in Page \ Journalled /\ cache'[p] = cache[p]
    BY <1>23 DEF Clear, Dropped, Cached
  <2>3. \A p \in Cached' : ~cache'[p].dirty /\ cache'[p].data = file[p]
    BY <1>23, <2>2 DEF Clear, UntouchedCommitted
  <2> QED BY <1>7, <1>23, <2>1, <2>3 DEF Clear
<1>24. CASE ClearRefused
  <2>1. PICK D \in SUBSET {p \in Journalled \cap Cached : cache[p].pins = 0} :
          cache' = [p \in Page |-> IF p \in D THEN None ELSE cache[p]]
    BY <1>24 DEF ClearRefused
  <2>2. \A p \in Cached' : p \in Cached /\ cache'[p] = cache[p]
    BY <2>1 DEF Cached
  <2>3. Journalled' = Journalled
    BY <1>24 DEF ClearRefused, Journalled
  <2> QED BY <1>24, <2>2, <2>3
        DEF ClearRefused, OutsideTxn, UntouchedCommitted, JournalHoldsCommitted,
            CleanMatchesFile, FlushedStaysClean, ReplayedFile, HeaderHeld, ReadersOffJournal,
            NoSteal, Hooked
<1> QED
  BY <1>5, <1>6, <1>8, <1>9, <1>10, <1>11, <1>12, <1>13, <1>14, <1>15, <1>16, <1>17,
     <1>18, <1>19, <1>20, <1>21, <1>22, <1>23, <1>24 DEF Next, Use, Commit, Rollback

-----------------------------------------------------------------------------
(* The invariant holds of every state the pool can reach. *)
THEOREM PoolInvariant == Spec => []Inv
<1>1. Init => Inv
  <2> SUFFICES ASSUME Init PROVE Inv
    OBVIOUS
  <2>1. TypeOK
    <3>1. /\ 0 \in 0..MaxPins /\ 0 \in 0..MaxTxns /\ 0 \in 0..MaxFailures
      BY PoolAssumption
    <3>2. held \in [Thread -> [Page -> 0..MaxPins]]
      BY <3>1 DEF Init
    <3>3. cache \in [Page -> {None} \cup PoolEntry] /\ journal \in [Page -> Val \cup {None}]
      BY DEF Init
    <3> QED BY <3>1, <3>2, <3>3 DEF Init, TypeOK
  <2>2. PinsMatchHolders
    <3>1. ASSUME NEW p \in Page PROVE PinsOn(p) = {} /\ p \notin Cached
      BY DEF Init, PinsOn, Cached
    <3> QED BY <3>1, FS_EmptySet DEF PinsMatchHolders
  <2>3. CoherenceInv
    <3>1. Journalled = {} /\ Cached = {}
      BY DEF Init, Journalled, Cached
    <3>2. \A r \in Reader, p \in Page : held[r][p] = 0
      BY DEF Init, Thread
    <3> QED BY <3>1, <3>2
          DEF Init, CoherenceInv, OutsideTxn, UntouchedCommitted, JournalHoldsCommitted,
              CleanMatchesFile, FlushedStaysClean, ReplayedFile, HeaderHeld,
              ReadersOffJournal, NoSteal, Hooked
  <2> QED BY <2>1, <2>2, <2>3 DEF Inv
<1>2. Inv /\ [Next]_vars => Inv'
  <2>1. ASSUME Inv, Next PROVE Inv'
    BY <2>1, TypeAndPinsStep, CoherenceStep DEF Inv
  <2>2. ASSUME Inv, UNCHANGED vars PROVE Inv'
    <3>1. TypeOK' /\ Cached' = Cached /\ Journalled' = Journalled
      BY <2>2 DEF vars, poolVars, bounds, Inv, TypeOK, Cached, Journalled
    <3>2. PinsMatchHolders'
      BY <2>2, <3>1, SamePins DEF Inv, vars, poolVars
    <3> QED BY <2>2, <3>1, <3>2 DEF vars, poolVars, bounds, Inv, CoherenceInv,
       OutsideTxn, UntouchedCommitted, JournalHoldsCommitted, CleanMatchesFile,
       FlushedStaysClean, ReplayedFile, HeaderHeld, ReadersOffJournal, NoSteal, Hooked
  <2> QED BY <2>1, <2>2
<1> QED BY <1>1, <1>2, PTL DEF Spec

(* _Entry, _pins and _journalled keep their types; in particular no page has
   a negative pin count. *)
THEOREM PoolTypes == Spec => []TypeOK
BY PoolInvariant, PTL DEF Inv

(* An entry has exactly the pins its holders owe an unpin() for, so neither
   eviction nor clear() takes a page from under a thread. *)
THEOREM PoolPins == Spec => []PinsMatchHolders
BY PoolInvariant, PTL DEF Inv

(* No-steal: until COMMIT has passed the journal's barrier the file holds the
   committed pages, whatever _evict_one() had to make room for. *)
THEOREM PoolNoSteal == Spec => []NoSteal
BY PoolInvariant, PTL DEF Inv, CoherenceInv

(* A page read under its lock has committed content. *)
THEOREM PoolReadsCommitted == Spec => []ReadsCommitted
<1>1. Inv => ReadsCommitted
  <2> SUFFICES ASSUME Inv, NEW r \in Reader, NEW p \in Page \ Unlocked, held[r][p] > 0
               PROVE  cache[p].data = committed[p]
    BY DEF ReadsCommitted
  <2>1. r \in Thread /\ held[r][p] \in Nat
    BY DEF Thread, Inv, TypeOK
  <2>2. p \in Cached
    BY <2>1, HeldIsCached DEF Inv
  <2>3. pc # "boot" /\ p \notin Journalled
    BY <2>1 DEF Inv, CoherenceInv, OutsideTxn, ReadersOffJournal
  <2> QED BY <2>2, <2>3 DEF Inv, CoherenceInv, UntouchedCommitted
<1> QED BY <1>1, PoolInvariant, PTL

(* Between transactions the pool is clean and agrees with the file, which is
   the committed state: clear() of the journalled pages alone is enough. *)
THEOREM PoolIdleCoherent == Spec => []IdleCoherent
<1>1. Inv => IdleCoherent
  <2> SUFFICES ASSUME Inv, pc = "idle"
               PROVE  /\ file = committed
                      /\ \A p \in Cached : ~cache[p].dirty /\ cache[p].data = file[p]
    BY DEF IdleCoherent
  <2>1. Journalled = {}
    BY DEF Inv, CoherenceInv, OutsideTxn, Hooked
  <2>2. file = committed
    BY <2>1 DEF Inv, CoherenceInv, UntouchedCommitted, TypeOK
  <2> QED BY <2>1, <2>2 DEF Inv, CoherenceInv, UntouchedCommitted, Cached
<1> QED BY <1>1, PoolInvariant, PTL
=============================================================================
