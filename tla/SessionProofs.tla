--------------------------- MODULE SessionProofs ---------------------------
(***************************************************************************)
(* Proofs about Session: for any number of connections, tables, indexes,   *)
(* transactions and changes.                                               *)
(***************************************************************************)
EXTENDS Session, TLAPS

-----------------------------------------------------------------------------
(* The inductive invariant. *)

Types ==
  /\ pc \in [Conn -> Labels]
  /\ call \in [Conn -> Call \cup {None}]
  /\ txn \in [Conn -> Txn \cup {None}]
  /\ cursor \in [Conn -> Cursor \cup {None}]
  /\ lastSeen \in [Conn -> Version]
  /\ held \in [Resource -> [Txn -> Locks!Modes]]
  /\ hook \in Txn \cup {None}
  /\ db \in Database /\ saved \in Database \cup {None} /\ committed \in Database
  /\ catalog \in Indexes
  /\ plans \in [Table -> [cookie : Version, index : Index \cup {None}] \cup {None}]
  /\ seen \in [Txn -> [Tabs -> Version \cup {None}]]
  /\ nextTxn \in 1..(MaxTxn + 1) /\ changes \in Version /\ stranded \subseteq Txn

Deciding == {"schema", "bind", "plan", "cost", "open"}
Opening == {"plan", "cost", "open"}
Body == {"table", "reads", "work", "bump"}
Running == {"writer", "immSchema", "immWriter", "commit", "rollback",
            "unhookCommitted", "unhookRolledBack"} \cup Body
Leaving == {"reload", "release"}
Finishing == {"unhookCommitted", "unhookRolledBack"} \cup Leaving
Bound == {"bind", "writer"} \cup Opening \cup Body

(* What a connection's fields say of one another: l is its label, f the
   locals of its call, x its open transaction and k its cursor. *)
StageOf(l, f, x, k) ==
  /\ l \in {"idle", "closed"} <=> f = None
  /\ f # None => k = None
  /\ l = "closed" => x = None /\ k = None
  /\ k # None => x = IF k.implicit THEN None ELSE k.txn
  /\ l \in Deciding => x = IF f.auto THEN None ELSE f.txn
  /\ l \in Running => x = f.txn
  /\ l \in Leaving => x = None
  /\ l \in Deciding \cup {"writer"} \cup Body =>
       f.kind \in {"select", "write", "create_index", "analyze"}
  /\ f # None /\ f.kind \in {"select", "write", "create_index"} => f.table \in Table
  /\ f # None /\ f.kind = "create_index" => f.index \in Index
  /\ l \in Opening => f.kind = "select"
  /\ l \in {"writer"} \cup Body => f.kind # "select"
  /\ l = "work" => f.kind # "analyze"
  /\ l \in {"reads", "bump"} => f.kind = "analyze"

Stages == \A c \in Conn : StageOf(pc[c], call[c], txn[c], cursor[c])

(* x is within the reach of the connection with these fields. *)
Reaches(f, y, k, x) ==
  y = x \/ (k # None /\ k.txn = x) \/ (f # None /\ f.txn = x)
Owns(c, x) == Reaches(call[c], txn[c], cursor[c], x)

(* No transaction is within the reach of two connections, ... *)
OneOwner == \A c, d \in Conn, x \in Txn : Owns(c, x) /\ Owns(d, x) => c = d

(* ... and an id that next_txn_id() has not handed out is in use nowhere. *)
FreshIds ==
  \A x \in Txn :
    x >= nextTxn => /\ \A c \in Conn : ~Owns(c, x)
                    /\ \A r \in Resource : held[r][x] = "none"

Owned ==
  \A x \in Txn, r \in Resource :
    held[r][x] # "none" => x \in stranded \/ \E c \in Conn : Owns(c, x)

Compatible ==
  \A r \in Resource, x, y \in Txn :
    held[r][x] = "EXCLUSIVE" /\ x # y => held[r][y] = "none"

(* x holds at most SHARED on "__schema__". *)
SchemaOnly(x, h) ==
  \A r \in Resource :
    h[r][x] # "none" => r = "__schema__" /\ h[r][x] = "SHARED"

(* A stranded transaction has no owner and holds nothing else. *)
StrandedRead ==
  \A x \in stranded :
    x < nextTxn /\ SchemaOnly(x, held) /\ \A c \in Conn : ~Owns(c, x)

(* The locks a connection has by the time it stands at its label. *)
LocksOf(l, f, k, h, hk) ==
  /\ l = "schema" /\ f.auto => \A r \in Resource : h[r][f.txn] = "none"
  /\ l \in {"bind"} \cup Opening /\ f.auto /\ f.kind = "select" =>
       SchemaOnly(f.txn, h)
  /\ l \in Bound => h["__schema__"][f.txn] # "none"
  /\ l \in Bound /\ f.kind = "create_index" =>
       h["__schema__"][f.txn] = "EXCLUSIVE"
  /\ k # None => h["__schema__"][k.txn] # "none"
  /\ l \in Body => h["__writer__"][f.txn] = "EXCLUSIVE"
  /\ l \in {"reads", "work", "bump"} =>
       /\ hk = f.txn
       /\ h[IF f.kind = "analyze" THEN Stat ELSE f.table][f.txn] = "EXCLUSIVE"
  /\ l \in Leaving => hk # f.txn

LocksTaken == \A c \in Conn : LocksOf(pc[c], call[c], cursor[c], held, hook)

(* The holder of "__writer__" belongs to a connection, ... *)
WriterAtWork ==
  \A x \in Txn :
    IsWriter(x) => \E c \in Conn :
      \/ txn[c] = x /\ pc[c] \notin Finishing
      \/ pc[c] \in Finishing /\ X(c) = x

(* ... its rollback point is the committed state until it has ended, and from
   then on so is what everybody sees. *)
RollbackPoint ==
  \A c \in Conn :
    /\ pc[c] \notin Finishing /\ txn[c] # None /\ IsWriter(txn[c])
         => saved = committed
    /\ pc[c] \in Finishing /\ IsWriter(X(c)) => db = committed

(* Whatever differs from the committed state is locked by the hook. *)
DirtyIsLocked ==
  hook # None =>
    /\ db.idx # committed.idx => held["__schema__"][hook] = "EXCLUSIVE"
    /\ \A t \in Tabs :
         db.ver[t] # committed.ver[t] => held[t][hook] = "EXCLUSIVE"

SeenIsLocked ==
  \A x \in Txn, t \in Tabs :
    seen[x][t] # None => held[t][x] # "none" /\ db.ver[t] = seen[x][t]

(* The shared Catalog shows the pool's schema, except between the rollback of
   DDL and the reload that follows it. *)
CatalogFresh ==
  catalog = db.idx \/
    \E c \in Conn : /\ pc[c] \in {"unhookRolledBack", "reload"}
                    /\ held["__schema__"][X(c)] = "EXCLUSIVE"

BoundOf(l, f, k, i) ==
  /\ l \in Opening \cup {"writer", "table", "reads", "work"} => f.bound = i
  /\ k # None => k.bound = i

BoundIsCurrent == \A c \in Conn : BoundOf(pc[c], call[c], cursor[c], db.idx)

CookieCounted ==
  /\ db.cookie <= changes /\ committed.cookie <= changes
  /\ \A c \in Conn : pc[c] = "bump" => db.cookie < changes

Inv ==
  /\ Types /\ Stages
  /\ OneOwner /\ FreshIds /\ Owned /\ StrandedRead
  /\ Compatible /\ LocksTaken
  /\ WriterAtWork /\ RollbackPoint /\ HookIsWriter /\ DirtyIsLocked
  /\ SeenIsLocked /\ CatalogFresh /\ BoundIsCurrent
  /\ CookieCounted

-----------------------------------------------------------------------------
(* What one step of connection c may do.  Each action is shown to have these
   effects; each conjunct of the invariant follows from the effects it needs. *)

Alone(c) ==
  \A d \in Conn \ {c} : /\ pc'[d] = pc[d] /\ call'[d] = call[d]
                        /\ txn'[d] = txn[d] /\ cursor'[d] = cursor[d]

StageAfter(c) == StageOf(pc'[c], call'[c], txn'[c], cursor'[c])
LocksAfter(c) == LocksOf(pc'[c], call'[c], cursor'[c], held', hook')
OwnsAfter(c, x) == Reaches(call'[c], txn'[c], cursor'[c], x)

(* c gets hold of no transaction but a new one. *)
TakesNew(c) ==
  /\ nextTxn' \in {nextTxn, nextTxn + 1}
  /\ \A x \in Txn : OwnsAfter(c, x) => Owns(c, x) \/ (x = nextTxn /\ x < nextTxn')

(* c touches the locks of its own transactions only, ... *)
KeepsOthers(c) ==
  \A x \in Txn, r \in Resource : ~Owns(c, x) => held'[r][x] = held[r][x]

(* ... locks for what it goes on owning, and unlocks what it lets go of. *)
LetsGo(c) ==
  /\ stranded \subseteq stranded'
  /\ \A x \in stranded' \ stranded :
       Owns(c, x) /\ ~OwnsAfter(c, x) /\ SchemaOnly(x, held')
  /\ \A x \in Txn, r \in Resource :
       held'[r][x] # "none" /\ ~OwnsAfter(c, x) =>
         /\ held[r][x] # "none"
         /\ Owns(c, x) => x \in stranded'

HookStep(c) ==
  \/ hook' = hook
  \/ hook' = X(c) /\ pc[c] = "table"
  \/ hook = X(c) /\ hook' = None /\ pc[c] \in Finishing

AtWork(l, f, y, x) ==
  (y = x /\ l \notin Finishing) \/ (l \in Finishing /\ f.txn = x)

WriterStep(c) ==
  \A x \in Txn :
    held'["__writer__"][x] = "EXCLUSIVE" =>
      \/ AtWork(pc'[c], call'[c], txn'[c], x)
      \/ IsWriter(x) /\ ~AtWork(pc[c], call[c], txn[c], x)

StoreStep(c) ==
  \/ UNCHANGED <<db, saved, committed>>
  \/ call[c] # None /\ (IsWriter(X(c)) \/ held'["__writer__"][X(c)] = "EXCLUSIVE")

RollbackPointOf(l, f, y, h, d, s, m) ==
  /\ l \notin Finishing /\ y # None /\ h["__writer__"][y] = "EXCLUSIVE" => s = m
  /\ l \in Finishing /\ h["__writer__"][f.txn] = "EXCLUSIVE" => d = m

RollbackPointAfter(c) ==
  RollbackPointOf(pc'[c], call'[c], txn'[c], held', db', saved', committed')

-----------------------------------------------------------------------------
LEMMA Names ==
  /\ None \notin Txn
  /\ "__schema__" \in Resource /\ "__writer__" \in Resource
  /\ Tabs \subseteq Resource /\ Table \subseteq Tabs /\ Stat \in Tabs
  /\ Table \subseteq Resource
  /\ "__schema__" \notin Tabs /\ "__writer__" \notin Tabs
BY NamesAssumption, SessionBounds DEF Txn, Resource, Tabs

LEMMA StagesKept ==
  ASSUME NEW c \in Conn, Stages, Alone(c), StageAfter(c)
  PROVE  Stages'
BY DEF Stages, Alone, StageAfter

LEMMA OwnersKept ==
  ASSUME NEW c \in Conn, Types, OneOwner, FreshIds, Alone(c), TakesNew(c),
         KeepsOthers(c)
  PROVE  OneOwner' /\ FreshIds'
<1>1. nextTxn \in Nat /\ nextTxn' \in Nat /\ nextTxn' >= nextTxn
  BY SessionBounds DEF Types, TakesNew
<1>2. \A x \in Txn : x \in Nat
  BY SessionBounds DEF Txn
<1>3. \A d \in Conn \ {c}, x \in Txn : OwnsAfter(d, x) <=> Owns(d, x)
  BY DEF Alone, OwnsAfter, Owns
<1>4. \A d \in Conn, x \in Txn : x >= nextTxn => ~Owns(d, x)
  BY DEF FreshIds
<1>5. \A d, e \in Conn, x \in Txn : OwnsAfter(d, x) /\ OwnsAfter(e, x) => d = e
  <2> SUFFICES ASSUME NEW d \in Conn, NEW e \in Conn, NEW x \in Txn,
                      OwnsAfter(d, x), OwnsAfter(e, x), d # e
               PROVE  FALSE
    OBVIOUS
  <2>1. CASE d # c /\ e # c
    BY <1>3, <2>1 DEF OneOwner
  <2>2. CASE d = c /\ Owns(c, x)
    BY <1>3, <2>2 DEF OneOwner
  <2>3. CASE e = c /\ Owns(c, x)
    BY <1>3, <2>3 DEF OneOwner
  <2>4. CASE (d = c \/ e = c) /\ ~Owns(c, x)
    <3>1. x = nextTxn
      BY <2>4 DEF TakesNew
    <3>2. x >= nextTxn
      BY <3>1, <1>1
    <3> QED BY <3>2, <1>3, <1>4, <2>4
  <2> QED BY <2>1, <2>2, <2>3, <2>4
<1>6. ASSUME NEW x \in Txn, x >= nextTxn'
      PROVE  /\ \A d \in Conn : ~OwnsAfter(d, x)
             /\ \A r \in Resource : held'[r][x] = "none"
  <2>1. x >= nextTxn
    BY <1>1, <1>2, <1>6
  <2>2. ~OwnsAfter(c, x)
    BY <2>1, <1>4, <1>1, <1>2, <1>6 DEF TakesNew
  <2>3. \A r \in Resource : held'[r][x] = "none"
    BY <2>1, <1>4 DEF FreshIds, KeepsOthers
  <2> QED BY <2>1, <2>2, <2>3, <1>3, <1>4
<1> QED BY <1>5, <1>6 DEF OneOwner, FreshIds, Owns, OwnsAfter

LEMMA OwnedKept ==
  ASSUME NEW c \in Conn, Owned, Alone(c), LetsGo(c)
  PROVE  Owned'
<1> SUFFICES ASSUME NEW x \in Txn, NEW r \in Resource, held'[r][x] # "none",
                    x \notin stranded'
             PROVE  \E d \in Conn : OwnsAfter(d, x)
  BY DEF Owned, Owns, OwnsAfter
<1>1. CASE OwnsAfter(c, x)
  BY <1>1
<1>2. CASE ~OwnsAfter(c, x)
  <2>1. held[r][x] # "none" /\ ~Owns(c, x) /\ x \notin stranded
    BY <1>2 DEF LetsGo
  <2>2. PICK d \in Conn : Owns(d, x)
    BY <2>1 DEF Owned
  <2>3. OwnsAfter(d, x)
    BY <2>1, <2>2 DEF Alone, Owns, OwnsAfter
  <2> QED BY <2>3
<1> QED BY <1>1, <1>2

LEMMA StrandedKept ==
  ASSUME NEW c \in Conn, Types, Types', OneOwner, FreshIds, StrandedRead, Alone(c),
         TakesNew(c), KeepsOthers(c), LetsGo(c)
  PROVE  StrandedRead'
<1> SUFFICES ASSUME NEW x \in stranded'
             PROVE  /\ x < nextTxn' /\ SchemaOnly(x, held')
                    /\ \A d \in Conn : ~OwnsAfter(d, x)
  BY DEF StrandedRead, Owns, OwnsAfter
<1>1. /\ x \in Txn /\ x \in Nat /\ nextTxn \in Nat /\ nextTxn' \in Nat
      /\ nextTxn' >= nextTxn
  BY SessionBounds DEF Types, TakesNew, Txn
<1>2. \A d \in Conn \ {c} : OwnsAfter(d, x) <=> Owns(d, x)
  BY DEF Alone, OwnsAfter, Owns
<1>3. CASE x \in stranded
  <2>1. x < nextTxn /\ SchemaOnly(x, held) /\ \A d \in Conn : ~Owns(d, x)
    BY <1>3 DEF StrandedRead
  <2>2. x < nextTxn' /\ x # nextTxn
    BY <1>1, <2>1
  <2>3. ~OwnsAfter(c, x)
    BY <1>1, <2>1, <2>2 DEF TakesNew
  <2>4. SchemaOnly(x, held')
    BY <1>1, <2>1 DEF SchemaOnly, KeepsOthers
  <2> QED BY <1>2, <2>1, <2>2, <2>3, <2>4
<1>4. CASE x \notin stranded
  <2>1. Owns(c, x) /\ ~OwnsAfter(c, x) /\ SchemaOnly(x, held')
    BY <1>4 DEF LetsGo
  <2>2. \A d \in Conn \ {c} : ~Owns(d, x)
    BY <1>1, <2>1 DEF OneOwner
  <2>3. ~(x >= nextTxn)
    BY <1>1, <2>1 DEF FreshIds
  <2>4. x < nextTxn'
    BY <1>1, <2>3
  <2> QED BY <1>2, <2>1, <2>2, <2>4
<1> QED BY <1>3, <1>4

(* What is in the reach of another connection is not in the reach of c. *)
LEMMA Apart ==
  ASSUME NEW c \in Conn, NEW d \in Conn \ {c}, NEW x \in Txn, OneOwner, Owns(d, x)
  PROVE  ~Owns(c, x)
BY DEF OneOwner

LEMMA CallOwned ==
  ASSUME NEW c \in Conn, Types
  PROVE  /\ call[c] # None => X(c) \in Txn /\ Owns(c, X(c))
         /\ txn[c] # None => txn[c] \in Txn /\ Owns(c, txn[c])
         /\ cursor[c] # None => cursor[c].txn \in Txn /\ Owns(c, cursor[c].txn)
BY DEF Types, Owns, Reaches, X, Call, Cursor

(* A step of c leaves the locks of another connection's transactions alone. *)
LEMMA OthersLocks ==
  ASSUME NEW c \in Conn, NEW d \in Conn \ {c}, Types, OneOwner, KeepsOthers(c)
  PROVE  \A r \in Resource :
           /\ call[d] # None => held'[r][X(d)] = held[r][X(d)] /\ ~Owns(c, X(d))
           /\ txn[d] # None => held'[r][txn[d]] = held[r][txn[d]]
           /\ cursor[d] # None =>
                held'[r][cursor[d].txn] = held[r][cursor[d].txn]
BY CallOwned, Apart DEF KeepsOthers

LEMMA OneWriter ==
  ASSUME NEW x \in Txn, NEW y \in Txn, Compatible, IsWriter(x), IsWriter(y)
  PROVE  x = y
BY Names DEF Compatible, IsWriter

(* Labels at which a call is running. *)
LEMMA CallRuns ==
  ASSUME NEW c \in Conn, Stages, pc[c] \notin {"idle", "closed"}
  PROVE  call[c] # None
BY DEF Stages, StageOf

LEMMA LocksKept ==
  ASSUME NEW c \in Conn, Types, Stages, OneOwner, Compatible, LocksTaken,
         Alone(c), KeepsOthers(c), HookStep(c), LocksAfter(c)
  PROVE  LocksTaken'
<1> SUFFICES ASSUME NEW d \in Conn \ {c}
             PROVE  LocksOf(pc[d], call[d], cursor[d], held', hook')
  BY DEF LocksTaken, LocksAfter, Alone
<1>1. LocksOf(pc[d], call[d], cursor[d], held, hook)
  BY DEF LocksTaken
<1>2. StageOf(pc[d], call[d], txn[d], cursor[d]) /\ pc[d] \in Labels
  BY DEF Stages, Types
<1>3. pc[d] \notin {"idle", "closed"} => call[d] # None
  BY <1>2 DEF StageOf
<1>4. /\ call[d] # None => \A r \in Resource : held'[r][call[d].txn] = held[r][call[d].txn]
      /\ cursor[d] # None => \A r \in Resource : held'[r][cursor[d].txn] = held[r][cursor[d].txn]
  BY OthersLocks DEF X
<1>5. pc[d] \in Body => (IF call[d].kind = "analyze" THEN Stat ELSE call[d].table) \in Resource
  BY <1>2, <1>3, Names DEF StageOf, Body
<1>6. pc[d] \in {"reads", "work", "bump"} => hook' = call[d].txn
  <2> SUFFICES ASSUME pc[d] \in {"reads", "work", "bump"}, hook' # hook
               PROVE  FALSE
    BY <1>1 DEF LocksOf
  <2>1. call[d] # None /\ X(d) \in Txn /\ hook = X(d) /\ IsWriter(X(d))
    BY <1>1, <1>3, CallOwned DEF LocksOf, Body, X, IsWriter
  <2>2. hook # X(c)
    <3> SUFFICES ASSUME hook = X(c), pc[c] \in Finishing PROVE FALSE
      BY <2>1, OneWriter, CallOwned, CallRuns DEF HookStep, LocksTaken, LocksOf, Body, X, IsWriter
    <3>1. call[c] # None
      BY CallRuns DEF Finishing, Leaving
    <3> QED BY <3>1, <2>1, CallOwned, Apart
  <2>3. pc[c] = "table"
    BY <2>2 DEF HookStep
  <2>4. call[c] # None /\ X(c) \in Txn /\ IsWriter(X(c))
    BY <2>3, CallRuns, CallOwned DEF LocksTaken, LocksOf, Body, X, IsWriter
  <2> QED BY <2>1, <2>2, <2>4, OneWriter
<1>7. pc[d] \in Leaving => hook' # call[d].txn
  <2> SUFFICES ASSUME pc[d] \in Leaving PROVE hook' # X(d)
    BY DEF X
  <2>1. hook # X(d) /\ call[d] # None /\ X(d) \in Txn /\ ~Owns(c, X(d))
    BY <1>1, <1>3, CallOwned, Apart DEF LocksOf, X, Leaving
  <2>2. CASE hook' = X(c) /\ pc[c] = "table"
    BY <2>1, <2>2, CallRuns, CallOwned
  <2> QED BY <2>1, <2>2, Names DEF HookStep
<1>8. /\ pc[d] \in Bound => call[d] # None
      /\ pc[d] \in Body => call[d] # None
      /\ pc[d] \in {"reads", "work", "bump"} => pc[d] \in Body
  BY <1>3 DEF Bound, Body, Opening
<1>9. "__schema__" \in Resource /\ "__writer__" \in Resource
  BY Names
<1>10. /\ pc[d] = "schema" /\ call[d].auto =>
            \A r \in Resource : held'[r][call[d].txn] = "none"
       /\ pc[d] \in {"bind"} \cup Opening /\ call[d].auto /\ call[d].kind = "select" =>
            SchemaOnly(call[d].txn, held')
  <2>1. pc[d] \in {"schema", "bind"} \cup Opening => call[d] # None
    BY <1>3 DEF Opening
  <2> QED BY <1>1, <1>4, <2>1 DEF LocksOf, SchemaOnly
<1> QED BY <1>1, <1>4, <1>5, <1>6, <1>7, <1>8, <1>9, <1>10 DEF LocksOf

LEMMA WriterKept ==
  ASSUME NEW c \in Conn, WriterAtWork, Alone(c), WriterStep(c)
  PROVE  WriterAtWork'
<1> SUFFICES ASSUME NEW x \in Txn, held'["__writer__"][x] = "EXCLUSIVE"
             PROVE  \E d \in Conn : AtWork(pc'[d], call'[d], txn'[d], x)
  BY DEF WriterAtWork, AtWork, IsWriter, X
<1>1. CASE AtWork(pc'[c], call'[c], txn'[c], x)
  BY <1>1
<1>2. CASE IsWriter(x) /\ ~AtWork(pc[c], call[c], txn[c], x)
  <2>1. PICK d \in Conn : AtWork(pc[d], call[d], txn[d], x)
    BY <1>2 DEF WriterAtWork, AtWork, X
  <2>2. AtWork(pc'[d], call'[d], txn'[d], x)
    BY <1>2, <2>1 DEF Alone
  <2> QED BY <2>2
<1> QED BY <1>1, <1>2 DEF WriterStep

LEMMA RollbackPointKept ==
  ASSUME NEW c \in Conn, Types, Stages, OneOwner, Compatible, Compatible', RollbackPoint,
         Alone(c), KeepsOthers(c), StoreStep(c), RollbackPointAfter(c)
  PROVE  RollbackPoint'
<1> SUFFICES ASSUME NEW d \in Conn \ {c}
             PROVE  RollbackPointOf(pc[d], call[d], txn[d], held', db', saved', committed')
  BY DEF RollbackPoint, RollbackPointAfter, RollbackPointOf, Alone, IsWriter, X
<1>1. RollbackPointOf(pc[d], call[d], txn[d], held, db, saved, committed)
  BY DEF RollbackPoint, RollbackPointOf, IsWriter, X
<1>2. pc[d] \in Finishing => call[d] # None
  BY CallRuns DEF Finishing, Leaving
<1>3. ASSUME NEW x \in Txn, ~Owns(c, x), held'["__writer__"][x] = "EXCLUSIVE"
      PROVE  UNCHANGED <<db, saved, committed>>
  <2> SUFFICES ASSUME call[c] # None,
                      IsWriter(X(c)) \/ held'["__writer__"][X(c)] = "EXCLUSIVE"
               PROVE  FALSE
    BY DEF StoreStep
  <2>1. X(c) \in Txn /\ X(c) # x
    BY <1>3, CallOwned
  <2>2. IsWriter(x)
    BY <1>3, Names DEF KeepsOthers, IsWriter
  <2>3. ~IsWriter(X(c))
    BY <2>1, <2>2, OneWriter
  <2>4. held'["__writer__"][X(c)] = "none"
    BY <1>3, <2>1, Names DEF Compatible
  <2> QED BY <2>3, <2>4
<1>4. ASSUME pc[d] \notin Finishing, txn[d] # None,
             held'["__writer__"][txn[d]] = "EXCLUSIVE"
      PROVE  saved' = committed'
  <2>1. txn[d] \in Txn /\ ~Owns(c, txn[d])
    BY <1>4, CallOwned, Apart
  <2>2. held["__writer__"][txn[d]] = "EXCLUSIVE" /\ UNCHANGED <<db, saved, committed>>
    BY <1>3, <1>4, <2>1, Names DEF KeepsOthers
  <2> QED BY <1>1, <1>4, <2>2 DEF RollbackPointOf
<1>5. ASSUME pc[d] \in Finishing, held'["__writer__"][X(d)] = "EXCLUSIVE"
      PROVE  db' = committed'
  <2>1. X(d) \in Txn /\ ~Owns(c, X(d))
    BY <1>2, <1>5, CallOwned, Apart
  <2>2. held["__writer__"][X(d)] = "EXCLUSIVE" /\ UNCHANGED <<db, saved, committed>>
    BY <1>3, <1>5, <2>1, Names DEF KeepsOthers
  <2> QED BY <1>1, <1>5, <2>2 DEF RollbackPointOf, X
<1> QED BY <1>4, <1>5 DEF RollbackPointOf, X

-----------------------------------------------------------------------------
(* The same for what the connections share. *)

Reloading(l, f, h) ==
  l \in {"unhookRolledBack", "reload"} /\ h["__schema__"][f.txn] = "EXCLUSIVE"

CatalogStep(c) ==
  \/ catalog' = db'.idx
  \/ Reloading(pc'[c], call'[c], held')
  \/ /\ catalog' = catalog /\ db'.idx = db.idx
     /\ ~Reloading(pc[c], call[c], held)

LEMMA CatalogKept ==
  ASSUME NEW c \in Conn, Types, Stages, OneOwner, CatalogFresh, Alone(c),
         KeepsOthers(c), CatalogStep(c)
  PROVE  CatalogFresh'
<1> SUFFICES ASSUME catalog' # db'.idx
             PROVE  \E d \in Conn : Reloading(pc'[d], call'[d], held')
  BY DEF CatalogFresh, Reloading, X
<1>1. CASE Reloading(pc'[c], call'[c], held')
  BY <1>1
<1>2. CASE catalog' = catalog /\ db'.idx = db.idx /\ ~Reloading(pc[c], call[c], held)
  <2>1. PICK d \in Conn : Reloading(pc[d], call[d], held)
    BY <1>2 DEF CatalogFresh, Reloading, X
  <2>2. d # c /\ call[d] # None
    BY <1>2, <2>1, CallRuns DEF Reloading
  <2>3. held'["__schema__"][call[d].txn] = held["__schema__"][call[d].txn]
    BY <2>2, OthersLocks, Names DEF X
  <2>4. Reloading(pc'[d], call'[d], held')
    BY <2>1, <2>2, <2>3 DEF Alone, Reloading
  <2> QED BY <2>4
<1> QED BY <1>1, <1>2 DEF CatalogStep

BoundAfter(c) == BoundOf(pc'[c], call'[c], cursor'[c], db'.idx)

SchemaStep(c) ==
  \/ db'.idx = db.idx
  \/ call[c] # None /\ held["__schema__"][X(c)] = "EXCLUSIVE"

(* Who is bound to a schema holds "__schema__", so nobody else changes it. *)
LEMMA BoundKept ==
  ASSUME NEW c \in Conn, Types, Stages, OneOwner, Compatible, LocksTaken,
         BoundIsCurrent, Alone(c), SchemaStep(c), BoundAfter(c)
  PROVE  BoundIsCurrent'
<1> SUFFICES ASSUME NEW d \in Conn \ {c}, db'.idx # db.idx
             PROVE  BoundOf(pc[d], call[d], cursor[d], db'.idx)
  BY DEF BoundIsCurrent, BoundAfter, Alone
<1>1. call[c] # None /\ held["__schema__"][X(c)] = "EXCLUSIVE" /\ X(c) \in Txn
  BY CallOwned DEF SchemaStep
<1>2. \A x \in Txn : Owns(d, x) => held["__schema__"][x] = "none"
  <2> SUFFICES ASSUME NEW x \in Txn, Owns(d, x) PROVE held["__schema__"][x] = "none"
    OBVIOUS
  <2>1. x # X(c)
    BY <1>1, CallOwned, Apart
  <2> QED BY <1>1, <2>1, Names DEF Compatible
<1>3. LocksOf(pc[d], call[d], cursor[d], held, hook)
  BY DEF LocksTaken
<1>4. cursor[d] = None
  BY <1>2, <1>3, CallOwned DEF LocksOf
<1>5. pc[d] \notin Bound
  <2> SUFFICES ASSUME pc[d] \in Bound PROVE FALSE
    OBVIOUS
  <2>1. call[d] # None
    BY CallRuns DEF Bound, Opening, Body
  <2> QED BY <1>2, <1>3, <2>1, CallOwned DEF LocksOf, X
<1>6. pc[d] \notin Opening \cup {"writer", "table", "reads", "work"}
  BY <1>5 DEF Bound, Body
<1> QED BY <1>4, <1>6 DEF BoundOf

CookieStep(c) ==
  /\ db'.cookie <= changes' /\ committed'.cookie <= changes'
  /\ pc'[c] = "bump" => db'.cookie < changes'
  /\ \/ db'.cookie = db.cookie /\ changes' \in {changes, changes + 1}
     \/ call[c] # None /\ IsWriter(X(c))

LEMMA CookieKept ==
  ASSUME NEW c \in Conn, Types, Stages, OneOwner, Compatible, LocksTaken,
         CookieCounted, Alone(c), CookieStep(c)
  PROVE  CookieCounted'
<1> SUFFICES ASSUME NEW d \in Conn \ {c}, pc[d] = "bump"
             PROVE  db'.cookie < changes'
  BY DEF CookieCounted, CookieStep, Alone
<1>1. db.cookie < changes /\ changes \in Nat /\ db.cookie \in Nat
  BY SessionBounds DEF CookieCounted, Types, Database, Version
<1>2. CASE db'.cookie = db.cookie /\ changes' \in {changes, changes + 1}
  BY <1>1, <1>2
<1>3. CASE call[c] # None /\ IsWriter(X(c))
  <2>1. call[d] # None
    BY CallRuns
  <2>2. X(d) \in Txn /\ IsWriter(X(d)) /\ X(c) \in Txn
    BY <1>3, <2>1, CallOwned DEF LocksTaken, LocksOf, Body, X, IsWriter
  <2>3. X(c) # X(d)
    BY <1>3, <2>1, CallOwned, Apart
  <2> QED BY <1>3, <2>2, <2>3, OneWriter
<1> QED BY <1>2, <1>3 DEF CookieStep

HookLocksKept ==
  hook # None =>
    \A r \in Resource : held[r][hook] = "EXCLUSIVE" => held'[r][hook] = "EXCLUSIVE"

LEMMA HookKept ==
  ASSUME Types, HookIsWriter, DirtyIsLocked, HookLocksKept,
         UNCHANGED <<hook, db, committed>>
  PROVE  HookIsWriter' /\ DirtyIsLocked'
BY Names DEF Types, HookIsWriter, DirtyIsLocked, HookLocksKept, IsWriter

SeenStep ==
  \A x \in Txn, t \in Tabs :
    \/ seen'[x][t] = None
    \/ /\ seen'[x][t] = seen[x][t]
       /\ held[t][x] # "none" => held'[t][x] # "none"
    \/ seen'[x][t] = db.ver[t] /\ held'[t][x] # "none"

LEMMA SeenKept ==
  ASSUME SeenIsLocked, SeenStep, db'.ver = db.ver
  PROVE  SeenIsLocked'
BY DEF SeenIsLocked, SeenStep

(* The invariant after a step with all these effects. *)
LEMMA Assemble ==
  ASSUME NEW c \in Conn, Inv, Types', Alone(c), StageAfter(c), TakesNew(c),
         KeepsOthers(c), LetsGo(c), HookStep(c), LocksAfter(c), Compatible',
         WriterStep(c), StoreStep(c), RollbackPointAfter(c),
         HookIsWriter', DirtyIsLocked', SeenIsLocked',
         CatalogStep(c), SchemaStep(c), BoundAfter(c), CookieStep(c)
  PROVE  Inv'
<1>1. /\ Types /\ Stages /\ OneOwner /\ FreshIds /\ Owned /\ StrandedRead /\ Compatible
      /\ LocksTaken /\ WriterAtWork /\ RollbackPoint /\ CatalogFresh
      /\ BoundIsCurrent /\ CookieCounted
  BY DEF Inv
<1>2. Stages' /\ OneOwner' /\ FreshIds' /\ Owned' /\ StrandedRead'
  BY <1>1, StagesKept, OwnersKept, OwnedKept, StrandedKept
<1>3. LocksTaken' /\ WriterAtWork' /\ RollbackPoint'
  BY <1>1, LocksKept, WriterKept, RollbackPointKept
<1>4. CatalogFresh' /\ BoundIsCurrent' /\ CookieCounted'
  BY <1>1, CatalogKept, BoundKept, CookieKept
<1> QED BY <1>2, <1>3, <1>4 DEF Inv

(* The transaction of c does not change, or c takes one that is no writer. *)
TxnKept(c) ==
  \/ txn'[c] = txn[c]
  \/ txn[c] = None /\ txn'[c] \in Txn /\ ~IsWriter(txn'[c])

NoNewWriter ==
  \A x \in Txn : held'["__writer__"][x] = "EXCLUSIVE" => IsWriter(x)

(* A step that leaves the database alone. *)
LEMMA Calm ==
  ASSUME NEW c \in Conn, Inv, Types', Alone(c), StageAfter(c), TakesNew(c),
         KeepsOthers(c), LetsGo(c), LocksAfter(c), BoundAfter(c), Compatible',
         HookLocksKept, SeenStep, NoNewWriter, TxnKept(c),
         catalog' \in {catalog, db.idx},
         UNCHANGED <<hook, db, saved, committed, changes>>,
         pc[c] \notin Finishing, pc'[c] \notin Finishing, pc'[c] # "bump"
  PROVE  Inv'
<1>1. /\ Types /\ HookIsWriter /\ DirtyIsLocked /\ SeenIsLocked /\ CookieCounted
      /\ RollbackPoint
  BY DEF Inv
<1>2. HookIsWriter' /\ DirtyIsLocked' /\ SeenIsLocked'
  BY <1>1, HookKept, SeenKept
<1>3. HookStep(c) /\ StoreStep(c) /\ SchemaStep(c)
  BY DEF HookStep, StoreStep, SchemaStep
<1>4. CatalogStep(c)
  BY DEF CatalogStep, Reloading, Finishing, Leaving
<1>5. CookieStep(c)
  BY <1>1 DEF CookieStep, CookieCounted
<1>6. WriterStep(c)
  <2> SUFFICES ASSUME NEW x \in Txn, IsWriter(x), AtWork(pc[c], call[c], txn[c], x)
               PROVE  AtWork(pc'[c], call'[c], txn'[c], x)
    BY DEF WriterStep, NoNewWriter
  <2>1. txn[c] = x /\ x # None
    BY Names DEF AtWork
  <2> QED BY <2>1 DEF TxnKept, AtWork
<1>7. RollbackPointAfter(c)
  <2> SUFFICES ASSUME txn'[c] # None, held'["__writer__"][txn'[c]] = "EXCLUSIVE"
               PROVE  saved = committed
    BY DEF RollbackPointAfter, RollbackPointOf
  <2>1. txn'[c] \in Txn
    BY DEF Types
  <2>2. IsWriter(txn'[c])
    BY <2>1 DEF NoNewWriter
  <2> QED BY <1>1, <2>2 DEF TxnKept, RollbackPoint
<1> QED BY <1>2, <1>3, <1>4, <1>5, <1>6, <1>7, Assemble

-----------------------------------------------------------------------------
(* The three ways in which a step can treat the locks. *)

LEMMA LocksSame ==
  ASSUME NEW c \in Conn, Inv, UNCHANGED held
  PROVE  KeepsOthers(c) /\ Compatible' /\ HookLocksKept /\ NoNewWriter
BY DEF Inv, KeepsOthers, Compatible, HookLocksKept, NoNewWriter, IsWriter

Stronger(x) ==
  \A r \in Resource :
    /\ held[r][x] # "none" => held'[r][x] # "none"
    /\ held[r][x] = "EXCLUSIVE" => held'[r][x] = "EXCLUSIVE"

LEMMA LocksGranted ==
  ASSUME NEW c \in Conn, Inv, NEW x \in Txn, Owns(c, x), NEW r \in Resource,
         NEW m \in {"SHARED", "EXCLUSIVE"}, Locks!Granted(x, r, m)
  PROVE  /\ held' \in [Resource -> [Txn -> Locks!Modes]]
         /\ KeepsOthers(c) /\ Compatible' /\ HookLocksKept
         /\ \A y \in Txn : Stronger(y)
         /\ held'[r][x] \in {m, "EXCLUSIVE"}
         /\ held[r][x] = "none" => held'[r][x] = m
         /\ \A s \in Resource, y \in Txn :
              s # r \/ y # x => held'[s][y] = held[s][y]
         /\ r # "__writer__" => NoNewWriter
<1>1. held \in [Resource -> [Txn -> Locks!Modes]] /\ hook \in Txn \cup {None}
  BY DEF Inv, Types
<1>2. held' \in [Resource -> [Txn -> Locks!Modes]]
  BY <1>1 DEF Locks!Granted, Locks!Modes
<1>3. \A s \in Resource, y \in Txn : s # r \/ y # x => held'[s][y] = held[s][y]
  BY <1>1 DEF Locks!Granted
<1>4. /\ held'[r][x] \in {m, "EXCLUSIVE"}
      /\ held[r][x] = "none" => held'[r][x] = m
      /\ held[r][x] # "none" => held'[r][x] # "none"
      /\ held[r][x] = "EXCLUSIVE" => held'[r][x] = "EXCLUSIVE"
  BY <1>1 DEF Locks!Granted, Locks!Has
<1>5. \A y \in Txn : Stronger(y)
  BY <1>3, <1>4 DEF Stronger
<1>6. KeepsOthers(c)
  BY <1>3 DEF KeepsOthers
<1>7. Compatible'
  <2>1. Compatible
    BY DEF Inv
  <2>2. CASE UNCHANGED held
    BY <2>1, <2>2 DEF Compatible
  <2>3. CASE Locks!CanGrant(x, r, m) /\ held' = [held EXCEPT ![r][x] = m]
    <3>1. held'[r][x] = m
      BY <1>1, <2>3
    <3>2. \A y \in Txn \ {x} : /\ held[r][y] = "none" \/ (m = "SHARED" /\ held[r][y] = "SHARED")
                               /\ held'[r][y] = held[r][y]
      BY <1>3, <2>3 DEF Locks!CanGrant
    <3> SUFFICES ASSUME NEW s \in Resource, NEW y \in Txn, NEW z \in Txn, y # z,
                        held'[s][y] = "EXCLUSIVE"
                 PROVE  held'[s][z] = "none"
      BY DEF Compatible
    <3>3. CASE s # r
      BY <3>3, <2>1, <1>3 DEF Compatible
    <3>4. CASE s = r /\ y = x
      BY <3>1, <3>2, <3>4
    <3>5. CASE s = r /\ y # x
      BY <3>2, <3>5
    <3> QED BY <3>3, <3>4, <3>5
  <2> QED BY <2>2, <2>3 DEF Locks!Granted
<1>8. HookLocksKept
  BY <1>1, <1>5 DEF HookLocksKept, Stronger
<1>9. r # "__writer__" => NoNewWriter
  BY <1>3, Names DEF NoNewWriter, IsWriter
<1> QED BY <1>2, <1>3, <1>4, <1>5, <1>6, <1>7, <1>8, <1>9

LEMMA LocksReleased ==
  ASSUME NEW c \in Conn, Inv, NEW x \in Txn, Owns(c, x), hook # x, Ended(x)
  PROVE  /\ held' \in [Resource -> [Txn -> Locks!Modes]]
         /\ seen' \in [Txn -> [Tabs -> Version \cup {None}]]
         /\ KeepsOthers(c) /\ Compatible' /\ HookLocksKept /\ SeenStep /\ NoNewWriter
         /\ \A r \in Resource : held'[r][x] = "none"
         /\ \A r \in Resource, y \in Txn : y # x => held'[r][y] = held[r][y]
<1>1. /\ held \in [Resource -> [Txn -> Locks!Modes]] /\ hook \in Txn \cup {None}
      /\ seen \in [Txn -> [Tabs -> Version \cup {None}]]
  BY DEF Inv, Types
<1>2. held' = [r \in Resource |-> [held[r] EXCEPT ![x] = "none"]]
  BY DEF Ended, Locks!Released, Locks!Without
<1>3. held' \in [Resource -> [Txn -> Locks!Modes]]
  BY <1>1, <1>2 DEF Locks!Modes
<1>4. /\ \A r \in Resource : held'[r][x] = "none"
      /\ \A r \in Resource, y \in Txn : y # x => held'[r][y] = held[r][y]
  BY <1>1, <1>2
<1>5. seen' = [seen EXCEPT ![x] = Unread] /\ Unread \in [Tabs -> Version \cup {None}]
  BY DEF Ended, Unread
<1>6. seen' \in [Txn -> [Tabs -> Version \cup {None}]]
  BY <1>1, <1>5
<1>7. KeepsOthers(c)
  BY <1>4 DEF KeepsOthers
<1>8. Compatible'
  BY <1>4 DEF Inv, Compatible
<1>9. HookLocksKept
  BY <1>1, <1>4 DEF HookLocksKept
<1>10. SeenStep
  <2>1. \A t \in Tabs : seen'[x][t] = None
    BY <1>1, <1>5 DEF Unread
  <2>2. \A y \in Txn : y # x => seen'[y] = seen[y]
    BY <1>1, <1>5
  <2> QED BY <2>1, <2>2, <1>4, Names DEF SeenStep
<1>11. NoNewWriter
  BY <1>4, Names DEF NoNewWriter, IsWriter
<1> QED BY <1>3, <1>4, <1>6, <1>7, <1>8, <1>9, <1>10, <1>11

-----------------------------------------------------------------------------
(* Facts the actions share. *)

LEMMA StageNow ==
  ASSUME Inv, NEW c \in Conn
  PROVE  /\ StageOf(pc[c], call[c], txn[c], cursor[c])
         /\ LocksOf(pc[c], call[c], cursor[c], held, hook)
         /\ BoundOf(pc[c], call[c], cursor[c], db.idx)
         /\ pc[c] \in Labels /\ call[c] \in Call \cup {None}
         /\ txn[c] \in Txn \cup {None} /\ cursor[c] \in Cursor \cup {None}
         /\ pc[c] \notin {"idle", "closed"} =>
              call[c] # None /\ call[c] \in Call /\ X(c) \in Txn /\ Owns(c, X(c))
<1>1. StageOf(pc[c], call[c], txn[c], cursor[c])
  BY DEF Inv, Stages
<1>2. /\ LocksOf(pc[c], call[c], cursor[c], held, hook)
      /\ BoundOf(pc[c], call[c], cursor[c], db.idx)
  BY DEF Inv, LocksTaken, BoundIsCurrent
<1>3. /\ pc[c] \in Labels /\ call[c] \in Call \cup {None}
      /\ txn[c] \in Txn \cup {None} /\ cursor[c] \in Cursor \cup {None}
  BY DEF Inv, Types
<1>4. pc[c] \notin {"idle", "closed"} => call[c] # None
  BY <1>1 DEF StageOf
<1> QED BY <1>1, <1>2, <1>3, <1>4, CallOwned DEF Inv

LEMMA EnterFacts ==
  ASSUME Inv, NEW c \in Conn, NEW l \in Labels, NEW f \in Call \cup {None},
         Enter(c, l, f)
  PROVE  /\ pc' \in [Conn -> Labels] /\ call' \in [Conn -> Call \cup {None}]
         /\ pc'[c] = l /\ call'[c] = f
         /\ \A d \in Conn \ {c} : pc'[d] = pc[d] /\ call'[d] = call[d]
BY DEF Inv, Types, Enter

LEMMA GotoFacts ==
  ASSUME Inv, NEW c \in Conn, NEW l \in Labels, Goto(c, l)
  PROVE  /\ pc' \in [Conn -> Labels] /\ call' \in [Conn -> Call \cup {None}]
         /\ pc'[c] = l /\ call'[c] = call[c]
         /\ \A d \in Conn \ {c} : pc'[d] = pc[d] /\ call'[d] = call[d]
BY DEF Inv, Types, Goto

LEMMA SameReach ==
  ASSUME NEW c \in Conn, nextTxn' = nextTxn, stranded' = stranded,
         KeepsOthers(c), \A x \in Txn : OwnsAfter(c, x) <=> Owns(c, x)
  PROVE  TakesNew(c) /\ LetsGo(c)
BY DEF TakesNew, LetsGo, KeepsOthers

(* A transaction that is not conn._txn, and is not being ended, has not
   reached "__writer__". *)
LEMMA NotWriter ==
  ASSUME Inv, NEW c \in Conn, NEW x \in Txn, Owns(c, x), txn[c] = None,
         pc[c] \notin Finishing
  PROVE  ~IsWriter(x) /\ hook # x
<1> SUFFICES ASSUME IsWriter(x) PROVE FALSE
  BY Names DEF Inv, HookIsWriter
<1>1. PICK d \in Conn : \/ txn[d] = x /\ pc[d] \notin Finishing
                        \/ pc[d] \in Finishing /\ X(d) = x
  BY DEF Inv, WriterAtWork
<1>2. pc[d] \in Finishing => call[d] # None
  BY StageNow DEF Finishing, Leaving
<1>3. Owns(d, x)
  BY <1>1, <1>2 DEF Owns, Reaches, X
<1>4. d = c
  BY <1>3 DEF Inv, OneOwner
<1> QED BY <1>1, <1>4, Names

(* Calm steps that take no lock and release none. *)
LEMMA CalmStill ==
  ASSUME NEW c \in Conn, Inv, Types', Alone(c), StageAfter(c), LocksAfter(c),
         BoundAfter(c), TxnKept(c),
         \A x \in Txn : OwnsAfter(c, x) => Owns(c, x),
         \A x \in Txn : Owns(c, x) => OwnsAfter(c, x) \/ x \in stranded',
         stranded \subseteq stranded', catalog' \in {catalog, db.idx},
         \A x \in stranded' \ stranded :
           Owns(c, x) /\ ~OwnsAfter(c, x) /\ SchemaOnly(x, held),
         UNCHANGED <<hook, db, saved, committed, changes, held, seen, nextTxn>>,
         pc[c] \notin Finishing, pc'[c] \notin Finishing, pc'[c] # "bump"
  PROVE  Inv'
<1>1. KeepsOthers(c) /\ Compatible' /\ HookLocksKept /\ NoNewWriter
  BY LocksSame
<1>2. TakesNew(c) /\ LetsGo(c)
  BY DEF TakesNew, LetsGo, SchemaOnly
<1>3. SeenStep
  BY DEF SeenStep
<1> QED BY <1>1, <1>2, <1>3, Calm

-----------------------------------------------------------------------------
(* SELECT *)

LEMMA PlanHitKeeps ==
  ASSUME Inv, NEW c \in Conn, PlanHit(c)
  PROVE  Inv'
<1>1. /\ pc[c] = "plan" /\ Goto(c, "open")
      /\ UNCHANGED <<txn, cursor, lastSeen, hook, db, saved, committed, catalog,
                     plans, stranded, held, seen, nextTxn, changes>>
  BY DEF PlanHit, store, planned, locks, bounds
<1>2. "open" \in Labels
  BY DEF Labels
<1>3. /\ pc' \in [Conn -> Labels] /\ call' \in [Conn -> Call \cup {None}]
      /\ pc'[c] = "open" /\ call'[c] = call[c]
      /\ \A d \in Conn \ {c} : pc'[d] = pc[d] /\ call'[d] = call[d]
  BY <1>1, <1>2, GotoFacts
<1>4. Types'
  BY <1>1, <1>3 DEF Inv, Types
<1>5. Alone(c)
  BY <1>1, <1>3 DEF Alone
<1>6. StageAfter(c) /\ LocksAfter(c) /\ BoundAfter(c)
  BY <1>1, <1>3, StageNow DEF StageAfter, StageOf, LocksAfter, LocksOf, BoundAfter,
     BoundOf, Deciding, Opening, Running, Leaving, Body, Bound
<1>7. TxnKept(c) /\ \A x \in Txn : OwnsAfter(c, x) <=> Owns(c, x)
  BY <1>1, <1>3 DEF TxnKept, OwnsAfter, Owns
<1>8. pc[c] \notin Finishing /\ pc'[c] \notin Finishing /\ pc'[c] # "bump"
  BY <1>1, <1>3 DEF Finishing, Leaving
<1> QED BY <1>1, <1>4, <1>5, <1>6, <1>7, <1>8, CalmStill

LEMMA PlanFailsKeeps ==
  ASSUME Inv, NEW c \in Conn, PlanFails(c)
  PROVE  Inv'
<1>1. /\ pc[c] \in {"plan", "cost"} /\ Enter(c, "idle", None)
      /\ stranded' = IF call[c].auto THEN stranded \cup {X(c)} ELSE stranded
      /\ UNCHANGED <<txn, cursor, lastSeen, hook, db, saved, committed, catalog,
                     plans, held, seen, nextTxn, changes>>
  BY DEF PlanFails, StaleHit, Return, store, locks, bounds
<1>2. "idle" \in Labels
  BY DEF Labels
<1>3. /\ pc' \in [Conn -> Labels] /\ call' \in [Conn -> Call \cup {None}]
      /\ pc'[c] = "idle" /\ call'[c] = None
      /\ \A d \in Conn \ {c} : pc'[d] = pc[d] /\ call'[d] = call[d]
  BY <1>1, <1>2, EnterFacts
<1>4. Types'
  BY <1>1, <1>3, StageNow DEF Inv, Types
<1>5. Alone(c)
  BY <1>1, <1>3 DEF Alone
<1>6. /\ call[c] # None /\ cursor[c] = None /\ X(c) \in Txn /\ Owns(c, X(c))
      /\ txn[c] = IF call[c].auto THEN None ELSE X(c)
      /\ call[c].auto => SchemaOnly(X(c), held)
  BY <1>1, StageNow DEF StageOf, LocksOf, Opening, Deciding, X
<1>7. StageAfter(c) /\ LocksAfter(c) /\ BoundAfter(c)
  BY <1>1, <1>3, <1>6 DEF StageAfter, StageOf, LocksAfter, LocksOf, BoundAfter,
     BoundOf, Deciding, Opening, Running, Leaving, Body, Bound
<1>8. TxnKept(c) /\ \A x \in Txn : OwnsAfter(c, x) => Owns(c, x)
  BY <1>1, <1>3 DEF TxnKept, OwnsAfter, Owns, Reaches
<1>9. \A x \in Txn : Owns(c, x) => OwnsAfter(c, x) \/ x \in stranded'
  BY <1>1, <1>3, <1>6 DEF OwnsAfter, Owns, Reaches, X
<1>10. pc[c] \notin Finishing /\ pc'[c] \notin Finishing /\ pc'[c] # "bump"
  BY <1>1, <1>3 DEF Finishing, Leaving
<1>11. stranded \subseteq stranded'
  BY <1>1
<1>12. \A x \in stranded' \ stranded :
         Owns(c, x) /\ ~OwnsAfter(c, x) /\ SchemaOnly(x, held)
  BY <1>1, <1>3, <1>6, Names DEF OwnsAfter, Reaches
<1> QED BY <1>1, <1>4, <1>5, <1>7, <1>8, <1>9, <1>10, <1>11, <1>12, CalmStill

LEMMA PlanMissKeeps ==
  ASSUME Inv, NEW c \in Conn, PlanMiss(c)
  PROVE  Inv'
<1> DEFINE f == Frame(call[c], X(c), call[c].auto, call[c].bound, db.cookie)
<1>1. /\ pc[c] = "plan" /\ Enter(c, "cost", f)
      /\ UNCHANGED <<txn, cursor, lastSeen, hook, db, saved, committed, catalog,
                     plans, stranded, held, seen, nextTxn, changes>>
  BY DEF PlanMiss, store, planned, locks, bounds
<1>2. "cost" \in Labels
  BY DEF Labels
<1>3. /\ f \in Call /\ f.kind = call[c].kind /\ f.table = call[c].table
      /\ f.index = call[c].index /\ f.txn = call[c].txn
      /\ f.auto = call[c].auto /\ f.bound = call[c].bound
  <2>1. call[c] \in Call /\ db.cookie \in Version
    BY <1>1, StageNow DEF Inv, Types, Database
  <2> QED BY <2>1 DEF Call, Frame, X
<1> HIDE DEF f
<1>4. /\ pc' \in [Conn -> Labels] /\ call' \in [Conn -> Call \cup {None}]
      /\ pc'[c] = "cost" /\ call'[c] = f
      /\ \A d \in Conn \ {c} : pc'[d] = pc[d] /\ call'[d] = call[d]
  BY <1>1, <1>2, <1>3, EnterFacts
<1>5. Types'
  BY <1>1, <1>4 DEF Inv, Types
<1>6. Alone(c)
  BY <1>1, <1>4 DEF Alone
<1>7. f # None /\ call[c] # None
  BY <1>1, <1>3, StageNow, NoneAssumption
<1>8. StageAfter(c) /\ LocksAfter(c) /\ BoundAfter(c)
  BY <1>1, <1>3, <1>4, <1>7, StageNow DEF StageAfter, StageOf, LocksAfter, LocksOf,
     BoundAfter, BoundOf, Deciding, Opening, Running, Leaving, Body, Bound
<1>9. TxnKept(c) /\ \A x \in Txn : OwnsAfter(c, x) <=> Owns(c, x)
  BY <1>1, <1>3, <1>4, <1>7 DEF TxnKept, OwnsAfter, Owns, Reaches
<1>10. pc[c] \notin Finishing /\ pc'[c] \notin Finishing /\ pc'[c] # "bump"
  BY <1>1, <1>4 DEF Finishing, Leaving
<1> QED BY <1>1, <1>5, <1>6, <1>8, <1>9, <1>10, CalmStill

LEMMA PlanBuildKeeps ==
  ASSUME Inv, NEW c \in Conn, PlanBuild(c)
  PROVE  Inv'
<1>1. /\ pc[c] = "cost" /\ Goto(c, "open")
      /\ UNCHANGED <<txn, cursor, lastSeen, hook, db, saved, committed, catalog,
                     stranded, held, seen, nextTxn, changes>>
  BY DEF PlanBuild, store, locks, bounds
<1>2. PICK i \in catalog[T(c)] \cup {None} :
        plans' = [plans EXCEPT ![T(c)] = [cookie |-> call[c].cookie, index |-> i]]
  BY DEF PlanBuild
<1>3. "open" \in Labels
  BY DEF Labels
<1>4. /\ pc' \in [Conn -> Labels] /\ call' \in [Conn -> Call \cup {None}]
      /\ pc'[c] = "open" /\ call'[c] = call[c]
      /\ \A d \in Conn \ {c} : pc'[d] = pc[d] /\ call'[d] = call[d]
  BY <1>1, <1>3, GotoFacts
<1>5. plans' \in [Table -> [cookie : Version, index : Index \cup {None}] \cup {None}]
  <2>1. /\ plans \in [Table -> [cookie : Version, index : Index \cup {None}] \cup {None}]
        /\ catalog \in [Table -> SUBSET Index]
    BY DEF Inv, Types, Indexes
  <2>2. call[c] \in Call /\ T(c) \in Table
    BY <1>1, StageNow DEF StageOf, Opening, T
  <2>3. call[c].cookie \in Version /\ i \in Index \cup {None}
    BY <2>1, <2>2 DEF Call
  <2> QED BY <1>2, <2>1, <2>2, <2>3
<1>6. Types'
  BY <1>1, <1>4, <1>5 DEF Inv, Types
<1>7. Alone(c)
  BY <1>1, <1>4 DEF Alone
<1>8. StageAfter(c) /\ LocksAfter(c) /\ BoundAfter(c)
  BY <1>1, <1>4, StageNow DEF StageAfter, StageOf, LocksAfter, LocksOf, BoundAfter,
     BoundOf, Deciding, Opening, Running, Leaving, Body, Bound
<1>9. TxnKept(c) /\ \A x \in Txn : OwnsAfter(c, x) <=> Owns(c, x)
  BY <1>1, <1>4 DEF TxnKept, OwnsAfter, Owns
<1>10. pc[c] \notin Finishing /\ pc'[c] \notin Finishing /\ pc'[c] # "bump"
  BY <1>1, <1>4 DEF Finishing, Leaving
<1> QED BY <1>1, <1>6, <1>7, <1>8, <1>9, <1>10, CalmStill

(* Calm steps that are granted a lock. *)
LEMMA CalmGrant ==
  ASSUME NEW c \in Conn, Inv, Types', Alone(c), StageAfter(c), LocksAfter(c),
         BoundAfter(c), txn'[c] = txn[c],
         pc[c] \notin {"idle", "closed"},
         NEW r \in Resource \ {"__writer__"}, NEW m \in {"SHARED", "EXCLUSIVE"},
         Locks!Granted(X(c), r, m), SeenStep,
         \A x \in Txn : OwnsAfter(c, x) <=> Owns(c, x),
         UNCHANGED <<hook, db, saved, committed, changes, nextTxn, stranded, catalog>>,
         pc[c] \notin Finishing, pc'[c] \notin Finishing, pc'[c] # "bump"
  PROVE  Inv'
<1>1. X(c) \in Txn /\ Owns(c, X(c))
  BY StageNow
<1>2. KeepsOthers(c) /\ Compatible' /\ HookLocksKept /\ NoNewWriter
  BY <1>1, LocksGranted
<1>3. TakesNew(c) /\ LetsGo(c)
  BY <1>2, SameReach
<1>4. TxnKept(c)
  BY DEF TxnKept
<1> QED BY <1>2, <1>3, <1>4, Calm

LEMMA SeenSame ==
  ASSUME UNCHANGED seen, \A x \in Txn : Stronger(x)
  PROVE  SeenStep
BY Names DEF SeenStep, Stronger

LEMMA LockSchemaKeeps ==
  ASSUME Inv, NEW c \in Conn, LockSchema(c)
  PROVE  Inv'
<1>1. /\ pc[c] = "schema" /\ Goto(c, "bind")
      /\ Locks!Granted(X(c), "__schema__", SchemaMode(c))
      /\ UNCHANGED <<txn, cursor, lastSeen, hook, db, saved, committed, catalog,
                     plans, stranded, seen, nextTxn, changes>>
  BY DEF LockSchema, store, planned, bounds
<1>2. "bind" \in Labels /\ SchemaMode(c) \in {"SHARED", "EXCLUSIVE"}
  BY DEF Labels, SchemaMode
<1>3. /\ pc' \in [Conn -> Labels] /\ call' \in [Conn -> Call \cup {None}]
      /\ pc'[c] = "bind" /\ call'[c] = call[c]
      /\ \A d \in Conn \ {c} : pc'[d] = pc[d] /\ call'[d] = call[d]
  BY <1>1, <1>2, GotoFacts
<1>4. X(c) \in Txn /\ Owns(c, X(c)) /\ call[c] # None /\ cursor[c] = None
  BY <1>1, StageNow DEF StageOf
<1>5. /\ held' \in [Resource -> [Txn -> Locks!Modes]]
      /\ held'["__schema__"][X(c)] \in {SchemaMode(c), "EXCLUSIVE"}
      /\ held["__schema__"][X(c)] = "none" => held'["__schema__"][X(c)] = SchemaMode(c)
      /\ \A r \in Resource \ {"__schema__"} : held'[r][X(c)] = held[r][X(c)]
      /\ \A x \in Txn : Stronger(x)
  BY <1>1, <1>2, <1>4, LocksGranted, Names
<1>6. Types'
  BY <1>1, <1>3, <1>5 DEF Inv, Types
<1>7. Alone(c)
  BY <1>1, <1>3 DEF Alone
<1>8. StageAfter(c) /\ BoundAfter(c)
  BY <1>1, <1>3, <1>4, StageNow DEF StageAfter, StageOf, BoundAfter,
     BoundOf, Deciding, Opening, Running, Leaving, Body
<1>9. LocksAfter(c)
  <2>1. call[c].auto => \A r \in Resource : held[r][X(c)] = "none"
    BY <1>1, StageNow DEF LocksOf, X
  <2>2. call[c].auto /\ call[c].kind = "select" => SchemaOnly(X(c), held')
    BY <1>5, <2>1, Names DEF SchemaOnly, SchemaMode
  <2> QED BY <1>1, <1>3, <1>4, <1>5, <2>2 DEF LocksAfter, LocksOf, Bound, Body, Opening,
         Leaving, SchemaMode, X
<1>10. \A x \in Txn : OwnsAfter(c, x) <=> Owns(c, x)
  BY <1>1, <1>3 DEF OwnsAfter, Owns
<1>11. pc[c] \notin Finishing /\ pc'[c] \notin Finishing /\ pc'[c] # "bump"
  BY <1>1, <1>3 DEF Finishing, Leaving
<1>12. SeenStep
  BY <1>1, <1>5, SeenSame
<1>13. "__schema__" \in Resource \ {"__writer__"}
  BY Names
<1> QED BY <1>1, <1>2, <1>6, <1>7, <1>8, <1>9, <1>10, <1>11, <1>12, <1>13, CalmGrant

LEMMA ImmediateSchemaKeeps ==
  ASSUME Inv, NEW c \in Conn, ImmediateSchema(c)
  PROVE  Inv'
<1>1. /\ pc[c] = "immSchema" /\ Goto(c, "immWriter")
      /\ Locks!Granted(X(c), "__schema__", "SHARED")
      /\ UNCHANGED <<txn, cursor, lastSeen, hook, db, saved, committed, catalog,
                     plans, stranded, seen, nextTxn, changes>>
  BY DEF ImmediateSchema, store, planned, bounds
<1>2. "immWriter" \in Labels
  BY DEF Labels
<1>3. /\ pc' \in [Conn -> Labels] /\ call' \in [Conn -> Call \cup {None}]
      /\ pc'[c] = "immWriter" /\ call'[c] = call[c]
      /\ \A d \in Conn \ {c} : pc'[d] = pc[d] /\ call'[d] = call[d]
  BY <1>1, <1>2, GotoFacts
<1>4. X(c) \in Txn /\ Owns(c, X(c)) /\ call[c] # None /\ cursor[c] = None
  BY <1>1, StageNow DEF StageOf
<1>5. /\ held' \in [Resource -> [Txn -> Locks!Modes]]
      /\ \A x \in Txn : Stronger(x)
  BY <1>1, <1>4, LocksGranted, Names
<1>6. Types'
  BY <1>1, <1>3, <1>5 DEF Inv, Types
<1>7. Alone(c)
  BY <1>1, <1>3 DEF Alone
<1>8. StageAfter(c) /\ BoundAfter(c) /\ LocksAfter(c)
  BY <1>1, <1>3, <1>4, StageNow DEF StageAfter, StageOf, BoundAfter,
     BoundOf, LocksAfter, LocksOf, Deciding, Opening, Running, Leaving, Body, Bound
<1>9. \A x \in Txn : OwnsAfter(c, x) <=> Owns(c, x)
  BY <1>1, <1>3 DEF OwnsAfter, Owns
<1>10. pc[c] \notin Finishing /\ pc'[c] \notin Finishing /\ pc'[c] # "bump"
  BY <1>1, <1>3 DEF Finishing, Leaving
<1>11. SeenStep
  BY <1>1, <1>5, SeenSame
<1>12. "__schema__" \in Resource \ {"__writer__"}
  BY Names
<1> QED BY <1>1, <1>6, <1>7, <1>8, <1>9, <1>10, <1>11, <1>12, CalmGrant

LEMMA LockMeasuredKeeps ==
  ASSUME Inv, NEW c \in Conn, NEW t \in Table, LockMeasured(c, t)
  PROVE  Inv'
<1>1. /\ pc[c] = "reads" /\ Locks!Granted(X(c), t, "SHARED")
      /\ UNCHANGED <<pc, call, txn, cursor, lastSeen, hook, db, saved, committed,
                     catalog, plans, stranded, seen, nextTxn, changes>>
  BY DEF LockMeasured, conn, store, planned, bounds
<1>2. X(c) \in Txn /\ Owns(c, X(c)) /\ call[c] # None /\ cursor[c] = None
  BY <1>1, StageNow DEF StageOf
<1>3. t \in Resource \ {"__writer__"} /\ "__schema__" \in Resource
      /\ "__writer__" \in Resource /\ Stat \in Resource
  BY Names
<1>4. /\ held' \in [Resource -> [Txn -> Locks!Modes]]
      /\ \A x \in Txn : Stronger(x)
  BY <1>1, <1>2, <1>3, LocksGranted
<1>5. Types'
  BY <1>1, <1>4 DEF Inv, Types
<1>6. Alone(c)
  BY <1>1 DEF Alone
<1>7. StageAfter(c) /\ BoundAfter(c)
  BY <1>1, StageNow DEF StageAfter, BoundAfter
<1>8. call[c].kind = "analyze"
  BY <1>1, StageNow DEF StageOf
<1>9. LocksAfter(c)
  BY <1>1, <1>2, <1>3, <1>4, <1>8, StageNow DEF LocksAfter, LocksOf, Stronger, X, Leaving
<1>10. \A x \in Txn : OwnsAfter(c, x) <=> Owns(c, x)
  BY <1>1 DEF OwnsAfter, Owns
<1>11. pc[c] \notin Finishing /\ pc'[c] \notin Finishing /\ pc'[c] # "bump"
  BY <1>1 DEF Finishing, Leaving
<1>12. SeenStep
  BY <1>1, <1>4, SeenSame
<1> QED BY <1>1, <1>3, <1>5, <1>6, <1>7, <1>9, <1>10, <1>11, <1>12, CalmGrant

LEMMA OpenScanKeeps ==
  ASSUME Inv, NEW c \in Conn, OpenScan(c)
  PROVE  Inv'
<1> DEFINE k == [txn |-> X(c), implicit |-> call[c].auto, bound |-> call[c].bound]
<1>1. /\ pc[c] = "open" /\ Enter(c, "idle", None)
      /\ Locks!Granted(X(c), T(c), "SHARED")
      /\ cursor' = [cursor EXCEPT ![c] = k]
      /\ seen' = [seen EXCEPT ![X(c)][T(c)] = db.ver[T(c)]]
      /\ UNCHANGED <<txn, lastSeen, hook, db, saved, committed, catalog,
                     plans, stranded, nextTxn, changes>>
  BY DEF OpenScan, OpenCursor, Return, store, planned, bounds
<1>2. /\ X(c) \in Txn /\ Owns(c, X(c)) /\ call[c] # None /\ call[c] \in Call
      /\ cursor[c] = None /\ T(c) \in Table
  BY <1>1, StageNow DEF StageOf, Opening, T
<1>3. k \in Cursor /\ k.txn = X(c) /\ k.implicit = call[c].auto /\ k.bound = call[c].bound
  BY <1>2 DEF Call, Cursor, X
<1> HIDE DEF k
<1>4. "idle" \in Labels
  BY DEF Labels
<1>5. /\ pc' \in [Conn -> Labels] /\ call' \in [Conn -> Call \cup {None}]
      /\ pc'[c] = "idle" /\ call'[c] = None
      /\ \A d \in Conn \ {c} : pc'[d] = pc[d] /\ call'[d] = call[d]
  BY <1>1, <1>4, EnterFacts
<1>6. /\ cursor' \in [Conn -> Cursor \cup {None}] /\ cursor'[c] = k /\ k # None
      /\ \A d \in Conn \ {c} : cursor'[d] = cursor[d]
  BY <1>1, <1>3, NoneAssumption DEF Inv, Types
<1>7. T(c) \in Resource \ {"__writer__"} /\ T(c) \in Tabs
  BY <1>2, Names
<1>8. /\ held' \in [Resource -> [Txn -> Locks!Modes]]
      /\ \A x \in Txn : Stronger(x)
      /\ held'[T(c)][X(c)] # "none"
  BY <1>1, <1>2, <1>7, LocksGranted
<1>9. /\ seen' \in [Txn -> [Tabs -> Version \cup {None}]]
      /\ seen'[X(c)][T(c)] = db.ver[T(c)]
      /\ \A x \in Txn, t \in Tabs : x # X(c) \/ t # T(c) => seen'[x][t] = seen[x][t]
  <2>1. seen \in [Txn -> [Tabs -> Version \cup {None}]] /\ db.ver[T(c)] \in Version
    BY <1>7 DEF Inv, Types, Database
  <2> QED BY <1>1, <1>2, <1>7, <2>1
<1>10. SeenStep
  BY <1>8, <1>9, Names DEF SeenStep, Stronger
<1>11. Types'
  BY <1>1, <1>5, <1>6, <1>8, <1>9 DEF Inv, Types
<1>12. Alone(c)
  BY <1>1, <1>5, <1>6 DEF Alone
<1>13. StageAfter(c) /\ BoundAfter(c)
  BY <1>1, <1>2, <1>3, <1>5, <1>6, StageNow DEF StageAfter, StageOf, BoundAfter,
     BoundOf, Deciding, Opening, Running, Leaving, Body, X
<1>14. LocksAfter(c)
  BY <1>1, <1>2, <1>3, <1>5, <1>6, <1>8, StageNow, Names DEF LocksAfter, LocksOf, Stronger,
     Bound, Opening, Body, Leaving, X
<1>15. \A x \in Txn : OwnsAfter(c, x) <=> Owns(c, x)
  BY <1>1, <1>2, <1>3, <1>5, <1>6 DEF OwnsAfter, Owns, Reaches, X
<1>16. pc[c] \notin Finishing /\ pc'[c] \notin Finishing /\ pc'[c] # "bump"
  BY <1>1, <1>5 DEF Finishing, Leaving
<1>17. txn'[c] = txn[c] /\ pc[c] \notin {"idle", "closed"}
  BY <1>1
<1> QED BY <1>1, <1>7, <1>10, <1>11, <1>12, <1>13, <1>14, <1>15, <1>16, <1>17, CalmGrant

-----------------------------------------------------------------------------
(* Steps that end a call and leave everything else as it is. *)

LEMMA QuietEnd ==
  ASSUME Inv, NEW c \in Conn,
         pc[c] \in {"writer", "immSchema", "immWriter", "commit"} \cup Body,
         Return(c) \/ Goto(c, "rollback"),
         UNCHANGED <<txn, cursor, lastSeen, hook, db, saved, committed, catalog,
                     plans, stranded, held, seen, nextTxn, changes>>
  PROVE  Inv'
<1>1. call[c] # None /\ cursor[c] = None /\ txn[c] = X(c) /\ X(c) \in Txn
  BY StageNow DEF StageOf, Running, Body, X
<1>2. {"idle", "rollback"} \subseteq Labels
  BY DEF Labels
<1>3. /\ pc' \in [Conn -> Labels] /\ call' \in [Conn -> Call \cup {None}]
      /\ \/ pc'[c] = "idle" /\ call'[c] = None
         \/ pc'[c] = "rollback" /\ call'[c] = call[c]
      /\ \A d \in Conn \ {c} : pc'[d] = pc[d] /\ call'[d] = call[d]
  <2>1. CASE Return(c)
    BY <1>2, <2>1, EnterFacts DEF Return
  <2>2. CASE Goto(c, "rollback")
    BY <1>2, <2>2, GotoFacts
  <2> QED BY <2>1, <2>2
<1>4. Types'
  BY <1>3 DEF Inv, Types
<1>5. Alone(c)
  BY <1>3 DEF Alone
<1>6. StageAfter(c) /\ LocksAfter(c) /\ BoundAfter(c)
  BY <1>1, <1>3, StageNow DEF StageAfter, StageOf, LocksAfter, LocksOf, BoundAfter,
     BoundOf, Deciding, Opening, Running, Leaving, Body, Bound, X
<1>7. TxnKept(c) /\ \A x \in Txn : OwnsAfter(c, x) <=> Owns(c, x)
  BY <1>1, <1>3 DEF TxnKept, OwnsAfter, Owns, Reaches, X
<1>8. pc[c] \notin Finishing /\ pc'[c] \notin Finishing /\ pc'[c] # "bump"
  BY <1>3 DEF Finishing, Leaving, Body
<1> QED BY <1>4, <1>5, <1>6, <1>7, <1>8, CalmStill

LEMMA BodyFailsKeeps ==
  ASSUME Inv, NEW c \in Conn, BodyFails(c)
  PROVE  Inv'
<1>1. /\ pc[c] \in {"writer"} \cup Body
      /\ Return(c) \/ Goto(c, "rollback")
      /\ UNCHANGED <<txn, cursor, lastSeen, hook, db, saved, committed, catalog,
                     plans, stranded, held, seen, nextTxn, changes>>
  BY DEF BodyFails, LockFailsLate, BodyRaises, Body, store, planned, locks, bounds
<1> QED BY <1>1, QuietEnd

LEMMA ImmediateFailsKeeps ==
  ASSUME Inv, NEW c \in Conn, ImmediateFails(c)
  PROVE  Inv'
<1>1. /\ pc[c] \in {"immSchema", "immWriter"} /\ Return(c)
      /\ UNCHANGED <<txn, cursor, lastSeen, hook, db, saved, committed, catalog,
                     plans, stranded, held, seen, nextTxn, changes>>
  BY DEF ImmediateFails, store, planned, locks, bounds
<1> QED BY <1>1, QuietEnd

LEMMA CommitFailsKeeps ==
  ASSUME Inv, NEW c \in Conn, CommitFails(c)
  PROVE  Inv'
<1>1. /\ pc[c] = "commit" /\ Return(c)
      /\ UNCHANGED <<txn, cursor, lastSeen, hook, db, saved, committed, catalog,
                     plans, stranded, held, seen, nextTxn, changes>>
  BY DEF CommitFails, store, planned, locks, bounds
<1> QED BY <1>1, QuietEnd

-----------------------------------------------------------------------------
(* Binding *)

(* Whoever holds "__schema__" sees the pool's schema in the Catalog. *)
LEMMA CatalogFor ==
  ASSUME Inv, NEW c \in Conn, NEW x \in Txn, Owns(c, x),
         held["__schema__"][x] # "none",
         pc[c] \notin {"unhookRolledBack", "reload"}
  PROVE  catalog = db.idx
<1> SUFFICES ASSUME NEW d \in Conn, pc[d] \in {"unhookRolledBack", "reload"},
                    held["__schema__"][X(d)] = "EXCLUSIVE"
             PROVE  FALSE
  BY DEF Inv, CatalogFresh
<1>1. X(d) \in Txn /\ Owns(d, X(d))
  BY StageNow
<1>2. X(d) = x
  BY <1>1, Names DEF Inv, Compatible
<1> QED BY <1>1, <1>2 DEF Inv, OneOwner

LEMMA ResyncFacts ==
  ASSUME Inv, NEW c \in Conn, pc[c] = "bind", Resync(c)
  PROVE  /\ catalog' = db.idx /\ catalog' \in Indexes
         /\ lastSeen' \in [Conn -> Version]
<1>1. X(c) \in Txn /\ Owns(c, X(c)) /\ held["__schema__"][X(c)] # "none"
  BY StageNow DEF LocksOf, Bound, X
<1>2. catalog = db.idx
  BY <1>1, CatalogFor
<1>3. db.idx \in Indexes /\ db.cookie \in Version /\ lastSeen \in [Conn -> Version]
  BY DEF Inv, Types, Database
<1> QED BY <1>2, <1>3 DEF Resync

LEMMA BindKeeps ==
  ASSUME Inv, NEW c \in Conn, Bind(c)
  PROVE  Inv'
<1> DEFINE f == Frame(call[c], X(c), call[c].auto, catalog', call[c].cookie)
           l == IF call[c].kind = "select" THEN "plan" ELSE "writer"
<1>1. /\ pc[c] = "bind" /\ Resync(c) /\ Enter(c, l, f)
      /\ txn' = IF call[c].kind = "select" THEN txn ELSE [txn EXCEPT ![c] = X(c)]
      /\ UNCHANGED <<cursor, hook, db, saved, committed, plans, stranded, held,
                     seen, nextTxn, changes>>
  BY DEF Bind, store, planned, locks, bounds
<1>2. /\ catalog' = db.idx /\ catalog' \in Indexes
      /\ lastSeen' \in [Conn -> Version]
  BY <1>1, ResyncFacts
<1>3. /\ call[c] \in Call /\ call[c] # None /\ cursor[c] = None
      /\ X(c) \in Txn /\ Owns(c, X(c))
  BY <1>1, StageNow DEF StageOf
<1>4. /\ f \in Call /\ f.kind = call[c].kind /\ f.table = call[c].table
      /\ f.index = call[c].index /\ f.txn = call[c].txn
      /\ f.auto = call[c].auto /\ f.bound = db.idx
  BY <1>2, <1>3 DEF Call, Frame, X
<1>5. f # None
  BY <1>4, NoneAssumption
<1>6. /\ l \in Labels
      /\ call[c].kind = "select" => l = "plan"
      /\ call[c].kind # "select" => l = "writer"
  BY DEF Labels
<1> HIDE DEF f, l
<1>7. /\ pc' \in [Conn -> Labels] /\ call' \in [Conn -> Call \cup {None}]
      /\ pc'[c] = l /\ call'[c] = f
      /\ \A d \in Conn \ {c} : pc'[d] = pc[d] /\ call'[d] = call[d]
  BY <1>1, <1>4, <1>6, EnterFacts
<1>8. /\ txn' \in [Conn -> Txn \cup {None}]
      /\ \A d \in Conn \ {c} : txn'[d] = txn[d]
      /\ call[c].kind = "select" => txn'[c] = txn[c]
      /\ call[c].kind # "select" => txn'[c] = X(c)
  BY <1>1, <1>3 DEF Inv, Types
<1>9. Types'
  BY <1>1, <1>2, <1>7, <1>8 DEF Inv, Types
<1>10. Alone(c)
  BY <1>1, <1>7, <1>8 DEF Alone
<1>11. txn[c] = IF call[c].auto THEN None ELSE X(c)
  BY <1>1, StageNow DEF StageOf, Deciding, X
<1>12. StageAfter(c)
  <2>1. StageOf(pc[c], call[c], txn[c], cursor[c])
    BY StageNow
  <2>2. CASE call[c].kind = "select"
    BY <1>1, <1>3, <1>4, <1>5, <1>6, <1>7, <1>8, <1>11, <2>1, <2>2 DEF StageAfter, StageOf,
       Deciding, Opening, Running, Leaving, Body, X
  <2>3. CASE call[c].kind # "select"
    BY <1>1, <1>3, <1>4, <1>5, <1>6, <1>7, <1>8, <1>11, <2>1, <2>3 DEF StageAfter, StageOf,
       Deciding, Opening, Running, Leaving, Body, X
  <2> QED BY <2>2, <2>3
<1>13. LocksAfter(c)
  BY <1>1, <1>3, <1>4, <1>6, <1>7, StageNow DEF LocksAfter, LocksOf, Bound,
     Opening, Body, Leaving, X
<1>14. BoundAfter(c)
  BY <1>1, <1>3, <1>4, <1>7 DEF BoundAfter, BoundOf
<1>15. TxnKept(c)
  <2>1. CASE call[c].auto
    <3>1. ~IsWriter(X(c))
      BY <1>1, <1>3, <1>11, <2>1, NotWriter DEF Finishing, Leaving
    <3> QED BY <1>3, <1>8, <1>11, <2>1, <3>1 DEF TxnKept
  <2>2. CASE ~call[c].auto
    BY <1>8, <1>11, <2>2 DEF TxnKept
  <2> QED BY <2>1, <2>2
<1>16. \A x \in Txn : OwnsAfter(c, x) <=> Owns(c, x)
  BY <1>1, <1>3, <1>4, <1>5, <1>7, <1>8, <1>11, Names DEF OwnsAfter, Owns, Reaches, X
<1>17. pc[c] \notin Finishing /\ pc'[c] \notin Finishing /\ pc'[c] # "bump"
  BY <1>1, <1>6, <1>7 DEF Finishing, Leaving
<1> QED BY <1>1, <1>2, <1>9, <1>10, <1>12, <1>13, <1>14, <1>15, <1>16, <1>17, CalmStill

-----------------------------------------------------------------------------
(* Ending a transaction that has changed nothing *)

(* BindFails and LockFailsEarly: the call returns; a transaction of its own
   is rolled back. *)
LEMMA AbandonKeeps ==
  ASSUME Inv, NEW c \in Conn, pc[c] \in {"schema", "bind", "open"}, Abandon(c),
         catalog' \in {catalog, db.idx}, catalog' \in Indexes,
         lastSeen' \in [Conn -> Version],
         UNCHANGED <<txn, cursor, hook, db, saved, committed, plans, stranded,
                     nextTxn, changes>>
  PROVE  Inv'
<1>1. /\ call[c] # None /\ cursor[c] = None /\ X(c) \in Txn /\ Owns(c, X(c))
      /\ txn[c] = IF call[c].auto THEN None ELSE X(c)
  BY StageNow DEF StageOf, Deciding, X
<1>2. pc[c] \notin Finishing
  BY DEF Finishing, Leaving
<1>3. "idle" \in Labels
  BY DEF Labels
<1>4. /\ pc' \in [Conn -> Labels] /\ call' \in [Conn -> Call \cup {None}]
      /\ pc'[c] = "idle" /\ call'[c] = None
      /\ \A d \in Conn \ {c} : pc'[d] = pc[d] /\ call'[d] = call[d]
  BY <1>3, EnterFacts DEF Abandon, Return
<1>5. Alone(c)
  BY <1>4 DEF Alone
<1>6. StageAfter(c) /\ LocksAfter(c) /\ BoundAfter(c)
  BY <1>1, <1>4 DEF StageAfter, StageOf, LocksAfter, LocksOf, BoundAfter,
     BoundOf, Deciding, Opening, Running, Leaving, Body, Bound
<1>7. TxnKept(c) /\ \A x \in Txn : OwnsAfter(c, x) => Owns(c, x)
  BY <1>1, <1>4 DEF TxnKept, OwnsAfter, Owns, Reaches
<1>8. pc'[c] \notin Finishing /\ pc'[c] # "bump"
  BY <1>4 DEF Finishing, Leaving
<1>9. CASE call[c].auto
  <2>1. hook # X(c) /\ Ended(X(c))
    BY <1>1, <1>2, <1>9, NotWriter DEF Abandon
  <2>2. /\ held' \in [Resource -> [Txn -> Locks!Modes]]
        /\ seen' \in [Txn -> [Tabs -> Version \cup {None}]]
        /\ KeepsOthers(c) /\ Compatible' /\ HookLocksKept /\ SeenStep /\ NoNewWriter
        /\ \A r \in Resource : held'[r][X(c)] = "none"
    BY <1>1, <2>1, LocksReleased
  <2>3. Types'
    BY <1>4, <2>2 DEF Inv, Types
  <2>4. TakesNew(c)
    BY <1>7 DEF TakesNew
  <2>5. \A x \in Txn : Owns(c, x) => x = X(c)
    BY <1>1, <1>9, Names DEF Owns, Reaches, X
  <2>6. LetsGo(c)
    BY <2>2, <2>5 DEF LetsGo, KeepsOthers
  <2> QED BY <1>2, <1>5, <1>6, <1>7, <1>8, <2>2, <2>3, <2>4, <2>6, Calm
<1>10. CASE ~call[c].auto
  <2>1. UNCHANGED <<held, seen>>
    BY <1>10 DEF Abandon, locks
  <2>2. Types'
    BY <1>4, <2>1 DEF Inv, Types
  <2>3. \A x \in Txn : Owns(c, x) => OwnsAfter(c, x)
    BY <1>1, <1>10, <1>4 DEF OwnsAfter, Owns, Reaches, X
  <2> QED BY <1>2, <1>5, <1>6, <1>7, <1>8, <2>1, <2>2, <2>3, CalmStill
<1> QED BY <1>9, <1>10

LEMMA BindFailsKeeps ==
  ASSUME Inv, NEW c \in Conn, BindFails(c)
  PROVE  Inv'
<1>1. /\ pc[c] = "bind" /\ Resync(c) /\ Abandon(c)
      /\ UNCHANGED <<txn, cursor, hook, db, saved, committed, plans, stranded,
                     nextTxn, changes>>
  BY DEF BindFails, store, planned, bounds
<1>2. catalog' = db.idx /\ catalog' \in Indexes /\ lastSeen' \in [Conn -> Version]
  BY <1>1, ResyncFacts
<1> QED BY <1>1, <1>2, AbandonKeeps

LEMMA LockFailsEarlyKeeps ==
  ASSUME Inv, NEW c \in Conn, LockFailsEarly(c)
  PROVE  Inv'
<1>1. /\ pc[c] \in {"schema", "open"} /\ Abandon(c)
      /\ UNCHANGED <<txn, cursor, lastSeen, hook, db, saved, committed, catalog,
                     plans, stranded, nextTxn, changes>>
  BY DEF LockFailsEarly, store, planned, bounds
<1>2. catalog' \in Indexes /\ lastSeen' \in [Conn -> Version]
  BY <1>1 DEF Inv, Types
<1> QED BY <1>1, <1>2, AbandonKeeps

(* What closing the open cursor does: an autocommit SELECT's transaction ends,
   and no other transaction of the connection is affected. *)
LEMMA CloseCursorFacts ==
  ASSUME Inv, NEW c \in Conn, pc[c] = "idle", CloseCursor(c), UNCHANGED <<hook, db>>
  PROVE  /\ cursor' \in [Conn -> Cursor \cup {None}] /\ cursor'[c] = None
         /\ \A d \in Conn \ {c} : cursor'[d] = cursor[d]
         /\ held' \in [Resource -> [Txn -> Locks!Modes]]
         /\ seen' \in [Txn -> [Tabs -> Version \cup {None}]]
         /\ KeepsOthers(c) /\ Compatible' /\ HookLocksKept /\ SeenStep /\ NoNewWriter
         /\ \A x \in Txn, r \in Resource : held'[r][x] # "none" =>
              held[r][x] # "none" /\ (Owns(c, x) => txn[c] = x)
<1>1. call[c] = None
  BY StageNow DEF StageOf
<1>2. /\ cursor' \in [Conn -> Cursor \cup {None}] /\ cursor'[c] = None
      /\ \A d \in Conn \ {c} : cursor'[d] = cursor[d]
  BY DEF Inv, Types, CloseCursor
<1>3. CASE cursor[c] # None /\ cursor[c].implicit
  <2> DEFINE x == cursor[c].txn
  <2>1. x \in Txn /\ Owns(c, x) /\ txn[c] = None /\ Ended(x)
    BY <1>3, CallOwned, StageNow DEF Inv, StageOf, CloseCursor
  <2>2. \A y \in Txn : Owns(c, y) => y = x
    BY <1>1, <2>1, Names DEF Owns, Reaches
  <2> HIDE DEF x
  <2>3. hook # x
    BY <2>1, NotWriter DEF Finishing, Leaving
  <2>4. /\ held' \in [Resource -> [Txn -> Locks!Modes]]
        /\ seen' \in [Txn -> [Tabs -> Version \cup {None}]]
        /\ KeepsOthers(c) /\ Compatible' /\ HookLocksKept /\ SeenStep /\ NoNewWriter
        /\ \A r \in Resource : held'[r][x] = "none"
        /\ \A r \in Resource, y \in Txn : y # x => held'[r][y] = held[r][y]
    BY <2>1, <2>3, LocksReleased
  <2> QED BY <1>2, <2>2, <2>4
<1>4. CASE ~(cursor[c] # None /\ cursor[c].implicit)
  <2>1. UNCHANGED <<held, seen>>
    BY <1>4 DEF CloseCursor, locks
  <2>2. KeepsOthers(c) /\ Compatible' /\ HookLocksKept /\ NoNewWriter
    BY <2>1, LocksSame
  <2>3. SeenStep
    BY <2>1 DEF SeenStep
  <2>4. /\ held' \in [Resource -> [Txn -> Locks!Modes]]
        /\ seen' \in [Txn -> [Tabs -> Version \cup {None}]]
    BY <2>1 DEF Inv, Types
  <2>5. \A x \in Txn : Owns(c, x) => txn[c] = x
    BY <1>1, <1>4, StageNow DEF Owns, Reaches, StageOf
  <2> QED BY <1>2, <2>1, <2>2, <2>3, <2>4, <2>5
<1> QED BY <1>3, <1>4

(* A step that closes the cursor and then starts a call, closes the
   connection or just returns. *)
LEMMA CloseThen ==
  ASSUME Inv, NEW c \in Conn, pc[c] = "idle", CloseCursor(c), Types', Alone(c),
         StageAfter(c), LocksAfter(c), BoundAfter(c), TxnKept(c), TakesNew(c),
         txn[c] = None \/ OwnsAfter(c, txn[c]),
         pc'[c] \notin Finishing, pc'[c] # "bump",
         UNCHANGED <<hook, db, saved, committed, catalog, stranded, changes>>
  PROVE  Inv'
<1>1. /\ KeepsOthers(c) /\ Compatible' /\ HookLocksKept /\ SeenStep /\ NoNewWriter
      /\ \A x \in Txn, r \in Resource : held'[r][x] # "none" =>
           held[r][x] # "none" /\ (Owns(c, x) => txn[c] = x)
  BY CloseCursorFacts
<1>2. LetsGo(c)
  BY <1>1, Names DEF LetsGo
<1>3. pc[c] \notin Finishing
  BY DEF Finishing, Leaving
<1> QED BY <1>1, <1>2, <1>3, Calm

LEMMA FinishCursorKeeps ==
  ASSUME Inv, NEW c \in Conn, FinishCursor(c)
  PROVE  Inv'
<1>1. /\ pc[c] = "idle" /\ CloseCursor(c)
      /\ UNCHANGED <<pc, call, txn, lastSeen, hook, db, saved, committed, catalog,
                     plans, stranded, nextTxn, changes>>
  BY DEF FinishCursor, store, planned, bounds
<1>2. /\ cursor' \in [Conn -> Cursor \cup {None}] /\ cursor'[c] = None
      /\ \A d \in Conn \ {c} : cursor'[d] = cursor[d]
      /\ held' \in [Resource -> [Txn -> Locks!Modes]]
      /\ seen' \in [Txn -> [Tabs -> Version \cup {None}]]
  BY <1>1, CloseCursorFacts
<1>3. Types'
  BY <1>1, <1>2 DEF Inv, Types
<1>4. Alone(c)
  BY <1>1, <1>2 DEF Alone
<1>5. StageAfter(c) /\ LocksAfter(c) /\ BoundAfter(c)
  BY <1>1, <1>2, StageNow DEF StageAfter, StageOf, LocksAfter, LocksOf, BoundAfter,
     BoundOf, Deciding, Opening, Running, Leaving, Body, Bound
<1>6. TxnKept(c) /\ TakesNew(c)
  BY <1>1, <1>2 DEF TxnKept, TakesNew, OwnsAfter, Owns, Reaches
<1>7. OwnsAfter(c, txn[c])
  BY <1>1 DEF OwnsAfter, Reaches
<1>8. pc'[c] \notin Finishing /\ pc'[c] # "bump"
  BY <1>1 DEF Finishing, Leaving
<1> QED BY <1>1, <1>3, <1>4, <1>5, <1>6, <1>7, <1>8, CloseThen

LEMMA CloseConnectionKeeps ==
  ASSUME Inv, NEW c \in Conn, CloseConnection(c)
  PROVE  Inv'
<1>1. /\ pc[c] = "idle" /\ txn[c] = None /\ CloseCursor(c) /\ Enter(c, "closed", None)
      /\ UNCHANGED <<txn, lastSeen, hook, db, saved, committed, catalog,
                     plans, stranded, nextTxn, changes>>
  BY DEF CloseConnection, store, planned, bounds
<1>2. /\ cursor' \in [Conn -> Cursor \cup {None}] /\ cursor'[c] = None
      /\ \A d \in Conn \ {c} : cursor'[d] = cursor[d]
      /\ held' \in [Resource -> [Txn -> Locks!Modes]]
      /\ seen' \in [Txn -> [Tabs -> Version \cup {None}]]
  BY <1>1, CloseCursorFacts
<1>3. "closed" \in Labels
  BY DEF Labels
<1>4. /\ pc' \in [Conn -> Labels] /\ call' \in [Conn -> Call \cup {None}]
      /\ pc'[c] = "closed" /\ call'[c] = None
      /\ \A d \in Conn \ {c} : pc'[d] = pc[d] /\ call'[d] = call[d]
  BY <1>1, <1>3, EnterFacts
<1>5. Types'
  BY <1>1, <1>2, <1>4 DEF Inv, Types
<1>6. Alone(c)
  BY <1>1, <1>2, <1>4 DEF Alone
<1>7. StageAfter(c) /\ LocksAfter(c) /\ BoundAfter(c)
  BY <1>1, <1>2, <1>4 DEF StageAfter, StageOf, LocksAfter, LocksOf, BoundAfter,
     BoundOf, Deciding, Opening, Running, Leaving, Body, Bound
<1>8. TxnKept(c) /\ TakesNew(c)
  BY <1>1, <1>2, <1>4 DEF TxnKept, TakesNew, OwnsAfter, Owns, Reaches
<1>9. pc'[c] \notin Finishing /\ pc'[c] # "bump"
  BY <1>4 DEF Finishing, Leaving
<1> QED BY <1>1, <1>5, <1>6, <1>7, <1>8, <1>9, CloseThen

(* nextTxn is an id that nobody has used. *)
LEMMA NextTxnIsFresh ==
  ASSUME Inv, NewTxn
  PROVE  /\ nextTxn \in Txn /\ nextTxn # None /\ nextTxn' = nextTxn + 1
         /\ nextTxn < nextTxn' /\ nextTxn' \in 1..(MaxTxn + 1)
         /\ ~IsWriter(nextTxn)
<1>1. nextTxn \in 1..(MaxTxn + 1)
  BY DEF Inv, Types
<1>2. nextTxn \in Txn /\ nextTxn' = nextTxn + 1 /\ nextTxn < nextTxn'
      /\ nextTxn' \in 1..(MaxTxn + 1) /\ nextTxn >= nextTxn
  BY <1>1, SessionBounds DEF NewTxn, Txn
<1>3. ~IsWriter(nextTxn)
  BY <1>2, Names DEF Inv, FreshIds, IsWriter
<1> QED BY <1>2, <1>3, Names

LEMMA FreshFacts ==
  ASSUME NEW s, s.kind \in Kinds, s.table \in Table \cup {None},
         s.index \in Index \cup {None}, NEW x \in Txn, NEW auto \in BOOLEAN
  PROVE  /\ Fresh(s, x, auto) \in Call /\ Fresh(s, x, auto) # None
         /\ Fresh(s, x, auto).kind = s.kind /\ Fresh(s, x, auto).table = s.table
         /\ Fresh(s, x, auto).index = s.index /\ Fresh(s, x, auto).txn = x
         /\ Fresh(s, x, auto).auto = auto
<1>1. NoIndexes \in Indexes /\ 0 \in Version
  BY SessionBounds DEF NoIndexes, Indexes, Version
<1>2. Fresh(s, x, auto) \in Call
  BY <1>1 DEF Fresh, Frame, Call
<1> QED BY <1>2, NoneAssumption DEF Fresh, Frame

LEMMA ExecuteKeeps ==
  ASSUME Inv, NEW c \in Conn, NEW s \in Statement, Execute(c, s)
  PROVE  Inv'
<1> DEFINE y == IF txn[c] = None THEN nextTxn ELSE txn[c]
           f == Fresh(s, y, txn[c] = None)
<1>1. /\ pc[c] = "idle" /\ CloseCursor(c) /\ Enter(c, "schema", f)
      /\ IF txn[c] = None THEN NewTxn ELSE UNCHANGED nextTxn
      /\ UNCHANGED <<txn, lastSeen, hook, db, saved, committed, catalog,
                     plans, stranded, changes>>
  <2>1. CASE txn[c] = None
    BY <2>1 DEF Execute, store, planned
  <2>2. CASE txn[c] # None
    BY <2>2 DEF Execute, store, planned
  <2> QED BY <2>1, <2>2
<1>2. /\ y \in Txn
      /\ nextTxn' \in 1..(MaxTxn + 1) /\ nextTxn' \in {nextTxn, nextTxn + 1}
      /\ txn[c] = None => y = nextTxn /\ y < nextTxn'
      /\ txn[c] # None => y = txn[c]
  <2>1. CASE txn[c] = None
    BY <1>1, <2>1, NextTxnIsFresh
  <2>2. CASE txn[c] # None
    <3>1. txn[c] \in Txn /\ nextTxn' = nextTxn /\ nextTxn \in 1..(MaxTxn + 1)
      BY <1>1, <2>2 DEF Inv, Types
    <3> QED BY <2>2, <3>1
  <2> QED BY <2>1, <2>2
<1>3. /\ s.kind \in {"select", "write", "create_index", "analyze"} /\ s.kind \in Kinds
      /\ s.table \in Table \cup {None} /\ s.index \in Index \cup {None}
      /\ s.kind \in {"select", "write", "create_index"} => s.table \in Table
      /\ s.kind = "create_index" => s.index \in Index
  BY DEF Statement, Kinds
<1>4. /\ f \in Call /\ f # None /\ f.kind = s.kind /\ f.table = s.table
      /\ f.index = s.index /\ f.txn = y /\ f.auto = (txn[c] = None)
  <2> HIDE DEF y
  <2>1. (txn[c] = None) \in BOOLEAN
    OBVIOUS
  <2> QED BY <1>2, <1>3, <2>1, FreshFacts
<1> HIDE DEF y, f
<1>5. /\ cursor' \in [Conn -> Cursor \cup {None}] /\ cursor'[c] = None
      /\ \A d \in Conn \ {c} : cursor'[d] = cursor[d]
      /\ held' \in [Resource -> [Txn -> Locks!Modes]]
      /\ seen' \in [Txn -> [Tabs -> Version \cup {None}]]
  BY <1>1, CloseCursorFacts
<1>6. "schema" \in Labels
  BY DEF Labels
<1>7. /\ pc' \in [Conn -> Labels] /\ call' \in [Conn -> Call \cup {None}]
      /\ pc'[c] = "schema" /\ call'[c] = f
      /\ \A d \in Conn \ {c} : pc'[d] = pc[d] /\ call'[d] = call[d]
  BY <1>1, <1>4, <1>6, EnterFacts
<1>8. Types'
  BY <1>1, <1>2, <1>5, <1>7 DEF Inv, Types
<1>9. Alone(c)
  BY <1>1, <1>5, <1>7 DEF Alone
<1>10. StageAfter(c)
  <2>1. txn'[c] = IF f.auto THEN None ELSE f.txn
    BY <1>1, <1>2, <1>4
  <2> QED BY <1>3, <1>4, <1>5, <1>7, <2>1 DEF StageAfter, StageOf,
       Deciding, Opening, Running, Leaving, Body
<1>11. LocksAfter(c) /\ BoundAfter(c)
  <2>1. ASSUME f.auto, NEW r \in Resource PROVE held'[r][f.txn] = "none"
    <3>0. txn[c] = None
      BY ONLY <1>4, <2>1
    <3>1. f.txn \in Txn /\ f.txn = nextTxn /\ nextTxn >= nextTxn
      <4>1. nextTxn \in Nat
        BY SessionBounds DEF Inv, Types
      <4> QED BY <1>2, <1>4, <3>0, <4>1
    <3>2. held[r][f.txn] = "none"
      BY <3>1 DEF Inv, FreshIds
    <3> QED BY <1>1, <3>1, <3>2, CloseCursorFacts
  <2>2. LocksOf("schema", f, None, held', hook')
    BY <2>1 DEF LocksOf, Opening, Leaving, Body, Bound
  <2>3. BoundOf("schema", f, None, db'.idx)
    BY DEF BoundOf, Opening
  <2> QED BY <1>5, <1>7, <2>2, <2>3 DEF LocksAfter, BoundAfter
<1>12. TxnKept(c) /\ OwnsAfter(c, txn[c])
  BY <1>1 DEF TxnKept, OwnsAfter, Reaches
<1>13. TakesNew(c)
  BY <1>1, <1>2, <1>4, <1>5, <1>7 DEF TakesNew, OwnsAfter, Owns, Reaches
<1>14. pc'[c] \notin Finishing /\ pc'[c] # "bump"
  BY <1>7 DEF Finishing, Leaving
<1> QED BY <1>1, <1>8, <1>9, <1>10, <1>11, <1>12, <1>13, <1>14, CloseThen

LEMMA ControlFacts ==
  ASSUME NEW how \in {"begin", "commit", "rollback", "close"}
  PROVE  /\ Control(how).kind = how /\ Control(how).kind \in Kinds
         /\ Control(how).table \in Table \cup {None}
         /\ Control(how).index \in Index \cup {None}
BY DEF Control, Kinds

LEMMA EndTxnKeeps ==
  ASSUME Inv, NEW c \in Conn, NEW how \in {"commit", "rollback", "close"},
         EndTxn(c, how)
  PROVE  Inv'
<1> DEFINE s == Control(how)
           f == Fresh(s, txn[c], FALSE)
           l == IF how = "commit" THEN "commit" ELSE "rollback"
<1>1. /\ pc[c] = "idle" /\ txn[c] # None /\ CloseCursor(c) /\ Enter(c, l, f)
      /\ UNCHANGED <<txn, lastSeen, hook, db, saved, committed, catalog,
                     plans, stranded, nextTxn, changes>>
  BY DEF EndTxn, store, planned, bounds
<1>2. l \in Labels /\ l \in {"commit", "rollback"}
  BY DEF Labels
<1>3. /\ s.kind = how /\ s.kind \in Kinds /\ s.table \in Table \cup {None}
      /\ s.index \in Index \cup {None}
  BY ControlFacts
<1>4. txn[c] \in Txn
  BY <1>1, StageNow
<1>5. f \in Call /\ f # None /\ f.kind = how /\ f.txn = txn[c]
  <2> HIDE DEF s
  <2> QED BY <1>3, <1>4, FreshFacts
<1> HIDE DEF s, f, l
<1>6. /\ cursor' \in [Conn -> Cursor \cup {None}] /\ cursor'[c] = None
      /\ \A d \in Conn \ {c} : cursor'[d] = cursor[d]
      /\ held' \in [Resource -> [Txn -> Locks!Modes]]
      /\ seen' \in [Txn -> [Tabs -> Version \cup {None}]]
  BY <1>1, CloseCursorFacts
<1>7. /\ pc' \in [Conn -> Labels] /\ call' \in [Conn -> Call \cup {None}]
      /\ pc'[c] = l /\ call'[c] = f
      /\ \A d \in Conn \ {c} : pc'[d] = pc[d] /\ call'[d] = call[d]
  BY <1>1, <1>2, <1>5, EnterFacts
<1>8. Types'
  BY <1>1, <1>6, <1>7 DEF Inv, Types
<1>9. Alone(c)
  BY <1>1, <1>6, <1>7 DEF Alone
<1>10. StageAfter(c) /\ LocksAfter(c) /\ BoundAfter(c)
  BY <1>1, <1>2, <1>5, <1>6, <1>7 DEF StageAfter, StageOf, LocksAfter, LocksOf,
     BoundAfter, BoundOf, Deciding, Opening, Running, Leaving, Body, Bound
<1>11. TxnKept(c) /\ TakesNew(c) /\ OwnsAfter(c, txn[c])
  BY <1>1, <1>5, <1>6, <1>7 DEF TxnKept, TakesNew, OwnsAfter, Owns, Reaches
<1>12. pc'[c] \notin Finishing /\ pc'[c] # "bump"
  BY <1>2, <1>7 DEF Finishing, Leaving
<1> QED BY <1>1, <1>8, <1>9, <1>10, <1>11, <1>12, CloseThen

LEMMA BeginKeeps ==
  ASSUME Inv, NEW c \in Conn, NEW immediate \in BOOLEAN, Begin(c, immediate)
  PROVE  Inv'
<1> DEFINE s == Control("begin")
           g == Fresh(s, nextTxn, FALSE)
           f == IF immediate THEN g ELSE None
           l == IF immediate THEN "immSchema" ELSE "idle"
<1>1. /\ pc[c] = "idle" /\ txn[c] = None /\ CloseCursor(c) /\ Enter(c, l, f)
      /\ NewTxn /\ txn' = [txn EXCEPT ![c] = nextTxn]
      /\ UNCHANGED <<lastSeen, hook, db, saved, committed, catalog,
                     plans, stranded, changes>>
  BY DEF Begin, Return, store, planned
<1>2. /\ nextTxn \in Txn /\ nextTxn # None /\ nextTxn' = nextTxn + 1
      /\ nextTxn < nextTxn' /\ nextTxn' \in 1..(MaxTxn + 1) /\ ~IsWriter(nextTxn)
  BY <1>1, NextTxnIsFresh
<1>3. /\ s.kind = "begin" /\ s.kind \in Kinds /\ s.table \in Table \cup {None}
      /\ s.index \in Index \cup {None}
  BY ControlFacts
<1>4. g \in Call /\ g # None /\ g.kind = "begin" /\ g.txn = nextTxn
  <2> HIDE DEF s
  <2> QED BY <1>2, <1>3, FreshFacts
<1>5. /\ l \in Labels /\ f \in Call \cup {None}
      /\ \/ l = "immSchema" /\ f # None /\ f.kind = "begin" /\ f.txn = nextTxn
         \/ l = "idle" /\ f = None
  <2> HIDE DEF g
  <2> QED BY <1>4 DEF Labels
<1> HIDE DEF s, g, f, l
<1>6. /\ cursor' \in [Conn -> Cursor \cup {None}] /\ cursor'[c] = None
      /\ \A d \in Conn \ {c} : cursor'[d] = cursor[d]
      /\ held' \in [Resource -> [Txn -> Locks!Modes]]
      /\ seen' \in [Txn -> [Tabs -> Version \cup {None}]]
  BY <1>1, CloseCursorFacts
<1>7. /\ pc' \in [Conn -> Labels] /\ call' \in [Conn -> Call \cup {None}]
      /\ pc'[c] = l /\ call'[c] = f
      /\ \A d \in Conn \ {c} : pc'[d] = pc[d] /\ call'[d] = call[d]
  BY <1>1, <1>5, EnterFacts
<1>8. /\ txn' \in [Conn -> Txn \cup {None}] /\ txn'[c] = nextTxn
      /\ \A d \in Conn \ {c} : txn'[d] = txn[d]
  BY <1>1, <1>2 DEF Inv, Types
<1>9. Types'
  BY <1>1, <1>2, <1>6, <1>7, <1>8 DEF Inv, Types
<1>10. Alone(c)
  BY <1>6, <1>7, <1>8 DEF Alone
<1>11. StageAfter(c) /\ LocksAfter(c) /\ BoundAfter(c)
  BY <1>2, <1>5, <1>6, <1>7, <1>8 DEF StageAfter, StageOf, LocksAfter, LocksOf,
     BoundAfter, BoundOf, Deciding, Opening, Running, Leaving, Body, Bound
<1>12. TxnKept(c)
  BY <1>1, <1>2, <1>8 DEF TxnKept
<1>13. TakesNew(c)
  BY <1>2, <1>5, <1>6, <1>7, <1>8 DEF TakesNew, OwnsAfter, Reaches
<1>14. pc'[c] \notin Finishing /\ pc'[c] # "bump"
  BY <1>5, <1>7 DEF Finishing, Leaving
<1> QED BY <1>1, <1>9, <1>10, <1>11, <1>12, <1>13, <1>14, CloseThen

-----------------------------------------------------------------------------
(* Taking "__writer__" and the target's lock *)

(* Nobody holds "__writer__": what is shown is what is committed. *)
LEMMA NoWriterNoDirt ==
  ASSUME Inv, \A x \in Txn : ~IsWriter(x)
  PROVE  hook = None /\ db = committed
<1>1. hook \in Txn \cup {None} /\ HookIsWriter
  BY DEF Inv, Types
<1> QED BY <1>1 DEF HookIsWriter

LEMMA AcquireWriterKeeps ==
  ASSUME Inv, NEW c \in Conn, AcquireWriter(X(c)),
         \/ pc[c] = "writer" /\ Goto(c, "table")
         \/ pc[c] = "immWriter" /\ Return(c),
         UNCHANGED <<txn, cursor, lastSeen, hook, db, committed, catalog, plans,
                     stranded, seen, nextTxn, changes>>
  PROVE  Inv'
<1>1. /\ call[c] # None /\ cursor[c] = None /\ txn[c] = X(c) /\ X(c) \in Txn
      /\ Owns(c, X(c)) /\ X(c) # None
  BY StageNow, Names DEF StageOf, Running, X
<1>2. /\ Locks!Granted(X(c), "__writer__", "EXCLUSIVE")
      /\ saved' = IF Locks!Has(X(c), "__writer__", "EXCLUSIVE") THEN saved ELSE db
  BY DEF AcquireWriter
<1>3. /\ held' \in [Resource -> [Txn -> Locks!Modes]]
      /\ KeepsOthers(c) /\ Compatible' /\ HookLocksKept
      /\ \A y \in Txn : Stronger(y)
      /\ held'["__writer__"][X(c)] = "EXCLUSIVE"
      /\ \A s \in Resource, y \in Txn :
           s # "__writer__" \/ y # X(c) => held'[s][y] = held[s][y]
  BY <1>1, <1>2, LocksGranted, Names
<1>4. {"table", "idle"} \subseteq Labels
  BY DEF Labels
<1>5. /\ pc' \in [Conn -> Labels] /\ call' \in [Conn -> Call \cup {None}]
      /\ \/ pc[c] = "writer" /\ pc'[c] = "table" /\ call'[c] = call[c]
         \/ pc'[c] = "idle" /\ call'[c] = None
      /\ \A d \in Conn \ {c} : pc'[d] = pc[d] /\ call'[d] = call[d]
  <2>1. CASE pc[c] = "writer" /\ Goto(c, "table")
    BY <1>4, <2>1, GotoFacts
  <2>2. CASE Return(c)
    BY <1>4, <2>2, EnterFacts DEF Return
  <2> QED BY <2>1, <2>2
<1>6. /\ pc[c] \notin Finishing /\ pc'[c] \notin Finishing /\ pc'[c] # "bump"
      /\ pc[c] \notin {"unhookRolledBack", "reload"}
  BY <1>5 DEF Finishing, Leaving
<1>7. saved' \in Database \cup {None}
  BY <1>2 DEF Inv, Types
<1>8. Types'
  BY <1>3, <1>5, <1>7 DEF Inv, Types
<1>9. Alone(c)
  BY <1>5 DEF Alone
<1>10. StageAfter(c) /\ BoundAfter(c)
  BY <1>1, <1>5, StageNow DEF StageAfter, StageOf, BoundAfter, BoundOf,
     Deciding, Opening, Running, Leaving, Body, X
<1>11. LocksAfter(c)
  BY <1>1, <1>3, <1>5, StageNow, Names DEF LocksAfter, LocksOf, Stronger, Bound,
     Opening, Body, Leaving, X
<1>12. \A x \in Txn : OwnsAfter(c, x) <=> Owns(c, x)
  BY <1>1, <1>5 DEF OwnsAfter, Owns, Reaches, X
<1>13. TakesNew(c) /\ LetsGo(c)
  BY <1>3, <1>12, SameReach
<1>14. WriterStep(c)
  BY <1>1, <1>3, <1>6, Names DEF WriterStep, AtWork, IsWriter
<1>15. HookStep(c) /\ StoreStep(c) /\ SchemaStep(c)
  BY <1>1, <1>3 DEF HookStep, StoreStep, SchemaStep
<1>16. saved' = committed
  <2>1. CASE IsWriter(X(c))
    BY <1>1, <1>2, <1>6, <2>1 DEF Inv, RollbackPoint, IsWriter, Locks!Has
  <2>2. CASE ~IsWriter(X(c))
    <3>1. ~Locks!Has(X(c), "__writer__", "EXCLUSIVE")
      BY <2>2 DEF IsWriter, Locks!Has
    <3>2. \A x \in Txn : ~IsWriter(x)
      BY <1>2, <2>2, <3>1 DEF Locks!Granted, Locks!CanGrant, IsWriter
    <3> QED BY <1>2, <3>1, <3>2, NoWriterNoDirt
  <2> QED BY <2>1, <2>2
<1>17. RollbackPointAfter(c)
  BY <1>6, <1>16 DEF RollbackPointAfter, RollbackPointOf
<1>18. HookIsWriter' /\ DirtyIsLocked'
  BY <1>3, HookKept DEF Inv
<1>19. SeenIsLocked'
  <2>1. SeenStep
    BY <1>3, SeenSame
  <2> QED BY <2>1, SeenKept DEF Inv
<1>20. CatalogStep(c)
  BY <1>6 DEF CatalogStep, Reloading
<1>21. CookieStep(c)
  BY <1>6 DEF CookieStep, Inv, CookieCounted
<1> QED BY <1>3, <1>8, <1>9, <1>10, <1>11, <1>13, <1>14, <1>15, <1>17, <1>18, <1>19, <1>20,
        <1>21, Assemble

LEMMA LockWriterKeeps ==
  ASSUME Inv, NEW c \in Conn, LockWriter(c)
  PROVE  Inv'
<1>1. /\ pc[c] = "writer" /\ Goto(c, "table") /\ AcquireWriter(X(c))
      /\ UNCHANGED <<txn, cursor, lastSeen, hook, db, committed, catalog, plans,
                     stranded, seen, nextTxn, changes>>
  BY DEF LockWriter, planned, bounds
<1> QED BY <1>1, AcquireWriterKeeps

LEMMA ImmediateWriterKeeps ==
  ASSUME Inv, NEW c \in Conn, ImmediateWriter(c)
  PROVE  Inv'
<1>1. /\ pc[c] = "immWriter" /\ Return(c) /\ AcquireWriter(X(c))
      /\ UNCHANGED <<txn, cursor, lastSeen, hook, db, committed, catalog, plans,
                     stranded, seen, nextTxn, changes>>
  BY DEF ImmediateWriter, planned, bounds
<1> QED BY <1>1, AcquireWriterKeeps

LEMMA LockTargetKeeps ==
  ASSUME Inv, NEW c \in Conn, LockTarget(c)
  PROVE  Inv'
<1> DEFINE l == IF call[c].kind = "analyze" THEN "reads" ELSE "work"
<1>1. /\ pc[c] = "table" /\ Goto(c, l) /\ hook' = X(c)
      /\ Locks!Granted(X(c), WriteTarget(c), "EXCLUSIVE")
      /\ UNCHANGED <<txn, cursor, lastSeen, db, saved, committed, catalog, plans,
                     stranded, seen, nextTxn, changes>>
  BY DEF LockTarget, planned, bounds
<1>2. /\ call[c] # None /\ cursor[c] = None /\ txn[c] = X(c) /\ X(c) \in Txn
      /\ Owns(c, X(c)) /\ X(c) # None /\ IsWriter(X(c))
  BY <1>1, StageNow, Names DEF StageOf, LocksOf, Running, Body, X, IsWriter
<1>3. WriteTarget(c) \in Tabs
  BY <1>1, StageNow, Names DEF WriteTarget, T, StageOf, Body
<1>4. WriteTarget(c) \in Resource /\ WriteTarget(c) # "__writer__"
  BY <1>3, Names
<1>5. /\ held' \in [Resource -> [Txn -> Locks!Modes]]
      /\ KeepsOthers(c) /\ Compatible' /\ HookLocksKept /\ NoNewWriter
      /\ \A y \in Txn : Stronger(y)
      /\ held'[WriteTarget(c)][X(c)] = "EXCLUSIVE"
  BY <1>1, <1>2, <1>4, LocksGranted
<1>6. /\ l \in Labels /\ l \in {"reads", "work"}
      /\ l = "reads" <=> call[c].kind = "analyze"
  BY DEF Labels
<1> HIDE DEF l
<1>7. /\ pc' \in [Conn -> Labels] /\ call' \in [Conn -> Call \cup {None}]
      /\ pc'[c] = l /\ call'[c] = call[c]
      /\ \A d \in Conn \ {c} : pc'[d] = pc[d] /\ call'[d] = call[d]
  BY <1>1, <1>6, GotoFacts
<1>8. Types'
  BY <1>1, <1>2, <1>5, <1>7 DEF Inv, Types
<1>9. Alone(c)
  BY <1>1, <1>7 DEF Alone
<1>10. StageAfter(c)
  BY <1>1, <1>2, <1>6, <1>7, StageNow DEF StageAfter, StageOf, Deciding, Opening, Running,
     Leaving, Body, X
<1>11. BoundAfter(c)
  BY <1>1, <1>2, <1>6, <1>7, StageNow DEF BoundAfter, BoundOf
<1>12. LocksAfter(c)
  BY <1>1, <1>2, <1>5, <1>6, <1>7, StageNow, Names DEF LocksAfter, LocksOf, Stronger, Bound,
     Opening, Body, Leaving, X, WriteTarget, T
<1>13. \A x \in Txn : OwnsAfter(c, x) <=> Owns(c, x)
  BY <1>1, <1>7 DEF OwnsAfter, Owns
<1>14. TakesNew(c) /\ LetsGo(c)
  BY <1>1, <1>5, <1>13, SameReach
<1>15. /\ pc[c] \notin Finishing /\ pc'[c] \notin Finishing /\ pc'[c] # "bump"
       /\ pc[c] \notin {"unhookRolledBack", "reload"}
  BY <1>1, <1>6, <1>7 DEF Finishing, Leaving
<1>16. WriterStep(c)
  BY <1>1, <1>5, <1>15 DEF WriterStep, AtWork, NoNewWriter
<1>17. HookStep(c) /\ StoreStep(c) /\ SchemaStep(c)
  BY <1>1 DEF HookStep, StoreStep, SchemaStep
<1>18. RollbackPointAfter(c)
  BY <1>1, <1>2, <1>15 DEF RollbackPointAfter, RollbackPointOf, Inv, RollbackPoint
<1>19. HookIsWriter'
  BY <1>1, <1>2, <1>5, Names DEF HookIsWriter, IsWriter, Stronger
<1>20. DirtyIsLocked'
  <2>1. CASE hook = None
    BY <1>1, <2>1 DEF Inv, HookIsWriter, DirtyIsLocked
  <2>2. CASE hook # None
    <3>1. hook \in Txn /\ IsWriter(hook) /\ Compatible
      BY <2>2 DEF Inv, Types, HookIsWriter
    <3>2. hook = X(c)
      BY <1>2, <3>1, OneWriter
    <3> QED BY <1>1, <1>5, <2>2, <3>2, Names DEF Inv, DirtyIsLocked, HookLocksKept
  <2> QED BY <2>1, <2>2
<1>21. SeenIsLocked'
  <2>1. SeenStep
    BY <1>1, <1>5, SeenSame
  <2> QED BY <1>1, <2>1, SeenKept DEF Inv
<1>22. CatalogStep(c)
  BY <1>1, <1>15 DEF CatalogStep, Reloading
<1>23. CookieStep(c)
  BY <1>1, <1>15 DEF CookieStep, Inv, CookieCounted
<1> QED BY <1>5, <1>8, <1>9, <1>10, <1>11, <1>12, <1>14, <1>16, <1>17, <1>18, <1>19, <1>20,
        <1>21, <1>22, <1>23, Assemble

-----------------------------------------------------------------------------
(* The bodies of INSERT, UPDATE, DELETE, CREATE INDEX and ANALYZE *)

(* What a connection inside a body knows of itself. *)
LEMMA BodyFacts ==
  ASSUME Inv, NEW c \in Conn, pc[c] \in {"reads", "work", "bump"}
  PROVE  /\ call[c] # None /\ call[c] \in Call /\ cursor[c] = None /\ txn[c] = X(c)
         /\ X(c) \in Txn /\ Owns(c, X(c)) /\ X(c) # None /\ IsWriter(X(c))
         /\ hook = X(c) /\ saved = committed
         /\ WriteTarget(c) \in Tabs /\ held[WriteTarget(c)][X(c)] = "EXCLUSIVE"
<1>1. /\ call[c] # None /\ call[c] \in Call /\ cursor[c] = None /\ txn[c] = X(c)
      /\ X(c) \in Txn /\ Owns(c, X(c)) /\ X(c) # None
  BY StageNow, Names DEF StageOf, Running, Body, X
<1>2. IsWriter(X(c)) /\ hook = X(c) /\ held[WriteTarget(c)][X(c)] = "EXCLUSIVE"
  BY StageNow DEF LocksOf, Body, X, T, IsWriter, WriteTarget
<1>3. WriteTarget(c) \in Tabs
  BY StageNow, Names DEF WriteTarget, T, StageOf, Body
<1>4. saved = committed
  BY <1>1, <1>2 DEF Inv, RollbackPoint, Finishing, Leaving
<1> QED BY <1>1, <1>2, <1>3, <1>4

(* A body changes the database, which only the holder of "__writer__" does. *)
LEMMA BodyKeeps ==
  ASSUME Inv, NEW c \in Conn, pc[c] \in {"reads", "work", "bump"},
         \/ Return(c) \/ Goto(c, "commit") \/ Goto(c, "rollback")
         \/ pc[c] = "reads" /\ Goto(c, "bump"),
         db' \in Database, catalog' \in Indexes, changes' \in Version,
         seen' \in [Txn -> [Tabs -> Version \cup {None}]],
         DirtyIsLocked', SeenIsLocked', CatalogStep(c), SchemaStep(c), CookieStep(c),
         UNCHANGED <<txn, cursor, lastSeen, hook, saved, committed, plans, stranded,
                     held, nextTxn>>
  PROVE  Inv'
<1>1. /\ call[c] # None /\ call[c] \in Call /\ cursor[c] = None /\ txn[c] = X(c)
      /\ X(c) \in Txn /\ Owns(c, X(c)) /\ X(c) # None /\ IsWriter(X(c))
      /\ hook = X(c) /\ saved = committed
  BY BodyFacts
<1>2. {"idle", "commit", "rollback", "bump"} \subseteq Labels
  BY DEF Labels
<1>3. /\ pc' \in [Conn -> Labels] /\ call' \in [Conn -> Call \cup {None}]
      /\ \/ pc'[c] = "idle" /\ call'[c] = None
         \/ pc'[c] \in {"commit", "rollback"} /\ call'[c] = call[c]
         \/ pc[c] = "reads" /\ pc'[c] = "bump" /\ call'[c] = call[c]
      /\ \A d \in Conn \ {c} : pc'[d] = pc[d] /\ call'[d] = call[d]
  <2>1. CASE Return(c)
    BY <1>2, <2>1, EnterFacts DEF Return
  <2>2. CASE Goto(c, "commit")
    BY <1>2, <2>2, GotoFacts
  <2>3. CASE Goto(c, "rollback")
    BY <1>2, <2>3, GotoFacts
  <2>4. CASE pc[c] = "reads" /\ Goto(c, "bump")
    BY <1>2, <2>4, GotoFacts
  <2> QED BY <2>1, <2>2, <2>3, <2>4
<1>4. Types'
  BY <1>3 DEF Inv, Types
<1>5. Alone(c)
  BY <1>3 DEF Alone
<1>6. StageAfter(c) /\ BoundAfter(c)
  BY <1>1, <1>3, StageNow DEF StageAfter, StageOf, BoundAfter, BoundOf,
     Deciding, Opening, Running, Leaving, Body, X
<1>7. LocksAfter(c)
  BY <1>1, <1>3, StageNow DEF LocksAfter, LocksOf, Bound, Opening, Body, Leaving, X
<1>8. KeepsOthers(c) /\ Compatible' /\ NoNewWriter
  BY LocksSame
<1>9. \A x \in Txn : OwnsAfter(c, x) <=> Owns(c, x)
  BY <1>1, <1>3 DEF OwnsAfter, Owns, Reaches, X
<1>10. TakesNew(c) /\ LetsGo(c)
  BY <1>8, <1>9, SameReach
<1>11. pc[c] \notin Finishing /\ pc'[c] \notin Finishing
  BY <1>3 DEF Finishing, Leaving
<1>12. WriterStep(c)
  BY <1>8, <1>11 DEF WriterStep, AtWork, NoNewWriter
<1>13. HookStep(c) /\ StoreStep(c)
  BY <1>1 DEF HookStep, StoreStep
<1>14. RollbackPointAfter(c)
  BY <1>1, <1>11 DEF RollbackPointAfter, RollbackPointOf
<1>15. HookIsWriter'
  BY <1>1 DEF HookIsWriter, IsWriter
<1> QED BY <1>4, <1>5, <1>6, <1>7, <1>8, <1>10, <1>12, <1>13, <1>14, <1>15, Assemble

LEMMA DbFacts ==
  ASSUME Inv
  PROVE  /\ db.idx \in Indexes /\ db.cookie \in Version /\ db.ver \in [Tabs -> Version]
         /\ committed \in Database /\ changes \in Version
         /\ changes \in Nat /\ db.cookie \in Nat /\ committed.cookie \in Nat
         /\ db.cookie <= changes /\ committed.cookie <= changes
         /\ changes < MaxChanges => changes + 1 \in Version
         /\ db = Contents(db.idx, db.cookie, db.ver)
<1>1. db \in Database /\ committed \in Database /\ changes \in Version
  BY DEF Inv, Types
<1>2. db.cookie <= changes /\ committed.cookie <= changes
  BY DEF Inv, CookieCounted
<1> QED BY <1>1, <1>2, SessionBounds DEF Database, Version, Contents

LEMMA ContentsFacts ==
  ASSUME NEW idx, NEW cookie, NEW ver
  PROVE  /\ Contents(idx, cookie, ver).idx = idx
         /\ Contents(idx, cookie, ver).cookie = cookie
         /\ Contents(idx, cookie, ver).ver = ver
         /\ idx \in Indexes /\ cookie \in Version /\ ver \in [Tabs -> Version]
              => Contents(idx, cookie, ver) \in Database
BY DEF Contents, Database

(* Rows of the target are written: nobody else relies on that table. *)
LEMMA WrittenFacts ==
  ASSUME Inv, NEW c \in Conn, pc[c] \in {"reads", "work"}, changes < MaxChanges,
         Written(X(c), WriteTarget(c)), UNCHANGED <<held, hook, committed>>
  PROVE  /\ db' \in Database /\ db'.idx = db.idx /\ db'.cookie = db.cookie
         /\ changes' = changes + 1 /\ changes' \in Version
         /\ seen' \in [Txn -> [Tabs -> Version \cup {None}]]
         /\ DirtyIsLocked' /\ SeenIsLocked'
<1> DEFINE x == X(c)
           t == WriteTarget(c)
           v == [db.ver EXCEPT ![t] = changes + 1]
<1>1. /\ x \in Txn /\ hook = x /\ t \in Tabs /\ held[t][x] = "EXCLUSIVE" /\ x # None
  BY BodyFacts
<1>2. /\ changes' = changes + 1 /\ db' = Contents(db.idx, db.cookie, v)
      /\ seen' = [seen EXCEPT ![x][t] = changes + 1]
  BY DEF Written
<1> HIDE DEF x, t
<1>3. /\ v \in [Tabs -> Version] /\ v[t] = changes + 1 /\ changes + 1 \in Version
      /\ \A u \in Tabs : u # t => v[u] = db.ver[u]
  BY <1>1, DbFacts
<1> HIDE DEF v
<1>4. /\ db' \in Database /\ db'.idx = db.idx /\ db'.cookie = db.cookie /\ db'.ver = v
  BY <1>2, <1>3, DbFacts, ContentsFacts
<1>5. /\ seen' \in [Txn -> [Tabs -> Version \cup {None}]]
      /\ seen'[x][t] = changes + 1
      /\ \A y \in Txn, u \in Tabs : y # x \/ u # t => seen'[y][u] = seen[y][u]
  <2>1. seen \in [Txn -> [Tabs -> Version \cup {None}]]
    BY DEF Inv, Types
  <2> QED BY <1>1, <1>2, <1>3, <2>1
<1>6. DirtyIsLocked'
  <2>1. DirtyIsLocked
    BY DEF Inv
  <2> QED BY <1>1, <1>3, <1>4, <2>1 DEF DirtyIsLocked
<1>7. SeenIsLocked'
  <2> SUFFICES ASSUME NEW y \in Txn, NEW u \in Tabs, seen'[y][u] # None
               PROVE  held[u][y] # "none" /\ v[u] = seen'[y][u]
    BY <1>4 DEF SeenIsLocked
  <2>1. CASE y = x /\ u = t
    BY <1>1, <1>3, <1>5, <2>1
  <2>2. CASE y # x \/ u # t
    <3>1. seen[y][u] # None /\ held[u][y] # "none" /\ db.ver[u] = seen[y][u]
      BY <1>5, <2>2 DEF Inv, SeenIsLocked
    <3>2. u # t
      <4> SUFFICES ASSUME u = t PROVE FALSE
        OBVIOUS
      <4>1. Compatible /\ t \in Resource /\ y # x
        BY <1>1, <2>2, Names DEF Inv
      <4> QED BY <1>1, <3>1, <4>1 DEF Compatible
    <3> QED BY <1>3, <1>5, <2>2, <3>1, <3>2
  <2> QED BY <2>1, <2>2
<1> QED BY <1>2, <1>3, <1>4, <1>5, <1>6, <1>7

LEMMA WriteRowsKeeps ==
  ASSUME Inv, NEW c \in Conn, WriteRows(c)
  PROVE  Inv'
<1>1. /\ pc[c] = "work" /\ call[c].kind = "write" /\ changes < MaxChanges
      /\ Written(X(c), T(c))
      /\ Return(c) \/ Goto(c, "commit") \/ Goto(c, "rollback")
      /\ UNCHANGED <<txn, cursor, lastSeen, hook, saved, committed, catalog, plans,
                     stranded, held, nextTxn>>
  BY DEF WriteRows, BodyDone, BodyRaises, planned
<1>2. WriteTarget(c) = T(c)
  BY <1>1 DEF WriteTarget
<1>3. /\ db' \in Database /\ db'.idx = db.idx /\ db'.cookie = db.cookie
      /\ changes' = changes + 1 /\ changes' \in Version
      /\ seen' \in [Txn -> [Tabs -> Version \cup {None}]]
      /\ DirtyIsLocked' /\ SeenIsLocked'
  BY <1>1, <1>2, WrittenFacts
<1>4. CatalogStep(c) /\ SchemaStep(c)
  BY <1>1, <1>3 DEF CatalogStep, SchemaStep, Reloading
<1>5. pc'[c] # "bump"
  BY <1>1 DEF Return, Enter, Goto, Inv, Types
<1>6. CookieStep(c)
  BY <1>1, <1>3, <1>5, DbFacts DEF CookieStep
<1>7. catalog' \in Indexes
  BY <1>1 DEF Inv, Types
<1> QED BY <1>1, <1>3, <1>4, <1>6, <1>7, BodyKeeps

LEMMA AnalyzeRowsKeeps ==
  ASSUME Inv, NEW c \in Conn, AnalyzeRows(c)
  PROVE  Inv'
<1>1. /\ pc[c] = "reads" /\ changes < MaxChanges
      /\ Written(X(c), Stat) /\ Goto(c, "bump")
      /\ UNCHANGED <<txn, cursor, lastSeen, hook, saved, committed, catalog, plans,
                     stranded, held, nextTxn>>
  BY DEF AnalyzeRows, planned
<1>2. WriteTarget(c) = Stat
  BY <1>1, StageNow DEF WriteTarget, StageOf
<1>3. /\ db' \in Database /\ db'.idx = db.idx /\ db'.cookie = db.cookie
      /\ changes' = changes + 1 /\ changes' \in Version
      /\ seen' \in [Txn -> [Tabs -> Version \cup {None}]]
      /\ DirtyIsLocked' /\ SeenIsLocked'
  BY <1>1, <1>2, WrittenFacts
<1>4. CatalogStep(c) /\ SchemaStep(c)
  BY <1>1, <1>3 DEF CatalogStep, SchemaStep, Reloading
<1>5. CookieStep(c)
  BY <1>1, <1>3, DbFacts DEF CookieStep
<1>6. catalog' \in Indexes
  BY <1>1 DEF Inv, Types
<1> QED BY <1>1, <1>3, <1>4, <1>5, <1>6, BodyKeeps

LEMMA SeenSameVersions ==
  ASSUME SeenIsLocked, db'.ver = db.ver, UNCHANGED <<seen, held>>
  PROVE  SeenIsLocked'
BY DEF SeenIsLocked

LEMMA AnalyzeBumpKeeps ==
  ASSUME Inv, NEW c \in Conn, AnalyzeBump(c)
  PROVE  Inv'
<1>1. /\ pc[c] = "bump" /\ db' = Contents(db.idx, db.cookie + 1, db.ver)
      /\ Return(c) \/ Goto(c, "commit")
      /\ UNCHANGED <<txn, cursor, lastSeen, hook, saved, committed, catalog, plans,
                     stranded, held, seen, nextTxn, changes>>
  BY DEF AnalyzeBump, BodyDone, planned, locks, bounds
<1>2. db.cookie < changes
  BY <1>1 DEF Inv, CookieCounted
<1>3. db.cookie + 1 \in Version /\ db.cookie + 1 <= changes
  BY <1>2, DbFacts, SessionBounds DEF Version
<1>4. db' \in Database /\ db'.idx = db.idx /\ db'.cookie = db.cookie + 1 /\ db'.ver = db.ver
  BY <1>1, <1>3, DbFacts, ContentsFacts
<1>5. call[c] # None /\ IsWriter(X(c))
  BY <1>1, BodyFacts
<1>6. DirtyIsLocked' /\ SeenIsLocked'
  <2>1. DirtyIsLocked /\ SeenIsLocked
    BY DEF Inv
  <2> QED BY <1>1, <1>4, <2>1, SeenSameVersions DEF DirtyIsLocked
<1>7. CatalogStep(c) /\ SchemaStep(c)
  BY <1>1, <1>4 DEF CatalogStep, SchemaStep, Reloading
<1>8. pc'[c] # "bump"
  BY <1>1 DEF Return, Enter, Goto, Inv, Types
<1>9. CookieStep(c)
  BY <1>1, <1>3, <1>4, <1>5, <1>8, DbFacts DEF CookieStep
<1>10. /\ catalog' \in Indexes /\ changes' \in Version
       /\ seen' \in [Txn -> [Tabs -> Version \cup {None}]]
  BY <1>1 DEF Inv, Types
<1> QED BY <1>1, <1>4, <1>6, <1>7, <1>9, <1>10, BodyKeeps

LEMMA CreateIndexKeeps ==
  ASSUME Inv, NEW c \in Conn, CreateIndex(c)
  PROVE  Inv'
<1>1. /\ pc[c] = "work" /\ call[c].kind = "create_index" /\ changes < MaxChanges
      /\ db' = Contents(WithIndex(db.idx, c), db.cookie + 1, db.ver)
      /\ catalog' = WithIndex(catalog, c) /\ changes' = changes + 1
      /\ Return(c) \/ Goto(c, "commit")
      /\ UNCHANGED <<txn, cursor, lastSeen, hook, saved, committed, plans,
                     stranded, held, seen, nextTxn>>
  BY DEF CreateIndex, BodyDone, planned, locks
<1>2. /\ call[c] # None /\ X(c) \in Txn /\ Owns(c, X(c)) /\ hook = X(c) /\ IsWriter(X(c))
  BY <1>1, BodyFacts
<1>3. T(c) \in Table /\ call[c].index \in Index
  BY <1>1, <1>2, StageNow DEF StageOf, T
<1>4. held["__schema__"][X(c)] = "EXCLUSIVE"
  BY <1>1, StageNow DEF LocksOf, Bound, Body, X
<1>5. catalog = db.idx
  BY <1>1, <1>2, <1>4, CatalogFor
<1>6. WithIndex(db.idx, c) \in Indexes
  BY <1>3, DbFacts DEF WithIndex, Indexes
<1>7. /\ db.cookie + 1 \in Version /\ changes + 1 \in Version
      /\ db.cookie + 1 <= changes + 1
  BY <1>1, DbFacts, SessionBounds DEF Version
<1>8. /\ db' \in Database /\ db'.idx = catalog' /\ db'.cookie = db.cookie + 1
      /\ db'.ver = db.ver /\ catalog' \in Indexes
  BY <1>1, <1>5, <1>6, <1>7, DbFacts, ContentsFacts
<1>9. DirtyIsLocked' /\ SeenIsLocked'
  <2>1. DirtyIsLocked /\ SeenIsLocked
    BY DEF Inv
  <2> QED BY <1>1, <1>2, <1>4, <1>8, <2>1, SeenSameVersions DEF DirtyIsLocked
<1>10. CatalogStep(c) /\ SchemaStep(c)
  BY <1>2, <1>4, <1>8 DEF CatalogStep, SchemaStep
<1>11. pc'[c] # "bump"
  BY <1>1 DEF Return, Enter, Goto, Inv, Types
<1>12. CookieStep(c)
  BY <1>1, <1>2, <1>7, <1>8, <1>11, DbFacts DEF CookieStep
<1>13. /\ changes' \in Version
       /\ seen' \in [Txn -> [Tabs -> Version \cup {None}]]
  BY <1>1, <1>7 DEF Inv, Types
<1> QED BY <1>1, <1>8, <1>9, <1>10, <1>12, <1>13, BodyKeeps

-----------------------------------------------------------------------------
(* The end of a transaction *)

(* What differs from the committed state is out of reach of all but x. *)
LEMMA OnlyWriterIsDirty ==
  ASSUME Inv, NEW x \in Txn, IsWriter(x)
  PROVE  /\ db.idx # committed.idx => held["__schema__"][x] = "EXCLUSIVE"
         /\ \A t \in Tabs : db.ver[t] # committed.ver[t] => held[t][x] = "EXCLUSIVE"
<1>1. CASE hook = None
  BY <1>1 DEF Inv, HookIsWriter
<1>2. CASE hook # None
  <2>1. hook \in Txn /\ IsWriter(hook) /\ Compatible /\ DirtyIsLocked
    BY <1>2 DEF Inv, Types, HookIsWriter
  <2>2. hook = x
    BY <2>1, OneWriter
  <2> QED BY <1>2, <2>1, <2>2 DEF DirtyIsLocked
<1> QED BY <1>1, <1>2

LEMMA CommitKeeps ==
  ASSUME Inv, NEW c \in Conn, Commit(c)
  PROVE  Inv'
<1>1. /\ pc[c] = "commit" /\ Goto(c, "unhookCommitted")
      /\ committed' = IF IsWriter(X(c)) THEN db ELSE committed
      /\ UNCHANGED <<txn, cursor, lastSeen, hook, db, saved, catalog, plans,
                     stranded, held, seen, nextTxn, changes>>
  BY DEF Commit, planned, locks, bounds
<1>2. /\ call[c] # None /\ cursor[c] = None /\ txn[c] = X(c) /\ X(c) \in Txn
      /\ Owns(c, X(c)) /\ X(c) # None
  BY <1>1, StageNow, Names DEF StageOf, Running, X
<1>3. "unhookCommitted" \in Labels
  BY DEF Labels
<1>4. /\ pc' \in [Conn -> Labels] /\ call' \in [Conn -> Call \cup {None}]
      /\ pc'[c] = "unhookCommitted" /\ call'[c] = call[c]
      /\ \A d \in Conn \ {c} : pc'[d] = pc[d] /\ call'[d] = call[d]
  BY <1>1, <1>3, GotoFacts
<1>5. Types'
  BY <1>1, <1>4 DEF Inv, Types
<1>6. Alone(c)
  BY <1>1, <1>4 DEF Alone
<1>7. StageAfter(c) /\ BoundAfter(c) /\ LocksAfter(c)
  BY <1>1, <1>2, <1>4, StageNow DEF StageAfter, StageOf, BoundAfter, BoundOf, LocksAfter,
     LocksOf, Deciding, Opening, Running, Leaving, Body, Bound, X
<1>8. KeepsOthers(c) /\ Compatible' /\ HookLocksKept /\ NoNewWriter
  BY <1>1, LocksSame
<1>9. \A x \in Txn : OwnsAfter(c, x) <=> Owns(c, x)
  BY <1>1, <1>4 DEF OwnsAfter, Owns
<1>10. TakesNew(c) /\ LetsGo(c)
  BY <1>1, <1>8, <1>9, SameReach
<1>11. pc[c] \notin Finishing /\ pc'[c] \in Finishing /\ pc'[c] # "bump"
  BY <1>1, <1>4 DEF Finishing, Leaving
<1>12. WriterStep(c)
  BY <1>2, <1>4, <1>8, <1>11 DEF WriterStep, AtWork, NoNewWriter, X
<1>13. HookStep(c) /\ StoreStep(c) /\ SchemaStep(c)
  BY <1>1, <1>2 DEF HookStep, StoreStep, SchemaStep
<1>14. RollbackPointAfter(c)
  BY <1>1, <1>4, <1>11 DEF RollbackPointAfter, RollbackPointOf, IsWriter, X
<1>15. HookIsWriter' /\ DirtyIsLocked'
  <2>1. HookIsWriter /\ DirtyIsLocked /\ Types
    BY DEF Inv
  <2>2. CASE IsWriter(X(c))
    BY <1>1, <2>1, <2>2 DEF HookIsWriter, DirtyIsLocked, IsWriter
  <2>3. CASE ~IsWriter(X(c))
    BY <1>1, <1>8, <2>1, <2>3, HookKept
  <2> QED BY <2>2, <2>3
<1>16. SeenIsLocked'
  BY <1>1, SeenSameVersions DEF Inv
<1>17. CatalogStep(c)
  BY <1>1 DEF CatalogStep, Reloading
<1>18. CookieStep(c)
  BY <1>1, <1>11, DbFacts DEF CookieStep
<1> QED BY <1>5, <1>6, <1>7, <1>8, <1>10, <1>12, <1>13, <1>14, <1>15, <1>16, <1>17,
        <1>18, Assemble

LEMMA RollbackKeeps ==
  ASSUME Inv, NEW c \in Conn, Rollback(c)
  PROVE  Inv'
<1>1. /\ pc[c] = "rollback" /\ Goto(c, "unhookRolledBack")
      /\ db' = IF IsWriter(X(c)) THEN saved ELSE db
      /\ seen' = [seen EXCEPT ![X(c)] = Unread]
      /\ UNCHANGED <<txn, cursor, lastSeen, hook, saved, committed, catalog, plans,
                     stranded, held, nextTxn, changes>>
  BY DEF Rollback, planned, bounds
<1>2. /\ call[c] # None /\ cursor[c] = None /\ txn[c] = X(c) /\ X(c) \in Txn
      /\ Owns(c, X(c)) /\ X(c) # None
  BY <1>1, StageNow, Names DEF StageOf, Running, X
<1>3. "unhookRolledBack" \in Labels
  BY DEF Labels
<1>4. /\ pc' \in [Conn -> Labels] /\ call' \in [Conn -> Call \cup {None}]
      /\ pc'[c] = "unhookRolledBack" /\ call'[c] = call[c]
      /\ \A d \in Conn \ {c} : pc'[d] = pc[d] /\ call'[d] = call[d]
  BY <1>1, <1>3, GotoFacts
<1>5. pc[c] \notin Finishing /\ pc'[c] \in Finishing /\ pc'[c] # "bump"
  BY <1>1, <1>4 DEF Finishing, Leaving
<1>6. /\ IsWriter(X(c)) => db' = committed
      /\ ~IsWriter(X(c)) => db' = db
  BY <1>1, <1>2, <1>5 DEF Inv, RollbackPoint
<1>7. db' \in Database
  BY <1>6 DEF Inv, Types
<1>8. /\ seen' \in [Txn -> [Tabs -> Version \cup {None}]]
      /\ \A t \in Tabs : seen'[X(c)][t] = None
      /\ \A y \in Txn : y # X(c) => seen'[y] = seen[y]
  <2>1. seen \in [Txn -> [Tabs -> Version \cup {None}]]
    BY DEF Inv, Types
  <2> QED BY <1>1, <1>2, <2>1 DEF Unread
<1>9. Types'
  BY <1>1, <1>4, <1>7, <1>8 DEF Inv, Types
<1>10. Alone(c)
  BY <1>1, <1>4 DEF Alone
<1>11. StageAfter(c) /\ BoundAfter(c) /\ LocksAfter(c)
  BY <1>1, <1>2, <1>4, StageNow DEF StageAfter, StageOf, BoundAfter, BoundOf, LocksAfter,
     LocksOf, Deciding, Opening, Running, Leaving, Body, Bound, X
<1>12. KeepsOthers(c) /\ Compatible' /\ HookLocksKept /\ NoNewWriter
  BY <1>1, LocksSame
<1>13. \A x \in Txn : OwnsAfter(c, x) <=> Owns(c, x)
  BY <1>1, <1>4 DEF OwnsAfter, Owns
<1>14. TakesNew(c) /\ LetsGo(c)
  BY <1>1, <1>12, <1>13, SameReach
<1>15. WriterStep(c)
  BY <1>2, <1>4, <1>5, <1>12 DEF WriterStep, AtWork, NoNewWriter, X
<1>16. HookStep(c) /\ StoreStep(c)
  BY <1>1, <1>2, <1>6 DEF HookStep, StoreStep
<1>17. RollbackPointAfter(c)
  BY <1>1, <1>4, <1>5, <1>6 DEF RollbackPointAfter, RollbackPointOf, IsWriter, X
<1>18. HookIsWriter' /\ DirtyIsLocked'
  <2>1. HookIsWriter /\ DirtyIsLocked /\ Types
    BY DEF Inv
  <2>2. CASE IsWriter(X(c))
    BY <1>1, <1>6, <2>1, <2>2 DEF HookIsWriter, DirtyIsLocked, IsWriter
  <2>3. CASE ~IsWriter(X(c))
    BY <1>1, <1>6, <1>12, <2>1, <2>3, HookKept
  <2> QED BY <2>2, <2>3
<1>19. SeenIsLocked'
  <2> SUFFICES ASSUME NEW y \in Txn, NEW t \in Tabs, seen'[y][t] # None
               PROVE  held[t][y] # "none" /\ db'.ver[t] = seen'[y][t]
    BY <1>1 DEF SeenIsLocked
  <2>1. y # X(c) /\ seen'[y][t] = seen[y][t]
    BY <1>8
  <2>2. held[t][y] # "none" /\ db.ver[t] = seen[y][t]
    BY <2>1 DEF Inv, SeenIsLocked
  <2>3. ASSUME IsWriter(X(c)) PROVE db.ver[t] = committed.ver[t]
    <3> SUFFICES ASSUME db.ver[t] # committed.ver[t] PROVE FALSE
      OBVIOUS
    <3>1. held[t][X(c)] = "EXCLUSIVE" /\ t \in Resource
      BY <1>2, <2>3, OnlyWriterIsDirty, Names
    <3> QED BY <1>2, <2>1, <2>2, <3>1 DEF Inv, Compatible
  <2> QED BY <1>6, <2>1, <2>2, <2>3
<1>20. db'.idx = db.idx \/ held["__schema__"][X(c)] = "EXCLUSIVE"
  BY <1>2, <1>6, OnlyWriterIsDirty
<1>21. SchemaStep(c)
  BY <1>2, <1>20 DEF SchemaStep
<1>22. CatalogStep(c)
  BY <1>1, <1>4, <1>20 DEF CatalogStep, Reloading, X
<1>23. CookieStep(c)
  BY <1>1, <1>2, <1>5, <1>6, DbFacts DEF CookieStep
<1> QED BY <1>9, <1>10, <1>11, <1>12, <1>14, <1>15, <1>16, <1>17, <1>18, <1>19,
        <1>21, <1>22, <1>23, Assemble

LEMMA UnhookKeeps ==
  ASSUME Inv, NEW c \in Conn, Unhook(c)
  PROVE  Inv'
<1>1. /\ pc[c] \in {"unhookCommitted", "unhookRolledBack"} /\ Goto(c, AfterUnhook(c))
      /\ hook' = IF hook = X(c) THEN None ELSE hook
      /\ txn' = [txn EXCEPT ![c] = None]
      /\ UNCHANGED <<cursor, lastSeen, db, saved, committed, catalog, plans,
                     stranded, held, seen, nextTxn, changes>>
  BY DEF Unhook, planned, locks, bounds
<1>2. /\ call[c] # None /\ cursor[c] = None /\ txn[c] = X(c) /\ X(c) \in Txn
      /\ Owns(c, X(c)) /\ X(c) # None
  BY <1>1, StageNow, Names DEF StageOf, Running, X
<1>3. AfterUnhook(c) \in Labels /\ AfterUnhook(c) \in Leaving
  BY DEF AfterUnhook, Labels, Leaving
<1>4. /\ pc' \in [Conn -> Labels] /\ call' \in [Conn -> Call \cup {None}]
      /\ pc'[c] = AfterUnhook(c) /\ call'[c] = call[c]
      /\ \A d \in Conn \ {c} : pc'[d] = pc[d] /\ call'[d] = call[d]
  BY <1>1, <1>3, GotoFacts
<1>5. /\ txn' \in [Conn -> Txn \cup {None}] /\ txn'[c] = None
      /\ \A d \in Conn \ {c} : txn'[d] = txn[d]
  BY <1>1 DEF Inv, Types
<1>6. hook' \in Txn \cup {None} /\ hook' # X(c)
  BY <1>1, <1>2 DEF Inv, Types
<1>7. Types'
  BY <1>1, <1>4, <1>5, <1>6 DEF Inv, Types
<1>8. Alone(c)
  BY <1>1, <1>4, <1>5 DEF Alone
<1>9. StageAfter(c)
  BY <1>1, <1>2, <1>3, <1>4, <1>5, StageNow DEF StageAfter, StageOf, Deciding, Opening,
     Running, Leaving, Body
<1>10. BoundAfter(c) /\ LocksAfter(c)
  BY <1>1, <1>2, <1>3, <1>4, <1>6 DEF BoundAfter, BoundOf, LocksAfter, LocksOf, Opening,
     Leaving, Body, Bound, X
<1>11. KeepsOthers(c) /\ Compatible' /\ NoNewWriter
  BY <1>1, LocksSame
<1>12. \A x \in Txn : OwnsAfter(c, x) <=> Owns(c, x)
  BY <1>1, <1>2, <1>4, <1>5, Names DEF OwnsAfter, Owns, Reaches, X
<1>13. TakesNew(c) /\ LetsGo(c)
  BY <1>1, <1>11, <1>12, SameReach
<1>14. pc[c] \in Finishing /\ pc'[c] \in Finishing /\ pc'[c] # "bump"
  BY <1>1, <1>3, <1>4 DEF Finishing, Leaving
<1>15. WriterStep(c)
  BY <1>4, <1>11, <1>14 DEF WriterStep, AtWork, NoNewWriter
<1>16. HookStep(c) /\ StoreStep(c) /\ SchemaStep(c)
  BY <1>1, <1>14 DEF HookStep, StoreStep, SchemaStep
<1>17. IsWriter(X(c)) => db = committed
  BY <1>14 DEF Inv, RollbackPoint
<1>18. RollbackPointAfter(c)
  BY <1>1, <1>4, <1>14, <1>17 DEF RollbackPointAfter, RollbackPointOf, IsWriter, X
<1>19. HookIsWriter' /\ DirtyIsLocked'
  <2>1. HookIsWriter /\ DirtyIsLocked
    BY DEF Inv
  <2>2. CASE hook = X(c)
    <3>1. db = committed /\ hook' = None
      BY <1>1, <1>2, <1>17, <2>1, <2>2 DEF HookIsWriter
    <3> QED BY <1>1, <3>1 DEF HookIsWriter, DirtyIsLocked
  <2>3. CASE hook # X(c)
    BY <1>1, <2>1, <2>3 DEF HookIsWriter, DirtyIsLocked, IsWriter
  <2> QED BY <2>2, <2>3
<1>20. SeenIsLocked'
  BY <1>1, SeenSameVersions DEF Inv
<1>21. CatalogStep(c)
  BY <1>1, <1>4 DEF CatalogStep, Reloading, AfterUnhook, Locks!Has, X
<1>22. CookieStep(c)
  BY <1>1, <1>14, DbFacts DEF CookieStep
<1> QED BY <1>7, <1>8, <1>9, <1>10, <1>11, <1>13, <1>15, <1>16, <1>18, <1>19, <1>20, <1>21,
        <1>22, Assemble

LEMMA ReloadCatalogKeeps ==
  ASSUME Inv, NEW c \in Conn, ReloadCatalog(c)
  PROVE  Inv'
<1>1. /\ pc[c] = "reload" /\ Goto(c, "release") /\ catalog' = db.idx
      /\ lastSeen' = [lastSeen EXCEPT ![c] = db.cookie]
      /\ UNCHANGED <<txn, cursor, hook, db, saved, committed, plans, stranded,
                     held, seen, nextTxn, changes>>
  BY DEF ReloadCatalog, store, planned, locks, bounds
<1>2. call[c] # None /\ cursor[c] = None
  BY <1>1, StageNow DEF StageOf
<1>3. "release" \in Labels
  BY DEF Labels
<1>4. /\ pc' \in [Conn -> Labels] /\ call' \in [Conn -> Call \cup {None}]
      /\ pc'[c] = "release" /\ call'[c] = call[c]
      /\ \A d \in Conn \ {c} : pc'[d] = pc[d] /\ call'[d] = call[d]
  BY <1>1, <1>3, GotoFacts
<1>5. catalog' \in Indexes /\ lastSeen' \in [Conn -> Version]
  BY <1>1, DbFacts DEF Inv, Types
<1>6. Types'
  BY <1>1, <1>4, <1>5 DEF Inv, Types
<1>7. Alone(c)
  BY <1>1, <1>4 DEF Alone
<1>8. StageAfter(c) /\ BoundAfter(c) /\ LocksAfter(c)
  BY <1>1, <1>2, <1>4, StageNow DEF StageAfter, StageOf, BoundAfter, BoundOf, LocksAfter,
     LocksOf, Deciding, Opening, Running, Leaving, Body, Bound
<1>9. KeepsOthers(c) /\ Compatible' /\ HookLocksKept /\ NoNewWriter
  BY <1>1, LocksSame
<1>10. \A x \in Txn : OwnsAfter(c, x) <=> Owns(c, x)
  BY <1>1, <1>4 DEF OwnsAfter, Owns
<1>11. TakesNew(c) /\ LetsGo(c)
  BY <1>1, <1>9, <1>10, SameReach
<1>12. pc[c] \in Finishing /\ pc'[c] \in Finishing /\ pc'[c] # "bump"
  BY <1>1, <1>4 DEF Finishing, Leaving
<1>13. WriterStep(c)
  BY <1>4, <1>9, <1>12 DEF WriterStep, AtWork, NoNewWriter
<1>14. HookStep(c) /\ StoreStep(c) /\ SchemaStep(c)
  BY <1>1 DEF HookStep, StoreStep, SchemaStep
<1>15. RollbackPointAfter(c)
  BY <1>1, <1>4, <1>12 DEF RollbackPointAfter, RollbackPointOf, Inv, RollbackPoint, IsWriter, X
<1>16. HookIsWriter' /\ DirtyIsLocked'
  BY <1>1, <1>9, HookKept DEF Inv
<1>17. SeenIsLocked'
  BY <1>1, SeenSameVersions DEF Inv
<1>18. CatalogStep(c)
  BY <1>1 DEF CatalogStep
<1>19. CookieStep(c)
  BY <1>1, <1>12, DbFacts DEF CookieStep
<1> QED BY <1>6, <1>7, <1>8, <1>9, <1>11, <1>13, <1>14, <1>15, <1>16, <1>17, <1>18, <1>19,
        Assemble

LEMMA ReleaseLocksKeeps ==
  ASSUME Inv, NEW c \in Conn, ReleaseLocks(c)
  PROVE  Inv'
<1>1. /\ pc[c] = "release" /\ Ended(X(c))
      /\ Enter(c, "closed", None) \/ Enter(c, "idle", None)
      /\ saved' = IF IsWriter(X(c)) THEN None ELSE saved
      /\ UNCHANGED <<txn, cursor, lastSeen, hook, db, committed, catalog, plans,
                     stranded, nextTxn, changes>>
  BY DEF ReleaseLocks, Return, planned, bounds
<1>2. /\ call[c] # None /\ cursor[c] = None /\ txn[c] = None /\ X(c) \in Txn
      /\ Owns(c, X(c)) /\ hook # X(c)
  BY <1>1, StageNow DEF StageOf, LocksOf, Leaving, X
<1>3. {"closed", "idle"} \subseteq Labels
  BY DEF Labels
<1>4. /\ pc' \in [Conn -> Labels] /\ call' \in [Conn -> Call \cup {None}]
      /\ pc'[c] \in {"closed", "idle"} /\ call'[c] = None
      /\ \A d \in Conn \ {c} : pc'[d] = pc[d] /\ call'[d] = call[d]
  <2>1. CASE Enter(c, "closed", None)
    BY <1>3, <2>1, EnterFacts
  <2>2. CASE Enter(c, "idle", None)
    BY <1>3, <2>2, EnterFacts
  <2> QED BY <1>1, <2>1, <2>2
<1>5. /\ held' \in [Resource -> [Txn -> Locks!Modes]]
      /\ seen' \in [Txn -> [Tabs -> Version \cup {None}]]
      /\ KeepsOthers(c) /\ Compatible' /\ HookLocksKept /\ SeenStep /\ NoNewWriter
      /\ \A r \in Resource : held'[r][X(c)] = "none"
  BY <1>1, <1>2, LocksReleased
<1>6. saved' \in Database \cup {None}
  BY <1>1 DEF Inv, Types
<1>7. Types'
  BY <1>1, <1>4, <1>5, <1>6 DEF Inv, Types
<1>8. Alone(c)
  BY <1>1, <1>4 DEF Alone
<1>9. StageAfter(c) /\ BoundAfter(c) /\ LocksAfter(c)
  BY <1>1, <1>2, <1>4 DEF StageAfter, StageOf, BoundAfter, BoundOf, LocksAfter,
     LocksOf, Deciding, Opening, Running, Leaving, Body, Bound
<1>10. \A x \in Txn : (OwnsAfter(c, x) => Owns(c, x)) /\ (Owns(c, x) => x = X(c))
  BY <1>1, <1>2, <1>4, Names DEF OwnsAfter, Owns, Reaches, X
<1>11. TakesNew(c) /\ LetsGo(c)
  BY <1>1, <1>5, <1>10 DEF TakesNew, LetsGo, KeepsOthers
<1>12. pc[c] \in Finishing /\ pc'[c] \notin Finishing /\ pc'[c] # "bump"
  BY <1>1, <1>4 DEF Finishing, Leaving
<1>13. WriterStep(c)
  <2> SUFFICES ASSUME NEW x \in Txn, held'["__writer__"][x] = "EXCLUSIVE"
               PROVE  IsWriter(x) /\ ~AtWork(pc[c], call[c], txn[c], x)
    BY DEF WriterStep
  <2>1. x # X(c)
    BY <1>5, Names
  <2> QED BY <1>5, <1>12, <2>1 DEF NoNewWriter, AtWork, X
<1>14. HookStep(c) /\ StoreStep(c) /\ SchemaStep(c)
  BY <1>1, <1>2 DEF HookStep, StoreStep, SchemaStep
<1>15. RollbackPointAfter(c)
  BY <1>1, <1>2, <1>12 DEF RollbackPointAfter, RollbackPointOf
<1>16. HookIsWriter' /\ DirtyIsLocked'
  BY <1>1, <1>5, HookKept DEF Inv
<1>17. SeenIsLocked'
  BY <1>1, <1>5, SeenKept DEF Inv
<1>18. CatalogStep(c)
  BY <1>1 DEF CatalogStep, Reloading
<1>19. CookieStep(c)
  BY <1>1, <1>12, DbFacts DEF CookieStep
<1> QED BY <1>5, <1>7, <1>8, <1>9, <1>11, <1>13, <1>14, <1>15, <1>16, <1>17, <1>18, <1>19,
        Assemble

-----------------------------------------------------------------------------
(* The invariant *)

LEMMA InitInv == Init => Inv
<1> SUFFICES ASSUME Init PROVE Inv
  OBVIOUS
<1>1. \A r \in Resource, x \in Txn : held[r][x] = "none"
  BY DEF Init, Locks!NoneHeld
<1>2. \A c \in Conn : /\ pc[c] = "idle" /\ call[c] = None /\ txn[c] = None
                      /\ cursor[c] = None
  BY DEF Init
<1>3. 0 \in Version /\ 1 \in 1..(MaxTxn + 1) /\ "idle" \in Labels
  BY SessionBounds DEF Version, Labels
<1>4. NoIndexes \in Indexes /\ Unread \in [Tabs -> Version \cup {None}]
  BY DEF NoIndexes, Indexes, Unread
<1>5. EmptyDb \in Database /\ EmptyDb.idx = NoIndexes /\ EmptyDb.cookie = 0
  <2>1. [t \in Tabs |-> 0] \in [Tabs -> Version]
    BY <1>3
  <2> DEFINE v == [t \in Tabs |-> 0]
  <2> HIDE DEF v
  <2>2. v \in [Tabs -> Version]
    BY <2>1 DEF v
  <2>3. EmptyDb = Contents(NoIndexes, 0, v)
    BY DEF EmptyDb, v
  <2> QED BY <1>3, <1>4, <2>2, <2>3, ContentsFacts
<1>6. Types
  <2>1. held \in [Resource -> [Txn -> Locks!Modes]]
    BY DEF Init, Locks!NoneHeld, Locks!Modes
  <2>2. seen \in [Txn -> [Tabs -> Version \cup {None}]]
    BY <1>4 DEF Init
  <2> QED BY <1>3, <1>4, <1>5, <2>1, <2>2 DEF Init, Types
<1>7. Stages
  BY <1>2 DEF Stages, StageOf, Deciding, Opening, Running, Leaving, Body
<1>8. \A c \in Conn, x \in Txn : ~Owns(c, x)
  BY <1>2, Names DEF Owns, Reaches
<1>9. OneOwner /\ FreshIds /\ Owned /\ StrandedRead /\ Compatible
  BY <1>1, <1>8 DEF Init, OneOwner, FreshIds, Owned, StrandedRead, Compatible
<1>10. LocksTaken /\ BoundIsCurrent
  BY <1>2 DEF LocksTaken, LocksOf, BoundIsCurrent, BoundOf, Bound, Opening, Body, Leaving
<1>11. WriterAtWork /\ RollbackPoint
  BY <1>1, <1>2, Names DEF WriterAtWork, RollbackPoint, IsWriter, Finishing, Leaving
<1>12. HookIsWriter /\ DirtyIsLocked
  BY DEF Init, HookIsWriter, DirtyIsLocked
<1>13. SeenIsLocked
  BY DEF Init, SeenIsLocked, Unread
<1>14. CatalogFresh
  BY <1>5 DEF Init, CatalogFresh
<1>15. CookieCounted
  BY <1>2, <1>5 DEF Init, CookieCounted
<1> QED BY <1>6, <1>7, <1>9, <1>10, <1>11, <1>12, <1>13, <1>14, <1>15 DEF Inv

LEMMA StutterInv == Inv /\ UNCHANGED vars => Inv'
<1> SUFFICES ASSUME Inv, UNCHANGED vars PROVE Inv'
  OBVIOUS
<1>1. UNCHANGED <<pc, call, txn, cursor, lastSeen, held, hook, db, saved, committed,
                  catalog, plans, seen, nextTxn, changes, stranded>>
  BY DEF vars, conn, store, locks, planned, bounds
<1>2. Types' /\ Stages' /\ OneOwner' /\ FreshIds' /\ Owned' /\ StrandedRead'
  BY <1>1 DEF Inv, Types, Stages, OneOwner, FreshIds, Owned, StrandedRead, Owns, SchemaOnly
<1>3. Compatible' /\ LocksTaken' /\ WriterAtWork' /\ RollbackPoint'
  BY <1>1 DEF Inv, Compatible, LocksTaken, WriterAtWork, RollbackPoint, IsWriter, X
<1>4. HookIsWriter' /\ DirtyIsLocked' /\ SeenIsLocked'
  BY <1>1 DEF Inv, HookIsWriter, IsWriter, DirtyIsLocked, SeenIsLocked
<1>5. CatalogFresh' /\ BoundIsCurrent' /\ CookieCounted'
  BY <1>1 DEF Inv, CatalogFresh, BoundIsCurrent, CookieCounted, X
<1> QED BY <1>2, <1>3, <1>4, <1>5 DEF Inv

LEMMA NextInv == Inv /\ Next => Inv'
<1> SUFFICES ASSUME Inv, NEW c \in Conn,
                    \/ \E s \in Statement : Execute(c, s)
                    \/ LockSchema(c) \/ Bind(c) \/ BindFails(c) \/ LockFailsEarly(c)
                    \/ FinishCursor(c) \/ CloseConnection(c)
                    \/ Select(c) \/ Mutation(c) \/ Transaction(c)
             PROVE  Inv'
  BY DEF Next
<1>1. CASE \E s \in Statement : Execute(c, s)
  BY <1>1, ExecuteKeeps
<1>2. CASE LockSchema(c) \/ Bind(c) \/ BindFails(c) \/ LockFailsEarly(c)
  BY <1>2, LockSchemaKeeps, BindKeeps, BindFailsKeeps, LockFailsEarlyKeeps
<1>3. CASE FinishCursor(c) \/ CloseConnection(c)
  BY <1>3, FinishCursorKeeps, CloseConnectionKeeps
<1>4. CASE Select(c)
  BY <1>4, PlanHitKeeps, PlanFailsKeeps, PlanMissKeeps, PlanBuildKeeps, OpenScanKeeps
     DEF Select
<1>5. CASE Mutation(c)
  BY <1>5, LockWriterKeeps, LockTargetKeeps, LockMeasuredKeeps, WriteRowsKeeps,
     CreateIndexKeeps, BodyFailsKeeps, AnalyzeRowsKeeps, AnalyzeBumpKeeps DEF Mutation
<1>6. CASE Transaction(c)
  <2>1. CASE \E immediate \in BOOLEAN : Begin(c, immediate)
    BY <2>1, BeginKeeps
  <2>2. CASE \E how \in {"commit", "rollback", "close"} : EndTxn(c, how)
    BY <2>2, EndTxnKeeps
  <2>3. CASE ImmediateSchema(c) \/ ImmediateWriter(c) \/ ImmediateFails(c)
    BY <2>3, ImmediateSchemaKeeps, ImmediateWriterKeeps, ImmediateFailsKeeps
  <2>4. CASE Commit(c) \/ CommitFails(c) \/ Rollback(c)
    BY <2>4, CommitKeeps, CommitFailsKeeps, RollbackKeeps
  <2>5. CASE Unhook(c) \/ ReloadCatalog(c) \/ ReleaseLocks(c)
    BY <2>5, UnhookKeeps, ReloadCatalogKeeps, ReleaseLocksKeeps
  <2> QED BY <1>6, <2>1, <2>2, <2>3, <2>4, <2>5 DEF Transaction
<1> QED BY <1>1, <1>2, <1>3, <1>4, <1>5, <1>6

(* Inv is invariant: what the statements of all connections together maintain,
   whichever lock each of them waits for and whichever step fails. *)
THEOREM SessionInvariant == Spec => []Inv
BY InitInv, NextInv, StutterInv, PTL DEF Spec

(* Every variable keeps its type and a transaction belongs to one connection. *)
THEOREM SessionTypes == Spec => []TypeOK
<1>1. Inv => TypeOK
  <2> SUFFICES ASSUME Inv PROVE TypeOK
    OBVIOUS
  <2>1. Types
    BY DEF Inv
  <2>2. \A c \in Conn : /\ pc[c] \in {"idle", "closed"} <=> call[c] = None
                        /\ call[c] \in Call \cup {None}
    BY StageNow DEF StageOf
  <2>3. ASSUME NEW c \in Conn, NEW d \in Conn \ {c}
        PROVE  /\ txn[c] # None => txn[c] # txn[d]
               /\ call[c] # None /\ call[d] # None => X(c) # X(d)
    BY <2>1, CallOwned DEF Inv, OneOwner
  <2> QED BY <2>1, <2>2, <2>3 DEF TypeOK, Types
<1> QED BY <1>1, SessionInvariant, PTL

(* lock_for_write() and _end_txn(): the hook names the one holder of
   "__writer__", and pages differ from the committed ones only under it. *)
THEOREM SessionHookIsWriter == Spec => []HookIsWriter
<1>1. Inv => HookIsWriter
  BY DEF Inv
<1> QED BY <1>1, SessionInvariant, PTL

(* Strict two-phase locking makes the connections serializable: what a live
   transaction has read or written stays as it was, and is nobody else's
   uncommitted change. *)
THEOREM SessionReadsStayValid == Spec => []ReadsStayValid
<1>1. Inv => ReadsStayValid
  <2> SUFFICES ASSUME Inv, NEW x \in Txn, NEW t \in Tabs, seen[x][t] # None
               PROVE  /\ db.ver[t] = seen[x][t]
                      /\ db.ver[t] = committed.ver[t] \/ hook = x
    BY DEF ReadsStayValid
  <2>1. held[t][x] # "none" /\ db.ver[t] = seen[x][t]
    BY DEF Inv, SeenIsLocked
  <2>2. ASSUME db.ver[t] # committed.ver[t] PROVE hook = x
    <3>1. hook # None /\ hook \in Txn
      BY <2>2 DEF Inv, Types, HookIsWriter
    <3>2. held[t][hook] = "EXCLUSIVE" /\ t \in Resource
      BY <2>2, <3>1, Names DEF Inv, DirtyIsLocked
    <3> QED BY <2>1, <3>1, <3>2 DEF Inv, Compatible
  <2> QED BY <2>1, <2>2
<1> QED BY <1>1, SessionInvariant, PTL

(* bind(), the planner, a mutation body and an open cursor work with the
   schema that is there, and with nobody else's uncommitted DDL. *)
THEOREM SessionSchemaStable == Spec => []SchemaStable
<1>1. Inv => SchemaStable
  <2> SUFFICES ASSUME Inv PROVE SchemaStable
    OBVIOUS
  <2>1. ASSUME NEW c \in Conn, NEW x \in Txn, Owns(c, x),
               held["__schema__"][x] # "none",
               pc[c] \notin {"unhookRolledBack", "reload"}
        PROVE  SchemaFor(x, db.idx)
    <3>1. catalog = db.idx
      BY <2>1, CatalogFor
    <3>2. ASSUME db.idx # committed.idx PROVE held["__schema__"][x] = "EXCLUSIVE"
      <4>1. hook # None /\ hook \in Txn
        BY <3>2 DEF Inv, Types, HookIsWriter
      <4>2. held["__schema__"][hook] = "EXCLUSIVE"
        BY <3>2, <4>1 DEF Inv, DirtyIsLocked
      <4> QED BY <2>1, <4>1, <4>2, Names DEF Inv, Compatible
    <3> QED BY <3>1, <3>2 DEF SchemaFor
  <2>2. ASSUME NEW c \in Conn,
               pc[c] \in {"plan", "cost", "open", "writer", "table", "reads", "work"}
        PROVE  SchemaFor(X(c), call[c].bound)
    <3>1. /\ X(c) \in Txn /\ Owns(c, X(c)) /\ call[c].bound = db.idx
          /\ held["__schema__"][X(c)] # "none"
      BY <2>2, StageNow DEF LocksOf, BoundOf, Bound, Opening, Body, X
    <3> QED BY <2>1, <2>2, <3>1
  <2>3. ASSUME NEW c \in Conn, cursor[c] # None
        PROVE  SchemaFor(cursor[c].txn, cursor[c].bound)
    <3>1. /\ cursor[c].bound = db.idx /\ held["__schema__"][cursor[c].txn] # "none"
          /\ pc[c] \in {"idle", "closed"}
      BY <2>3, StageNow DEF LocksOf, BoundOf, StageOf
    <3>2. cursor[c].txn \in Txn /\ Owns(c, cursor[c].txn)
      BY <2>3, CallOwned DEF Inv
    <3> QED BY <2>1, <3>1, <3>2
  <2> QED BY <2>2, <2>3 DEF SchemaStable
<1> QED BY <1>1, SessionInvariant, PTL

(* Whichever statement fails wherever: a lock that no connection can release
   any more is SHARED on "__schema__", of a SELECT whose planning raised. *)
THEOREM SessionLeakIsSchemaRead == Spec => []LeakIsSchemaRead
<1>1. Inv => LeakIsSchemaRead
  <2> SUFFICES ASSUME Inv, NEW x \in Txn, NEW r \in Resource, held[r][x] # "none",
                      ~\E c \in Conn : WithinReach(c, x)
               PROVE  x \in stranded /\ r = "__schema__" /\ held[r][x] = "SHARED"
    BY DEF LeakIsSchemaRead
  <2>1. x \in stranded
    BY DEF Inv, Owned, Owns, Reaches, WithinReach, X
  <2> QED BY <2>1 DEF Inv, StrandedRead, SchemaOnly
<1> QED BY <1>1, SessionInvariant, PTL
=============================================================================
