---------------------------- MODULE MutationProofs ----------------------------
(***************************************************************************)
(* Proofs about Mutation, for any columns, any list of indexes, any number *)
(* of rows and errors.                                                     *)
(***************************************************************************)
EXTENDS Mutation, SequenceTheorems, WellFoundedInduction, TLAPS

WholeOf(rs, i) == {EntryOf(i, r, rs[r]) : r \in DOMAIN rs}
NonNull(i, row) == \A c \in Indexes[i].columns : row[c] # Null

(* Two rows with the same key of a UNIQUE index are one. *)
UniqueIn(rs) ==
  \A i \in Index, r, q \in DOMAIN rs :
    /\ Indexes[i].unique
    /\ KeyOf(i, rs[r]) = KeyOf(i, rs[q])
    /\ NonNull(i, rs[r])
    => r = q

(* A table between statements.  What broke a statement off tells how much of
   the agreement between table and indexes is left. *)
Sound(rs, es, as, d) ==
  /\ d \subseteq {"page full"} => \A i \in Index : es[i] \subseteq WholeOf(rs, i) /\ as[i] = {}
  /\ d = {} => UniqueIn(rs) /\ \A i \in Index : WholeOf(rs, i) \subseteq es[i]

(* Where the row at hand stands, call by call. *)
RowAtHand ==
  /\ todo \ {This} \subseteq DOMAIN rows
  /\ Call \in {"check", "remove", "drop"} /\ stmt.kind # "insert"
       => This \in DOMAIN rows /\ rows[This] = old
  /\ Call = "put" \/ (Call = "check" /\ stmt.kind = "insert") => This \notin DOMAIN rows
  /\ Call = "enter" => This \in DOMAIN rows /\ rows[This] = new
  /\ stmt.kind = "insert" => todo = {This}

(* The row's old entry is still there; its new one is there already. *)
OldIn(i) ==
  /\ stmt.kind # "insert"
  /\ Call = "check" \/ ~Touched(i) \/ (Call = "remove" /\ index <= i)
NewIn(i) == Call = "enter" /\ Touched(i) /\ i < index

(* What index i holds in the middle of a statement. *)
Others(i) == {EntryOf(i, r, rows[r]) : r \in DOMAIN rows \ {This}}
Expected(i) ==
  Others(i)
    \cup (IF OldIn(i) THEN {EntryOf(i, This, old)} ELSE {})
    \cup (IF NewIn(i) THEN {EntryOf(i, This, new)} ELSE {})

(* The UNIQUE check, once passed, stays good until the row is put. *)
NoClash ==
  stmt.kind \in {"insert", "update"} /\ Call \in {"remove", "drop", "put"} =>
    \A i \in Index, r \in DOMAIN rows \ {This} :
      Indexes[i].unique /\ NonNull(i, new) => KeyOf(i, rows[r]) # KeyOf(i, new)

Midway ==
  /\ RowAtHand
  /\ damage \subseteq {"page full"} =>
       \A i \in Index : entries[i] \subseteq Expected(i) /\ astray[i] = {}
  /\ damage = {} => /\ UniqueIn(rows) /\ NoClash
                    /\ \A i \in Index : Expected(i) \subseteq entries[i]

(* An UPDATE has every row it began with, but for the one at hand. *)
NoneLost == stmt.kind = "update" => DOMAIN rows \cup todo = stmt.start

(* What ROLLBACK goes back to; outside BEGIN that is where the statement
   began. *)
RollbackPoint ==
  /\ Sound(committed.rows, committed.entries, committed.astray, committed.damage)
  /\ ~explicit => /\ damage = committed.damage
                  /\ IF stmt = Idle THEN rows = committed.rows
                     ELSE stmt.start = DOMAIN committed.rows

Inv ==
  /\ TypeOK /\ RollbackPoint /\ NoneLost
  /\ IF todo = {} THEN Sound(rows, entries, astray, damage) ELSE Midway

-----------------------------------------------------------------------------
(* A set of rowids has a smallest and a largest one. *)
LEMMA MinExists ==
  ASSUME NEW S, S \subseteq Nat, S # {}
  PROVE  \E m \in S : \A q \in S : m <= q
<1> DEFINE R == OpToRel(<, Nat)
<1>1. PICK m \in S : \A q \in S : ~(<<q, m>> \in R)
  <2> HIDE DEF R
  <2> QED BY NatLessThanWellFounded, WFMin DEF R
<1>2. \A q \in S : ~(q < m)
  BY <1>1 DEF OpToRel
<1> QED BY <1>2

LEMMA MaxExists ==
  ASSUME NEW n \in Nat, NEW S, S \subseteq 1..n, S # {}
  PROVE  \E m \in S : \A q \in S : q <= m
<1> DEFINE U == {u \in Nat : \A q \in S : q <= u}
<1>1. n \in U /\ U \subseteq Nat
  OBVIOUS
<1>2. PICK u \in U : \A v \in U : u <= v
  <2> HIDE DEF U
  <2> QED BY <1>1, MinExists
<1>3. u \in S
  <2> SUFFICES ASSUME u \notin S PROVE FALSE
    OBVIOUS
  <2>1. \A q \in S : q <= u - 1 /\ u - 1 \in Nat
    BY <1>2
  <2>2. u - 1 \in U
    BY <2>1
  <2> QED BY <1>2, <2>2
<1> QED BY <1>2, <1>3

(* The row at hand is one of those still to do. *)
LEMMA FirstIn ==
  ASSUME NEW S, S \subseteq Rowid, S # {}
  PROVE  First(S) \in S
<1>1. S \subseteq Nat
  BY MutationAssumption DEF Rowid
<1>2. \E m \in S : \A q \in S : m <= q
  BY <1>1, MinExists
<1> QED BY <1>2 DEF First

(* _next_rowid() returns a rowid that is not in use. *)
LEMMA NextRowidFresh ==
  ASSUME IsTable(rows, entries, astray), NextRowid <= MaxRowid
  PROVE  NextRowid \in Rowid /\ NextRowid \notin DOMAIN rows
<1>1. CASE DOMAIN rows = {}
  BY <1>1, MutationAssumption DEF NextRowid, Rowid
<1>2. CASE DOMAIN rows # {}
  <2>1. DOMAIN rows \subseteq 1..MaxRowid /\ MaxRowid \in Nat
    BY MutationAssumption DEF IsTable, Rowid
  <2> DEFINE m == CHOOSE r \in DOMAIN rows : \A q \in DOMAIN rows : q <= r
  <2>2. m \in DOMAIN rows /\ \A q \in DOMAIN rows : q <= m
    BY <1>2, <2>1, MaxExists
  <2>3. NextRowid = 1 + m
    BY <1>2 DEF NextRowid
  <2> HIDE DEF m
  <2> QED BY <2>1, <2>2, <2>3 DEF Rowid
<1> QED BY <1>1, <1>2

(* The calls of each statement, one by one. *)
LEMMA CallsOf ==
  /\ Len(Calls("insert")) = 3 /\ Calls("insert")[1] = "check"
       /\ Calls("insert")[2] = "put" /\ Calls("insert")[3] = "enter"
  /\ Len(Calls("delete")) = 2 /\ Calls("delete")[1] = "remove" /\ Calls("delete")[2] = "drop"
  /\ Len(Calls("update")) = 5 /\ Calls("update")[1] = "check"
       /\ Calls("update")[2] = "remove" /\ Calls("update")[3] = "drop"
       /\ Calls("update")[4] = "put" /\ Calls("update")[5] = "enter"
BY DEF Calls

(* Which call a statement stands at, and which comes next. *)
LEMMA CallAt ==
  ASSUME TypeOK, todo # {}
  PROVE  /\ stmt.kind = "insert" =>
              \/ at = 1 /\ Call = "check" /\ at < Len(Calls(stmt.kind))
              \/ at = 2 /\ Call = "put" /\ at < Len(Calls(stmt.kind))
              \/ at = 3 /\ Call = "enter" /\ at = Len(Calls(stmt.kind))
         /\ stmt.kind = "delete" =>
              \/ at = 1 /\ Call = "remove" /\ at < Len(Calls(stmt.kind))
              \/ at = 2 /\ Call = "drop" /\ at = Len(Calls(stmt.kind))
         /\ stmt.kind = "update" =>
              \/ at = 1 /\ Call = "check" /\ at < Len(Calls(stmt.kind))
              \/ at = 2 /\ Call = "remove" /\ at < Len(Calls(stmt.kind))
              \/ at = 3 /\ Call = "drop" /\ at < Len(Calls(stmt.kind))
              \/ at = 4 /\ Call = "put" /\ at < Len(Calls(stmt.kind))
              \/ at = 5 /\ Call = "enter" /\ at = Len(Calls(stmt.kind))
         /\ stmt.kind \in {"insert", "delete", "update"}
<1>1. stmt.kind \in {"insert", "delete", "update"} /\ at \in 1..Len(Calls(stmt.kind))
  BY DEF TypeOK
<1>2. CASE stmt.kind = "insert"
  <2>1. Len(Calls(stmt.kind)) = 3 /\ Call = Calls("insert")[at]
    BY <1>2, CallsOf DEF Call
  <2>2. at \in 1..3
    BY <1>1, <2>1
  <2>3. at = 1 \/ at = 2 \/ at = 3
    BY <2>2
  <2>4. /\ at = 1 => Call = "check"
        /\ at = 2 => Call = "put"
        /\ at = 3 => Call = "enter"
    BY <2>1, CallsOf
  <2>5. \/ at = 1 /\ Call = "check" /\ at < Len(Calls(stmt.kind))
        \/ at = 2 /\ Call = "put" /\ at < Len(Calls(stmt.kind))
        \/ at = 3 /\ Call = "enter" /\ at = Len(Calls(stmt.kind))
    BY <2>1, <2>3, <2>4
  <2>6. stmt.kind # "delete" /\ stmt.kind # "update"
    BY <1>2
  <2> QED BY <1>1, <2>5, <2>6, Zenon
<1>3. CASE stmt.kind = "delete"
  <2>1. Len(Calls(stmt.kind)) = 2 /\ Call = Calls("delete")[at]
    BY <1>3, CallsOf DEF Call
  <2>2. at \in 1..2
    BY <1>1, <2>1
  <2>3. at = 1 \/ at = 2
    BY <2>2
  <2>4. /\ at = 1 => Call = "remove"
        /\ at = 2 => Call = "drop"
    BY <2>1, CallsOf
  <2>5. \/ at = 1 /\ Call = "remove" /\ at < Len(Calls(stmt.kind))
        \/ at = 2 /\ Call = "drop" /\ at = Len(Calls(stmt.kind))
    BY <2>1, <2>3, <2>4
  <2>6. stmt.kind # "insert" /\ stmt.kind # "update"
    BY <1>3
  <2> QED BY <1>1, <2>5, <2>6, Zenon
<1>4. CASE stmt.kind = "update"
  <2>1. Len(Calls(stmt.kind)) = 5 /\ Call = Calls("update")[at]
    BY <1>4, CallsOf DEF Call
  <2>2. at \in 1..5
    BY <1>1, <2>1
  <2>3. at = 1 \/ at = 2 \/ at = 3 \/ at = 4 \/ at = 5
    BY <2>2
  <2>4. /\ at = 1 => Call = "check"
        /\ at = 2 => Call = "remove"
        /\ at = 3 => Call = "drop"
        /\ at = 4 => Call = "put"
        /\ at = 5 => Call = "enter"
    BY <2>1, CallsOf
  <2>5. \/ at = 1 /\ Call = "check" /\ at < Len(Calls(stmt.kind))
        \/ at = 2 /\ Call = "remove" /\ at < Len(Calls(stmt.kind))
        \/ at = 3 /\ Call = "drop" /\ at < Len(Calls(stmt.kind))
        \/ at = 4 /\ Call = "put" /\ at < Len(Calls(stmt.kind))
        \/ at = 5 /\ Call = "enter" /\ at = Len(Calls(stmt.kind))
    BY <2>1, <2>3, <2>4
  <2>6. stmt.kind # "insert" /\ stmt.kind # "delete"
    BY <1>4
  <2> QED BY <1>1, <2>5, <2>6, Zenon
<1> QED BY <1>1, <1>2, <1>3, <1>4

LEMMA CallAfter ==
  ASSUME TypeOK, todo # {}, at < Len(Calls(stmt.kind)), at' = at + 1, UNCHANGED stmt
  PROVE  /\ Call = "check" => Call' = IF stmt.kind = "insert" THEN "put" ELSE "remove"
         /\ Call = "remove" => Call' = "drop"
         /\ Call = "drop" => Call' = "put" /\ stmt.kind = "update"
         /\ Call = "put" => Call' = "enter"
         /\ Call # "enter"
         /\ at' \in 1..Len(Calls(stmt.kind))
<1>1. Call' = Calls(stmt.kind)[at + 1]
  BY DEF Call
<1>2. stmt.kind \in {"insert", "delete", "update"} /\ at \in 1..Len(Calls(stmt.kind))
  BY DEF TypeOK
<1>3. CASE stmt.kind = "insert"
  BY <1>1, <1>2, <1>3, CallsOf, CallAt
<1>4. CASE stmt.kind = "delete"
  BY <1>1, <1>2, <1>4, CallsOf, CallAt
<1>5. CASE stmt.kind = "update"
  BY <1>1, <1>2, <1>5, CallsOf, CallAt
<1> QED BY <1>2, <1>3, <1>4, <1>5

(* Keys and entries. *)
LEMMA EntryFacts ==
  ASSUME NEW i, NEW r, NEW row
  PROVE  EntryOf(i, r, row).rowid = r /\ EntryOf(i, r, row).key = KeyOf(i, row)
BY DEF EntryOf

LEMMA SameKeySameEntry ==
  ASSUME NEW i, NEW r, NEW a, NEW b, KeyOf(i, a) = KeyOf(i, b)
  PROVE  EntryOf(i, r, a) = EntryOf(i, r, b)
BY DEF EntryOf

LEMMA NonNullKey ==
  ASSUME NEW i \in Index, NEW a, NEW b, KeyOf(i, a) = KeyOf(i, b), NonNull(i, a)
  PROVE  NonNull(i, b) /\ ~\E c \in DOMAIN KeyOf(i, a) : KeyOf(i, a)[c] = Null
BY DEF NonNull, KeyOf

(* The row an UPDATE makes is of the table's type. *)
LEMMA UpdatedRow ==
  ASSUME NEW row \in Row, NEW c \in Column, NEW v \in Domain[c]
  PROVE  [row EXCEPT ![c] = v] \in Row
<1>1. v \in Value
  BY DEF Value
<1> QED BY <1>1 DEF Row

LEMMA IndexRange ==
  /\ Index = 1..Len(Indexes) /\ Len(Indexes) \in Nat \ {0} /\ 1 \in Index
  /\ \A i \in Index : Indexes[i].unique \in BOOLEAN
<1> DEFINE R == [columns : SUBSET Column, unique : BOOLEAN]
<1>1. Indexes \in Seq(R) /\ Indexes # <<>>
  BY MutationAssumption
<1>2. /\ Len(Indexes) \in Nat \ {0} /\ DOMAIN Indexes = 1..Len(Indexes)
      /\ \A i \in 1..Len(Indexes) : Indexes[i] \in R
  <2> HIDE DEF R
  <2> QED BY <1>1, EmptySeq
<1>3. \A i \in 1..Len(Indexes) : Indexes[i].unique \in BOOLEAN
  BY <1>2
<1> QED BY <1>2, <1>3 DEF Index

(* The row at hand and the others make up the table. *)
LEMMA WholeSplit ==
  ASSUME NEW rs, NEW r \in DOMAIN rs, NEW i
  PROVE  WholeOf(rs, i)
           = {EntryOf(i, q, rs[q]) : q \in DOMAIN rs \ {r}} \cup {EntryOf(i, r, rs[r])}
BY DEF WholeOf

-----------------------------------------------------------------------------
(* The part of TypeOK about the row at hand. *)
TurnOK ==
  /\ todo \subseteq Rowid /\ index \in Index
  /\ todo # {} => /\ stmt # Idle
                  /\ at \in 1 .. Len(Calls(stmt.kind))
                  /\ stmt.kind \in {"delete", "update"} => old \in Row
                  /\ stmt.kind \in {"insert", "update"} => new \in Row

AgreeMidway == IF todo = {} THEN Sound(rows, entries, astray, damage) ELSE Midway

(* A statement comes to a row: nothing has been done for it yet, so the
   table is as between two statements. *)
LEMMA RowTaken ==
  ASSUME IsTable(rows', entries', astray'), Sound(rows', entries', astray', damage'),
         stmt'.kind \in {"delete", "update"}, stmt' # Idle,
         stmt'.kind = "update" => stmt'.column \in Column /\ stmt'.value \in Domain[stmt'.column],
         NEW S, S # {}, S \subseteq DOMAIN rows', Onto(stmt', S, rows')
  PROVE  TurnOK' /\ AgreeMidway'
<1>1. S \subseteq Rowid
  BY DEF IsTable
<1>2. This' = First(S) /\ First(S) \in S /\ First(S) \in DOMAIN rows'
  BY <1>1, FirstIn DEF This, Onto
<1>3. todo' = S /\ at' = 1 /\ index' = 1 /\ old' = rows'[This'] /\ old' \in Row
  BY <1>2 DEF Onto, IsTable
<1>4. TurnOK'
  <2>1. stmt'.kind = "update" => new' \in Row
    BY <1>2, <1>3, UpdatedRow DEF Onto
  <2>2. 1 \in 1..Len(Calls(stmt'.kind))
    BY CallsOf
  <2> QED BY <1>1, <1>3, <2>1, <2>2, IndexRange DEF TurnOK
<1>5. Call' = IF stmt'.kind = "delete" THEN "remove" ELSE "check"
  BY <1>3, CallsOf DEF Call
<1>6. RowAtHand'
  BY <1>2, <1>3, <1>5 DEF RowAtHand
<1>7. ASSUME NEW i \in Index PROVE Expected(i)' = WholeOf(rows', i)
  <2>1. OldIn(i)' /\ ~NewIn(i)'
    BY <1>3, <1>5, IndexRange DEF OldIn, NewIn
  <2>2. Expected(i)' = Others(i)' \cup {EntryOf(i, This', old')}
    BY <2>1 DEF Expected
  <2> QED BY <1>2, <1>3, <2>2, WholeSplit DEF Others
<1>8. NoClash'
  BY <1>5 DEF NoClash
<1>9. Midway'
  <2>1. ASSUME damage' \subseteq {"page full"}, NEW i \in Index
        PROVE  entries'[i] \subseteq Expected(i)' /\ astray'[i] = {}
    <3>1. entries'[i] \subseteq WholeOf(rows', i) /\ astray'[i] = {}
      BY <2>1 DEF Sound
    <3> QED BY <1>7, <3>1
  <2>2. damage' = {} => UniqueIn(rows') /\ \A i \in Index : Expected(i)' \subseteq entries'[i]
    BY <1>7 DEF Sound
  <2> QED BY <1>6, <1>8, <2>1, <2>2 DEF Midway
<1> QED BY <1>3, <1>4, <1>9 DEF AgreeMidway

(* The last call for a row: on to the next row, or to the end. *)
LEMMA RowDone ==
  ASSUME TypeOK, todo # {}, at = Len(Calls(stmt.kind)), UNCHANGED stmt, NextCall(rows'),
         IsTable(rows', entries', astray'), Sound(rows', entries', astray', damage'),
         todo \ {This} \subseteq DOMAIN rows', stmt.kind = "insert" => todo = {This}
  PROVE  /\ TurnOK' /\ AgreeMidway'
         /\ todo' = todo \ {This}
<1>1. stmt.kind \in {"insert", "delete", "update"} /\ stmt # Idle
  BY DEF TypeOK
<1>2. ~(at < Len(Calls(stmt.kind)))
  BY <1>1, CallsOf
<1>3. CASE todo # {This} /\ Onto(stmt, todo \ {This}, rows')
  <2>1. todo \ {This} # {}
    <3>1. This \in todo
      BY FirstIn DEF This, TypeOK
    <3> QED BY <1>3, <3>1
  <2>2. TurnOK' /\ AgreeMidway'
    <3>1. stmt'.kind \in {"delete", "update"} /\ stmt' # Idle
      BY <1>1, <1>3
    <3>2. stmt'.kind = "update" => stmt'.column \in Column /\ stmt'.value \in Domain[stmt'.column]
      BY DEF TypeOK
    <3> QED BY <1>3, <2>1, <3>1, <3>2, RowTaken
  <2> QED BY <1>3, <2>2 DEF Onto
<1>4. CASE todo = {This} /\ todo' = {} /\ UNCHANGED <<old, new, at, index>>
  BY <1>4 DEF TurnOK, AgreeMidway, TypeOK
<1> QED BY <1>2, <1>3, <1>4 DEF NextCall

(* An exception leaves a table as between two statements. *)
LEMMA RaiseKeeps ==
  ASSUME Inv, NEW rs, NEW es, NEW as, NEW cause \in SUBSET Cause, Raise(rs, es, as, cause),
         errors' \in 0..MaxErrors, explicit => IsTable(rs, es, as),
         explicit => Sound(rs, es, as, damage \cup cause)
  PROVE  Inv'
<1>1. /\ stmt' = Idle /\ todo' = {} /\ index' = 1 /\ UNCHANGED <<committed, explicit>>
  BY DEF Raise, Ended
<1>2. stmt'.kind = "idle"
  BY <1>1 DEF Idle
<1>3. CASE explicit
  <2>1. rows' = rs /\ entries' = es /\ astray' = as /\ damage' = damage \cup cause
    BY <1>3 DEF Raise
  <2>2. IsTable(rows', entries', astray') /\ Sound(rows', entries', astray', damage')
    BY <1>3, <2>1
  <2>3. TypeOK'
    BY <1>1, <1>2, <2>1, <2>2, IndexRange DEF Inv, TypeOK
  <2>4. RollbackPoint'
    BY <1>1, <1>3 DEF Inv, RollbackPoint
  <2> QED BY <1>1, <1>2, <2>2, <2>3, <2>4 DEF Inv, NoneLost
<1>4. CASE ~explicit
  <2>1. /\ rows' = committed.rows /\ entries' = committed.entries
        /\ astray' = committed.astray /\ damage' = committed.damage
    BY <1>4 DEF Raise, Inv, RollbackPoint
  <2>2. IsTable(rows', entries', astray') /\ Sound(rows', entries', astray', damage')
    BY <2>1 DEF Inv, RollbackPoint, TypeOK
  <2>3. TypeOK'
    BY <1>1, <1>2, <2>1, <2>2, IndexRange DEF Inv, TypeOK
  <2>4. RollbackPoint'
    BY <1>1, <2>1 DEF Inv, RollbackPoint
  <2> QED BY <1>1, <1>2, <2>2, <2>3, <2>4 DEF Inv, NoneLost
<1> QED BY <1>3, <1>4

LEMMA NotLast ==
  ASSUME TypeOK, todo # {}, at < Len(Calls(stmt.kind))
  PROVE  at # Len(Calls(stmt.kind))
<1>1. stmt.kind \in {"insert", "delete", "update"} /\ at \in 1..Len(Calls(stmt.kind))
  BY DEF TypeOK
<1>2. Len(Calls(stmt.kind)) \in Nat
  BY <1>1, CallsOf
<1> QED BY <1>1, <1>2

(* A call changes the table, one index, and where the statement stands. *)
LEMMA CallFrame ==
  ASSUME Inv, todo # {}, UNCHANGED <<committed, explicit, stmt, errors, damage>>,
         IsTable(rows', entries', astray'), TurnOK', AgreeMidway', NoneLost'
  PROVE  Inv'
<1>1. TypeOK'
  BY DEF Inv, TypeOK, TurnOK
<1>2. RollbackPoint'
  <2>1. stmt # Idle
    BY DEF Inv, TypeOK
  <2> QED BY <2>1 DEF Inv, RollbackPoint
<1> QED BY <1>1, <1>2 DEF Inv, AgreeMidway

(* What is known of a statement at a call. *)
LEMMA AtCall ==
  ASSUME Inv, NEW call, Running(call)
  PROVE  /\ todo # {} /\ Call = call /\ Midway /\ This \in todo /\ This \in Rowid
         /\ stmt # Idle /\ todo \subseteq Rowid
<1>1. todo # {} /\ Call = call
  BY DEF Running
<1> QED BY <1>1, FirstIn DEF Inv, TypeOK, This

(* The check of a UNIQUE index has seen every other row: the index holds
   exactly the rows' entries, and none of them has the new key. *)
LEMMA CheckPassed ==
  ASSUME Inv, Running("check"), damage = {},
         NEW i \in Index, NEW es \in Seen(i), ~Clash(i, es), Indexes[i].unique, NonNull(i, new),
         NEW r \in DOMAIN rows \ {This}, KeyOf(i, rows[r]) = KeyOf(i, new)
  PROVE  FALSE
<1>1. /\ todo # {} /\ Call = "check" /\ Midway /\ This \in Rowid
  BY AtCall
<1>2. stmt.kind \in {"insert", "update"}
  BY <1>1, CallAt DEF Inv
<1>3. entries[i] = Expected(i) /\ UniqueIn(rows) /\ es = entries[i]
  BY <1>1 DEF Midway, Seen
<1>4. CASE ~Touched(i)
  <2>1. stmt.kind = "update" /\ KeyOf(i, old) = KeyOf(i, new)
    BY <1>4 DEF Touched
  <2>2. This \in DOMAIN rows /\ rows[This] = old
    BY <1>1, <2>1 DEF Midway, RowAtHand
  <2>3. NonNull(i, rows[r])
    BY NonNullKey
  <2>4. r = This
    BY <1>3, <2>1, <2>2, <2>3 DEF UniqueIn
  <2> QED BY <2>4
<1>5. CASE Touched(i)
  <2> DEFINE key == KeyOf(i, new)
             same == {e.rowid : e \in {e \in entries[i] : e.key = key}}
  <2>1. EntryOf(i, r, rows[r]) \in entries[i]
    BY <1>3 DEF Expected, Others
  <2>2. r \in same
    BY <2>1, EntryFacts
  <2>3. same \subseteq Nat
    <3>1. \A e \in entries[i] : e.rowid \in Rowid
      <4>1. entries[i] \subseteq Entries(i)
        BY DEF Inv, TypeOK, IsTable
      <4> QED BY <4>1, EntryFacts DEF Entries
    <3> QED BY <3>1, MutationAssumption DEF Rowid
  <2>4. PICK m \in same : \A q \in same : m <= q
    <3> HIDE DEF same
    <3> QED BY <2>2, <2>3, MinExists
  <2>5. m \in Conflicts(es, key)
    <3>1. ~\E c \in DOMAIN key : key[c] = Null
      BY NonNullKey
    <3> QED BY <1>3, <2>4, <3>1 DEF Conflicts
  <2>6. stmt.kind = "update" /\ m = This
    BY <1>2, <1>5, <2>5 DEF Clash
  <2>7. PICK e \in entries[i] : e.key = key /\ e.rowid = This
    BY <2>4, <2>6
  <2>8. e = EntryOf(i, This, old)
    <3>1. ~NewIn(i)
      BY <1>1 DEF NewIn
    <3>2. e \notin Others(i)
      BY <2>7, EntryFacts DEF Others
    <3> QED BY <1>3, <2>7, <3>1, <3>2 DEF Expected
  <2>9. KeyOf(i, old) = KeyOf(i, new)
    BY <2>7, <2>8, EntryFacts
  <2> QED BY <1>5, <2>6, <2>9 DEF Touched
<1> QED BY <1>4, <1>5

LEMMA CheckKeeps ==
  ASSUME Inv, Check
  PROVE  Inv'
<1>1. /\ todo # {} /\ Call = "check" /\ Midway /\ stmt # Idle /\ todo \subseteq Rowid
      /\ UNCHANGED <<rows, entries, astray, committed, explicit, stmt, errors, damage>>
  BY AtCall DEF Check, table
<1>2. at < Len(Calls(stmt.kind)) /\ stmt.kind \in {"insert", "update"}
  BY <1>1, CallAt DEF Inv
<1>3. at' = at + 1 /\ index' = 1 /\ UNCHANGED <<todo, old, new>> /\ This' = This
  <2>1. at # Len(Calls(stmt.kind))
    BY <1>1, <1>2, NotLast DEF Inv
  <2> QED BY <2>1 DEF Check, NextCall, This
<1>4. Call' = (IF stmt.kind = "insert" THEN "put" ELSE "remove") /\ at' \in 1..Len(Calls(stmt.kind))
  BY <1>1, <1>2, <1>3, CallAfter DEF Inv
<1>5. TurnOK'
  BY <1>1, <1>3, <1>4, IndexRange DEF TurnOK, Inv, TypeOK
<1>6. RowAtHand'
  BY <1>1, <1>2, <1>3, <1>4 DEF Midway, RowAtHand
<1>7. ASSUME NEW i \in Index PROVE Expected(i)' = Expected(i)
  <2>1. OldIn(i)' <=> OldIn(i)
    BY <1>1, <1>2, <1>3, <1>4, IndexRange DEF OldIn
  <2>2. ~NewIn(i)' /\ ~NewIn(i)
    BY <1>1, <1>2, <1>4 DEF NewIn
  <2>3. Others(i)' = Others(i)
    BY <1>1, <1>3 DEF Others
  <2> QED BY <1>3, <2>1, <2>2, <2>3 DEF Expected
<1>8. damage = {} => NoClash'
  BY <1>1, <1>3, CheckPassed DEF NoClash, NonNull, Check
<1>9. Midway'
  BY <1>1, <1>6, <1>7, <1>8 DEF Midway
<1>10. NoneLost' /\ IsTable(rows', entries', astray')
  BY <1>1, <1>3 DEF NoneLost, Inv, TypeOK
<1> QED BY <1>1, <1>3, <1>5, <1>9, <1>10, CallFrame DEF AgreeMidway

(* The statement stays at a row and goes to the next call for it. *)
LEMMA Onward ==
  ASSUME TypeOK, todo # {}, at < Len(Calls(stmt.kind)), NEW rs, NextCall(rs), UNCHANGED stmt
  PROVE  /\ at' = at + 1 /\ index' = 1 /\ UNCHANGED <<todo, old, new>> /\ This' = This
         /\ at' \in 1..Len(Calls(stmt.kind))
<1>1. at' = at + 1 /\ index' = 1 /\ UNCHANGED <<todo, old, new>>
  BY NotLast DEF NextCall
<1> QED BY <1>1, CallAfter DEF This

(* Entries under the rowid at hand are not the others'. *)
LEMMA NotOthers ==
  ASSUME NEW i, NEW row
  PROVE  EntryOf(i, This, row) \notin Others(i)
BY EntryFacts DEF Others

LEMMA RemoveKeeps ==
  ASSUME Inv, RemoveEntry
  PROVE  Inv'
<1>1. /\ todo # {} /\ Call = "remove" /\ Midway /\ stmt # Idle /\ todo \subseteq Rowid /\ TypeOK
      /\ UNCHANGED <<rows, committed, explicit, stmt, errors, damage>> /\ NextIndex
  BY AtCall DEF RemoveEntry, Inv
<1>2. at < Len(Calls(stmt.kind)) /\ stmt.kind \in {"delete", "update"}
  BY <1>1, CallAt
<1>3. index \in 1..Len(Indexes) /\ Len(Indexes) \in Nat
  BY <1>1, IndexRange DEF TypeOK
<1>4. /\ UNCHANGED <<todo, old, new>> /\ This' = This /\ at' \in 1..Len(Calls(stmt.kind))
      /\ \/ index < Len(Indexes) /\ index' = index + 1 /\ Call' = "remove"
         \/ index = Len(Indexes) /\ index' = 1 /\ Call' = "drop"
  <2>1. CASE index < Len(Indexes) /\ index' = index + 1 /\ UNCHANGED <<todo, old, new, at>>
    BY <1>1, <2>1 DEF Call, This, TypeOK
  <2>2. CASE index = Len(Indexes) /\ NextCall(rows)
    <3>1. /\ at' = at + 1 /\ index' = 1 /\ UNCHANGED <<todo, old, new>> /\ This' = This
          /\ at' \in 1..Len(Calls(stmt.kind))
      BY <1>1, <1>2, <2>2, Onward
    <3> QED BY <1>1, <1>2, <2>2, <3>1, CallAfter
  <2> QED BY <1>1, <2>1, <2>2 DEF NextIndex
<1> DEFINE E == IF Touched(index) THEN {OldEntry} ELSE {}
<1>5. PICK gone \in Takes(E) :
        /\ entries' = [entries EXCEPT ![index] = @ \ gone]
        /\ astray' = [astray EXCEPT ![index] = @ \ gone]
  BY DEF RemoveEntry
<1>6. gone \subseteq E /\ (astray[index] = {} => gone = E)
  BY DEF Takes
<1>7. IsTable(rows', entries', astray')
  BY <1>1, <1>5, <1>6 DEF TypeOK, IsTable
<1>8. ASSUME NEW i \in Index
      PROVE  /\ entries[i] \ (IF i = index /\ Touched(i) THEN {EntryOf(i, This, old)} ELSE {})
                  \subseteq entries'[i]
             /\ entries'[i] \subseteq entries[i] /\ astray'[i] \subseteq astray[i]
             /\ astray[i] = {} => entries'[i] = IF i = index /\ Touched(i)
                                                THEN entries[i] \ {EntryOf(i, This, old)}
                                                ELSE entries[i]
  <2>1. DOMAIN entries = Index /\ DOMAIN astray = Index /\ index \in Index
    BY <1>1 DEF TypeOK, IsTable
  <2>2. CASE i = index
    BY <1>5, <1>6, <2>1, <2>2 DEF OldEntry
  <2>3. CASE i # index
    BY <1>5, <2>1, <2>3
  <2> QED BY <2>2, <2>3
<1>9. TurnOK'
  <2>1. index' \in Index
    BY <1>3, <1>4, IndexRange
  <2> QED BY <1>1, <1>4, <2>1 DEF TurnOK, TypeOK
<1>10. RowAtHand'
  BY <1>1, <1>2, <1>4 DEF Midway, RowAtHand
<1>11. ASSUME NEW i \in Index
      PROVE  Expected(i)' = IF i = index /\ Touched(i)
                            THEN Expected(i) \ {EntryOf(i, This, old)} ELSE Expected(i)
  <2>1. ~NewIn(i)' /\ ~NewIn(i) /\ Others(i)' = Others(i) /\ (Touched(i)' <=> Touched(i))
    BY <1>1, <1>4 DEF NewIn, Others, Touched
  <2>2. i \in 1..Len(Indexes)
    BY IndexRange
  <2>3. CASE i = index /\ Touched(i)
    <3>1. OldIn(i) /\ ~OldIn(i)'
      BY <1>1, <1>2, <1>3, <1>4, <2>1, <2>3 DEF OldIn
    <3>2. Expected(i) = Others(i) \cup {EntryOf(i, This, old)} /\ Expected(i)' = Others(i)
      BY <2>1, <3>1 DEF Expected
    <3> QED BY <2>3, <3>2, NotOthers
  <2>4. CASE ~(i = index /\ Touched(i))
    <3>1. OldIn(i)' <=> OldIn(i)
      BY <1>1, <1>2, <1>3, <1>4, <2>1, <2>2, <2>4 DEF OldIn
    <3> QED BY <1>4, <2>1, <2>4, <3>1 DEF Expected
  <2> QED BY <2>3, <2>4
<1>12. damage = {} => NoClash'
  BY <1>1, <1>4 DEF Midway, NoClash, NonNull
<1>13. Midway'
  <2>1. ASSUME damage' \subseteq {"page full"}, NEW i \in Index
        PROVE  entries'[i] \subseteq Expected(i)' /\ astray'[i] = {}
    BY <1>1, <1>8, <1>11, <2>1 DEF Midway
  <2>2. ASSUME damage' = {}, NEW i \in Index PROVE Expected(i)' \subseteq entries'[i]
    BY <1>1, <1>8, <1>11, <2>2 DEF Midway
  <2>3. damage' = {} => UniqueIn(rows')
    BY <1>1 DEF Midway
  <2> QED BY <1>1, <1>10, <1>12, <2>1, <2>2, <2>3 DEF Midway
<1>14. NoneLost'
  BY <1>1, <1>4 DEF NoneLost, Inv
<1> QED BY <1>1, <1>4, <1>7, <1>9, <1>13, <1>14, CallFrame DEF AgreeMidway

LEMMA DropKeeps ==
  ASSUME Inv, DropRow
  PROVE  Inv'
<1>1. /\ todo # {} /\ Call = "drop" /\ Midway /\ stmt # Idle /\ todo \subseteq Rowid /\ TypeOK
      /\ UNCHANGED <<entries, astray, committed, explicit, stmt, errors, damage>> /\ NextCall(rows')
      /\ This \in todo
  BY AtCall DEF DropRow, Inv
<1>2. \/ stmt.kind = "delete" /\ at = Len(Calls(stmt.kind))
      \/ stmt.kind = "update" /\ at < Len(Calls(stmt.kind))
  BY <1>1, CallAt
<1>3. /\ DOMAIN rows' = DOMAIN rows \ {This} /\ \A r \in DOMAIN rows' : rows'[r] = rows[r]
      /\ rows' = [r \in DOMAIN rows' |-> rows'[r]]
  BY DEF DropRow
<1>4. This \in DOMAIN rows /\ todo \ {This} \subseteq DOMAIN rows'
  BY <1>1, <1>2, <1>3 DEF Midway, RowAtHand
<1>5. IsTable(rows', entries', astray')
  BY <1>1, <1>3 DEF TypeOK, IsTable
<1>6. UniqueIn(rows) => UniqueIn(rows')
  BY <1>3 DEF UniqueIn
<1>7. \A i \in Index : WholeOf(rows', i) = Others(i)
  BY <1>3 DEF WholeOf, Others
<1>8. CASE stmt.kind = "delete" /\ at = Len(Calls(stmt.kind))
  <2>1. \A i \in Index : Expected(i) = Others(i)
    BY <1>1, <1>8 DEF Expected, OldIn, NewIn, Touched
  <2>2. Sound(rows', entries', astray', damage')
    BY <1>1, <1>6, <1>7, <2>1 DEF Sound, Midway
  <2>3. TurnOK' /\ AgreeMidway'
    BY <1>1, <1>4, <1>5, <1>8, <2>2, RowDone
  <2>4. NoneLost'
    BY <1>1, <1>8 DEF NoneLost
  <2> QED BY <1>1, <1>5, <2>3, <2>4, CallFrame
<1>9. CASE stmt.kind = "update" /\ at < Len(Calls(stmt.kind))
  <2>1. /\ at' = at + 1 /\ index' = 1 /\ UNCHANGED <<todo, old, new>> /\ This' = This
        /\ at' \in 1..Len(Calls(stmt.kind))
    BY <1>1, <1>9, Onward
  <2>2. Call' = "put"
    BY <1>1, <1>9, <2>1, CallAfter
  <2>3. TurnOK'
    BY <1>1, <2>1, IndexRange DEF TurnOK, TypeOK
  <2>4. RowAtHand'
    BY <1>1, <1>3, <1>4, <1>9, <2>1, <2>2 DEF RowAtHand
  <2>5. ASSUME NEW i \in Index PROVE Expected(i)' = Expected(i)
    <3>1. /\ Others(i)' = Others(i) /\ (OldIn(i)' <=> OldIn(i)) /\ ~NewIn(i)' /\ ~NewIn(i)
      <4>1. Others(i)' = Others(i)
        BY <1>3, <2>1 DEF Others
      <4>2. OldIn(i)' <=> OldIn(i)
        BY <1>1, <1>9, <2>1, <2>2 DEF OldIn, Touched
      <4> QED BY <1>1, <2>2, <4>1, <4>2 DEF NewIn
    <3> QED BY <2>1, <3>1 DEF Expected
  <2>6. damage = {} => NoClash'
    BY <1>1, <1>3, <1>9, <2>1 DEF Midway, NoClash, NonNull
  <2>7. Midway'
    BY <1>1, <1>6, <2>4, <2>5, <2>6 DEF Midway
  <2>8. NoneLost'
    BY <1>1, <1>3, <2>1 DEF NoneLost, Inv
  <2> QED BY <1>1, <1>5, <2>1, <2>3, <2>7, <2>8, CallFrame DEF AgreeMidway
<1> QED BY <1>2, <1>8, <1>9

LEMMA PutKeeps ==
  ASSUME Inv, PutRow
  PROVE  Inv'
<1>1. /\ todo # {} /\ Call = "put" /\ Midway /\ stmt # Idle /\ todo \subseteq Rowid /\ TypeOK
      /\ UNCHANGED <<entries, astray, committed, explicit, stmt, errors, damage>> /\ NextCall(rows')
      /\ This \in todo
  BY AtCall DEF PutRow, Inv
<1>2. at < Len(Calls(stmt.kind)) /\ stmt.kind \in {"insert", "update"}
  BY <1>1, CallAt
<1>3. /\ DOMAIN rows' = DOMAIN rows \cup {This} /\ rows'[This] = new
      /\ \A r \in DOMAIN rows \ {This} : rows'[r] = rows[r]
      /\ rows' = [r \in DOMAIN rows' |-> rows'[r]]
  BY DEF PutRow, With
<1>4. This \notin DOMAIN rows /\ new \in Row
  BY <1>1, <1>2 DEF Midway, RowAtHand, TypeOK
<1>5. IsTable(rows', entries', astray')
  BY <1>1, <1>3, <1>4 DEF TypeOK, IsTable
<1>6. /\ at' = at + 1 /\ index' = 1 /\ UNCHANGED <<todo, old, new>> /\ This' = This
      /\ at' \in 1..Len(Calls(stmt.kind))
  BY <1>1, <1>2, Onward
<1>7. Call' = "enter"
  BY <1>1, <1>2, <1>6, CallAfter
<1>8. TurnOK'
  BY <1>1, <1>6, IndexRange DEF TurnOK, TypeOK
<1>9. RowAtHand'
  BY <1>1, <1>3, <1>6, <1>7 DEF Midway, RowAtHand
<1>10. ASSUME NEW i \in Index PROVE Expected(i)' = Expected(i)
  <2>1. Others(i)' = Others(i)
    BY <1>3, <1>4, <1>6 DEF Others
  <2>2. OldIn(i)' <=> OldIn(i)
    BY <1>1, <1>6, <1>7 DEF OldIn, Touched
  <2>3. ~NewIn(i)' /\ ~NewIn(i)
    BY <1>1, <1>6, <1>7, IndexRange DEF NewIn
  <2> QED BY <1>6, <2>1, <2>2, <2>3 DEF Expected
<1>11. ASSUME damage = {} PROVE UniqueIn(rows')
  <2>1. UniqueIn(rows) /\ NoClash
    BY <1>1, <1>11 DEF Midway
  <2>2. SUFFICES ASSUME NEW i \in Index, NEW r \in DOMAIN rows', NEW q \in DOMAIN rows',
                        Indexes[i].unique, KeyOf(i, rows'[r]) = KeyOf(i, rows'[q]),
                        NonNull(i, rows'[r]), r # q
                 PROVE  FALSE
    BY DEF UniqueIn
  <2>3. NonNull(i, rows'[q])
    BY <2>2, NonNullKey
  <2>4. CASE r = This
    BY <1>1, <1>2, <1>3, <1>4, <2>1, <2>2, <2>4 DEF NoClash
  <2>5. CASE q = This
    BY <1>1, <1>2, <1>3, <1>4, <2>1, <2>2, <2>3, <2>5 DEF NoClash
  <2>6. CASE r # This /\ q # This
    BY <1>3, <2>1, <2>2, <2>6 DEF UniqueIn
  <2> QED BY <2>4, <2>5, <2>6
<1>12. Midway'
  <2>1. NoClash'
    BY <1>7 DEF NoClash
  <2> QED BY <1>1, <1>9, <1>10, <1>11, <2>1 DEF Midway
<1>13. NoneLost'
  BY <1>1, <1>3, <1>6 DEF NoneLost, Inv
<1> QED BY <1>1, <1>5, <1>6, <1>8, <1>12, <1>13, CallFrame DEF AgreeMidway

LEMMA EnterKeeps ==
  ASSUME Inv, EnterEntry
  PROVE  Inv'
<1>1. /\ todo # {} /\ Call = "enter" /\ Midway /\ stmt # Idle /\ todo \subseteq Rowid /\ TypeOK
      /\ UNCHANGED <<rows, committed, explicit, stmt, errors, damage>> /\ NextIndex
      /\ This \in todo
  BY AtCall DEF EnterEntry, Inv
<1>2. at = Len(Calls(stmt.kind)) /\ stmt.kind \in {"insert", "update"}
  BY <1>1, CallAt
<1>3. index \in 1..Len(Indexes) /\ Len(Indexes) \in Nat
  BY <1>1, IndexRange DEF TypeOK
<1>4. /\ This \in DOMAIN rows /\ rows[This] = new /\ new \in Row /\ This \in Rowid
      /\ todo \ {This} \subseteq DOMAIN rows
      /\ stmt.kind = "insert" => todo = {This}
  BY <1>1, <1>2 DEF Midway, RowAtHand, TypeOK
<1>5. ASSUME NEW i \in Index
      PROVE  /\ entries'[i] = IF i = index /\ Touched(i)
                              THEN entries[i] \cup {EntryOf(i, This, new)} ELSE entries[i]
             /\ astray'[i] \subseteq entries'[i]
             /\ astray[i] = {} /\ EntryOf(i, This, new) \notin entries[i] => astray'[i] = {}
             /\ ~(i = index /\ Touched(i)) => astray'[i] = astray[i]
  <2> DEFINE added == IF Touched(index) THEN {EntryOf(index, This, new)} ELSE {}
  <2>1. /\ entries' = [entries EXCEPT ![index] = @ \cup added]
        /\ astray' = [astray EXCEPT ![index] = @ \cup (added \cap entries[index])]
    BY DEF EnterEntry
  <2>2. /\ DOMAIN entries = Index /\ DOMAIN astray = Index /\ index \in Index
        /\ astray[i] \subseteq entries[i]
    BY <1>1 DEF TypeOK, IsTable
  <2>3. CASE i = index
    BY <2>1, <2>2, <2>3
  <2>4. CASE i # index
    BY <2>1, <2>2, <2>4
  <2> QED BY <2>3, <2>4
<1>6. ASSUME damage \subseteq {"page full"}, NEW i \in Index
      PROVE  entries[i] \subseteq Expected(i) /\ astray'[i] = {}
  <2>1. entries[i] \subseteq Expected(i) /\ astray[i] = {}
    BY <1>1, <1>6 DEF Midway
  <2>2. CASE i = index /\ Touched(i)
    <3>1. ~OldIn(i) /\ ~NewIn(i)
      BY <1>1, <1>3, <2>2 DEF OldIn, NewIn
    <3>2. Expected(i) = Others(i)
      BY <3>1 DEF Expected
    <3> QED BY <1>5, <2>1, <3>2, NotOthers
  <2>3. CASE ~(i = index /\ Touched(i))
    BY <1>5, <2>1, <2>3
  <2> QED BY <2>1, <2>2, <2>3
<1>7. IsTable(rows', entries', astray')
  <2>1. \A i \in Index : entries'[i] \subseteq Entries(i)
    <3>1. \A i \in Index : entries[i] \subseteq Entries(i)
      BY <1>1 DEF TypeOK, IsTable
    <3>2. \A i \in Index : EntryOf(i, This, new) \in Entries(i)
      BY <1>4 DEF Entries
    <3> QED BY <1>5, <3>1, <3>2
  <2> QED BY <1>1, <1>5, <2>1 DEF EnterEntry, TypeOK, IsTable
<1>8. CASE index < Len(Indexes) /\ index' = index + 1 /\ UNCHANGED <<todo, old, new, at>>
  <2>1. Call' = "enter" /\ This' = This
    BY <1>1, <1>8 DEF Call, This
  <2>2. TurnOK'
    <3>1. index' \in Index
      BY <1>3, <1>8, IndexRange
    <3> QED BY <1>1, <1>8, <3>1 DEF TurnOK, TypeOK
  <2>3. RowAtHand'
    BY <1>1, <1>8, <2>1 DEF Midway, RowAtHand
  <2>4. ASSUME NEW i \in Index
        PROVE  Expected(i)' = IF i = index /\ Touched(i)
                              THEN Expected(i) \cup {EntryOf(i, This, new)} ELSE Expected(i)
    <3>1. /\ Others(i)' = Others(i) /\ (Touched(i)' <=> Touched(i))
          /\ i \in 1..Len(Indexes)
      BY <1>1, <1>8, <2>1, IndexRange DEF Others, Touched
    <3>2. OldIn(i)' <=> OldIn(i)
      BY <1>1, <2>1, <3>1 DEF OldIn
    <3>3. NewIn(i)' <=> NewIn(i) \/ (i = index /\ Touched(i))
      BY <1>1, <1>3, <1>8, <2>1, <3>1 DEF NewIn
    <3> QED BY <1>8, <2>1, <3>1, <3>2, <3>3 DEF Expected
  <2>5. NoClash'
    BY <2>1 DEF NoClash
  <2>6. Midway'
    <3>1. ASSUME damage' \subseteq {"page full"}, NEW i \in Index
          PROVE  entries'[i] \subseteq Expected(i)' /\ astray'[i] = {}
      BY <1>1, <1>5, <1>6, <2>4, <3>1
    <3>2. ASSUME damage' = {}, NEW i \in Index PROVE Expected(i)' \subseteq entries'[i]
      BY <1>1, <1>5, <2>4, <3>2 DEF Midway
    <3>3. damage' = {} => UniqueIn(rows')
      BY <1>1 DEF Midway
    <3> QED BY <1>1, <2>3, <2>5, <3>1, <3>2, <3>3 DEF Midway
  <2>7. NoneLost'
    BY <1>1, <1>8 DEF NoneLost, Inv
  <2> QED BY <1>1, <1>7, <1>8, <2>2, <2>6, <2>7, CallFrame DEF AgreeMidway
<1>9. CASE index = Len(Indexes) /\ NextCall(rows)
  <2>1. ASSUME NEW i \in Index
        PROVE  WholeOf(rows', i) = IF i = index /\ Touched(i)
                                   THEN Expected(i) \cup {EntryOf(i, This, new)} ELSE Expected(i)
    <3>1. WholeOf(rows', i) = Others(i) \cup {EntryOf(i, This, new)} /\ i \in 1..Len(Indexes)
      BY <1>1, <1>4, WholeSplit, IndexRange DEF Others
    <3>2. CASE Touched(i)
      <4>1. ~OldIn(i) /\ (NewIn(i) <=> i # index)
        BY <1>1, <1>3, <1>9, <3>1, <3>2 DEF OldIn, NewIn
      <4> QED BY <3>1, <3>2, <4>1 DEF Expected
    <3>3. CASE ~Touched(i)
      <4>1. OldIn(i) /\ ~NewIn(i) /\ KeyOf(i, old) = KeyOf(i, new)
        BY <3>3 DEF OldIn, NewIn, Touched
      <4>2. EntryOf(i, This, old) = EntryOf(i, This, new)
        BY <4>1, SameKeySameEntry
      <4> QED BY <3>1, <3>3, <4>1, <4>2 DEF Expected
    <3> QED BY <3>2, <3>3
  <2>2. Sound(rows', entries', astray', damage')
    <3>1. ASSUME damage' \subseteq {"page full"}, NEW i \in Index
          PROVE  entries'[i] \subseteq WholeOf(rows', i) /\ astray'[i] = {}
      BY <1>1, <1>5, <1>6, <2>1, <3>1
    <3>2. ASSUME damage' = {}, NEW i \in Index PROVE WholeOf(rows', i) \subseteq entries'[i]
      BY <1>1, <1>5, <2>1, <3>2 DEF Midway
    <3>3. damage' = {} => UniqueIn(rows')
      BY <1>1 DEF Midway
    <3> QED BY <3>1, <3>2, <3>3 DEF Sound
  <2>3. TurnOK' /\ AgreeMidway' /\ todo' = todo \ {This}
    <3>1. rows' = rows /\ NextCall(rows)
      BY <1>1, <1>9
    <3>2. NextCall(rows')
      BY <3>1, Zenon DEF NextCall, Onto
    <3>3. todo \ {This} \subseteq DOMAIN rows'
      BY <1>4, <3>1
    <3> QED BY <1>1, <1>2, <1>4, <1>7, <2>2, <3>2, <3>3, RowDone
  <2>4. NoneLost'
    BY <1>1, <1>4, <2>3 DEF NoneLost, Inv
  <2> QED BY <1>1, <1>7, <2>3, <2>4, CallFrame
<1> QED BY <1>1, <1>8, <1>9 DEF NextIndex

-----------------------------------------------------------------------------
(* The exceptions. *)

LEMMA ErrorCounted ==
  ASSUME TypeOK, Error
  PROVE  errors' \in 0..MaxErrors
<1>1. errors \in 0..MaxErrors
  BY DEF TypeOK
<1> QED BY <1>1, MutationAssumption DEF Error

(* A UNIQUE violation is found before anything is written for the row. *)
LEMMA ViolationKeeps ==
  ASSUME Inv, UniqueViolation
  PROVE  Inv'
<1>1. /\ todo # {} /\ Call = "check" /\ Midway /\ TypeOK /\ Raise(rows, entries, astray, {}) /\ UNCHANGED errors
  BY AtCall DEF UniqueViolation, Inv
<1>2. stmt.kind \in {"insert", "update"}
  BY <1>1, CallAt
<1>3. ASSUME NEW i \in Index PROVE Expected(i) = WholeOf(rows, i)
  <2>1. ~NewIn(i) /\ (OldIn(i) <=> stmt.kind # "insert")
    BY <1>1 DEF NewIn, OldIn
  <2>2. CASE stmt.kind = "insert"
    <3>1. This \notin DOMAIN rows
      BY <1>1, <2>2 DEF Midway, RowAtHand
    <3> QED BY <2>1, <2>2, <3>1 DEF Expected, Others, WholeOf
  <2>3. CASE stmt.kind # "insert"
    <3>1. This \in DOMAIN rows /\ rows[This] = old
      BY <1>1, <2>3 DEF Midway, RowAtHand
    <3>2. Expected(i) = Others(i) \cup {EntryOf(i, This, old)}
      BY <2>1, <2>3 DEF Expected
    <3> QED BY <3>1, <3>2, WholeSplit DEF Others
  <2> QED BY <2>2, <2>3
<1>4. Sound(rows, entries, astray, damage \cup {})
  <2>1. damage \cup {} = damage
    OBVIOUS
  <2> QED BY <1>1, <1>3, <2>1 DEF Sound, Midway
<1> QED BY <1>1, <1>4, RaiseKeeps DEF TypeOK

(* An index that is full leaves the row short of entries, never an entry
   without its row: the old ones go before the row does, the new ones come
   after it. *)
LEMMA IndexFullKeeps ==
  ASSUME Inv, IndexPageFull
  PROVE  Inv'
<1>1. /\ todo # {} /\ Call \in {"remove", "enter"} /\ Midway /\ TypeOK /\ Raise(rows, entries, astray, {"page full"})
      /\ errors < MaxErrors /\ errors' = errors + 1
  BY AtCall DEF IndexPageFull, Inv, Error
<1>2. \/ Call = "remove" /\ stmt.kind \in {"delete", "update"}
      \/ Call = "enter" /\ stmt.kind \in {"insert", "update"}
  BY <1>1, CallAt
<1>3. ASSUME NEW i \in Index PROVE Expected(i) \subseteq WholeOf(rows, i)
  <2>1. This \in DOMAIN rows
    BY <1>1, <1>2 DEF Midway, RowAtHand
  <2>2. WholeOf(rows, i) = Others(i) \cup {EntryOf(i, This, rows[This])}
    BY <2>1, WholeSplit DEF Others
  <2>3. CASE Call = "remove" /\ stmt.kind \in {"delete", "update"}
    <3>1. rows[This] = old /\ ~NewIn(i)
      BY <1>1, <2>3 DEF Midway, RowAtHand, NewIn
    <3> QED BY <2>2, <3>1 DEF Expected
  <2>4. CASE Call = "enter" /\ stmt.kind \in {"insert", "update"}
    <3>1. rows[This] = new
      BY <1>1, <2>4 DEF Midway, RowAtHand
    <3>2. OldIn(i) => EntryOf(i, This, old) = EntryOf(i, This, new)
      <4>1. OldIn(i) => KeyOf(i, old) = KeyOf(i, new)
        BY <2>4 DEF OldIn, Touched
      <4> QED BY <4>1, SameKeySameEntry
    <3> QED BY <2>2, <3>1, <3>2 DEF Expected
  <2> QED BY <1>2, <2>3, <2>4
<1>4. Sound(rows, entries, astray, damage \cup {"page full"})
  BY <1>1, <1>3 DEF Sound, Midway
<1>5. errors' \in 0..MaxErrors
  BY <1>1, ErrorCounted DEF Error
<1> QED BY <1>1, <1>4, <1>5, RaiseKeeps DEF TypeOK, Cause

(* A torn rotation claims nothing of the index but that it holds entries. *)
LEMMA TearKeeps ==
  ASSUME Inv, IndexTears
  PROVE  Inv'
<1>1. TypeOK /\ errors' \in 0..MaxErrors
  BY ErrorCounted DEF IndexTears, Inv
<1>2. PICK lost \in entries[index] :
        \E gone \in Takes({OldEntry, lost}), wrong \in SUBSET (entries[index] \ {OldEntry, lost}) :
          Raise(rows, [entries EXCEPT ![index] = @ \ gone],
                [astray EXCEPT ![index] = (@ \ gone) \cup wrong], {"torn"})
  BY DEF IndexTears
<1>3. PICK gone \in Takes({OldEntry, lost}), wrong \in SUBSET (entries[index] \ {OldEntry, lost}) :
        Raise(rows, [entries EXCEPT ![index] = @ \ gone],
              [astray EXCEPT ![index] = (@ \ gone) \cup wrong], {"torn"})
  BY <1>2
<1> DEFINE es == [entries EXCEPT ![index] = @ \ gone]
           as == [astray EXCEPT ![index] = (@ \ gone) \cup wrong]
<1>4. gone \subseteq {OldEntry, lost}
  BY DEF Takes
<1>5. IsTable(rows, es, as)
  BY <1>1, <1>4 DEF TypeOK, IsTable
<1>6. Sound(rows, es, as, damage \cup {"torn"})
  <2>1. ~(damage \cup {"torn"} \subseteq {"page full"}) /\ damage \cup {"torn"} # {}
    OBVIOUS
  <2> QED BY <2>1 DEF Sound
<1>7. Raise(rows, es, as, {"torn"})
  BY <1>3
<1> HIDE DEF es, as
<1> QED BY <1>1, <1>5, <1>6, <1>7, RaiseKeeps DEF Cause

(* The table is full: an UPDATE puts the old row back, and the entries that
   it had left alone are that row's. *)
LEMMA TableFullKeeps ==
  ASSUME Inv, TablePageFull
  PROVE  Inv'
<1>1. /\ todo # {} /\ Call = "put" /\ Midway /\ TypeOK /\ Raise(PutBack, entries, astray, {"page full"})
      /\ errors < MaxErrors /\ errors' = errors + 1 /\ This \in Rowid
  BY AtCall DEF TablePageFull, Inv, Error
<1>2. stmt.kind \in {"insert", "update"} /\ This \notin DOMAIN rows
  BY <1>1, CallAt DEF Midway, RowAtHand
<1> DEFINE rs == PutBack
<1>3. /\ stmt.kind = "insert" => rs = rows
      /\ stmt.kind = "update" => /\ DOMAIN rs = DOMAIN rows \cup {This} /\ rs[This] = old
                                 /\ \A r \in DOMAIN rows \ {This} : rs[r] = rows[r]
                                 /\ rs = [r \in DOMAIN rs |-> rs[r]]
  BY DEF PutBack, With
<1>4. IsTable(rs, entries, astray)
  <2>1. CASE stmt.kind = "insert"
    BY <1>1, <1>3, <2>1 DEF TypeOK
  <2>2. CASE stmt.kind = "update"
    <3> HIDE DEF rs
    <3>1. old \in Row
      BY <1>1, <2>2 DEF TypeOK
    <3>2. IsTable(rows, entries, astray) /\ old \in Row /\ This \in Rowid
      BY <1>1, <3>1 DEF TypeOK
    <3>3. \A r \in DOMAIN rs : rs[r] \in Row
      BY <1>2, <1>3, <2>2, <3>2 DEF IsTable
    <3>4. DOMAIN rs \subseteq Rowid /\ rs \in [DOMAIN rs -> Row]
      BY <1>3, <2>2, <3>2, <3>3 DEF IsTable
    <3> QED BY <3>2, <3>4 DEF IsTable
  <2> QED BY <1>2, <2>1, <2>2
<1>5. ASSUME NEW i \in Index PROVE Expected(i) \subseteq WholeOf(rs, i)
  <2>1. ~NewIn(i) /\ (OldIn(i) => stmt.kind = "update")
    BY <1>1, <1>2 DEF NewIn, OldIn
  <2>2. Others(i) \subseteq WholeOf(rs, i)
    <3> HIDE DEF rs
    <3> QED BY <1>2, <1>3 DEF Others, WholeOf
  <2>3. stmt.kind = "update" => EntryOf(i, This, old) \in WholeOf(rs, i)
    <3> HIDE DEF rs
    <3> QED BY <1>2, <1>3 DEF WholeOf
  <2> HIDE DEF rs
  <2> QED BY <2>1, <2>2, <2>3 DEF Expected
<1>6. Sound(rs, entries, astray, damage \cup {"page full"})
  <2> HIDE DEF rs
  <2> QED BY <1>1, <1>5 DEF Sound, Midway
<1>7. errors' \in 0..MaxErrors
  BY <1>1, ErrorCounted DEF Error
<1>8. Raise(rs, entries, astray, {"page full"})
  BY <1>1
<1> HIDE DEF rs
<1> QED BY <1>4, <1>6, <1>7, <1>8, RaiseKeeps DEF Cause

LEMMA FaultKeeps ==
  ASSUME Inv, Fault
  PROVE  Inv'
<1>1. TypeOK /\ errors' \in 0..MaxErrors /\ Raise(rows, entries, astray, {"io"})
  BY ErrorCounted DEF Fault, Inv
<1>2. Sound(rows, entries, astray, damage \cup {"io"})
  BY DEF Sound
<1> QED BY <1>1, <1>2, RaiseKeeps DEF TypeOK, Cause

-----------------------------------------------------------------------------
(* Statements and transactions begin and end. *)

(* Between statements. *)
LEMMA BetweenStatements ==
  ASSUME Inv, stmt = Idle
  PROVE  /\ TypeOK /\ RollbackPoint /\ todo = {} /\ Sound(rows, entries, astray, damage)
         /\ stmt.kind = "idle"
BY DEF Inv, TypeOK

LEMMA StatementFields ==
  ASSUME NEW kind, NEW column, NEW value
  PROVE  /\ Statement(kind, column, value).kind = kind
         /\ Statement(kind, column, value).column = column
         /\ Statement(kind, column, value).value = value
         /\ Statement(kind, column, value).start = DOMAIN rows
BY DEF Statement

(* A statement has begun with rows to do. *)
LEMMA BegunFrame ==
  ASSUME Inv, NEW kind \in {"insert", "delete", "update"}, NEW column, NEW value,
         kind = "update" => column \in Column /\ value \in Domain[column],
         Begun(Statement(kind, column, value)), TurnOK', AgreeMidway', NoneLost'
  PROVE  Inv'
<1>1. /\ stmt = Idle /\ stmt' = Statement(kind, column, value)
      /\ UNCHANGED <<rows, entries, astray, committed, explicit, errors, damage>>
  BY DEF Begun, table
<1>2. stmt'.kind = kind /\ stmt'.column = column /\ stmt'.value = value /\ stmt'.start = DOMAIN rows
  BY <1>1, StatementFields
<1>3. stmt' # Idle
  BY <1>2 DEF Idle
<1>4. TypeOK'
  BY <1>1, <1>2, <1>3 DEF TypeOK, TurnOK, Inv
<1>5. RollbackPoint'
  BY <1>1, <1>2, <1>3, BetweenStatements DEF RollbackPoint
<1> QED BY <1>4, <1>5 DEF Inv, AgreeMidway

LEMMA InsertKeeps ==
  ASSUME Inv, NEW row \in Row, Insert(row)
  PROVE  Inv'
<1>1. /\ stmt = Idle /\ stmt' = Statement("insert", Null, Null)
      /\ UNCHANGED <<rows, entries, astray, committed, explicit, errors, damage>>
      /\ todo' = {NextRowid} /\ old' = NoRow /\ new' = row /\ at' = 1 /\ index' = 1
      /\ NextRowid <= MaxRowid
  BY DEF Insert, Begun, table
<1>2. stmt'.kind = "insert" /\ stmt' # Idle
  <2>1. stmt'.kind = "insert"
    BY <1>1, StatementFields
  <2> QED BY <2>1 DEF Idle
<1>3. /\ TypeOK /\ Sound(rows, entries, astray, damage)
      /\ NextRowid \in Rowid /\ NextRowid \notin DOMAIN rows
  BY <1>1, BetweenStatements, NextRowidFresh DEF TypeOK
<1>4. This' = NextRowid
  BY <1>1, <1>3, FirstIn DEF This
<1>5. Call' = "check"
  BY <1>1, <1>2, CallsOf DEF Call
<1>6. TurnOK'
  <2>1. 1 \in 1..Len(Calls("insert"))
    BY CallsOf
  <2> QED BY <1>1, <1>2, <1>3, <2>1, IndexRange DEF TurnOK
<1>7. RowAtHand'
  BY <1>1, <1>2, <1>3, <1>4, <1>5 DEF RowAtHand
<1>8. ASSUME NEW i \in Index PROVE Expected(i)' = WholeOf(rows, i)
  <2>1. ~OldIn(i)' /\ ~NewIn(i)'
    BY <1>2, <1>5 DEF OldIn, NewIn
  <2>2. Expected(i)' = Others(i)'
    BY <2>1 DEF Expected
  <2> QED BY <1>1, <1>3, <1>4, <2>2 DEF Others, WholeOf
<1>9. NoClash'
  BY <1>5 DEF NoClash
<1>10. Midway'
  BY <1>1, <1>3, <1>7, <1>8, <1>9 DEF Midway, Sound
<1>11. NoneLost'
  BY <1>2 DEF NoneLost
<1>12. AgreeMidway'
  BY <1>1, <1>10 DEF AgreeMidway
<1> QED BY <1>6, <1>11, <1>12, BegunFrame DEF Insert

LEMMA DeleteKeeps ==
  ASSUME Inv, NEW S \in SUBSET DOMAIN rows, Delete(S)
  PROVE  Inv'
<1>1. /\ stmt = Idle /\ stmt' = Statement("delete", Null, Null) /\ S # {}
      /\ UNCHANGED <<rows, entries, astray, committed, explicit, errors, damage>>
      /\ Onto(stmt', S, rows)
  BY DEF Delete, Begun, table
<1>2. stmt'.kind = "delete"
  BY <1>1, StatementFields
<1>3. stmt' # Idle
  BY <1>2 DEF Idle
<1>4. IsTable(rows', entries', astray') /\ Sound(rows', entries', astray', damage')
  BY <1>1, BetweenStatements DEF TypeOK
<1>5. Onto(stmt', S, rows')
  BY <1>1, Zenon DEF Onto
<1>6. TurnOK' /\ AgreeMidway'
  BY <1>1, <1>2, <1>3, <1>4, <1>5, RowTaken
<1>7. NoneLost'
  BY <1>2 DEF NoneLost
<1> QED BY <1>6, <1>7, BegunFrame DEF Delete

LEMMA UpdateKeeps ==
  ASSUME Inv, NEW S \in SUBSET DOMAIN rows, NEW c \in Column, NEW v \in Domain[c], Update(S, c, v)
  PROVE  Inv'
<1>1. /\ stmt = Idle /\ stmt' = Statement("update", c, v) /\ S # {}
      /\ UNCHANGED <<rows, entries, astray, committed, explicit, errors, damage>>
      /\ Onto(stmt', S, rows)
  BY DEF Update, Begun, table
<1>2. /\ stmt'.kind = "update" /\ stmt'.column = c /\ stmt'.value = v
      /\ stmt'.start = DOMAIN rows
  BY <1>1, StatementFields
<1>3. stmt' # Idle
  BY <1>2 DEF Idle
<1>4. IsTable(rows', entries', astray') /\ Sound(rows', entries', astray', damage')
  BY <1>1, BetweenStatements DEF TypeOK
<1>5. Onto(stmt', S, rows')
  BY <1>1, Zenon DEF Onto
<1>6. TurnOK' /\ AgreeMidway'
  BY <1>1, <1>2, <1>3, <1>4, <1>5, RowTaken
<1>7. NoneLost'
  BY <1>1, <1>2 DEF NoneLost, Onto
<1> QED BY <1>6, <1>7, BegunFrame DEF Update

(* The snapshot that a commit takes. *)
LEMMA SnapshotFields ==
  ASSUME NEW rs, NEW es, NEW as, NEW d
  PROVE  /\ Snapshot(rs, es, as, d).rows = rs /\ Snapshot(rs, es, as, d).entries = es
         /\ Snapshot(rs, es, as, d).astray = as /\ Snapshot(rs, es, as, d).damage = d
BY DEF Snapshot

LEMMA FinishKeeps ==
  ASSUME Inv, Finish
  PROVE  Inv'
<1>1. /\ todo = {} /\ stmt' = Idle /\ todo' = {} /\ index' = 1
      /\ UNCHANGED <<rows, entries, astray, explicit, errors, damage>>
      /\ committed' = IF explicit THEN committed ELSE Snapshot(rows, entries, astray, damage)
  BY DEF Finish, Ended, table
<1>2. stmt'.kind = "idle"
  BY <1>1 DEF Idle
<1>3. TypeOK /\ RollbackPoint /\ Sound(rows, entries, astray, damage)
  BY <1>1 DEF Inv
<1>4. CASE explicit
  <2>1. TypeOK'
    BY <1>1, <1>2, <1>3, <1>4, IndexRange DEF TypeOK
  <2>2. RollbackPoint'
    BY <1>1, <1>3, <1>4 DEF RollbackPoint
  <2> QED BY <1>1, <1>2, <1>3, <2>1, <2>2 DEF Inv, NoneLost
<1>5. CASE ~explicit
  <2>1. /\ committed'.rows = rows /\ committed'.entries = entries
        /\ committed'.astray = astray /\ committed'.damage = damage
    BY <1>1, <1>5, SnapshotFields
  <2>2. TypeOK'
    BY <1>1, <1>2, <1>3, <2>1, IndexRange DEF TypeOK
  <2>3. RollbackPoint'
    BY <1>1, <1>3, <2>1 DEF RollbackPoint
  <2> QED BY <1>1, <1>2, <1>3, <2>2, <2>3 DEF Inv, NoneLost
<1> QED BY <1>4, <1>5

LEMMA BeginKeeps ==
  ASSUME Inv, Begin
  PROVE  Inv'
<1>1. /\ stmt = Idle /\ explicit' = TRUE
      /\ UNCHANGED <<rows, entries, astray, committed, stmt, todo, old, new, at, index, errors, damage>>
  BY DEF Begin, table, turn
<1>2. TypeOK /\ RollbackPoint /\ todo = {} /\ Sound(rows, entries, astray, damage) /\ stmt.kind = "idle"
  BY <1>1, BetweenStatements
<1>3. TypeOK'
  BY <1>1, <1>2 DEF TypeOK
<1>4. RollbackPoint'
  BY <1>1, <1>2 DEF RollbackPoint
<1> QED BY <1>1, <1>2, <1>3, <1>4 DEF Inv, NoneLost

LEMMA CommitKeeps ==
  ASSUME Inv, Commit
  PROVE  Inv'
<1>1. /\ stmt = Idle /\ explicit' = FALSE /\ committed' = Snapshot(rows, entries, astray, damage)
      /\ UNCHANGED <<rows, entries, astray, stmt, todo, old, new, at, index, errors, damage>>
  BY DEF Commit, table, turn
<1>2. TypeOK /\ RollbackPoint /\ todo = {} /\ Sound(rows, entries, astray, damage) /\ stmt.kind = "idle"
  BY <1>1, BetweenStatements
<1>3. /\ committed'.rows = rows /\ committed'.entries = entries
      /\ committed'.astray = astray /\ committed'.damage = damage
  BY <1>1, SnapshotFields
<1>4. TypeOK'
  BY <1>1, <1>2, <1>3 DEF TypeOK
<1>5. RollbackPoint'
  BY <1>1, <1>2, <1>3 DEF RollbackPoint
<1> QED BY <1>1, <1>2, <1>4, <1>5 DEF Inv, NoneLost

LEMMA RollbackKeeps ==
  ASSUME Inv, Rollback
  PROVE  Inv'
<1>1. /\ stmt = Idle /\ explicit' = FALSE
      /\ rows' = committed.rows /\ entries' = committed.entries
      /\ astray' = committed.astray /\ damage' = committed.damage
      /\ UNCHANGED <<committed, stmt, todo, old, new, at, index, errors>>
  BY DEF Rollback, turn
<1>2. TypeOK /\ RollbackPoint /\ todo = {} /\ stmt.kind = "idle"
  BY <1>1, BetweenStatements
<1>3. Sound(rows', entries', astray', damage')
  BY <1>1, <1>2 DEF RollbackPoint
<1>4. TypeOK'
  BY <1>1, <1>2 DEF TypeOK
<1>5. RollbackPoint'
  BY <1>1, <1>2 DEF RollbackPoint
<1> QED BY <1>1, <1>2, <1>3, <1>4, <1>5 DEF Inv, NoneLost

LEMMA StutterKeeps ==
  ASSUME Inv, UNCHANGED vars
  PROVE  Inv'
<1>1. UNCHANGED <<rows, entries, astray, committed, explicit, stmt, todo, old, new, at, index, errors, damage>>
  BY DEF vars, table, turn
<1>2. TypeOK' /\ RollbackPoint' /\ NoneLost'
  BY <1>1 DEF Inv, TypeOK, RollbackPoint, NoneLost
<1>3. Midway => Midway'
  <2>1. /\ This' = This /\ Call' = Call /\ (RowAtHand => RowAtHand') /\ (NoClash => NoClash')
    BY <1>1 DEF This, Call, RowAtHand, NoClash, NonNull
  <2>2. ASSUME NEW i \in Index PROVE Expected(i)' = Expected(i)
    BY <1>1, <2>1 DEF Expected, Others, OldIn, NewIn, Touched
  <2> QED BY <1>1, <2>1, <2>2 DEF Midway
<1> QED BY <1>1, <1>2, <1>3 DEF Inv

LEMMA StepKeeps ==
  ASSUME Inv, [Next]_vars
  PROVE  Inv'
<1>1. CASE \E row \in Row : Insert(row)
  BY <1>1, InsertKeeps
<1>2. CASE \E S \in SUBSET DOMAIN rows : Delete(S)
  BY <1>2, DeleteKeeps
<1>3. CASE \E S \in SUBSET DOMAIN rows, c \in Column : \E v \in Domain[c] : Update(S, c, v)
  BY <1>3, UpdateKeeps
<1>4. CASE Check \/ RemoveEntry \/ DropRow \/ PutRow \/ EnterEntry
  BY <1>4, CheckKeeps, RemoveKeeps, DropKeeps, PutKeeps, EnterKeeps
<1>5. CASE UniqueViolation \/ IndexPageFull \/ IndexTears \/ TablePageFull \/ Fault
  BY <1>5, ViolationKeeps, IndexFullKeeps, TearKeeps, TableFullKeeps, FaultKeeps
<1>6. CASE Finish \/ Begin \/ Commit \/ Rollback
  BY <1>6, FinishKeeps, BeginKeeps, CommitKeeps, RollbackKeeps
<1>7. CASE UNCHANGED vars
  BY <1>7, StutterKeeps
<1> QED BY <1>1, <1>2, <1>3, <1>4, <1>5, <1>6, <1>7 DEF Next

LEMMA InitHolds ==
  ASSUME Init
  PROVE  Inv
<1>1. /\ DOMAIN rows = {} /\ rows = [r \in {} |-> NoRow] /\ entries = [i \in Index |-> {}] /\ astray = entries
      /\ explicit = FALSE /\ stmt = Idle /\ todo = {} /\ index = 1 /\ errors = 0 /\ damage = {}
      /\ committed.rows = rows /\ committed.entries = entries
      /\ committed.astray = astray /\ committed.damage = {}
  BY SnapshotFields DEF Init
<1>2. IsTable(rows, entries, astray)
  BY <1>1 DEF IsTable
<1>3. stmt.kind = "idle"
  BY <1>1 DEF Idle
<1>4. 0 \in 0..MaxErrors
  BY MutationAssumption
<1>5. TypeOK
  BY <1>1, <1>2, <1>3, <1>4, IndexRange DEF TypeOK
<1>6. Sound(rows, entries, astray, damage)
  BY <1>1 DEF Sound, WholeOf, UniqueIn
<1>7. RollbackPoint
  BY <1>1, <1>6 DEF RollbackPoint
<1> QED BY <1>1, <1>3, <1>5, <1>6, <1>7 DEF Inv, NoneLost

(* Table and indexes agree at every call of every statement as far as the calls
   made so far and the exceptions raised so far allow. *)
THEOREM MutationInvariant == Spec => []Inv
<1>1. Init => Inv
  BY InitHolds
<1>2. Inv /\ [Next]_vars => Inv'
  BY StepKeeps
<1> QED BY <1>1, <1>2, PTL DEF Spec

(* Between statements the table is sound. *)
LEMMA SoundBetween ==
  ASSUME Inv, stmt = Idle
  PROVE  Sound(rows, entries, astray, damage)
BY BetweenStatements

(* Every statement leaves each index with exactly the entries of the rows,
   unless an error broke one off inside BEGIN. *)
THEOREM MutationIndexesMatch == Spec => []IndexesMatchRows
<1>1. Inv => IndexesMatchRows
  <2> SUFFICES ASSUME Inv, stmt = Idle, damage = {}, NEW i \in Index PROVE entries[i] = Whole(i)
    BY DEF IndexesMatchRows
  <2>1. entries[i] \subseteq WholeOf(rows, i) /\ WholeOf(rows, i) \subseteq entries[i]
    BY SoundBetween DEF Sound
  <2> QED BY <2>1 DEF Whole, WholeOf
<1> QED BY <1>1, MutationInvariant, PTL

(* No index entry points at a row that is not there or has another key, also
   after a page-full error inside BEGIN that was raised before the index had
   written anything. *)
THEOREM MutationNoDanglingEntry == Spec => []EntriesPointAtTheirRow
<1>1. Inv => EntriesPointAtTheirRow
  <2> SUFFICES ASSUME Inv, stmt = Idle, damage \subseteq {"page full"}, NEW i \in Index
               PROVE  entries[i] \subseteq Whole(i)
    BY DEF EntriesPointAtTheirRow
  <2>1. entries[i] \subseteq WholeOf(rows, i)
    BY SoundBetween DEF Sound
  <2> QED BY <2>1 DEF Whole, WholeOf
<1> QED BY <1>1, MutationInvariant, PTL

(* No two rows share a key of a UNIQUE index, NULLs apart. *)
THEOREM MutationUnique == Spec => []UniqueHolds
<1>1. Inv => UniqueHolds
  <2> SUFFICES ASSUME Inv, stmt = Idle, damage = {} PROVE UniqueHolds
    BY DEF UniqueHolds
  <2>1. UniqueIn(rows)
    BY SoundBetween DEF Sound
  <2> QED BY <2>1 DEF UniqueIn, UniqueHolds, NonNull
<1> QED BY <1>1, MutationInvariant, PTL

-----------------------------------------------------------------------------
(* An UPDATE ends with the rowids it began with. *)

LEMMA RaiseLosesNone ==
  ASSUME Inv, stmt.kind = "update", NEW rs, NEW es, NEW as, NEW cause,
         Raise(rs, es, as, cause), explicit => DOMAIN rs = stmt.start
  PROVE  DOMAIN rows' = stmt.start
<1>1. stmt # Idle
  BY DEF Idle
<1>2. rows' = IF explicit THEN rs ELSE committed.rows
  BY DEF Raise
<1> QED BY <1>1, <1>2 DEF Inv, RollbackPoint

(* While the row at hand is in the table, all of them are. *)
LEMMA AllThere ==
  ASSUME Inv, stmt.kind = "update", NEW call, Running(call), This \in DOMAIN rows
  PROVE  DOMAIN rows = stmt.start
<1>1. Midway
  BY AtCall
<1>2. todo \subseteq DOMAIN rows
  BY <1>1 DEF Midway, RowAtHand
<1> QED BY <1>2 DEF Inv, NoneLost

LEMMA StepLosesNone ==
  ASSUME Inv, [Next]_vars, stmt.kind = "update", stmt' = Idle, "io" \notin damage'
  PROVE  DOMAIN rows' = stmt.start
<1>1. stmt # Idle /\ stmt' # stmt
  BY DEF Idle
<1>2. UniqueViolation \/ IndexPageFull \/ IndexTears \/ TablePageFull \/ Fault \/ Finish
  <2>1. ~(\E row \in Row : Insert(row))
    BY <1>1 DEF Insert, Begun
  <2>2. ~(\E S \in SUBSET DOMAIN rows : Delete(S))
    BY <1>1 DEF Delete, Begun
  <2>3. ~(\E S \in SUBSET DOMAIN rows, c \in Column : \E v \in Domain[c] : Update(S, c, v))
    BY <1>1 DEF Update, Begun
  <2>4. ~(Check \/ RemoveEntry \/ DropRow \/ PutRow \/ EnterEntry)
    BY <1>1 DEF Check, RemoveEntry, DropRow, PutRow, EnterEntry
  <2>5. ~(Begin \/ Commit \/ Rollback) /\ ~UNCHANGED vars
    BY <1>1 DEF Begin, Commit, Rollback, vars
  <2> QED BY <2>1, <2>2, <2>3, <2>4, <2>5 DEF Next
<1>3. CASE UniqueViolation
  <2>1. Running("check") /\ Raise(rows, entries, astray, {})
    BY <1>3 DEF UniqueViolation
  <2>2. This \in DOMAIN rows
    BY <2>1, AtCall DEF Midway, RowAtHand
  <2> QED BY <2>1, <2>2, AllThere, RaiseLosesNone
<1>4. CASE IndexPageFull
  <2>1. Raise(rows, entries, astray, {"page full"})
    BY <1>4 DEF IndexPageFull
  <2>2. CASE Running("remove")
    <3>1. This \in DOMAIN rows
      BY <2>2, AtCall DEF Midway, RowAtHand
    <3> QED BY <2>1, <2>2, <3>1, AllThere, RaiseLosesNone
  <2>3. CASE Running("enter")
    <3>1. This \in DOMAIN rows
      BY <2>3, AtCall DEF Midway, RowAtHand
    <3> QED BY <2>1, <2>3, <3>1, AllThere, RaiseLosesNone
  <2> QED BY <1>4, <2>2, <2>3 DEF IndexPageFull
<1>5. CASE TablePageFull
  <2>1. Running("put") /\ Raise(PutBack, entries, astray, {"page full"})
    BY <1>5 DEF TablePageFull
  <2>2. todo \ {This} \subseteq DOMAIN rows /\ This \in todo
    BY <2>1, AtCall DEF Midway, RowAtHand
  <2>3. DOMAIN PutBack = DOMAIN rows \cup {This}
    BY DEF PutBack, With
  <2>4. DOMAIN PutBack = stmt.start
    BY <2>2, <2>3 DEF Inv, NoneLost
  <2> QED BY <2>1, <2>4, RaiseLosesNone
<1>6. CASE Fault
  <2>1. Raise(rows, entries, astray, {"io"})
    BY <1>6 DEF Fault
  <2>2. ~explicit
    BY <2>1 DEF Raise
  <2> QED BY <2>1, <2>2, RaiseLosesNone
<1>7. CASE IndexTears
  <2>1. Running("remove")
    BY <1>7 DEF IndexTears
  <2>2. PICK es, as : Raise(rows, es, as, {"torn"})
    BY <1>7 DEF IndexTears
  <2>3. This \in DOMAIN rows
    BY <2>1, AtCall DEF Midway, RowAtHand
  <2> QED BY <2>1, <2>2, <2>3, AllThere, RaiseLosesNone
<1>8. CASE Finish
  BY <1>8 DEF Finish, table, Inv, NoneLost
<1> QED BY <1>2, <1>3, <1>4, <1>5, <1>6, <1>7, <1>8

(* An UPDATE that ends, also with a page-full error or a UNIQUE violation, has
   the rowids that it began with. *)
THEOREM MutationUpdateKeepsRows == Spec => UpdateLosesNoRow
<1>1. Inv /\ [Next]_vars
        => [stmt.kind = "update" /\ stmt' = Idle /\ "io" \notin damage' => DOMAIN rows' = stmt.start]_vars
  BY StepLosesNone
<1> QED BY <1>1, MutationInvariant, PTL DEF Spec, UpdateLosesNoRow
=============================================================================
