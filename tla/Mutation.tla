------------------------------- MODULE Mutation -------------------------------
(***************************************************************************)
(* INSERT, DELETE and UPDATE on one table and its indexes                  *)
(* (exec/operators.py), under the transaction that the connection runs     *)
(* them in (api/connection.py, _run_mutation).                             *)
(*                                                                         *)
(* A statement is a list of rows, each taken through the same steps: the   *)
(* UNIQUE checks, the old entries out of the indexes, the old row out of   *)
(* the table, the new row in, the new entries in.  Each step is one call   *)
(* of a b-tree, and any of them may raise.  A statement that is its own    *)
(* transaction is then rolled back; inside BEGIN what it did stays.        *)
(*                                                                         *)
(* The b-trees are what BTree and IndexTree show them to be: a map from    *)
(* rowid to row and a set of entries, each operation all or nothing but    *)
(* for one: the delete whose rotation PageFullError cuts in two (the       *)
(* violation of IndexTree!DeleteNeverTears).  After it an index may hold   *)
(* an entry twice, or where no search comes to: those are astray.  A WHERE *)
(* clause is the set of rows it picks.  The table is under the writer's    *)
(* EXCLUSIVE lock, so there is one statement at a time.                    *)
(***************************************************************************)
EXTENDS Integers, Sequences, FiniteSets

CONSTANTS
    Domain,     \* the values of each column: [columns -> sets]
    Null,
    Indexes,    \* the indexes in catalog order: a sequence of [columns, unique]
    MaxRowid,   \* bound on the rowids
    MaxErrors   \* bound on the page-full and I/O errors

Column == DOMAIN Domain
Index == DOMAIN Indexes
Rowid == 1 .. MaxRowid
Value == UNION {Domain[c] : c \in Column}

\* The rows of the table's type.
Row == {row \in [Column -> Value] : \A c \in Column : row[c] \in Domain[c]}
NoRow == [c \in {} |-> Null]

ASSUME MutationAssumption ==
    /\ Indexes # <<>>
    /\ Indexes \in Seq([columns : SUBSET Column, unique : BOOLEAN])
    /\ MaxRowid \in Nat
    /\ MaxErrors \in Nat

\* Calls, mutated: a row is deleted before its entries.
RowFirst(kind) ==
    CASE kind = "insert" -> <<"check", "put", "enter">>
      [] kind = "delete" -> <<"drop", "remove">>
      [] kind = "update" -> <<"check", "remove", "drop", "put", "enter">>
      [] OTHER -> <<>>

\* The calls that each statement makes for one row, in order.
Calls(kind) ==
    CASE kind = "insert" -> <<"check", "put", "enter">>
      [] kind = "delete" -> <<"remove", "drop">>
      [] kind = "update" -> <<"check", "remove", "drop", "put", "enter">>
      [] OTHER -> <<>>

VARIABLES
    rows,       \* the table: [rowids -> rows]
    entries,    \* each index: a set of [key, rowid]
    astray,     \* those of them that a delete may leave behind, or a search miss
    committed,  \* table and damage as the open transaction found them
    explicit,   \* inside BEGIN?
    stmt,       \* the statement that is running, and the rowids it began with
    todo,       \* its rowids still to do, the one at hand included
    old, new,   \* the row at hand, and what becomes of it
    at, index,  \* the call that comes next, and the index it is for
    errors,     \* the page-full and I/O errors so far
    damage      \* ghost: what broke a statement off inside a BEGIN that was
                \* not rolled back since

table == <<rows, entries, astray>>
turn == <<todo, old, new, at, index>>
vars == <<table, committed, explicit, stmt, turn, errors, damage>>

Statement(kind, column, value) ==
    [kind |-> kind, column |-> column, value |-> value, start |-> DOMAIN rows]
Idle == [kind |-> "idle", column |-> Null, value |-> Null, start |-> {}]
Snapshot(rs, es, as, d) == [rows |-> rs, entries |-> es, astray |-> as, damage |-> d]

Init ==
    /\ rows = [r \in {} |-> NoRow]
    /\ entries = [i \in Index |-> {}]
    /\ astray = entries
    /\ committed = Snapshot(rows, entries, astray, {})
    /\ explicit = FALSE
    /\ stmt = Idle
    /\ todo = {} /\ old = NoRow /\ new = NoRow /\ at = 1 /\ index = 1
    /\ errors = 0
    /\ damage = {}

-----------------------------------------------------------------------------
(* Keys *)

\* The values of the indexed columns.
KeyOf(i, row) == [c \in Indexes[i].columns |-> row[c]]
EntryOf(i, r, row) == [key |-> KeyOf(i, row), rowid |-> r]

\* find_conflict(): the first of the rowids that have the key, among the entries
\* es; NULL never conflicts.
Conflicts(es, key) ==
    IF \E c \in DOMAIN key : key[c] = Null THEN {}
    ELSE LET same == {e.rowid : e \in {e \in es : e.key = key}} IN
         {r \in same : \A q \in same : r <= q}

\* _next_rowid().
NextRowid == IF DOMAIN rows = {} THEN 1 ELSE 1 + CHOOSE r \in DOMAIN rows : \A q \in DOMAIN rows : q <= r

-----------------------------------------------------------------------------
(* The running statement *)

Call == Calls(stmt.kind)[at]

\* _scan_matching_rows(): the rowids that the WHERE clause picks, before
\* anything is written; they are taken in order.
First(S) == CHOOSE r \in S : \A q \in S : r <= q
This == First(todo)

\* An index that the statement has to touch for this row.
Touched(i) == stmt.kind = "update" => KeyOf(i, old) # KeyOf(i, new)

\* The first of the rows S, as it is in rs, and the row that the statement
\* makes of it: `new_values` are computed from the old ones.  (No statement
\* changes a row before its turn, so the row is still the one that the scan
\* returned.)
Onto(s, S, rs) ==
    /\ todo' = S
    /\ old' = rs[First(S)]
    /\ new' = IF s.kind = "update" THEN [rs[First(S)] EXCEPT ![s.column] = s.value] ELSE NoRow
    /\ at' = 1 /\ index' = 1

\* On to the next call for this row, or to the next row.
NextCall(rs) ==
    \/ /\ at < Len(Calls(stmt.kind))
       /\ at' = at + 1 /\ index' = 1
       /\ UNCHANGED <<todo, old, new>>
    \/ /\ at = Len(Calls(stmt.kind)) /\ todo # {This}
       /\ Onto(stmt, todo \ {This}, rs)
    \/ /\ at = Len(Calls(stmt.kind)) /\ todo = {This}
       /\ todo' = {}
       /\ UNCHANGED <<old, new, at, index>>

\* On to the next index, or past the last one.
NextIndex ==
    \/ index < Len(Indexes) /\ index' = index + 1 /\ UNCHANGED <<todo, old, new, at>>
    \/ index = Len(Indexes) /\ NextCall(rows)

Ended ==
    /\ stmt' = Idle
    /\ todo' = {} /\ old' = NoRow /\ new' = NoRow /\ at' = 1 /\ index' = 1

\* Raise, mutated: the table is rolled back, the indexes are not.
RaiseKeepsEntries(rs, es, as, cause) ==
    /\ rows' = IF explicit THEN rs ELSE committed.rows
    /\ entries' = es /\ astray' = as
    /\ damage' = IF explicit THEN damage \cup cause ELSE damage
    /\ Ended
    /\ UNCHANGED <<committed, explicit>>

\* An exception leaves the statement: _run_mutation() rolls an implicit
\* transaction back and leaves an explicit one as it is.
Raise(rs, es, as, cause) ==
    /\ rows' = IF explicit THEN rs ELSE committed.rows
    /\ entries' = IF explicit THEN es ELSE committed.entries
    /\ astray' = IF explicit THEN as ELSE committed.astray
    /\ damage' = IF explicit THEN damage \cup cause ELSE damage
    /\ Ended
    /\ UNCHANGED <<committed, explicit>>

-----------------------------------------------------------------------------
(* Statements *)

Begun(s) == stmt = Idle /\ stmt' = s /\ UNCHANGED <<table, committed, explicit, errors, damage>>

Insert(row) ==
    /\ NextRowid <= MaxRowid
    /\ Begun(Statement("insert", Null, Null))
    /\ todo' = {NextRowid} /\ old' = NoRow /\ new' = row /\ at' = 1 /\ index' = 1

Delete(S) ==
    /\ S # {}
    /\ Begun(Statement("delete", Null, Null))
    /\ Onto(stmt', S, rows)

\* SET column = value.
Update(S, column, value) ==
    /\ S # {}
    /\ Begun(Statement("update", column, value))
    /\ Onto(stmt', S, rows)

Running(call) == stmt.kind # "idle" /\ todo # {} /\ Call = call

\* What a search of an index comes to.
Seen(i) == {entries[i] \ missed : missed \in SUBSET astray[i]}

\* Clash, mutated: an UPDATE is not checked.
ClashOnInsert(i, es) ==
    /\ stmt.kind = "insert"
    /\ Indexes[i].unique
    /\ Conflicts(es, KeyOf(i, new)) # {}

\* Every UNIQUE index is asked before anything is written for this row.  An
\* UPDATE may find its own entry there.
Clash(i, es) ==
    /\ Indexes[i].unique
    /\ Touched(i)
    /\ Conflicts(es, KeyOf(i, new)) \ (IF stmt.kind = "update" THEN {This} ELSE {}) # {}

Check ==
    /\ Running("check")
    /\ \A i \in Index : \E es \in Seen(i) : ~Clash(i, es)
    /\ NextCall(rows)
    /\ UNCHANGED <<table, committed, explicit, stmt, errors, damage>>

UniqueViolation ==
    /\ Running("check")
    /\ \E i \in Index : \E es \in Seen(i) : Clash(i, es)
    /\ Raise(rows, entries, astray, {})
    /\ UNCHANGED errors

\* What is gone when a delete takes the entries E: one that is astray may stay.
Takes(E) == {gone \in SUBSET E : E \ gone \subseteq astray[index]}

OldEntry == EntryOf(index, This, old)

\* IndexBTree.delete() of the old entry; an absent one is not an error.
RemoveEntry ==
    /\ Running("remove")
    /\ \E gone \in Takes(IF Touched(index) THEN {OldEntry} ELSE {}) :
        /\ entries' = [entries EXCEPT ![index] = @ \ gone]
        /\ astray' = [astray EXCEPT ![index] = @ \ gone]
    /\ NextIndex
    /\ UNCHANGED <<rows, committed, explicit, stmt, errors, damage>>

\* BTree.delete().
DropRow ==
    /\ Running("drop")
    /\ rows' = [r \in DOMAIN rows \ {This} |-> rows[r]]
    /\ NextCall(rows')
    /\ UNCHANGED <<entries, astray, committed, explicit, stmt, errors, damage>>

With(r, row) == [q \in DOMAIN rows \cup {r} |-> IF q = r THEN row ELSE rows[q]]

\* BTree.insert().
PutRow ==
    /\ Running("put")
    /\ rows' = With(This, new)
    /\ NextCall(rows')
    /\ UNCHANGED <<entries, astray, committed, explicit, stmt, errors, damage>>

\* IndexBTree.insert() of the new entry, which does not ask whether the index
\* has it already.
EnterEntry ==
    /\ Running("enter")
    /\ LET added == IF Touched(index) THEN {EntryOf(index, This, new)} ELSE {} IN
        /\ entries' = [entries EXCEPT ![index] = @ \cup added]
        /\ astray' = [astray EXCEPT ![index] = @ \cup (added \cap entries[index])]
    /\ NextIndex
    /\ UNCHANGED <<rows, committed, explicit, stmt, errors, damage>>

Error == errors < MaxErrors /\ errors' = errors + 1

\* PageFullError from an index before it has written anything: a divider that
\* cannot be replaced, or a leaf that cannot be split.
IndexPageFull ==
    /\ Running("remove") \/ Running("enter")
    /\ Touched(index)
    /\ Error
    /\ Raise(rows, entries, astray, {"page full"})

\* PageFullError from the rotation that refills the page whose last entry was
\* deleted: the sibling and the page are written, their parent is not.  The
\* entry borrowed from the sibling is lost, the divider is there twice, and the
\* entries of a subtree that has moved are where no search comes to.
IndexTears ==
    /\ Running("remove") /\ Touched(index)
    /\ OldEntry \in entries[index]
    /\ Error
    /\ \E lost \in entries[index] \ {OldEntry} :
        \E gone \in Takes({OldEntry, lost}),
           wrong \in SUBSET (entries[index] \ {OldEntry, lost}) :
            /\ wrong # {}
            /\ Raise(rows, [entries EXCEPT ![index] = @ \ gone],
                     [astray EXCEPT ![index] = (@ \ gone) \cup wrong], {"torn"})

\* PutBack, mutated: the old row is not put back.
PutNothingBack == rows

\* What an UPDATE does when its new row does not fit: the old one goes back in.
\* An INSERT has nothing to put back.
PutBack == IF stmt.kind = "update" THEN With(This, old) ELSE rows

\* PageFullError from the table.
TablePageFull ==
    /\ Running("put")
    /\ Error
    /\ Raise(PutBack, entries, astray, {"page full"})

\* An I/O error reading or writing a page, before any call.
Fault ==
    /\ todo # {}
    /\ Error
    /\ Raise(rows, entries, astray, {"io"})

\* The statement returns; an implicit transaction commits.
Finish ==
    /\ stmt.kind # "idle" /\ todo = {}
    /\ Ended
    /\ committed' = IF explicit THEN committed ELSE Snapshot(rows, entries, astray, damage)
    /\ UNCHANGED <<table, explicit, errors, damage>>

-----------------------------------------------------------------------------
(* Transactions *)

Begin ==
    /\ stmt = Idle /\ ~explicit
    /\ explicit' = TRUE
    /\ UNCHANGED <<table, committed, stmt, turn, errors, damage>>

Commit ==
    /\ stmt = Idle /\ explicit
    /\ explicit' = FALSE
    /\ committed' = Snapshot(rows, entries, astray, damage)
    /\ UNCHANGED <<table, stmt, turn, errors, damage>>

Rollback ==
    /\ stmt = Idle /\ explicit
    /\ explicit' = FALSE
    /\ rows' = committed.rows
    /\ entries' = committed.entries
    /\ astray' = committed.astray
    /\ damage' = committed.damage
    /\ UNCHANGED <<committed, stmt, turn, errors>>

Next ==
    \/ \E row \in Row : Insert(row)
    \/ \E S \in SUBSET DOMAIN rows : Delete(S)
    \/ \E S \in SUBSET DOMAIN rows, c \in Column : \E v \in Domain[c] : Update(S, c, v)
    \/ Check \/ UniqueViolation \/ RemoveEntry \/ DropRow \/ PutRow \/ EnterEntry
    \/ IndexPageFull \/ IndexTears \/ TablePageFull \/ Fault \/ Finish
    \/ Begin \/ Commit \/ Rollback

Spec == Init /\ [][Next]_vars

-----------------------------------------------------------------------------
(* Properties *)

\* What an index can hold.
Entries(i) == {EntryOf(i, r, row) : r \in Rowid, row \in Row}

\* What breaks a statement off.
Cause == {"page full", "torn", "io"}

\* A table of rows of its type under rowids in range, with its indexes.
IsTable(rs, es, as) ==
    /\ DOMAIN rs \subseteq Rowid /\ rs \in [DOMAIN rs -> Row]
    /\ DOMAIN es = Index /\ \A i \in Index : es[i] \subseteq Entries(i)
    /\ DOMAIN as = Index /\ \A i \in Index : as[i] \subseteq es[i]

\* The types of the state; a statement at work stands at one of its calls and
\* has the rows that its kind calls for.
TypeOK ==
    /\ IsTable(rows, entries, astray)
    /\ IsTable(committed.rows, committed.entries, committed.astray)
    /\ committed.damage \subseteq Cause
    /\ explicit \in BOOLEAN
    /\ errors \in 0 .. MaxErrors
    /\ damage \subseteq Cause
    /\ stmt.kind \in {"idle", "insert", "delete", "update"}
    /\ stmt.kind = "idle" <=> stmt = Idle
    /\ stmt.kind = "update" => stmt.column \in Column /\ stmt.value \in Domain[stmt.column]
    /\ todo \subseteq Rowid /\ index \in Index
    /\ todo # {} => /\ stmt # Idle
                    /\ at \in 1 .. Len(Calls(stmt.kind))
                    /\ stmt.kind \in {"delete", "update"} => old \in Row
                    /\ stmt.kind \in {"insert", "update"} => new \in Row

\* The entries that the table's rows call for.
Whole(i) == {EntryOf(i, r, rows[r]) : r \in DOMAIN rows}

\* Between statements every index holds exactly the entries of the rows that are
\* there: an autocommitted statement that fails at any call leaves no trace, and
\* inside BEGIN a UNIQUE violation in the middle of a many-row UPDATE leaves the
\* rows it had finished, each with all its entries.
IndexesMatchRows ==
    stmt = Idle /\ damage = {} => \A i \in Index : entries[i] = Whole(i)

\* Even when PageFullError breaks a statement off inside BEGIN, at any call and
\* row, and the caller goes on and commits, an index entry points at a row that
\* has its key.  The order of the calls is for this: "index entry pointing at a
\* rowid that no longer exists" is not recoverable, and rowids are used again.
\* It takes a PageFullError that is raised before the index has written; for the
\* one that tears a rotation, see NoEntryOutlivesItsRow.
EntriesPointAtTheirRow ==
    stmt = Idle /\ damage \subseteq {"page full"} => \A i \in Index : entries[i] \subseteq Whole(i)

\* What the order of the calls promises (Delete's docstring in operators.py), of
\* every PageFullError: no entry of a row that is gone.  A torn rotation breaks
\* it: the divider is in the index twice, and the DELETE of its row takes one.
NoEntryOutlivesItsRow ==
    stmt = Idle /\ "io" \notin damage =>
        \A i \in Index : \A e \in entries[i] : e.rowid \in DOMAIN rows

\* Two rows never share a key of a UNIQUE index, NULLs apart: the index alone is
\* asked, so it has to know every row.
UniqueHolds ==
    stmt = Idle /\ damage = {} =>
        \A i \in Index, r, q \in DOMAIN rows :
            /\ Indexes[i].unique
            /\ KeyOf(i, rows[r]) = KeyOf(i, rows[q])
            /\ \A c \in Indexes[i].columns : rows[r][c] # Null
            => r = q

\* An UPDATE, which deletes and inserts each row, ends with the rowids that it
\* began with, also when the new row does not fit (10-deletion-and-space-reuse's
\* rule that "the row must not stay deleted").
UpdateLosesNoRow ==
    [][stmt.kind = "update" /\ stmt' = Idle /\ "io" \notin damage' => DOMAIN rows' = stmt.start]_vars

=============================================================================
