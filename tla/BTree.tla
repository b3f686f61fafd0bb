--------------------------------- MODULE BTree ---------------------------------
(***************************************************************************)
(* The table b-tree: btree/btree.py (search, insert, delete, the split     *)
(* cascade) and storage/overflow.py (the chains that hold what a cell      *)
(* cannot).  The cursor's walk over it is TableCursor.                     *)
(*                                                                         *)
(* A tree is a B+tree on the rowid: rows live in leaves and an interior    *)
(* cell is a copy of the largest rowid on its left, for routing only.  The *)
(* writer holds the table's EXCLUSIVE lock, so nothing interleaves with an *)
(* operation; but a split or an unlinking reaches one level at a time, and *)
(* each level is a step here.                                              *)
(*                                                                         *)
(* A payload is what its encoding makes of it: the room its cell takes in  *)
(* a leaf (local_payload_size) and the overflow pages it spills to.  An    *)
(* interior cell takes one unit.  Page numbers are handed out lowest first *)
(* (the order of the freelist is JournalCommit's business).                *)
(***************************************************************************)
EXTENDS TreePages

CONSTANTS
    Rowid,      \* the rowids a caller uses
    Payload,    \* the payloads: records [size, spill]
    LeafRoom,   \* the room of a leaf page
    NodeRoom,   \* the cells of an interior page
    MaxPages    \* bound on the pages of the file

PageId == 1 .. MaxPages
NoPage == 0

\* The page recorded in sqlite_schema, which never changes.
Root == 1

\* A cell fits on an empty page (max_local_payload), and an interior page that
\* is full has two cells: with the one promoted they are split_interior_cells'
\* three.
ASSUME TreeAssumption ==
    /\ Rowid \subseteq Nat
    /\ LeafRoom \in Nat
    /\ Payload \subseteq [size : 1 .. LeafRoom, spill : Nat]
    /\ NodeRoom \in Nat /\ NodeRoom >= 2
    /\ MaxPages \in Nat /\ MaxPages >= 1

VARIABLES
    file,       \* PageId -> its content
    op,         \* the operation under way, between two of its levels
    rows,       \* ghost: the rows the callers put there, rowid -> payload
    removed     \* ghost: the row that the last operation deleted

vars == <<file, op, rows, removed>>

FreePage == [kind |-> "free", cells |-> <<>>, kids |-> <<>>]
Idle == [kind |-> "idle", path |-> <<>>, level |-> 0,
         separator |-> 0, left |-> NoPage, right |-> NoPage]
Nothing == [rowid |-> 0, payload |-> [size |-> 0, spill |-> 0]]

\* A leaf cell and an interior cell.
RowCell(rowid, payload, over) == [key |-> rowid, size |-> payload.size, over |-> over]
RouteCell(key) == [key |-> key, size |-> 1, over |-> NoPage]

Init ==
    /\ file = [p \in PageId |-> IF p = Root THEN Leaf(<<>>) ELSE FreePage]
    /\ op = Idle
    /\ rows = [r \in {} |-> Nothing.payload]
    /\ removed = Nothing

-----------------------------------------------------------------------------
(* Allocation and overflow chains *)

FreePages == {p \in PageId : file[p].kind = "free"}

Allocated(n) == NthSmallest(FreePages, n)

\* The place of p among the free pages.
Rank(p) == Cardinality({q \in FreePages : q <= p})

\* write_overflow_chain(): the file with one chunk of the payload on each of
\* the first n free pages, each page pointing at the next.
WithChain(rowid, n) ==
    [p \in PageId |->
        IF p \in FreePages /\ Rank(p) <= n
        THEN [kind |-> "overflow", cells |-> << [key |-> rowid, size |-> Rank(p), over |-> NoPage] >>,
              kids |-> <<IF Rank(p) < n THEN Allocated(Rank(p) + 1) ELSE NoPage>>]
        ELSE file[p]]

ChainStart(n) == IF n = 0 THEN NoPage ELSE Allocated(1)

\* ChainFrom, mutated: the next pointer is not followed.
ChainHead(p) == IF p = NoPage THEN <<>> ELSE <<p>>

\* The pages that read_overflow_chain() and free_overflow_chain() follow.
ChainFrom(p) ==
    IF p = NoPage THEN <<>>
    ELSE Follow([q \in PageId |-> IF file[q].kind = "overflow" THEN file[q].kids[1] ELSE NoPage], p)

\* free_overflow_chain().
WithoutChain(p) == [q \in PageId |-> IF q \in ToSet(ChainFrom(p)) THEN FreePage ELSE file[q]]

-----------------------------------------------------------------------------
(* Descent *)

IsLeaf(p) == file[p].kind = "leaf"

\* _find_leaf(): the pages from the root down to the leaf of the rowid, each
\* with the slot taken there.
FindLeaf(rowid) == Descent(file, Root, [p \in PageId |-> LowerBound(file[p].cells, rowid)])

\* search().
Search(rowid) ==
    LET leaf == Last(FindLeaf(rowid)) IN
    /\ leaf[2] <= Len(file[leaf[1]].cells)
    /\ file[leaf[1]].cells[leaf[2]].key = rowid

\* The row at the end of a path, its payload measured by what record() puts
\* together: none of it when a page of the chain is not its own.
RowAt(path) ==
    LET cell  == file[Last(path)[1]].cells[Last(path)[2]]
        chain == ChainFrom(cell.over)
    IN [rowid   |-> cell.key,
        payload |-> [size  |-> cell.size,
                     spill |-> IF \A i \in Slots(chain) :
                                     file[chain[i]].cells = << [key |-> cell.key, size |-> i, over |-> NoPage] >>
                               THEN Len(chain) ELSE 0]]

-----------------------------------------------------------------------------
(* insert() *)

\* SplitOf, mutated: the separator is the smallest key on the right.
SplitOnRightKey(rowid, payload) ==
    LET path     == FindLeaf(rowid)
        combined == WithCell(file[Last(path)[1]].cells, Last(path)[2], RowCell(rowid, payload, NoPage))
        n        == LeftSize(combined, FALSE)
    IN [left  |-> SubSeq(combined, 1, n),
        right |-> SubSeq(combined, n + 1, Len(combined)),
        separator |-> combined[n + 1].key]

\* _split_leaf(): the leaf's cells with the new one, cut in two.
SplitOf(rowid, payload) ==
    LET path     == FindLeaf(rowid)
        body     == file[Last(path)[1]]
        slot     == Last(path)[2]
        combined == WithCell(body.cells, slot, RowCell(rowid, payload, NoPage))
        parent   == path[Len(path) - 1]
        rightmost == Len(path) = 1 \/ parent[2] = Len(file[parent[1]].kids)
        n        == LeftSize(combined, rightmost /\ slot = Len(body.cells) + 1)
    IN [left  |-> SubSeq(combined, 1, n),
        right |-> SubSeq(combined, n + 1, Len(combined)),
        separator |-> combined[n].key]

\* A cell too large for either side: PageFullError, before anything is written.
CannotSplit(rowid, payload) ==
    LET split == SplitOf(rowid, payload) IN
    Used(split.left) > LeafRoom \/ Used(split.right) > LeafRoom

NeedsSplit(rowid, payload) ==
    ~Fits(file[Last(FindLeaf(rowid))[1]], RowCell(rowid, payload, NoPage), LeafRoom)

\* The cells of one half, the new row's pointing at its chain.
Chained(cells, rowid, over) ==
    [i \in Slots(cells) |-> IF cells[i].key = rowid THEN [cells[i] EXCEPT !.over = over] ELSE cells[i]]

Accepted(rowid, payload) ==
    /\ rows' = [r \in DOMAIN rows \cup {rowid} |-> IF r = rowid THEN payload ELSE rows[r]]
    /\ removed' = Nothing

\* The easy case: the leaf has room.
Insert(rowid, payload) ==
    /\ op = Idle
    /\ ~Search(rowid)
    /\ ~NeedsSplit(rowid, payload)
    /\ Cardinality(FreePages) >= payload.spill
    /\ LET leaf == Last(FindLeaf(rowid))
           cell == RowCell(rowid, payload, ChainStart(payload.spill))
       IN file' = [WithChain(rowid, payload.spill) EXCEPT
                      ![leaf[1]] = Leaf(WithCell(file[leaf[1]].cells, leaf[2], cell))]
    /\ Accepted(rowid, payload)
    /\ UNCHANGED op

\* The whole tree is one full leaf: both halves move out and the root becomes
\* the page above them.
SplitRootLeaf(rowid, payload) ==
    /\ op = Idle
    /\ ~Search(rowid)
    /\ NeedsSplit(rowid, payload)
    /\ ~CannotSplit(rowid, payload)
    /\ Len(FindLeaf(rowid)) = 1
    /\ Cardinality(FreePages) >= payload.spill + 2
    /\ LET split == SplitOf(rowid, payload)
           over  == ChainStart(payload.spill)
           right == Allocated(payload.spill + 1)
           left  == Allocated(payload.spill + 2)
       IN file' = [WithChain(rowid, payload.spill) EXCEPT
                      ![Root]  = Interior(<<RouteCell(split.separator)>>, <<left, right>>),
                      ![left]  = Leaf(Chained(split.left, rowid, over)),
                      ![right] = Leaf(Chained(split.right, rowid, over))]
    /\ Accepted(rowid, payload)
    /\ UNCHANGED op

\* A full leaf under a parent keeps the left half.  The parent takes the
\* separator here if it has room, and in _promote_separator() if it has not.
\* (MaxPages leaves a page for every level that may split, and one more.)
SplitLeaf(rowid, payload) ==
    /\ op = Idle
    /\ ~Search(rowid)
    /\ NeedsSplit(rowid, payload)
    /\ ~CannotSplit(rowid, payload)
    /\ Len(FindLeaf(rowid)) > 1
    /\ Cardinality(FreePages) >= payload.spill + 1 + Len(FindLeaf(rowid))
    /\ LET path   == FindLeaf(rowid)
           leaf   == Last(path)[1]
           parent == path[Len(path) - 1]
           split  == SplitOf(rowid, payload)
           over   == ChainStart(payload.spill)
           right  == Allocated(payload.spill + 1)
           halves == [WithChain(rowid, payload.spill) EXCEPT
                         ![leaf]  = Leaf(Chained(split.left, rowid, over)),
                         ![right] = Leaf(Chained(split.right, rowid, over))]
           cell   == RouteCell(split.separator)
       IN IF Fits(file[parent[1]], cell, NodeRoom)
          THEN /\ file' = [halves EXCEPT
                              ![parent[1]] = Promoted(file[parent[1]], parent[2], cell, leaf, right)]
               /\ UNCHANGED op
          ELSE /\ file' = halves
               /\ op' = [kind |-> "promote", path |-> path, level |-> Len(path) - 1,
                         separator |-> split.separator, left |-> leaf, right |-> right]
    /\ Accepted(rowid, payload)

\* DuplicateRowIDError and PageFullError change nothing.
InsertFails(rowid, payload) ==
    /\ op = Idle
    /\ Search(rowid) \/ (NeedsSplit(rowid, payload) /\ CannotSplit(rowid, payload))
    /\ UNCHANGED vars

\* The page at this level of _promote_separator()'s way up.
Here == op.path[op.level][1]

\* The page with the separator put in, whether or not it has the room.
Grown == Promoted(file[Here], op.path[op.level][2], RouteCell(op.separator), op.left, op.right)

\* The promotion lands at the tail of the page's own cells.
AtTail == op.path[op.level][2] = Len(file[Here].kids)

PromoteFits ==
    /\ op.kind = "promote"
    /\ Fits(file[Here], RouteCell(op.separator), NodeRoom)
    /\ file' = [file EXCEPT ![Here] = Grown]
    /\ op' = Idle
    /\ UNCHANGED <<rows, removed>>

\* No room here either: the page splits and the cascade goes up a level.
PromoteSplits ==
    /\ op.kind = "promote"
    /\ ~Fits(file[Here], RouteCell(op.separator), NodeRoom)
    /\ op.level > 1
    /\ LET split == SplitInterior(Grown, AtTail)
           right == Allocated(1)
       IN /\ file' = [file EXCEPT ![Here] = split.left, ![right] = split.right]
          /\ op' = [op EXCEPT !.level = @ - 1, !.separator = split.separator.key,
                              !.left = Here, !.right = right]
    /\ UNCHANGED <<rows, removed>>

\* ... and when it is the root that has no room, the tree grows a level.
PromoteSplitsRoot ==
    /\ op.kind = "promote"
    /\ ~Fits(file[Here], RouteCell(op.separator), NodeRoom)
    /\ op.level = 1
    /\ LET split == SplitInterior(Grown, AtTail)
           right == Allocated(1)
           left  == Allocated(2)
       IN file' = [file EXCEPT ![Root]  = Interior(<<RouteCell(split.separator.key)>>, <<left, right>>),
                               ![left]  = split.left,
                               ![right] = split.right]
    /\ op' = Idle
    /\ UNCHANGED <<rows, removed>>

-----------------------------------------------------------------------------
(* delete() *)

\* Delete, mutated: an empty leaf stays linked.
DeleteKeepsLeaf(rowid) ==
    /\ op = Idle
    /\ Search(rowid)
    /\ LET leaf  == Last(FindLeaf(rowid))
           cells == file[leaf[1]].cells
       IN file' = [WithoutChain(cells[leaf[2]].over) EXCEPT ![leaf[1]] = Leaf(WithoutCell(cells, leaf[2]))]
    /\ rows' = [r \in DOMAIN rows \ {rowid} |-> rows[r]]
    /\ removed' = [rowid |-> rowid, payload |-> rows[rowid]]
    /\ UNCHANGED op

\* The cell goes, and the chain it owned.  A leaf other than the root that has
\* none left is unlinked, level by level.
Delete(rowid) ==
    /\ op = Idle
    /\ Search(rowid)
    /\ LET path  == FindLeaf(rowid)
           leaf  == Last(path)[1]
           slot  == Last(path)[2]
           cells == WithoutCell(file[leaf].cells, slot)
       IN /\ file' = [WithoutChain(file[leaf].cells[slot].over) EXCEPT ![leaf] = Leaf(cells)]
          /\ op' = IF cells = <<>> /\ leaf # Root
                   THEN [Idle EXCEPT !.kind = "unlink", !.path = path,
                                     !.level = Len(path) - 1, !.left = leaf]
                   ELSE Idle
    /\ rows' = [r \in DOMAIN rows \ {rowid} |-> rows[r]]
    /\ removed' = [rowid |-> rowid, payload |-> rows[rowid]]

\* False: the rowid is not there.
DeleteAbsent(rowid) ==
    /\ op = Idle
    /\ ~Search(rowid)
    /\ UNCHANGED vars

\* An interior page without the child at `slot`: the child's own separator
\* goes with it, and for right_child the separator before it.
WithoutChild(page, slot) ==
    IF page.cells = <<>> THEN Interior(<<>>, <<>>)
    ELSE Interior(WithoutCell(page.cells, IF slot <= Len(page.cells) THEN slot ELSE Len(page.cells)),
                  RemoveAt(page.kids, slot))

\* One turn of the loop that unlinks an empty page from its parent.
Unlink ==
    /\ op.kind = "unlink"
    /\ LET parent == WithoutChild(file[Here], op.path[op.level][2])
           empty  == parent.kids = <<>>
       IN /\ file' = [file EXCEPT ![Here] = IF op.level = 1 /\ empty THEN Leaf(<<>>) ELSE parent,
                                  ![op.left] = FreePage]
          /\ op' = IF op.level = 1 \/ ~empty
                   THEN Idle
                   ELSE [op EXCEPT !.level = @ - 1, !.left = Here]
    /\ UNCHANGED <<rows, removed>>

-----------------------------------------------------------------------------
Next ==
    \/ \E r \in Rowid, p \in Payload :
          Insert(r, p) \/ SplitRootLeaf(r, p) \/ SplitLeaf(r, p) \/ InsertFails(r, p)
    \/ \E r \in Rowid : Delete(r) \/ DeleteAbsent(r)
    \/ PromoteFits \/ PromoteSplits \/ PromoteSplitsRoot
    \/ Unlink

Spec == Init /\ [][Next]_vars

-----------------------------------------------------------------------------
(* Properties *)

Cells == [key : Rowid, size : 1 .. LeafRoom, over : PageId \cup {NoPage}]

\* The types of the state; in particular every child is a page, and no page,
\* whatever was split or promoted into it, holds more than its room.
TypeOK ==
    /\ \A p \in PageId :
          /\ file[p].kind \in {"free", "leaf", "interior", "overflow"}
          /\ file[p].kind = "leaf" =>
                file[p].cells \in Seq(Cells) /\ Used(file[p].cells) <= LeafRoom
          /\ file[p].kind = "interior" =>
                /\ file[p].cells \in Seq(Cells) /\ Used(file[p].cells) <= NodeRoom
                /\ file[p].kids \in Seq(PageId)
    /\ op.kind \in {"idle", "promote", "unlink"}
    /\ DOMAIN rows \subseteq Rowid /\ \A r \in DOMAIN rows : rows[r] \in Payload
    /\ removed = Nothing \/ removed.rowid \in Rowid

\* Whatever splits and deletions made the tree what it is, the descent of
\* search(), seek() and _find_leaf() ends at a rowid exactly when the row is
\* there, and record() puts its whole payload together again from the leaf and
\* the overflow chain.  (A separator one off, or a chain lost in a split, would
\* make some row unreachable or unreadable.)
LookupReadsRow ==
    op = Idle =>
        \A r \in Rowid :
            /\ Search(r) <=> r \in DOMAIN rows
            /\ r \in DOMAIN rows => RowAt(FindLeaf(r)) = [rowid |-> r, payload |-> rows[r]]

\* Every pointer of the file: the page it is on, its place there, and the page
\* it leads to.
KidPointers(p) == {<<p, i, file[p].kids[i]>> : i \in DOMAIN file[p].kids}
OverPointers(p) == {<<p, i, file[p].cells[i].over>> : i \in DOMAIN file[p].cells}
OtherPointers == {<<NoPage, 0, Root>>} \cup (IF op.kind = "promote" THEN {<<NoPage, 1, op.right>>} ELSE {})
Pointers == (UNION {KidPointers(p) \cup OverPointers(p) : p \in PageId}) \cup OtherPointers

\* At every level of a split or an unlinking a page in use has exactly one
\* owner (its parent, its row's chain, or the promotion that is about to give
\* it one) and a free page has none: nothing leaks and nothing is shared, so no
\* later delete frees a page another row lives on.
PagesHaveOneOwner ==
    LET pointers == Pointers IN
    \A p \in PageId :
        Cardinality({t \in pointers : t[3] = p}) = IF file[p].kind = "free" THEN 0 ELSE 1

\* The pages n - 1 levels below the root.
Generation(n) ==
    LET at[i \in PageId] == IF i <= 1 THEN {Root} ELSE UNION {ToSet(file[p].kids) : p \in at[i - 1]}
    IN  at[n]

\* All leaves stay at one depth, and only the root is a leaf without rows: the
\* cursor counts on finding a row in every leaf that it descends to.
TreeStaysBalanced ==
    op = Idle =>
        /\ \A n \in PageId : \A p, q \in Generation(n) : IsLeaf(p) <=> IsLeaf(q)
        /\ \A p \in PageId : IsLeaf(p) /\ file[p].cells = <<>> => p = Root

\* Update._apply() deletes a row and, if the new payload raises PageFullError,
\* inserts the old one again, "guaranteed to fit".  It does: even when the
\* deletion freed the leaf, so that the rowid now belongs on a neighbour with no
\* room, the neighbour can be split around it.
DeletedRowFitsAgain ==
    op = Idle /\ removed # Nothing /\ NeedsSplit(removed.rowid, removed.payload) =>
        ~CannotSplit(removed.rowid, removed.payload)

\* split.py: "a zero-cell interior page is not a legal SQLite page and real
\* sqlite3 reads the file as malformed".
InteriorPagesHaveCells ==
    op = Idle => \A p \in PageId : file[p].kind = "interior" => file[p].cells # <<>>

=============================================================================
