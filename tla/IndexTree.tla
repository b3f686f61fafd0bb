------------------------------- MODULE IndexTree -------------------------------
(***************************************************************************)
(* The index b-tree: btree/index.py.                                       *)
(*                                                                         *)
(* Unlike the table's, it is a true b-tree: a divider on an interior page  *)
(* is a live entry that no leaf holds.  So a leaf split consumes the       *)
(* separator, deleting a divider pulls its predecessor up from a leaf, and *)
(* a page that loses its last cell is merged with a sibling or refilled    *)
(* through its parent (_rebalance), one level at a time.                   *)
(*                                                                         *)
(* A key is a number, ordered as compare_keys() orders the record of the   *)
(* indexed values and the rowid; KeySize is the room its cell takes and    *)
(* Spilled the keys whose record has an overflow page as well.  The code's *)
(* cells take at most a quarter of a page (max_local_payload); nothing     *)
(* here relies on more than a half.  Page numbers are handed out lowest    *)
(* first.                                                                  *)
(***************************************************************************)
EXTENDS TreePages, FiniteSetsExt, TLC

CONSTANTS
    KeySize,    \* the room each key takes: [keys -> units]
    Spilled,    \* the keys that spill
    Room,       \* the room of a page
    MaxPages    \* bound on the pages of the file

Key == DOMAIN KeySize
PageId == 1 .. MaxPages
NoPage == 0

\* The page recorded in sqlite_schema, which never changes.
Root == 1

ASSUME IndexAssumption ==
    /\ Key \subseteq Nat
    /\ Spilled \subseteq Key
    /\ \A k \in Key : KeySize[k] > 0 /\ 2 * KeySize[k] <= Room
    /\ MaxPages >= 1

VARIABLES
    file,       \* PageId -> its content
    op,         \* the operation under way, between two of its levels
    entries,    \* ghost: the entries the callers put there
    torn        \* an exception came between two writes of one operation

vars == <<file, op, entries, torn>>

FreePage == [kind |-> "free", cells |-> <<>>, kids |-> <<>>]
Overflow(key) == [kind |-> "overflow", cells |-> <<key>>, kids |-> <<>>]
Idle == [kind |-> "idle", path |-> <<>>, level |-> 0,
         cell |-> [key |-> 0, size |-> 0, over |-> NoPage], left |-> NoPage, right |-> NoPage]

Init ==
    /\ file = [p \in PageId |-> IF p = Root THEN Leaf(<<>>) ELSE FreePage]
    /\ op = Idle
    /\ entries = {}
    /\ torn = FALSE

-----------------------------------------------------------------------------
(* Pages *)

FreePages == {p \in PageId : file[p].kind = "free"}

\* The n-th page that allocate_page() hands out from here.
Allocated(n) == CHOOSE p \in FreePages : Cardinality({q \in FreePages : q < p}) = n - 1

Spill(key) == IF key \in Spilled THEN 1 ELSE 0

\* The new entry's cell and, when it spills, its chain: the first page
\* allocated.
NewCell(key) ==
    [key |-> key, size |-> KeySize[key], over |-> IF key \in Spilled THEN Allocated(1) ELSE NoPage]

NewChain(key) ==
    IF key \in Spilled THEN Allocated(1) :> Overflow(key) ELSE [p \in {} |-> FreePage]

\* Unchained, mutated: a deleted entry's chain is not freed.
StillChained(cell) == [p \in {} |-> FreePage]

\* free_overflow_chain().
Unchained(cell) == [p \in {cell.over} \ {NoPage} |-> FreePage]

Written(changes) == [p \in PageId |-> IF p \in DOMAIN changes THEN changes[p] ELSE file[p]]

IsLeaf(p) == file[p].kind = "leaf"

-----------------------------------------------------------------------------
(* Descent *)

\* _find_leaf().
RECURSIVE PathFrom(_, _)
PathFrom(p, key) ==
    LET slot == LowerBound(file[p].cells, key) IN
    IF IsLeaf(p) THEN << <<p, slot>> >>
                 ELSE << <<p, slot>> >> \o PathFrom(file[p].kids[slot], key)

FindLeaf(key) == PathFrom(Root, key)

\* The cell that an element of a path stands at.
At(step) == file[step[1]].cells[step[2]]
Holds(step, key) == step[2] <= Len(file[step[1]].cells) /\ At(step).key = key

\* _locate(): the path as far as the page, interior or leaf, that holds the
\* key; <<>> when it is absent.
Locate(key) ==
    LET path == FindLeaf(key)
        at   == {i \in DOMAIN path : Holds(path[i], key)}
    IN IF at = {} THEN <<>> ELSE SubSeq(path, 1, Min(at))

\* _descend_leftmost().
RECURSIVE Leftmost(_)
Leftmost(p) == IF IsLeaf(p) THEN << <<p, 1>> >> ELSE << <<p, 1>> >> \o Leftmost(file[p].kids[1])

\* _descend_rightmost() and _rightmost_leaf_path().
RECURSIVE Rightmost(_)
Rightmost(p) ==
    IF IsLeaf(p) THEN << <<p, Len(file[p].cells)>> >>
                 ELSE << <<p, Len(file[p].kids)>> >> \o Rightmost(Last(file[p].kids))

-----------------------------------------------------------------------------
(* insert() *)

\* SplitOf, mutated: the separator is copied, as in a table.
SplitByCopy(key) ==
    LET path     == FindLeaf(key)
        combined == WithCell(file[Last(path)[1]].cells, Last(path)[2], NewCell(key))
        n        == LeftSize(combined, FALSE)
    IN [left  |-> SubSeq(combined, 1, n),
        right |-> SubSeq(combined, n + 1, Len(combined)),
        separator |-> combined[n]]

\* _split_leaf(): the separator leaves the left half for the parent.
SplitOf(key) ==
    LET path     == FindLeaf(key)
        body     == file[Last(path)[1]]
        slot     == Last(path)[2]
        combined == WithCell(body.cells, slot, NewCell(key))
        parent   == path[Len(path) - 1]
        rightmost == Len(path) = 1 \/ parent[2] = Len(file[parent[1]].kids)
        n        == LeftSize(combined, rightmost /\ slot = Len(body.cells) + 1)
    IN [left  |-> SubSeq(combined, 1, n - 1),
        right |-> SubSeq(combined, n + 1, Len(combined)),
        separator |-> combined[n]]

\* PageFullError, before anything is written.
CannotSplit(key) ==
    LET split == SplitOf(key) IN
    split.left = <<>> \/ Used(split.left) > Room \/ Used(split.right) > Room

NeedsSplit(key) == ~Fits(file[Last(FindLeaf(key))[1]], NewCell(key), Room)

\* MaxPages leaves a page for every level that may split, and one more.
CanInsert(key) ==
    /\ op = Idle
    /\ ~torn
    /\ key \notin entries
    /\ Cardinality(FreePages) >= Spill(key) + 1 + Len(FindLeaf(key))

Insert(key) ==
    /\ CanInsert(key)
    /\ ~NeedsSplit(key)
    /\ LET leaf == Last(FindLeaf(key)) IN
       file' = Written((leaf[1] :> Leaf(WithCell(file[leaf[1]].cells, leaf[2], NewCell(key))))
                           @@ NewChain(key))
    /\ entries' = entries \cup {key}
    /\ UNCHANGED <<op, torn>>

\* The whole index is one full leaf.
SplitRootLeaf(key) ==
    /\ CanInsert(key)
    /\ NeedsSplit(key)
    /\ ~CannotSplit(key)
    /\ Len(FindLeaf(key)) = 1
    /\ LET split == SplitOf(key)
           right == Allocated(Spill(key) + 1)
           left  == Allocated(Spill(key) + 2)
       IN file' = Written((Root :> Interior(<<split.separator>>, <<left, right>>))
                              @@ (left :> Leaf(split.left)) @@ (right :> Leaf(split.right))
                              @@ NewChain(key))
    /\ entries' = entries \cup {key}
    /\ UNCHANGED <<op, torn>>

SplitLeaf(key) ==
    /\ CanInsert(key)
    /\ NeedsSplit(key)
    /\ ~CannotSplit(key)
    /\ Len(FindLeaf(key)) > 1
    /\ LET path   == FindLeaf(key)
           leaf   == Last(path)[1]
           parent == path[Len(path) - 1]
           split  == SplitOf(key)
           right  == Allocated(Spill(key) + 1)
           halves == (leaf :> Leaf(split.left)) @@ (right :> Leaf(split.right)) @@ NewChain(key)
       IN IF Fits(file[parent[1]], split.separator, Room)
          THEN /\ file' = Written((parent[1] :> Promoted(file[parent[1]], parent[2], split.separator, leaf, right))
                                      @@ halves)
               /\ UNCHANGED op
          ELSE /\ file' = Written(halves)
               /\ op' = [kind |-> "promote", path |-> path, level |-> Len(path) - 1,
                         cell |-> split.separator, left |-> leaf, right |-> right]
    /\ entries' = entries \cup {key}
    /\ UNCHANGED torn

InsertFails(key) ==
    /\ CanInsert(key)
    /\ NeedsSplit(key) /\ CannotSplit(key)
    /\ UNCHANGED vars

\* The page at this level of the way up, and the slot the descent took there.
Here == op.path[op.level][1]
HereSlot == op.path[op.level][2]

\* The page with the promoted entry put in, whether or not it has the room.
Grown == Promoted(file[Here], HereSlot, op.cell, op.left, op.right)
AtTail == HereSlot = Len(file[Here].kids)

\* _promote_separator(): room here, ...
PromoteFits ==
    /\ op.kind = "promote"
    /\ Fits(file[Here], op.cell, Room)
    /\ file' = Written(Here :> Grown)
    /\ op' = Idle
    /\ UNCHANGED <<entries, torn>>

\* ... or the page splits too and its consumed divider goes on up, ...
PromoteSplits ==
    /\ op.kind = "promote"
    /\ ~Fits(file[Here], op.cell, Room)
    /\ op.level > 1
    /\ LET split == SplitInterior(Grown, AtTail)
           right == Allocated(1)
       IN /\ file' = Written((Here :> split.left) @@ (right :> split.right))
          /\ op' = [op EXCEPT !.level = @ - 1, !.cell = split.separator, !.left = Here, !.right = right]
    /\ UNCHANGED <<entries, torn>>

\* ... or it is the root, and the tree grows a level.
PromoteSplitsRoot ==
    /\ op.kind = "promote"
    /\ ~Fits(file[Here], op.cell, Room)
    /\ op.level = 1
    /\ LET split == SplitInterior(Grown, AtTail)
           right == Allocated(1)
           left  == Allocated(2)
       IN file' = Written((Root :> Interior(<<split.separator>>, <<left, right>>))
                              @@ (left :> split.left) @@ (right :> split.right))
    /\ op' = Idle
    /\ UNCHANGED <<entries, torn>>

-----------------------------------------------------------------------------
(* delete() *)

CanDelete(key) == op = Idle /\ ~torn /\ Locate(key) # <<>>

\* _collapse_empty_leaf(), when the leaf at the end of the path has no cell left.
Collapse(path, cells) ==
    op' = IF cells = <<>> THEN [Idle EXCEPT !.kind = "rebalance", !.path = path, !.level = Len(path)]
                          ELSE Idle

DeleteFromLeaf(key) ==
    /\ CanDelete(key)
    /\ LET path  == Locate(key)
           leaf  == Last(path)
           cells == WithoutCell(file[leaf[1]].cells, leaf[2])
       IN /\ IsLeaf(leaf[1])
          /\ file' = Written((leaf[1] :> Leaf(cells)) @@ Unchained(At(leaf)))
          /\ Collapse(path, cells)
    /\ entries' = entries \ {key}
    /\ UNCHANGED torn

\* The path on from a divider to the leaf whose last cell is its predecessor.
PredecessorPath(path) == path \o Rightmost(file[Last(path)[1]].kids[Last(path)[2]])

\* An interior page's cells with the divider's payload replaced.
Redivided(path) == [file[Last(path)[1]].cells EXCEPT ![Last(path)[2]] = At(Last(PredecessorPath(path)))]

\* _replace_divider_with_predecessor(): the predecessor moves up, chain and
\* all, and its leaf may be left empty.
DeleteDivider(key) ==
    /\ CanDelete(key)
    /\ LET path  == Locate(key)
           page  == Last(path)[1]
           donor == PredecessorPath(path)
           leaf  == Last(donor)
           cells == WithoutCell(file[leaf[1]].cells, leaf[2])
       IN /\ ~IsLeaf(page)
          /\ Used(Redivided(path)) <= Room
          /\ file' = Written((page :> Interior(Redivided(path), file[page].kids))
                                 @@ (leaf[1] :> Leaf(cells)) @@ Unchained(At(Last(path))))
          /\ Collapse(donor, cells)
    /\ entries' = entries \ {key}
    /\ UNCHANGED torn

\* The predecessor's key is longer and the page has no room: PageFullError
\* before anything is written.
DeleteDividerFails(key) ==
    /\ CanDelete(key)
    /\ ~IsLeaf(Last(Locate(key))[1])
    /\ Used(Redivided(Locate(key))) > Room
    /\ UNCHANGED vars

-----------------------------------------------------------------------------
(* _rebalance(): the page at op.level has no cells *)

\* Its parent, and the sibling and the divider between them: the sibling to
\* the right, except for the last child.
Parent == op.path[op.level - 1][1]
Prepend == op.path[op.level - 1][2] <= Len(file[Parent].cells)
DonorSlot == IF Prepend THEN op.path[op.level - 1][2] ELSE Len(file[Parent].cells)
Divider == file[Parent].cells[DonorSlot]
SiblingId == file[Parent].kids[IF Prepend THEN DonorSlot + 1 ELSE DonorSlot]
Sibling == file[SiblingId]

\* The children that an emptied interior page still has: its right_child.
Orphans == file[Here].kids

\* CanRotate, mutated: the last entry may be borrowed too.
CanBorrowLast == Len(Sibling.cells) >= 1

\* A sibling that can spare an entry.
CanRotate == Len(Sibling.cells) >= 2

\* A merge would leave the parent without cells, and it is not the root.
PreferRotation == Len(file[Parent].cells) = 1 /\ Parent # Root

Merges == Fits(Sibling, Divider, Room) /\ ~(PreferRotation /\ CanRotate)

\* The divider descends into the sibling, which adopts the orphan.
Merge ==
    /\ op.kind = "rebalance" /\ op.level > 1
    /\ Merges
    /\ LET merged == [Sibling EXCEPT !.cells = IF Prepend THEN <<Divider>> \o @ ELSE Append(@, Divider),
                                     !.kids = IF Prepend THEN Orphans \o @ ELSE @ \o Orphans]
           parent == Interior(WithoutCell(file[Parent].cells, DonorSlot),
                              SelectSeq(file[Parent].kids, LAMBDA p : p # Here))
       IN /\ file' = Written((SiblingId :> merged) @@ (Parent :> parent) @@ (Here :> FreePage))
          /\ op' = IF parent.cells = <<>> THEN [op EXCEPT !.level = @ - 1] ELSE Idle
    /\ UNCHANGED <<entries, torn>>

\* The divider descends into the empty page, and the sibling's nearest entry
\* takes its place.  The sibling and the page are written first; that the
\* parent has room for the new divider is found out when it is written.
Rotate ==
    /\ op.kind = "rebalance" /\ op.level > 1
    /\ ~Merges /\ CanRotate
    /\ LET borrow  == IF Prepend THEN 1 ELSE Len(Sibling.cells)
           adopted == IF IsLeaf(Here) THEN <<>>
                      ELSE IF Prepend THEN <<Sibling.kids[1]>> ELSE <<Last(Sibling.kids)>>
           sibling == [Sibling EXCEPT !.cells = WithoutCell(@, borrow),
                                      !.kids = SelectSeq(@, LAMBDA p : p \notin ToSet(adopted))]
           refilled == [file[Here] EXCEPT !.cells = <<Divider>>,
                                          !.kids = IF Prepend THEN @ \o adopted ELSE adopted \o @]
           parent  == [file[Parent] EXCEPT !.cells[DonorSlot] = Sibling.cells[borrow]]
           fits    == Used(parent.cells) <= Room
       IN /\ file' = Written((SiblingId :> sibling) @@ (Here :> refilled)
                                 @@ (Parent :> IF fits THEN parent ELSE file[Parent]))
          /\ torn' = ~fits
    /\ op' = Idle
    /\ UNCHANGED entries

\* The root has run out of cells: of an empty index it is a leaf, and otherwise
\* its only child is pulled up into it.
PullUpIntoRoot ==
    /\ op.kind = "rebalance" /\ op.level = 1
    /\ file' = IF IsLeaf(Root) \/ Orphans = <<>> THEN file
               ELSE Written((Root :> file[Orphans[1]]) @@ (Orphans[1] :> FreePage))
    /\ op' = Idle
    /\ UNCHANGED <<entries, torn>>

-----------------------------------------------------------------------------
(* The walks: every entry from a path's position to one end of the tree *)

\* An overflow page of another key makes the entry unreadable.
KeyOf(cell) == IF cell.over # NoPage /\ file[cell.over] # Overflow(cell.key) THEN NoPage ELSE cell.key

KeysOf(cells) == [i \in Slots(cells) |-> KeyOf(cells[i])]

\* _scan_forward(): a leaf's entries, and on the way up out of a subtree the
\* divider after it.
RECURSIVE ScanForward(_), AscendForward(_)
ScanForward(path) ==
    LET leaf == Last(path) IN
    KeysOf(SubSeq(file[leaf[1]].cells, leaf[2], Len(file[leaf[1]].cells))) \o AscendForward(Front(path))
AscendForward(path) ==
    IF path = <<>> THEN <<>>
    ELSE LET p == Last(path)[1]  slot == Last(path)[2] IN
         IF slot <= Len(file[p].cells)
         THEN <<KeyOf(file[p].cells[slot])>>
                  \o ScanForward(Front(path) \o << <<p, slot + 1>> >> \o Leftmost(file[p].kids[slot + 1]))
         ELSE AscendForward(Front(path))

\* _scan_backward(), its mirror image.
RECURSIVE ScanBackward(_), AscendBackward(_)
ScanBackward(path) ==
    LET leaf == Last(path) IN
    Reverse(KeysOf(SubSeq(file[leaf[1]].cells, 1, leaf[2]))) \o AscendBackward(Front(path))
AscendBackward(path) ==
    IF path = <<>> THEN <<>>
    ELSE LET p == Last(path)[1]  slot == Last(path)[2] IN
         IF slot > 1
         THEN <<KeyOf(file[p].cells[slot - 1])>>
                  \o ScanBackward(Front(path) \o << <<p, slot - 1>> >> \o Rightmost(file[p].kids[slot - 1]))
         ELSE AscendBackward(Front(path))

\* scan(), scan_reverse() and the walk of seek_eq() and seek_range() from a
\* probe.
Scan == ScanForward(Leftmost(Root))
ScanReverse == ScanBackward(Rightmost(Root))
SeekFrom(probe) == ScanForward(FindLeaf(probe))

-----------------------------------------------------------------------------
\* The exception ends the statement; what becomes of the pages is its
\* transaction's (Mutation, JournalCommit).
StatementFailed == torn /\ UNCHANGED vars

Next ==
    \/ \E key \in Key :
          \/ Insert(key) \/ SplitRootLeaf(key) \/ SplitLeaf(key) \/ InsertFails(key)
          \/ DeleteFromLeaf(key) \/ DeleteDivider(key) \/ DeleteDividerFails(key)
    \/ PromoteFits \/ PromoteSplits \/ PromoteSplitsRoot
    \/ Merge \/ Rotate \/ PullUpIntoRoot
    \/ StatementFailed

Spec == Init /\ [][Next]_vars

-----------------------------------------------------------------------------
(* Properties *)

\* The types of the state; in particular no page, whatever was promoted, merged
\* or rotated into it, holds more than its room.
TypeOK ==
    /\ \A p \in PageId :
          /\ file[p].kind \in {"free", "leaf", "interior", "overflow"}
          /\ file[p].kind \in {"leaf", "interior"} =>
                /\ \A i \in DOMAIN file[p].cells :
                      /\ file[p].cells[i].key \in Key
                      /\ file[p].cells[i].over \in PageId \cup {NoPage}
                /\ Used(file[p].cells) <= Room
          /\ file[p].kids \in Seq(PageId)
    /\ op.kind \in {"idle", "promote", "rebalance"}
    /\ entries \subseteq Key
    /\ torn \in BOOLEAN

\* The entries from a probe up, in key order.
EntriesFrom(probe) ==
    [i \in 1 .. Cardinality({k \in entries : k >= probe}) |->
        CHOOSE k \in entries :
            k >= probe /\ Cardinality({q \in entries : probe <= q /\ q < k}) = i - 1]

\* Whatever splits, promotions, merges and rotations made the tree what it is,
\* a scan returns every entry once and in order, dividers included; a reverse
\* scan the same the other way round; a seek from any probe exactly the entries
\* from there on; and delete() finds exactly the entries that are there.  (UNIQUE
\* checks, index scans and sort avoidance all rest on this.)
EntriesReadInOrder ==
    op = Idle /\ ~torn =>
        /\ Scan = EntriesFrom(0)
        /\ ScanReverse = Reverse(EntriesFrom(0))
        /\ \A k \in Key :
              /\ SeekFrom(k) = EntriesFrom(k)
              /\ Locate(k) # <<>> <=> k \in entries

\* Every pointer of the file: the page it is on, its place there, and the page
\* it leads to.
Pointers ==
    UNION {{<<p, i, file[p].kids[i]>> : i \in DOMAIN file[p].kids} : p \in PageId}
        \cup UNION {{<<p, -i, file[p].cells[i].over>> : i \in DOMAIN file[p].cells} :
                        p \in {q \in PageId : file[q].kind \in {"leaf", "interior"}}}
        \cup {<<NoPage, 0, Root>>}
        \cup (IF op.kind = "promote" THEN {<<NoPage, 1, op.right>>, <<NoPage, 2, op.cell.over>>} ELSE {})

\* At every level of a promotion or a rebalancing a page in use has exactly one
\* owner and a free page none.  An entry's overflow chain travels with it, from
\* leaf to divider and back: the moves never leave it with two owners, which a
\* later delete would free under the other, nor with none.
PagesHaveOneOwner ==
    LET pointers == Pointers IN
    ~torn => \A p \in PageId :
                Cardinality({t \in pointers : t[3] = p}) = IF file[p].kind = "free" THEN 0 ELSE 1

RECURSIVE Depths(_)
Depths(p) == IF IsLeaf(p) THEN {1} ELSE {d + 1 : d \in UNION {Depths(file[p].kids[i]) : i \in DOMAIN file[p].kids}}

\* _rebalance()'s "THE invariant: no page in the tree may have zero cells. Not
\* a leaf, not an interior page", but for the root of an empty index; and all
\* leaves are at one depth.  So a divider always has a predecessor to put in
\* its place (BTreeInvariantError is never raised).
NoPageWithoutCells ==
    op = Idle =>
        /\ \A p \in PageId : file[p].kind \in {"leaf", "interior"} /\ file[p].cells = <<>> =>
              p = Root /\ IsLeaf(Root)
        /\ Cardinality(Depths(Root)) = 1

\* delete() either removes the entry or leaves the index as it was: "Check the
\* swap fits BEFORE anything is mutated ... would mean a half-applied delete".
DeleteNeverTears == ~torn

=============================================================================
