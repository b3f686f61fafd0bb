------------------------------- MODULE TreePages -------------------------------
(***************************************************************************)
(* What the table b-tree (btree/btree.py) and the index b-tree             *)
(* (btree/index.py) share: a page and its room (storage/page.py), the      *)
(* search inside one page (btree/search.py) and the decisions of a split   *)
(* (btree/split.py).  All of it is pure; nothing here has state.           *)
(*                                                                         *)
(* A page is its cells in slot order and its children from left to right:  *)
(* each cell's child and then right_child, one more than the cells.  A     *)
(* cell is a record with at least its `key` and its `size`, in units of    *)
(* page room that stand for the bytes of the cell and its slot pointer.    *)
(* Slots are counted from 1.                                               *)
(***************************************************************************)
EXTENDS Integers, Sequences, SequencesExt, FiniteSets

\* Every child of an interior page has a cell but the last; a leaf has none.
Leaf(cells) == [kind |-> "leaf", cells |-> cells, kids |-> <<>>]
Interior(cells, kids) == [kind |-> "interior", cells |-> cells, kids |-> kids]

Slots(cells) == 1 .. Len(cells)

\* used_bytes(), past the page's own header.
Used(cells) ==
    LET sum[n \in 0 .. Len(cells)] == IF n = 0 THEN 0 ELSE sum[n - 1] + cells[n].size
    IN  sum[Len(cells)]

\* Fits, mutated: the slot pointer is forgotten.
FitsWithoutPointer(page, cell, capacity) == Used(page.cells) + cell.size <= capacity + 1

\* PageBody.fits().
Fits(page, cell, capacity) == Used(page.cells) + cell.size <= capacity

\* PageBody.insert_cell() and delete_cell().
WithCell(cells, slot, cell) == InsertAt(cells, slot, cell)
WithoutCell(cells, slot) == RemoveAt(cells, slot)

-----------------------------------------------------------------------------
(* search.py *)

\* leaf_slot_lower_bound() and interior_slot_for_key(): the leftmost slot
\* whose key is not below `key`, so that a key equal to a separator goes left.
LowerBound(cells, key) ==
    IF \E i \in Slots(cells) : key <= cells[i].key
    THEN CHOOSE i \in Slots(cells) :
            /\ key <= cells[i].key
            /\ \A j \in 1 .. i - 1 : cells[j].key < key
    ELSE Len(cells) + 1

\* The pages visited from p on, by a loop that ends at the first page that
\* `next` leads nowhere from.
Follow(next, p) ==
    LET from[q \in DOMAIN next] ==
            IF next[q] \in DOMAIN next THEN <<q>> \o from[next[q]] ELSE <<q>>
    IN  from[p]

\* The way down from `root` to a leaf, taking at each page p the slot slots[p]:
\* the pages visited, each with its slot.
Descent(file, root, slots) ==
    LET child == [p \in DOMAIN file |->
                     IF file[p].kind = "interior" THEN file[p].kids[slots[p]] ELSE 0]
        pages == Follow(child, root)
    IN  [n \in 1 .. Len(pages) |-> <<pages[n], slots[pages[n]]>>]

\* The n-th page that allocate_page() hands out when these are free.
NthSmallest(pages, n) ==
    CHOOSE p \in pages : Cardinality({q \in pages : q < p}) = n - 1

-----------------------------------------------------------------------------
(* split.py *)

Distance(a, b) == IF a < b THEN b - a ELSE a - b

\* The largest of the candidates at which f is smallest: the loops keep the
\* later of two equal ones.
LastMinimum(f) ==
    CHOOSE i \in DOMAIN f : \A j \in DOMAIN f : f[i] < f[j] \/ (f[i] = f[j] /\ j <= i)

UsedUpTo(cells, n) == Used(SubSeq(cells, 1, n))

\* ClosestToHalf, mutated: half of the cells, whatever they take.
HalfByCount(cells) == (Len(cells) + 1) \div 2

\* _closest_to_half_by_bytes().
ClosestToHalf(cells) ==
    LastMinimum([n \in 1 .. Len(cells) - 1 |-> Distance(2 * UsedUpTo(cells, n), Used(cells))])

\* split_cells(): how many of the cells stay on the left.
LeftSize(cells, append) == IF append THEN Len(cells) - 1 ELSE ClosestToHalf(cells)

\* _consume_closest_to_half_by_bytes().
ConsumeClosestToHalf(cells) ==
    LastMinimum([m \in Slots(cells) |->
                    Distance(UsedUpTo(cells, m - 1) + UsedUpTo(cells, m), Used(cells))])

\* split_interior_cells(): the cell consumed, never the first or the last, so
\* that neither half is left without one.
ConsumedSlot(cells, append) ==
    IF append
    THEN Len(cells) - 1
    ELSE LET best == ConsumeClosestToHalf(cells) IN
         IF best < 2 THEN 2 ELSE IF best > Len(cells) - 1 THEN Len(cells) - 1 ELSE best

\* ... which leaves the left half its child as right_child.
SplitInterior(page, append) ==
    LET m == ConsumedSlot(page.cells, append) IN
    [left  |-> Interior(SubSeq(page.cells, 1, m - 1), SubSeq(page.kids, 1, m)),
     right |-> Interior(SubSeq(page.cells, m + 1, Len(page.cells)),
                        SubSeq(page.kids, m + 1, Len(page.kids))),
     separator |-> page.cells[m]]

\* The insert-or-swap of a promotion: the cell goes in at `slot`, whose child
\* becomes `left`, and `right` is the child after it.
Promoted(page, slot, separator, left, right) ==
    Interior(WithCell(page.cells, slot, separator),
             SubSeq(page.kids, 1, slot - 1) \o <<left, right>>
                 \o SubSeq(page.kids, slot + 1, Len(page.kids)))

=============================================================================
