------------------------------ MODULE TableCursor ------------------------------
(***************************************************************************)
(* The cursor over a table b-tree: btree/cursor.py.  It has no state of    *)
(* its own between two calls but a path, whose last page is a leaf; <<>>   *)
(* when it is unpositioned.                                                *)
(***************************************************************************)
EXTENDS BTree

\* _descend_to_leaf().  An empty leaf is not put on the path.
RECURSIVE DescendToLeaf(_, _)
DescendToLeaf(p, rightmost) ==
    LET slot == IF rightmost THEN Len(IF IsLeaf(p) THEN file[p].cells ELSE file[p].kids) ELSE 1 IN
    IF IsLeaf(p)
    THEN IF file[p].cells = <<>> THEN <<>> ELSE << <<p, slot>> >>
    ELSE << <<p, slot>> >> \o DescendToLeaf(file[p].kids[slot], rightmost)

\* _advance() and _retreat(): up to a page with a further child that way, and
\* down from there to its nearest row.
RECURSIVE Turn(_, _)
Turn(path, step) ==
    IF path = <<>> THEN <<>>
    ELSE LET p    == Last(path)[1]
             slot == Last(path)[2] + step
         IN IF ~IsLeaf(p) /\ slot \in DOMAIN file[p].kids
            THEN Front(path) \o << <<p, slot>> >> \o DescendToLeaf(file[p].kids[slot], step < 0)
            ELSE Turn(Front(path), step)

\* next() and prev().
Move(path, step) ==
    LET leaf == Last(path)[1]
        slot == Last(path)[2] + step
    IN IF slot \in DOMAIN file[leaf].cells
       THEN Front(path) \o << <<leaf, slot>> >>
       ELSE Turn(path, step)

\* The rows that a scan from here returns.
RECURSIVE Scan(_, _)
Scan(path, step) ==
    IF path = <<>> THEN <<>> ELSE <<RowAt(path)>> \o Scan(Move(path, step), step)

\* seek(): the first row not below the rowid.
Seek(rowid) ==
    LET path == FindLeaf(rowid)
        leaf == Last(path)
    IN IF leaf[2] <= Len(file[leaf[1]].cells) THEN path ELSE Turn(Front(path), 1)

-----------------------------------------------------------------------------
(* Properties *)

\* The rows from `low` up, in order of rowid.
RowsFrom(low) ==
    [i \in 1 .. Cardinality({r \in DOMAIN rows : r >= low}) |->
        LET r == CHOOSE r \in DOMAIN rows :
                    r >= low /\ Cardinality({q \in DOMAIN rows : low <= q /\ q < r}) = i - 1
        IN [rowid |-> r, payload |-> rows[r]]]

\* Whatever splits and deletions made the tree what it is, a rowid is found from
\* the root exactly when the row is there, and a cursor that starts at first()
\* or at any seek() and calls next() meets exactly the rows that are there from
\* that point, in order and whole, and last() and prev() meet them all the other
\* way round.  (A separator one off, a subtree dropped by a split or an empty
\* leaf left linked would lose a row, or repeat one, for some of them.)
CursorReadsRows ==
    /\ LookupReadsRow
    /\ op = Idle =>
          /\ Scan(DescendToLeaf(Root, FALSE), 1) = RowsFrom(0)
          /\ Scan(DescendToLeaf(Root, TRUE), -1) = Reverse(RowsFrom(0))
          /\ \A r \in Rowid : Scan(Seek(r), 1) = RowsFrom(r)

=============================================================================
