------------------------------- MODULE MCBTree -------------------------------
(* An instance of BTree for TLC. *)
EXTENDS TableCursor

\* A row that leaves room beside it, and one that fills a leaf and spills.
MCPayload == {[size |-> 1, spill |-> 0], [size |-> 2, spill |-> 2]}

\* A subtree, without its page numbers.
RECURSIVE Shape(_)
Shape(p) ==
    [cells |-> [i \in Slots(file[p].cells) |->
                   <<file[p].cells[i].key, file[p].cells[i].size, Len(ChainFrom(file[p].cells[i].over))>>],
     kids  |-> [i \in DOMAIN file[p].kids |-> Shape(file[p].kids[i])]]

\* States that differ in page numbers only are one: a step asks of a number no
\* more than which page it names.
View == <<Shape(Root), Cardinality(FreePages), rows, removed,
          op.kind, op.level, op.separator, [i \in DOMAIN op.path |-> op.path[i][2]],
          IF op.kind = "promote" THEN Shape(op.right) ELSE <<>> >>
=============================================================================
