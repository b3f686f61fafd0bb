----------------------------- MODULE MCIndexTree -----------------------------
(* Instances of IndexTree for TLC. *)
EXTENDS IndexTree

\* Short and long keys by turns, on pages with room for two of the long ones.
MCKeySize == [k \in 1 .. 11 |-> IF k \in {3, 7} THEN 1 ELSE 2]

\* A subtree, without its page numbers.
RECURSIVE Shape(_)
Shape(p) ==
    [cells |-> [i \in Slots(file[p].cells) |-> <<file[p].cells[i].key, file[p].cells[i].over # NoPage>>],
     kids  |-> [i \in DOMAIN file[p].kids |-> Shape(file[p].kids[i])]]

\* States that differ in page numbers only are one: a step asks of a number no
\* more than which page it names.
View == <<Shape(Root), Cardinality(FreePages), entries, torn,
          op.kind, op.level, op.cell.key, [i \in DOMAIN op.path |-> op.path[i][2]],
          IF op.kind = "promote" THEN Shape(op.right) ELSE <<>> >>
=============================================================================
