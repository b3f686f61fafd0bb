------------------------------ MODULE AccessPaths ------------------------------
(***************************************************************************)
(* The planner's decisions, without its costs: plan/predicates.py decides  *)
(* which conjuncts an index could seek on, plan/planner.py which of them   *)
(* an index consumes, exec/operators.py turns those into a probe of the    *)
(* index b-tree.  Costs only choose between candidates, so what matters    *)
(* here is the set of candidates.                                          *)
(*                                                                         *)
(* An operand is a pair <<t, x>>: column x of the t-th table of the FROM   *)
(* clause (BoundColumn with its table_ordinal), or, with t = 0, the        *)
(* literal x.  A value is a number; Null is 0, so that compare_keys' order *)
(* (NULL below every other value) is the order of the numbers.  LIKE 'p%'  *)
(* matches a block of neighbouring keys, p and p + 1.                      *)
(***************************************************************************)
EXTENDS Integers, Sequences, SequencesExt

Null == 0
Col(t, c) == <<t, c>>
Lit(v) == <<0, v>>

Equalities == {"=", "IS"}
LowerBounds == {">", ">="}
UpperBounds == {"<", "<="}

-----------------------------------------------------------------------------
(* Sargability *)

\* _FLIPPED: `5 > a` means `a < 5`.
Flipped(operator) ==
    CASE operator = "<" -> ">" [] operator = "<=" -> ">="
      [] operator = ">" -> "<" [] operator = ">=" -> "<=" [] OTHER -> operator

\* referenced_tables()
TablesOf(c) == {c.left[1], c.right[1]} \ {0}

\* classify_predicate(): the conjunct as `column operator value` of table t,
\* in a sequence of one, or the empty sequence if no index of t could seek
\* on it.  `source` is the position of the conjunct it came from.
Classify(c, t, source) ==
    LET as(column, operator, value) ==
            <<[column |-> column, operator |-> operator, value |-> value, source |-> source]>>
    IN  CASE c.operator \in {"IS", "LIKE"} ->
                 IF c.left[1] = t THEN as(c.left[2], c.operator, c.right) ELSE <<>>
          [] c.operator \in {"="} \cup LowerBounds \cup UpperBounds ->
                 IF c.left[1] = t /\ c.right[1] # t THEN as(c.left[2], c.operator, c.right)
                 ELSE IF c.right[1] = t /\ c.left[1] # t
                 THEN as(c.right[2], Flipped(c.operator), c.left) ELSE <<>>
          [] OTHER -> <<>>

-----------------------------------------------------------------------------
(* Which predicates an index consumes *)

OnColumn(preds, column) == SelectSeq(preds, LAMBDA p : p.column = column)

EqualitiesOn(preds, column) ==
    SelectSeq(preds, LAMBDA p : p.column = column /\ p.operator \in Equalities)

InequalitiesOn(preds, column) ==
    SelectSeq(preds, LAMBDA p : p.column = column /\ p.operator \notin Equalities)

\* The walk over the index's columns reaches the k-th one: no gap before it,
\* and no inequality.
WalkReaches(preds, index, k) ==
    \A j \in 1 .. k - 1 :
        OnColumn(preds, index[j]) # <<>> /\ InequalitiesOn(preds, index[j]) = <<>>

\* What one column gives to the seek: its equalities and a sandwich of at
\* most two inequalities.
ConsumedOn(preds, column) ==
    LET bounds == InequalitiesOn(preds, column) IN
    EqualitiesOn(preds, column) \o SubSeq(bounds, 1, IF Len(bounds) < 2 THEN Len(bounds) ELSE 2)

\* _match_index_prefix(): the seek terms in index-column order.
SeekTerms(preds, index) ==
    FlattenSeq([k \in 1 .. Len(index) |->
        IF WalkReaches(preds, index, k) THEN ConsumedOn(preds, index[k]) ELSE <<>>])

Sources(preds) == {preds[i].source : i \in 1 .. Len(preds)}

\* AccessPath; `residual` names the conjuncts the path leaves to a Filter,
\* `order` is its output_order.
SeqScanPath(preds) ==
    [index |-> <<>>, terms |-> <<>>, residual |-> Sources(preds), order |-> <<>>, reverse |-> FALSE]

SeekPath(preds, index) ==
    [index |-> index, terms |-> SeekTerms(preds, index),
     residual |-> Sources(preds) \ Sources(SeekTerms(preds, index)), order |-> <<>>, reverse |-> FALSE]

\* _index_order_path(): the whole index, forwards or backwards.
IndexOrderPath(preds, index, reverse, t) ==
    [index |-> index, terms |-> <<>>, residual |-> Sources(preds),
     order |-> [k \in 1 .. Len(index) |-> <<Col(t, index[k]), reverse>>], reverse |-> reverse]

\* enumerate_access_paths(): for table t with these indexes
EnumerateAccessPaths(indexes, preds, t) ==
    {SeqScanPath(preds)}
        \cup {SeekPath(preds, ix) : ix \in {ix \in indexes : SeekTerms(preds, ix) # <<>>}}
        \cup {IndexOrderPath(preds, ix, reverse, t) :
                 ix \in {ix \in indexes : SeekTerms(preds, ix) = <<>>}, reverse \in BOOLEAN}

\* access_path_shape(), what the plan cache keeps of a path
PlanShape(p) == [index |-> p.index, reverse |-> p.reverse]

\* rebuild_access_path(): the same split, against this call's own values
Rebuild(shape, preds, t) ==
    IF shape.index = <<>> THEN SeqScanPath(preds)
    ELSE IF SeekTerms(preds, shape.index) # <<>> THEN SeekPath(preds, shape.index)
    ELSE IndexOrderPath(preds, shape.index, shape.reverse, t)

\* Mutant: the direction of the keys is not compared.
SkipSortEitherWay(order, keys) ==
    /\ Len(order) >= Len(keys)
    /\ \A k \in 1 .. Len(keys) : order[k][1] = keys[k][1]

\* sort_cost() = 0.0: the ORDER BY is a prefix of the path's own order.
SkipSort(order, keys) == Len(order) >= Len(keys) /\ SubSeq(order, 1, Len(keys)) = keys

-----------------------------------------------------------------------------
(* From seek terms to index entries *)

\* compare_keys(): the shorter key decides how many columns are compared.
CompareKeys(a, b) ==
    LET n == IF Len(a) < Len(b) THEN Len(a) ELSE Len(b)
        differ == {i \in 1 .. n : a[i] # b[i]}
        first == CHOOSE i \in differ : \A j \in differ : i <= j
    IN IF differ = {} THEN 0 ELSE IF a[first] < b[first] THEN -1 ELSE 1

Largest(S) == CHOOSE x \in S : \A y \in S : y <= x
Smallest(S) == CHOOSE x \in S : \A y \in S : x <= y

\* Mutant: the last lower bound wins, not the tightest.
LastLowBound(terms) ==
    LET lows == {i \in 1 .. Len(terms) : terms[i].operator \in LowerBounds}
    IN IF lows = {} THEN <<>> ELSE <<terms[Largest(lows)].value>>

\* The tightest lower bound among the terms, whose values are evaluated by
\* now, and likewise the upper one; <<>> when there is none.
LowBound(terms) ==
    LET lows == {i \in 1 .. Len(terms) : terms[i].operator \in LowerBounds}
    IN IF lows = {} THEN <<>> ELSE <<Largest({terms[i].value : i \in lows})>>

HighBound(terms) ==
    LET highs == {i \in 1 .. Len(terms) : terms[i].operator \in UpperBounds}
    IN IF highs = {} THEN <<>> ELSE <<Smallest({terms[i].value : i \in highs})>>

\* A strict inequality at the tightest bound excludes it, wherever it stands.
Inclusive(terms, bound, strict) ==
    ~ \E i \in 1 .. Len(terms) : <<terms[i].value>> = bound /\ terms[i].operator = strict

\* IndexScan.open(): an unsatisfiable NULL bound, a point, or a range.
Probe(terms) ==
    LET prefix == SelectSeq(terms, LAMBDA t : t.operator \in Equalities)
        values == [k \in 1 .. Len(prefix) |-> prefix[k].value]
        low == LowBound(terms)
        high == HighBound(terms)
    IN  CASE \E i \in 1 .. Len(terms) : terms[i].value = Null /\ terms[i].operator # "IS" ->
                 [kind |-> "none", low |-> <<>>, high |-> <<>>, lowIn |-> TRUE, highIn |-> TRUE]
          [] Len(prefix) = Len(terms) ->
                 [kind |-> "point", low |-> values, high |-> values, lowIn |-> TRUE, highIn |-> TRUE]
          [] OTHER ->
                 [kind |-> "range", low |-> values \o low, high |-> values \o high,
                  lowIn |-> Inclusive(terms, low, ">"), highIn |-> Inclusive(terms, high, "<")]

\* seek_range() passes over an entry equal to an exclusive low probe ...
BelowRange(probe, e) == ~ probe.lowIn /\ CompareKeys(probe.low, e) = 0

\* ... and stops at the first one past the high probe; seek_eq() stops at
\* the first one that differs from the probe.  An empty probe stops nothing.
PastRange(probe, e) ==
    LET c == CompareKeys(probe.high, e) IN
    c < 0 \/ (c = 0 /\ ~ probe.highIn)
=============================================================================
