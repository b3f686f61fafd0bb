--------------------------------- MODULE Select ---------------------------------
(***************************************************************************)
(* One SELECT, over one table or a chain of joins: from its conjuncts to   *)
(* the rows it returns, through whichever join order and access paths the  *)
(* planner picks.                                                          *)
(*                                                                         *)
(* plan/search.py hands every conjunct to one step of a left-deep join     *)
(* order, exec/operators.py builds a scan per table, a NestedLoopJoin      *)
(* (exec/join.py) that re-opens its inner scan for every outer row, and    *)
(* Project, Distinct, Sort and Limit on top.  A SELECT of one table is a   *)
(* chain of one step whose plan may also come from the plan cache.  Costs  *)
(* only choose between candidates, so the choice is nondeterministic:      *)
(* every candidate has to give the rows the statement asks for.            *)
(*                                                                         *)
(* The index b-tree is its set of entries, read in key order.              *)
(***************************************************************************)
EXTENDS AccessPaths, FiniteSetsExt

CONSTANTS
    Tables,     \* the tables: a sequence of [width, rows, indexes], a row a
                \* sequence of values, an index a sequence of columns
    Statements  \* the SELECT statements: see IsStatement

\* A bound SELECT.  `from` lists tables, and a table's ordinal is its
\* position there; `types` says how each is joined to those before it;
\* `conjuncts` are those of WHERE (on = 0), then of each ON clause (on = the
\* ordinal it joins), as enumerate_join_plans() pools them.
IsStatement(s) ==
    /\ Len(s.from) = Len(s.types) /\ Len(s.from) > 0 /\ s.types[1] = "INNER"
    /\ \A t \in 1 .. Len(s.from) : s.from[t] \in 1 .. Len(Tables) /\ s.types[t] \in {"INNER", "LEFT"}
    /\ \A i, j \in 1 .. Len(s.conjuncts) : i < j => s.conjuncts[i].on <= s.conjuncts[j].on
    \* the binder refuses DISTINCT over a join
    /\ s.distinct => Len(s.from) = 1
    /\ s.limit \in Nat \cup {-1} /\ s.offset \in Nat

ASSUME TablesAssumption ==
    \A i \in 1 .. Len(Tables) :
        /\ \A r \in 1 .. Len(Tables[i].rows) : Tables[i].rows[r] \in [1 .. Tables[i].width -> Nat]
        /\ \A ix \in Tables[i].indexes : ix # <<>> /\ Range(ix) \subseteq 1 .. Tables[i].width
ASSUME StatementsAssumption == \A s \in Statements : IsStatement(s)

VARIABLES
    stmt,       \* the statement
    plan,       \* the PlanCandidate: [order, offsets, residual, steps], a step
                \* being [path, own, match]
    levels,     \* the scans that are open, driving table first:
                \* [left, probe, row, matched]
    out,        \* the rows Project has delivered: [shown, keys]
    pc

vars == <<stmt, plan, levels, out, pc>>

-----------------------------------------------------------------------------
(* Rows and expressions *)

Ordinals(s) == 1 .. Len(s.from)
Table(s, t) == Tables[s.from[t]]

\* Where each table's columns start in the row a join order assembles.
Offsets(s, order) ==
    [t \in Range(order) |->
        MapThenSumSet(LAMBDA k : Table(s, order[k]).width,
                      {k \in 1 .. Len(order) : \A j \in 1 .. k : order[j] # t})]

\* resolve_layout(), then evaluate(): an operand's value in an assembled row.
Value(offsets, operand, row) ==
    IF operand[1] = 0 THEN operand[2] ELSE row[offsets[operand[1]] + operand[2]]

\* evaluate() and where_passes(): a comparison with NULL is not true.
Passes(v, operator, w) ==
    CASE operator = "IS"   -> v = w
      [] operator = "LIKE" -> v \in w .. w + 1
      [] OTHER ->
           /\ v # Null /\ w # Null
           /\ CASE operator = "="  -> v = w [] operator = "!=" -> v # w
                [] operator = "<"  -> v < w [] operator = "<=" -> v <= w
                [] operator = ">"  -> v > w [] operator = ">=" -> v >= w

\* The conjuncts at positions C hold of a row.
Hold(s, offsets, C, row) ==
    \A i \in C : LET c == s.conjuncts[i] IN
        Passes(Value(offsets, c.left, row), c.operator, Value(offsets, c.right, row))

\* Project: the select list, and the ORDER BY keys beside it.
Projected(s, offsets, row) ==
    [shown |-> [i \in 1 .. Len(s.select) |-> Value(offsets, s.select[i], row)],
     keys |-> [i \in 1 .. Len(s.orderBy) |-> Value(offsets, s.orderBy[i][1], row)]]

-----------------------------------------------------------------------------
(* Planning: which step of a join order takes which conjunct *)

AllInner(s) == \A t \in Ordinals(s) : s.types[t] = "INNER"

OnOf(s, t) == {i \in 1 .. Len(s.conjuncts) : s.conjuncts[i].on = t}

\* With a LEFT JOIN every ON clause stays where it was written.
Preconsumed(s) ==
    IF AllInner(s) THEN {} ELSE {i \in 1 .. Len(s.conjuncts) : s.conjuncts[i].on # 0}

\* Mutant: a WHERE conjunct on the nullable side of a LEFT JOIN is pushed
\* below the join.
PushedBelow(s, order, i, k) ==
    LET tables == TablesOf(s.conjuncts[i]) IN
    /\ i \notin Preconsumed(s)
    /\ order[k] \in tables
    /\ AllInner(s) \/ tables = {order[k]}
    /\ tables \subseteq {order[j] : j \in 1 .. k}
    /\ Classify(s.conjuncts[i], order[k], i) # <<>>

\* _predicates_for_step(): conjunct i could be taken when the k-th table of
\* the order is placed.  A table that a LEFT JOIN may NULL-extend takes none.
UsableAt(s, order, i, k) ==
    LET tables == TablesOf(s.conjuncts[i]) IN
    /\ i \notin Preconsumed(s)
    /\ s.types[order[k]] # "LEFT"
    /\ order[k] \in tables
    /\ AllInner(s) \/ tables = {order[k]}
    /\ tables \subseteq {order[j] : j \in 1 .. k}
    /\ Classify(s.conjuncts[i], order[k], i) # <<>>

\* ... and is taken by the first step that can.
TakenAt(s, order, i, k) ==
    UsableAt(s, order, i, k) /\ \A j \in 1 .. k - 1 : ~ UsableAt(s, order, i, j)

StepPredicates(s, order, k) ==
    FlattenSeq([i \in 1 .. Len(s.conjuncts) |->
        IF TakenAt(s, order, i, k) THEN Classify(s.conjuncts[i], order[k], i) ELSE <<>>])

\* Every left-deep order of a pure INNER chain, else the order as written.
JoinOrders(s) ==
    LET written == [t \in Ordinals(s) |-> t] IN
    IF AllInner(s) THEN {o \in [Ordinals(s) -> Ordinals(s)] : IsInjective(o)} ELSE {written}

\* What no step takes is checked above all joins.
Residual(s, order) ==
    {i \in (1 .. Len(s.conjuncts)) \ Preconsumed(s) :
        ~ \E k \in Ordinals(s) : UsableAt(s, order, i, k)}

\* The paths _cheapest_path() chooses from for the k-th step.
StepPaths(s, order, k) ==
    EnumerateAccessPaths(Table(s, order[k]).indexes, StepPredicates(s, order, k), order[k])

\* What a path leaves over of its own table's conjuncts is checked right
\* above its scan (own_residual), the rest by the join (match_expressions),
\* with the ON clause as written if some join is a LEFT JOIN.
Step(s, order, k, path) ==
    LET own == {i \in path.residual : TablesOf(s.conjuncts[i]) = {order[k]}} IN
    [path |-> path, own |-> own,
     match |-> (path.residual \ own) \cup (IF AllInner(s) \/ k = 1 THEN {} ELSE OnOf(s, order[k]))]

-----------------------------------------------------------------------------
(* Scanning *)

\* The index entry of a row: its key columns and its rowid.
Entry(table, index, r) == [k \in 1 .. Len(index) |-> table.rows[r][index[k]]] \o <<r>>

\* _seek_value(): evaluated against the outer row by the column's index in
\* its own table; resolve_layout() is not applied to it.
SeekValue(operand, outer) == IF operand[1] = 0 THEN operand[2] ELSE outer[operand[2]]

\* SeqScan.open() or IndexScan.open() of the k-th step for an outer row;
\* _find_leaf() positions the walk at the low probe, and an empty probe is
\* below every key.
Opened(k, outer) ==
    LET path == plan.steps[k].path
        table == Table(stmt, plan.order[k])
        rowids == 1 .. Len(table.rows)
        probe == Probe([i \in 1 .. Len(path.terms) |->
                     [operator |-> path.terms[i].operator,
                      value |-> SeekValue(path.terms[i].value, outer)]])
    IN  [left |-> CASE path.index = <<>> -> rowids
                    [] probe.kind = "none" -> {}
                    [] OTHER -> {r \in rowids : CompareKeys(probe.low, Entry(table, path.index, r)) <= 0},
         probe |-> probe, row |-> <<>>, matched |-> FALSE]

Top == Len(levels)
TopPath == plan.steps[Top].path
TopTable == Table(stmt, plan.order[Top])
TopEntry(r) == Entry(TopTable, TopPath.index, r)
Outer == IF Top = 1 THEN <<>> ELSE levels[Top - 1].row

\* The scan stands on row r: the table's next rowid, or the index's next or,
\* backwards, last entry.
Current(r) ==
    \A s \in levels[Top].left \ {r} :
        IF TopPath.index = <<>> THEN r < s
        ELSE CompareKeys(TopEntry(r), TopEntry(s)) = (IF TopPath.reverse THEN 1 ELSE -1)

\* Row r is one the scan stops at: the first entry past the range.
Stops(r) == TopPath.index # <<>> /\ PastRange(levels[Top].probe, TopEntry(r))

Exhausted == \A r \in levels[Top].left : Current(r) => Stops(r)

\* Sort._compare() on two rows
SortsBefore(a, b) ==
    \E k \in 1 .. Len(stmt.orderBy) :
        /\ \A j \in 1 .. k - 1 : a.keys[j] = b.keys[j]
        /\ IF stmt.orderBy[k][2] THEN a.keys[k] > b.keys[k] ELSE a.keys[k] < b.keys[k]

\* _apply_order_limit() puts a Sort below Limit.
Sorts == stmt.orderBy # <<>> /\ ~ SkipSort(plan.steps[1].path.order, stmt.orderBy)

\* Limit.next(): it has skipped `offset` rows and returned `limit`.
LimitReached == ~ Sorts /\ stmt.limit # -1 /\ Len(out) >= stmt.offset + stmt.limit

Pulling == pc = "scan" /\ ~ LimitReached

\* A row goes up from the top scan or join: to the next join, or through the
\* Filter, Project and Distinct.
Deliver(row, left) ==
    LET new == Projected(stmt, plan.offsets, row) IN
    /\ levels' = [levels EXCEPT ![Top] = [@ EXCEPT !.row = row, !.matched = TRUE, !.left = left]]
    /\ pc' = IF Top < Len(stmt.from) THEN "open" ELSE "scan"
    /\ out' = IF /\ Top = Len(stmt.from)
                 /\ Hold(stmt, plan.offsets, plan.residual, row)
                 /\ stmt.distinct => \A i \in 1 .. Len(out) : out[i].shown # new.shown
              THEN Append(out, new) ELSE out

-----------------------------------------------------------------------------
(* The statement, step by step *)

NoPlan == [order |-> <<>>, offsets |-> <<>>, residual |-> {}, steps |-> <<>>]

Init ==
    /\ stmt \in Statements
    /\ plan = NoPlan
    /\ levels = <<>> /\ out = <<>>
    /\ pc = "plan"

\* enumerate_join_plans(): some order will win on cost.
PlanOrder ==
    /\ pc = "plan" /\ plan = NoPlan
    /\ \E order \in JoinOrders(stmt) :
           plan' = [order |-> order, offsets |-> Offsets(stmt, order),
                    residual |-> Residual(stmt, order), steps |-> <<>>]
    /\ UNCHANGED <<stmt, levels, out, pc>>

\* _build_candidate(), one table: some path will win on cost.
PlanStep ==
    LET k == Len(plan.steps) + 1 IN
    /\ pc = "plan" /\ plan # NoPlan
    /\ \E path \in StepPaths(stmt, plan.order, k) :
           plan' = [plan EXCEPT !.steps = Append(@, Step(stmt, plan.order, k, path))]
    /\ pc' = IF k = Len(stmt.from) THEN "open" ELSE "plan"
    /\ UNCHANGED <<stmt, levels, out>>

\* A plan cache hit, which only a SELECT of one table has: the shape some
\* earlier call of the same text settled on.  A shape holds no values, so
\* the candidates of that call have the shapes of this call's candidates.
PlanFromCache ==
    /\ pc = "plan" /\ plan # NoPlan /\ Len(stmt.from) = 1
    /\ \E shape \in {PlanShape(p) : p \in StepPaths(stmt, plan.order, 1)} :
           plan' = [plan EXCEPT !.steps = <<Step(stmt, plan.order, 1,
                        Rebuild(shape, StepPredicates(stmt, plan.order, 1), 1))>>]
    /\ pc' = "open"
    /\ UNCHANGED <<stmt, levels, out>>

\* open() of the driving table's scan, or of the inner scan that the next
\* NestedLoopJoin re-opens for the row it has been given.
Open ==
    /\ pc = "open"
    /\ levels' = Append(levels, Opened(Top + 1, IF Top = 0 THEN <<>> ELSE levels[Top].row))
    /\ pc' = "scan"
    /\ UNCHANGED <<stmt, plan, out>>

\* next() of the top scan, the Filter above it and the join's own test.
Fetch(r) ==
    LET row == Outer \o TopTable.rows[r]
        left == levels[Top].left \ {r}
        step == plan.steps[Top]
    IN  /\ Pulling /\ Current(r) /\ ~ Stops(r)
        /\ IF /\ TopPath.index = <<>> \/ ~ BelowRange(levels[Top].probe, TopEntry(r))
              /\ Hold(stmt, [t \in {plan.order[Top]} |-> 0], step.own, TopTable.rows[r])
              /\ Hold(stmt, plan.offsets, step.match, row)
           THEN Deliver(row, left)
           ELSE levels' = [levels EXCEPT ![Top].left = left] /\ UNCHANGED <<out, pc>>
        /\ UNCHANGED <<stmt, plan>>

NullExtends == stmt.types[plan.order[Top]] = "LEFT" /\ ~ levels[Top].matched

\* Mutant: as many NULLs as the outer row has columns.
NullExtendTooWide ==
    /\ Pulling /\ Exhausted /\ Top > 1 /\ NullExtends
    /\ Deliver(Outer \o [c \in 1 .. Len(Outer) |-> Null], {})
    /\ UNCHANGED <<stmt, plan>>

\* The inner scan is exhausted and its outer row, which met no match, goes
\* up NULL-extended.
NullExtend ==
    /\ Pulling /\ Exhausted /\ Top > 1 /\ NullExtends
    /\ Deliver(Outer \o [c \in 1 .. TopTable.width |-> Null], {})
    /\ UNCHANGED <<stmt, plan>>

\* The inner scan is exhausted: close it and ask for the next outer row.
NextOuter ==
    /\ Pulling /\ Exhausted /\ Top > 1 /\ ~ NullExtends
    /\ levels' = Front(levels)
    /\ UNCHANGED <<stmt, plan, out, pc>>

\* The end of the rows, or of those that LIMIT asks for.
Finish ==
    /\ pc = "scan"
    /\ LimitReached \/ (Top = 1 /\ Exhausted)
    /\ LET rows == IF Sorts THEN SortSeq(out, SortsBefore) ELSE out IN
       out' = SubSeq(rows, stmt.offset + 1,
                     IF stmt.limit = -1 \/ stmt.offset + stmt.limit > Len(rows)
                     THEN Len(rows) ELSE stmt.offset + stmt.limit)
    /\ levels' = <<>>
    /\ pc' = "done"
    /\ UNCHANGED <<stmt, plan>>

Done == pc = "done" /\ UNCHANGED vars

Next ==
    \/ PlanOrder \/ PlanStep \/ PlanFromCache \/ Open
    \/ pc = "scan" /\ \E r \in levels[Top].left : Fetch(r)
    \/ NullExtend \/ NextOuter \/ Finish \/ Done

Spec == Init /\ [][Next]_vars

-----------------------------------------------------------------------------
(* What the statement asks for *)

Written(s) == Offsets(s, [t \in Ordinals(s) |-> t])

\* The FROM clause, joined as written: every pair that its ON clause
\* accepts, and for a LEFT JOIN the rows without a partner, NULL-extended.
Joined(s) ==
    LET upTo[t \in Ordinals(s)] ==
            IF t = 1 THEN Table(s, 1).rows
            ELSE FlattenSeq([i \in 1 .. Len(upTo[t - 1]) |->
                LET l == upTo[t - 1][i]
                    matches == SelectSeq(Table(s, t).rows,
                                   LAMBDA r : Hold(s, Written(s), OnOf(s, t), l \o r))
                IN  IF matches = <<>> /\ s.types[t] = "LEFT"
                    THEN << l \o [c \in 1 .. Table(s, t).width |-> Null] >>
                    ELSE [j \in 1 .. Len(matches) |-> l \o matches[j]]])
    IN  upTo[Len(s.from)]

\* ... filtered by WHERE, projected, and each row once for DISTINCT.
Answer(s) ==
    LET rows == SelectSeq(Joined(s), LAMBDA row : Hold(s, Written(s), OnOf(s, 0), row))
        projected == [i \in 1 .. Len(rows) |-> Projected(s, Written(s), rows[i])]
    IN  IF s.distinct THEN SetToSeq(Range(projected)) ELSE projected

\* What OFFSET and LIMIT leave of n rows.
WindowLen(s, n) ==
    LET rest == IF n > s.offset THEN n - s.offset ELSE 0
    IN  IF s.limit = -1 \/ s.limit > rest THEN rest ELSE s.limit

\* How often a row occurs in a sequence of rows.
Times(rows, x) == Cardinality({i \in 1 .. Len(rows) : rows[i] = x})

-----------------------------------------------------------------------------
(* Properties *)

\* The state is well formed: each open scan stands inside its table, and the
\* rows assembled at each level have the width that resolve_layout() counts
\* on there.
TypeOK ==
    /\ IsStatement(stmt)
    /\ pc \in {"plan", "open", "scan", "done"}
    /\ Top <= Len(stmt.from)
    /\ \A k \in 1 .. Top :
         /\ levels[k].left \subseteq 1 .. Len(Table(stmt, plan.order[k]).rows)
         /\ levels[k].matched \in BOOLEAN
         /\ levels[k].row # <<>> =>
              Len(levels[k].row) = plan.offsets[plan.order[k]] + Table(stmt, plan.order[k]).width
    /\ \A i \in 1 .. Len(out) : Len(out[i].shown) = Len(stmt.select)

\* Four kinds of seek that do not deliver what their terms say.
\* The value comes from a table that is not the driving one, and is read from
\* the wrong column of the outer row.
Misread(p, terms) == \E i \in 1 .. Len(terms) : terms[i].value[1] \notin {0, p.order[1]}

\* An equality is not the only term on its column: the probe gets a value
\* too many.
Doubled(terms) ==
    \E i, j \in 1 .. Len(terms) :
        i # j /\ terms[i].column = terms[j].column /\ terms[i].operator \in Equalities

\* An upper bound without a lower one: the walk begins at the NULL keys.
OpenBelow(terms) ==
    \E i \in 1 .. Len(terms) :
        /\ terms[i].operator \in UpperBounds
        /\ \A j \in 1 .. Len(terms) :
               terms[j].column = terms[i].column => terms[j].operator \notin LowerBounds

\* LIKE is consumed but bounds nothing.
Unbounded(terms) == \E i \in 1 .. Len(terms) : terms[i].operator = "LIKE"

SoundSeeks(p) ==
    \A k \in 1 .. Len(p.steps) : LET terms == p.steps[k].path.terms IN
        ~ Misread(p, terms) /\ ~ Doubled(terms) /\ ~ OpenBelow(terms) /\ ~ Unbounded(terms)

RowsAsAsked ==
    LET answer == Answer(stmt) IN
    /\ Len(out) = WindowLen(stmt, Len(answer))
    /\ \A i \in 1 .. Len(out) : Times(out, out[i]) <= Times(answer, out[i])

\* "An index is only allowed to change a query's SPEED, never its RESULTS"
\* (IndexScan.open), and neither is a join order or the step a conjunct is
\* checked in: whatever plan was chosen, the rows are those of the FROM
\* clause joined as written and filtered by WHERE, each as often as there,
\* NULL-extended rows included.  Plans with one of the four seeks above are
\* left out.
SameRowsOnEveryPath == pc = "done" /\ SoundSeeks(plan) => RowsAsAsked

\* The same of every plan.
SameRowsOnEveryPlan == pc = "done" => RowsAsAsked

\* "`skip_sort=True` never means ORDER BY was ignored -- it means the rows
\* already arrived in that order" (_apply_order_limit): with or without a
\* Sort, through a join and under LIMIT and OFFSET, the i-th row returned
\* can stand at place OFFSET + i of the sorted answer.
OrderByHonoured ==
    pc = "done" /\ SoundSeeks(plan) =>
        LET answer == Answer(stmt) IN
        \A i \in 1 .. Len(out) :
            /\ Cardinality({j \in 1 .. Len(answer) : SortsBefore(answer[j], out[i])}) < stmt.offset + i
            /\ Cardinality({j \in 1 .. Len(answer) : ~ SortsBefore(out[i], answer[j])}) >= stmt.offset + i
=============================================================================
