------------------------------- MODULE MCSelect -------------------------------
EXTENDS Select

\* Table 1 holds every pair of values of two columns, NULL included, and one
\* key twice; tables 2 to 4 are small enough to join: keys that match once,
\* twice and never, and NULL keys.
MCTables ==
    << [width |-> 2, indexes |-> {<<1, 2>>, <<2>>},
        rows |-> [r \in 1 .. 10 |-> IF r = 10 THEN <<1, 1>> ELSE <<(r * 2) % 3, (r - 1) \div 3>>]],
       [width |-> 2, indexes |-> {<<1>>}, rows |-> << <<1, 2>>, <<2, 1>>, <<0, 2>> >>],
       [width |-> 2, indexes |-> {<<2>>}, rows |-> << <<2, 1>>, <<1, 1>>, <<1, 0>> >>],
       [width |-> 1, indexes |-> {<<1>>}, rows |-> << <<1>>, <<3>> >>] >>

Cj(on, left, operator, right) == [on |-> on, left |-> left, operator |-> operator, right |-> right]

-----------------------------------------------------------------------------
(* SELECTs of one table *)

Literals == 0 .. 2

Predicates ==
    {Cj(0, Col(1, c), op, Lit(v)) : c \in 1 .. 2, op \in {"=", "!="} \cup LowerBounds \cup UpperBounds,
                                    v \in Literals}
        \cup {Cj(0, Col(1, c), "IS", Lit(Null)) : c \in 1 .. 2}
        \cup {Cj(0, Col(1, c), "LIKE", Lit(1)) : c \in 1 .. 2}

\* Up to two conjuncts of any kind, and three that can make a prefix with a
\* sandwich.
Wheres(n) == UNION {[1 .. m -> Predicates] : m \in 0 .. n}
Triples == [1 .. 3 -> {p \in Predicates : p.operator \in {"=", ">", "<="} /\ p.right # Lit(0)}]

Single(w, select, distinct, orderBy, limit, offset) ==
    [from |-> <<1>>, types |-> <<"INNER">>, conjuncts |-> w, select |-> select, distinct |-> distinct,
     orderBy |-> orderBy, limit |-> limit, offset |-> offset]

Both == <<Col(1, 1), Col(1, 2)>>

Orders ==
    {<< <<Col(1, 1), FALSE>> >>, << <<Col(1, 1), TRUE>> >>, << <<Col(1, 2), TRUE>> >>,
     << <<Col(1, 1), FALSE>>, <<Col(1, 2), FALSE>> >>, << <<Col(1, 1), FALSE>>, <<Col(1, 2), TRUE>> >>}

SingleStatements ==
    {Single(w, Both, FALSE, <<>>, -1, 0) : w \in Wheres(2) \cup Triples}
        \cup {Single(w, Both, FALSE, o, -1, 0) : w \in Wheres(1), o \in Orders}
        \cup {Single(<<>>, Both, FALSE, o, l, n) : o \in Orders \cup {<<>>}, l \in {-1, 0, 2}, n \in {0, 1, 9}}
        \cup {Single(<<>>, <<Col(1, 1)>>, TRUE, o, l, 1) :
                 o \in {<<>>, << <<Col(1, 1), TRUE>> >>}, l \in {-1, 1}}

-----------------------------------------------------------------------------
(* Joins *)

Columns(from) == FlattenSeq([t \in 1 .. Len(from) |-> [c \in 1 .. MCTables[from[t]].width |-> Col(t, c)]])

Join(from, types, conjuncts, orderBy, limit) ==
    [from |-> from, types |-> types, conjuncts |-> conjuncts, select |-> Columns(from), distinct |-> FALSE,
     orderBy |-> orderBy, limit |-> limit, offset |-> 0]

\* Two tables: an equijoin, with a second condition in the ON clause, in
\* WHERE, or both, on either side.
Extra(on, t) == {<<Cj(on, Col(t, c), "=", Lit(1))>> : c \in 1 .. 2}
Where2 ==
    {<<>>, <<Cj(0, Col(2, 1), "IS", Lit(Null))>>, <<Cj(0, Col(1, 2), "!=", Col(2, 1))>>,
     <<Cj(0, Lit(1), "<=", Col(1, 2))>>} \cup Extra(0, 1) \cup Extra(0, 2)
On2 == {<<Cj(2, Col(1, 1), "=", Col(2, c))>> \o e :
           c \in 1 .. 2, e \in {<<>>} \cup Extra(2, 1) \cup Extra(2, 2)}
TwoTables ==
    {Join(<<2, 3>>, <<"INNER", type>>, w \o on, o, l) :
        type \in {"INNER", "LEFT"}, w \in Where2, on \in On2,
        o \in {<<>>, << <<Col(1, 1), TRUE>> >>, << <<Col(2, 2), FALSE>> >>}, l \in {-1, 2}}

\* Three tables, the third joined to the first or to the second.
ThreeTables ==
    {Join(<<2, 3, 4>>, <<"INNER", type2, type3>>,
          w \o <<Cj(2, Col(2, 2), "=", Col(1, 1)), Cj(3, Col(3, 1), "=", Col(t, c))>>, <<>>, -1) :
        type2 \in {"INNER", "LEFT"}, type3 \in {"INNER", "LEFT"},
        t \in 1 .. 2, c \in 1 .. 2,
        w \in {<<>>, <<Cj(0, Col(2, 1), "IS", Lit(Null))>>, <<Cj(0, Col(3, 1), "=", Lit(1))>>}}

MCStatements == SingleStatements \cup TwoTables \cup ThreeTables
\* The joins of three tables without a WHERE clause.
MCLayout == {s \in ThreeTables : OnOf(s, 0) = {}}
=============================================================================
