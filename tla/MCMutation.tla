------------------------------ MODULE MCMutation ------------------------------
(* A small instance of Mutation for TLC. *)
EXTENDS Mutation

\* A UNIQUE index on a column with NULLs, and a plain one on another.
MCDomain == [u |-> {0, 1}, b |-> {1, 2}]
MCIndexes == << [columns |-> {"u"}, unique |-> TRUE], [columns |-> {"b"}, unique |-> FALSE] >>

\* When a transaction that an I/O error has damaged commits, nothing is claimed
\* of the table from then on: the damage is never undone.
CommitsNoFault == "io" \notin committed.damage

\* Two rows are free to be anything.  A torn rotation takes a third one, and what
\* it does to the plain index shows when all three begin alike; BEGIN then comes
\* when the table is full.  Once a transaction has committed a torn index,
\* statements follow in autocommit only.
ThirdRow ==
    /\ 3 \in DOMAIN rows \cup DOMAIN committed.rows \cup todo =>
        /\ explicit => DOMAIN committed.rows = Rowid
        /\ \A r \in DOMAIN committed.rows : committed.rows[r] = [u |-> Null, b |-> 1]
        /\ stmt.kind = "insert" => new = [u |-> Null, b |-> 1]
        /\ stmt.kind = "update" => stmt.column = "b"
        /\ astray[1] = {}
    /\ "torn" \in committed.damage => ~explicit
=============================================================================
