SPECIFICATION Spec
CONSTANTS
    Tables <- MCTables
    Statements <- MCStatements
INVARIANTS TypeOK SameRowsOnEveryPath OrderByHonoured
