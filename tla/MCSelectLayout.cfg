SPECIFICATION Spec
CONSTANTS
    Tables <- MCTables
    Statements <- MCLayout
INVARIANT SameRowsOnEveryPlan
