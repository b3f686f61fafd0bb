SPECIFICATION Spec
CONSTANTS
    Domain <- MCDomain
    Null = 0
    Indexes <- MCIndexes
    MaxRowid = 3
    MaxErrors = 1
CONSTRAINTS CommitsNoFault ThirdRow
INVARIANTS IndexesMatchRows EntriesPointAtTheirRow UniqueHolds
PROPERTY UpdateLosesNoRow
